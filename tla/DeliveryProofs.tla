--------------------------- MODULE DeliveryProofs ---------------------------
(***************************************************************************)
(* For every set of keys and entries, every cap and chunk size and every   *)
(* bound of Delivery: parked keys always have a drainer that will be       *)
(* woken, the layout half of a combo always has an owner, the layout never *)
(* flips while the machine is in flight, and no key press is lost, doubled *)
(* or eaten by a burst.                                                    *)
(*                                                                         *)
(* Under the conditions that are named where they are used, and that       *)
(* counterexamples of TLC show to be needed: the burst erases the word and *)
(* nothing else, the buffer mirrors the text, typed keys follow the        *)
(* commit, and the layout follows the result.                              *)
(***************************************************************************)
EXTENDS Delivery, WellFoundedInduction, TLAPS

(***************************************************************************)
(* The text: joining, splitting and dropping cells, and the word a         *)
(* correction takes out of the buffer.                                     *)
(***************************************************************************)
\* A set of numbers has a smallest: what the proofs here use for induction.
LEMMA SmallestOfNat ==
  ASSUME NEW T, T \subseteq Nat, T # {}
  PROVE  \E x \in T : \A y \in T : x =< y
<1>1. IsWellFoundedOn(OpToRel(<,Nat), Nat)
  BY NatLessThanWellFounded
<1>2. PICK x \in T : \A y \in T : ~ (<<y, x>> \in OpToRel(<,Nat))
  BY <1>1, WFMin
<1>3. \A y \in T : ~(y < x)
  BY <1>2 DEF OpToRel
<1> QED BY <1>3

\* Max is what it says on a set that is bounded.
LEMMA MaxOfBounded ==
  ASSUME NEW n \in Nat, NEW S, S \subseteq 0 .. n, S # {}
  PROVE  Max(S) \in S /\ \A y \in S : Max(S) >= y
<1> DEFINE T == {k \in Nat : n - k \in S}
<1>1. T \subseteq Nat /\ T # {}
  <2>1. PICK i \in S : TRUE
    OBVIOUS
  <2>2. n - i \in Nat /\ n - (n - i) = i
    BY <2>1
  <2> QED BY <2>1, <2>2
<1>2. PICK x \in T : \A y \in T : x =< y
  <2> HIDE DEF T
  <2> QED BY <1>1, SmallestOfNat
<1>3. n - x \in S
  OBVIOUS
<1>4. \A i \in S : n - x >= i
  <2> TAKE i \in S
  <2>2. n - i \in Nat /\ n - (n - i) = i
    OBVIOUS
  <2>3. n - i \in T
    BY <2>2
  <2> QED BY <1>2, <2>2, <2>3
<1> QED BY <1>3, <1>4 DEF Max

LEMMA LastOfBounded ==
  ASSUME NEW n \in Nat, NEW S, S \subseteq 1 .. n
  PROVE  /\ LastOf(S) \in 0 .. n
         /\ S # {} => LastOf(S) \in S
         /\ \A i \in S : i =< LastOf(S)
<1>1. CASE S = {}
  BY <1>1 DEF LastOf
<1>2. CASE S # {}
  <2>1. S \subseteq 0 .. n
    OBVIOUS
  <2>2. Max(S) \in S /\ \A y \in S : Max(S) >= y
    BY <1>2, <2>1, MaxOfBounded
  <2>3. LastOf(S) = Max(S)
    BY <1>2 DEF LastOf
  <2>4. LastOf(S) \in S /\ \A y \in S : LastOf(S) >= y
    BY <2>2, <2>3
  <2>5. LastOf(S) \in 1 .. n
    BY <2>4
  <2>6. ASSUME NEW i \in S PROVE i =< LastOf(S)
    <3>1. i \in 1 .. n /\ LastOf(S) >= i
      BY <2>4
    <3> QED BY <2>5, <3>1
  <2> QED BY <2>4, <2>5, <2>6
<1> QED BY <1>1, <1>2

\* Where the word is.
LEMMA WordBounds ==
  ASSUME NEW b \in Texts
  PROVE  /\ WordEnd(b) \in 0 .. Len(b)
         /\ WordStart(b) \in 1 .. WordEnd(b) + 1
         /\ HasLetter(b) => WordEnd(b) \in 1 .. Len(b) /\ b[WordEnd(b)] \in Letters
         /\ HasLetter(b) => WordStart(b) =< WordEnd(b)
         /\ ~HasLetter(b) => WordEnd(b) = 0
<1> DEFINE S == {i \in DOMAIN b : b[i] \in Letters}
<1> DEFINE T == {i \in 1 .. WordEnd(b) : b[i] \notin Letters}
<1>0. Len(b) \in Nat /\ DOMAIN b = 1 .. Len(b)
  BY DEF Texts
<1>1. S \subseteq 1 .. Len(b) /\ (S # {} <=> HasLetter(b))
  BY <1>0 DEF HasLetter
<1>2. WordEnd(b) = LastOf(S)
  BY DEF WordEnd
<1>3. /\ WordEnd(b) \in 0 .. Len(b)
      /\ S # {} => WordEnd(b) \in S
  <2> HIDE DEF S
  <2> QED BY <1>0, <1>1, <1>2, LastOfBounded
<1>4. S = {} => WordEnd(b) = 0
  BY <1>2 DEF LastOf
<1>5. T \subseteq 1 .. WordEnd(b) /\ WordEnd(b) \in Nat
  BY <1>0, <1>3
<1>6. WordStart(b) = LastOf(T) + 1
  BY DEF WordStart
<1>7. /\ LastOf(T) \in 0 .. WordEnd(b)
      /\ T # {} => LastOf(T) \in T
  <2> HIDE DEF T
  <2> QED BY <1>5, LastOfBounded
<1>8. WordStart(b) \in 1 .. WordEnd(b) + 1
  BY <1>5, <1>6, <1>7
<1>9. ASSUME HasLetter(b) PROVE WordStart(b) =< WordEnd(b)
  <2>1. b[WordEnd(b)] \in Letters /\ WordEnd(b) \in Nat \ {0}
    BY <1>0, <1>1, <1>3, <1>9
  <2>2. CASE T = {}
    BY <1>6, <2>1, <2>2 DEF LastOf
  <2>3. CASE T # {}
    BY <1>5, <1>6, <1>7, <2>1, <2>3
  <2> QED BY <2>2, <2>3
<1> QED BY <1>0, <1>1, <1>3, <1>4, <1>8, <1>9

\* SubSeq of text is text.
LEMMA PartIsText ==
  ASSUME NEW s \in Texts, NEW i \in Nat \ {0}, NEW j \in Int, j =< Len(s)
  PROVE  /\ SubSeq(s, i, j) \in Texts
         /\ Len(SubSeq(s, i, j)) = IF i =< j THEN j - i + 1 ELSE 0
         /\ \A k \in 1 .. j - i + 1 : SubSeq(s, i, j)[k] = s[k + i - 1]
BY DEF Texts

\* Joining.
LEMMA JoinIsText == 
  ASSUME NEW s \in Texts, NEW t \in Texts
  PROVE  /\ s \o t \in Texts
         /\ Len(s \o t) = Len(s) + Len(t)
         /\ \A i \in 1 .. Len(s) : (s \o t)[i] = s[i]
         /\ \A i \in 1 .. Len(t) : (s \o t)[Len(s) + i] = t[i]
BY DEF Texts

LEMMA SameText ==
  ASSUME NEW s \in Texts, NEW t \in Texts, Len(s) = Len(t), \A i \in 1 .. Len(s) : s[i] = t[i]
  PROVE  s = t
BY DEF Texts

LEMMA JoinAssoc ==
  ASSUME NEW s \in Texts, NEW t \in Texts, NEW u \in Texts
  PROVE  (s \o t) \o u = s \o (t \o u)
BY DEF Texts

LEMMA JoinEmpty ==
  ASSUME NEW s \in Texts
  PROVE  s \o <<>> = s /\ <<>> \o s = s /\ <<>> \in Texts
BY DEF Texts

LEMMA SplitText ==
  ASSUME NEW s \in Texts, NEW n \in 0 .. Len(s)
  PROVE  SubSeq(s, 1, n) \o SubSeq(s, n + 1, Len(s)) = s
<1> DEFINE a == SubSeq(s, 1, n)
           z == SubSeq(s, n + 1, Len(s))
<1>0. Len(s) \in Nat
  BY DEF Texts
<1>1. /\ a \in Texts /\ Len(a) = n
      /\ \A k \in 1 .. n : a[k] = s[k]
  BY <1>0, PartIsText
<1>2. /\ z \in Texts /\ Len(z) = Len(s) - n
      /\ \A k \in 1 .. Len(s) - n : z[k] = s[k + n]
  BY <1>0, PartIsText
<1> HIDE DEF a, z
<1>j. /\ a \o z \in Texts /\ Len(a \o z) = Len(a) + Len(z)
      /\ \A i \in 1 .. Len(a) : (a \o z)[i] = a[i]
      /\ \A i \in 1 .. Len(z) : (a \o z)[Len(a) + i] = z[i]
  BY <1>1, <1>2, JoinIsText
<1>3. a \o z \in Texts /\ Len(a \o z) = Len(s)
  BY <1>0, <1>1, <1>2, <1>j
<1>4. ASSUME NEW i \in 1 .. Len(s) PROVE (a \o z)[i] = s[i]
  <2>1. CASE i =< n
    BY <1>0, <1>1, <1>j, <2>1
  <2>2. CASE i > n
    <3>1. i - n \in 1 .. Len(z) /\ i = Len(a) + (i - n)
      BY <1>0, <1>1, <1>2, <2>2
    <3>2. (a \o z)[Len(a) + (i - n)] = z[i - n]
      BY <1>j, <3>1
    <3>3. z[i - n] = s[(i - n) + n] /\ (i - n) + n = i
      BY <1>2, <3>1
    <3> QED BY <3>1, <3>2, <3>3
  <2>3. i =< n \/ i > n
    BY <1>0
  <2> QED BY <2>1, <2>2, <2>3
<1> QED BY <1>3, <1>4, SameText DEF a, z

\* Equal ends cancel.
LEMMA CancelTail ==
  ASSUME NEW s \in Texts, NEW t \in Texts, NEW u \in Texts, s \o u = t \o u
  PROVE  s = t
BY JoinIsText, SameText DEF Texts

LEMMA CancelHead ==
  ASSUME NEW s \in Texts, NEW t \in Texts, NEW u \in Texts, NEW v \in Texts,
         s \o u = t \o v, Len(s) = Len(t)
  PROVE  s = t /\ u = v
<1>0. Len(s) \in Nat /\ Len(u) \in Nat /\ Len(v) \in Nat
  BY DEF Texts
<1>1. s = t
  <2>1. \A i \in 1 .. Len(s) : s[i] = (s \o u)[i] /\ t[i] = (t \o v)[i]
    BY JoinIsText
  <2> QED BY <2>1, SameText
<1>2. Len(u) = Len(v)
  BY <1>0, JoinIsText
<1>3. ASSUME NEW i \in 1 .. Len(u) PROVE u[i] = v[i]
  <2>1. (s \o u)[Len(s) + i] = u[i]
    BY JoinIsText, ZenonT(60)
  <2>2. i \in 1 .. Len(v)
    BY <1>2
  <2>3. (t \o v)[Len(t) + i] = v[i]
    BY <2>2, JoinIsText
  <2> QED BY <2>1, <2>3
<1> QED BY <1>1, <1>2, <1>3, SameText

\* DropLast and TakeLast split a text.
LEMMA DropIsText ==
  ASSUME NEW s \in Texts, NEW n \in Nat
  PROVE  /\ DropLast(s, n) \in Texts
         /\ n =< Len(s) => Len(DropLast(s, n)) = Len(s) - n
         /\ n =< Len(s) => TakeLast(s, n) \in Texts /\ Len(TakeLast(s, n)) = n
         /\ n =< Len(s) => DropLast(s, n) \o TakeLast(s, n) = s
<1>0. Len(s) \in Nat
  BY DEF Texts
<1>1. DropLast(s, n) \in Texts /\ (n =< Len(s) => Len(DropLast(s, n)) = Len(s) - n)
  BY <1>0, PartIsText DEF DropLast
<1>2. ASSUME n =< Len(s)
      PROVE  /\ TakeLast(s, n) \in Texts /\ Len(TakeLast(s, n)) = n
             /\ DropLast(s, n) \o TakeLast(s, n) = s
  <2>1. Len(s) - n + 1 \in Nat \ {0} /\ Len(s) - n \in 0 .. Len(s)
    BY <1>0, <1>2
  <2>2. TakeLast(s, n) \in Texts /\ Len(TakeLast(s, n)) = n
    BY <1>0, <1>2, <2>1, PartIsText DEF TakeLast
  <2>3. DropLast(s, n) \o TakeLast(s, n) = s
    BY <2>1, SplitText DEF TakeLast, DropLast
  <2> QED BY <2>2, <2>3
<1> QED BY <1>1, <1>2

\* The end of a joined text.
LEMMA TakeJoined ==
  ASSUME NEW x \in Texts, NEW s \in Texts
  PROVE  TakeLast(x \o s, Len(s)) = s /\ DropLast(x \o s, Len(s)) = x
<1>0. Len(s) \in Nat /\ Len(x) \in Nat
  BY DEF Texts
<1> DEFINE t == x \o s
<1>1. t \in Texts /\ Len(t) = Len(x) + Len(s)
  BY JoinIsText
<1>2. t = x \o s
  OBVIOUS
<1> HIDE DEF t
<1>3. /\ DropLast(t, Len(s)) \in Texts /\ Len(DropLast(t, Len(s))) = Len(x)
      /\ TakeLast(t, Len(s)) \in Texts
      /\ DropLast(t, Len(s)) \o TakeLast(t, Len(s)) = t
  <2>1. Len(s) =< Len(t) /\ Len(t) - Len(s) = Len(x)
    BY <1>0, <1>1
  <2>2. /\ DropLast(t, Len(s)) \in Texts /\ Len(DropLast(t, Len(s))) = Len(t) - Len(s)
        /\ TakeLast(t, Len(s)) \in Texts
        /\ DropLast(t, Len(s)) \o TakeLast(t, Len(s)) = t
    BY <1>0, <1>1, <2>1, DropIsText
  <2> QED BY <2>1, <2>2
<1>4. DropLast(t, Len(s)) = x /\ TakeLast(t, Len(s)) = s
  BY <1>2, <1>3, CancelHead
<1> QED BY <1>2, <1>4

\* t ends with s.
Ends(t, s) == \E x \in Texts : t = x \o s

LEMMA SuffixEnds ==
  ASSUME NEW s \in Texts, NEW t \in Texts
  PROVE  IsSuffixOf(s, t) <=> Ends(t, s)
<1>0. Len(s) \in Nat /\ Len(t) \in Nat
  BY DEF Texts
<1>1. ASSUME Ends(t, s) PROVE IsSuffixOf(s, t)
  <2>1. PICK x \in Texts : t = x \o s
    BY <1>1 DEF Ends
  <2>2. Len(t) = Len(x) + Len(s) /\ Len(x) \in Nat
    BY <2>1, JoinIsText DEF Texts
  <2> QED BY <1>0, <2>1, <2>2, TakeJoined DEF IsSuffixOf
<1>2. ASSUME IsSuffixOf(s, t) PROVE Ends(t, s)
  <2>1. Len(s) =< Len(t) /\ TakeLast(t, Len(s)) = s
    BY <1>2 DEF IsSuffixOf
  <2>2. DropLast(t, Len(s)) \in Texts /\ DropLast(t, Len(s)) \o TakeLast(t, Len(s)) = t
    BY <1>0, <2>1, DropIsText
  <2> QED BY <2>1, <2>2 DEF Ends
<1> QED BY <1>1, <1>2

LEMMA EndsWithNothing == \A t \in Texts : Ends(t, <<>>)
BY JoinEmpty DEF Ends

LEMMA AppendIsText ==
  ASSUME NEW s \in Texts, NEW c \in Cells
  PROVE  Append(s, c) \in Texts /\ Append(s, c) = s \o <<c>> /\ <<c>> \in Texts
BY DEF Texts

\* A key that reaches field and buffer keeps them level.
LEMMA EndsAppend ==
  ASSUME NEW s \in Texts, NEW t \in Texts, NEW c \in Cells, Ends(t, s)
  PROVE  Ends(Append(t, c), Append(s, c))
<1>1. PICK x \in Texts : t = x \o s
  BY DEF Ends
<1>2. t \o <<c>> = x \o (s \o <<c>>)
  BY <1>1, AppendIsText, JoinAssoc
<1> QED BY <1>2, AppendIsText DEF Ends

LEMMA EndsDrop ==
  ASSUME NEW s \in Texts, NEW t \in Texts, s # <<>>, Ends(t, s)
  PROVE  Ends(DropLast(t, 1), DropLast(s, 1))
<1>0. Len(s) \in Nat \ {0}
  BY DEF Texts
<1>1. PICK x \in Texts : t = x \o s
  BY DEF Ends
<1> DEFINE a == DropLast(s, 1)
           z == TakeLast(s, 1)
<1>2. a \in Texts /\ z \in Texts /\ Len(z) = 1 /\ a \o z = s
  <2>1. 1 \in Nat /\ 1 =< Len(s)
    BY <1>0
  <2> QED BY <2>1, DropIsText
<1> HIDE DEF a, z
<1>3. t = (x \o a) \o z /\ x \o a \in Texts
  <2>1. (x \o a) \o z = x \o (a \o z)
    BY <1>2, JoinAssoc
  <2>2. x \o a \in Texts
    BY <1>2, JoinIsText
  <2> QED BY <1>1, <1>2, <2>1, <2>2
<1>4. DropLast(t, 1) = x \o a
  BY <1>2, <1>3, TakeJoined
<1> QED BY <1>4 DEF Ends, a

\* The word between what is before and what is behind it.
Before(b) == SubSeq(b, 1, WordStart(b) - 1)

LEMMA WordParts ==
  ASSUME NEW b \in Texts
  PROVE  /\ Before(b) \in Texts /\ Word(b) \in Texts /\ WordTail(b) \in Texts
         /\ HasLetter(b) => b = Before(b) \o (Word(b) \o WordTail(b))
         /\ HasLetter(Word(b)) => HasLetter(b)
<1>0. Len(b) \in Nat
  BY DEF Texts
<1>1. /\ WordEnd(b) \in 0 .. Len(b)
      /\ WordStart(b) \in 1 .. WordEnd(b) + 1
      /\ ~HasLetter(b) => WordEnd(b) = 0
  BY WordBounds
<1>2. Before(b) \in Texts /\ Word(b) \in Texts /\ WordTail(b) \in Texts
  BY <1>0, <1>1, PartIsText DEF Before, Word, WordTail
<1> DEFINE h == SubSeq(b, 1, WordEnd(b))
<1>3. /\ h \in Texts /\ Len(h) = WordEnd(b)
      /\ \A i \in 1 .. WordEnd(b) : h[i] = b[i]
  BY <1>0, <1>1, PartIsText
<1>4. h \o WordTail(b) = b
  BY <1>0, <1>1, SplitText DEF WordTail
<1> HIDE DEF h
<1> DEFINE p == WordStart(b) - 1
<1>5. p \in 0 .. WordEnd(b) /\ WordEnd(b) \in Nat /\ WordEnd(b) =< Len(b) /\ WordStart(b) = p + 1
  BY <1>0, <1>1
<1> HIDE DEF p
<1>6. SubSeq(h, 1, p) \o SubSeq(h, p + 1, WordEnd(b)) = h
  BY <1>3, <1>5, SplitText
<1>7. SubSeq(h, 1, p) = SubSeq(b, 1, p)
  <2>1. SubSeq(h, 1, p) \in Texts /\ Len(SubSeq(h, 1, p)) = p /\ \A k \in 1 .. p : SubSeq(h, 1, p)[k] = h[k]
    BY <1>3, <1>5, PartIsText
  <2>2. SubSeq(b, 1, p) \in Texts /\ Len(SubSeq(b, 1, p)) = p /\ \A k \in 1 .. p : SubSeq(b, 1, p)[k] = b[k]
    BY <1>0, <1>5, PartIsText
  <2>3. \A k \in 1 .. p : h[k] = b[k]
    BY <1>3, <1>5
  <2> QED BY <2>1, <2>2, <2>3, SameText
<1>8. SubSeq(h, p + 1, WordEnd(b)) = SubSeq(b, p + 1, WordEnd(b))
  <2> DEFINE e == WordEnd(b)
  <2>0. e \in Nat /\ p \in 0 .. e /\ e =< Len(b) /\ Len(h) = e /\ \A i \in 1 .. e : h[i] = b[i]
    BY <1>3, <1>5
  <2> HIDE DEF e
  <2>1. /\ SubSeq(h, p + 1, e) \in Texts /\ Len(SubSeq(h, p + 1, e)) = e - p
        /\ \A k \in 1 .. e - p : SubSeq(h, p + 1, e)[k] = h[k + p]
    BY <1>3, <2>0, PartIsText
  <2>2. /\ SubSeq(b, p + 1, e) \in Texts /\ Len(SubSeq(b, p + 1, e)) = e - p
        /\ \A k \in 1 .. e - p : SubSeq(b, p + 1, e)[k] = b[k + p]
    BY <1>0, <2>0, PartIsText
  <2>3. \A k \in 1 .. e - p : h[k + p] = b[k + p]
    BY <2>0
  <2>4. SubSeq(h, p + 1, e) = SubSeq(b, p + 1, e)
    BY <2>1, <2>2, <2>3, SameText
  <2> QED BY <2>4 DEF e
<1>9. Before(b) \o Word(b) = h
  <2>1. WordStart(b) - 1 = p
    BY DEF p
  <2>2. Before(b) = SubSeq(h, 1, p)
    BY <1>7, <2>1 DEF Before
  <2>3. Word(b) = SubSeq(h, p + 1, WordEnd(b))
    BY <1>5, <1>8 DEF Word
  <2> QED BY <1>6, <2>2, <2>3
<1>10. b = Before(b) \o (Word(b) \o WordTail(b))
  BY <1>2, <1>4, <1>9, JoinAssoc
<1>11. ASSUME ~HasLetter(b) PROVE ~HasLetter(Word(b))
  <2>1. Word(b) = SubSeq(b, WordStart(b), 0) /\ WordStart(b) \in Nat \ {0}
    BY <1>1, <1>11 DEF Word
  <2>2. Len(Word(b)) = 0
    BY <1>0, <2>1, PartIsText
  <2> QED BY <1>2, <2>2 DEF HasLetter, Texts
<1> QED BY <1>2, <1>10, <1>11

LEMMA ConvertedIsText == \A s \in Texts : Converted(s) \in Texts
<1> TAKE s \in Texts
<1>1. Len(s) \in Nat /\ DOMAIN s = 1 .. Len(s) /\ \A i \in 1 .. Len(s) : s[i] \in Cells
  BY DEF Texts
<1>2. Converted(s) \in [1 .. Len(s) -> Cells]
  BY <1>1 DEF Converted, Cells
<1> QED BY <1>1, <1>2 DEF Texts

(***************************************************************************)
(* Sums.  The recursive function of Total exists and is unique; the rest   *)
(* is by the smallest number for which it would fail.                      *)
(***************************************************************************)
Sums(f, g, n) == f = [i \in 0 .. n |-> IF i = 0 THEN 0 ELSE f[i - 1] + g[i]]

LEMMA SumsExist ==
  ASSUME NEW g, NEW N \in Nat, \A i \in 1 .. N : g[i] \in Int
  PROVE  \A n \in 0 .. N : \E f \in [0 .. n -> Int] : Sums(f, g, n)
<1> DEFINE T == {n \in 0 .. N : ~ \E f \in [0 .. n -> Int] : Sums(f, g, n)}
<1> SUFFICES ASSUME T # {} PROVE FALSE
  OBVIOUS
<1>1. PICK n \in T : \A y \in T : n =< y
  <2>1. T \subseteq Nat
    OBVIOUS
  <2> HIDE DEF T
  <2> QED BY <2>1, SmallestOfNat
<1>2. CASE n = 0
  <2> DEFINE f == [i \in 0 .. 0 |-> 0]
  <2>1. f \in [0 .. 0 -> Int]
    OBVIOUS
  <2>2. Sums(f, g, 0)
    BY DEF Sums
  <2> QED BY <1>1, <1>2, <2>1, <2>2
<1>3. CASE n # 0
  <2>0. n \in 1 .. N /\ n - 1 \in 0 .. N /\ ~(n =< n - 1)
    BY <1>3
  <2>1. n - 1 \notin T
    BY <1>1, <2>0
  <2>2. PICK f \in [0 .. n - 1 -> Int] : Sums(f, g, n - 1)
    BY <2>0, <2>1
  <2> DEFINE h == [i \in 0 .. n |-> IF i = n THEN f[n - 1] + g[n] ELSE f[i]]
  <2>3. \A i \in 0 .. n : h[i] \in Int
    BY <2>0, <2>2
  <2>4. \A i \in 0 .. n : h[i] = IF i = 0 THEN 0 ELSE h[i - 1] + g[i]
    <3> TAKE i \in 0 .. n
    <3>1. CASE i = n
      BY <2>0, <3>1
    <3>2. CASE i # n
      <4>1. i \in 0 .. n - 1 /\ i - 1 # n
        BY <2>0, <3>2
      <4>2. f[i] = IF i = 0 THEN 0 ELSE f[i - 1] + g[i]
        BY <2>2, <4>1 DEF Sums
      <4> QED BY <2>0, <3>2, <4>1, <4>2
    <3> QED BY <3>1, <3>2
  <2>5. h \in [0 .. n -> Int] /\ DOMAIN h = 0 .. n
    BY <2>3
  <2>6. Sums(h, g, n)
    <3> HIDE DEF h
    <3> QED BY <2>4, <2>5 DEF Sums
  <2> QED BY <1>1, <2>5, <2>6
<1> QED BY <1>2, <1>3

\* Two such functions agree as far as both go.
LEMMA SumsAgree ==
  ASSUME NEW g, NEW m \in Nat, NEW n \in Nat, m =< n,
         NEW e, NEW f, Sums(e, g, m), Sums(f, g, n)
  PROVE  \A i \in 0 .. m : e[i] = f[i]
<1> DEFINE T == {i \in 0 .. m : e[i] # f[i]}
<1> SUFFICES ASSUME T # {} PROVE FALSE
  OBVIOUS
<1>1. PICK i \in T : \A y \in T : i =< y
  <2>1. T \subseteq Nat
    OBVIOUS
  <2> HIDE DEF T
  <2> QED BY <2>1, SmallestOfNat
<1>2. /\ i \in 0 .. m /\ i \in 0 .. n /\ e[i] # f[i]
      /\ e[i] = IF i = 0 THEN 0 ELSE e[i - 1] + g[i]
      /\ f[i] = IF i = 0 THEN 0 ELSE f[i - 1] + g[i]
  BY DEF Sums
<1>3. i # 0 /\ i - 1 \in 0 .. m /\ ~(i =< i - 1)
  BY <1>2
<1>4. e[i - 1] = f[i - 1]
  BY <1>1, <1>3
<1> QED BY <1>2, <1>3, <1>4

\* What Total is.
LEMMA TotalSums ==
  ASSUME NEW g, NEW n \in Nat, \A i \in 1 .. n : g[i] \in Int
  PROVE  \E f \in [0 .. n -> Int] : Sums(f, g, n) /\ Total(g, n) = f[n]
<1>1. PICK e \in [0 .. n -> Int] : Sums(e, g, n)
  BY SumsExist
<1> DEFINE f == CHOOSE h : h = [i \in 0 .. n |-> IF i = 0 THEN 0 ELSE h[i - 1] + g[i]]
<1>2. e = [i \in 0 .. n |-> IF i = 0 THEN 0 ELSE e[i - 1] + g[i]]
  BY <1>1 DEF Sums
<1>3. f = [i \in 0 .. n |-> IF i = 0 THEN 0 ELSE f[i - 1] + g[i]]
  BY <1>2
<1>4. Total(g, n) = f[n]
  BY DEF Total
<1> HIDE DEF f
<1>5. Sums(f, g, n)
  BY <1>3 DEF Sums
<1>6. \A i \in 0 .. n : f[i] = e[i]
  BY <1>1, <1>5, SumsAgree
<1>7. f = e
  BY <1>1, <1>3, <1>6
<1> QED BY <1>1, <1>4, <1>7

LEMMA TotalStep ==
  ASSUME NEW g, NEW n \in Nat, \A i \in 1 .. n : g[i] \in Int
  PROVE  /\ Total(g, n) \in Int
         /\ n = 0 => Total(g, n) = 0
         /\ n > 0 => Total(g, n) = Total(g, n - 1) + g[n]
<1>1. PICK f \in [0 .. n -> Int] : Sums(f, g, n) /\ Total(g, n) = f[n]
  BY TotalSums
<1>2. f[n] = IF n = 0 THEN 0 ELSE f[n - 1] + g[n]
  BY <1>1 DEF Sums
<1>3. ASSUME n > 0 PROVE Total(g, n - 1) = f[n - 1]
  <2>1. n - 1 \in Nat /\ n - 1 =< n /\ n - 1 \in 0 .. n - 1 /\ 1 .. n - 1 \subseteq 1 .. n
    BY <1>3
  <2>2. PICK e \in [0 .. n - 1 -> Int] : Sums(e, g, n - 1) /\ Total(g, n - 1) = e[n - 1]
    BY <2>1, TotalSums
  <2> QED BY <1>1, <2>1, <2>2, SumsAgree
<1> QED BY <1>1, <1>2, <1>3

\* One summand changed, or none.
LEMMA TotalChanged ==
  ASSUME NEW g, NEW h, NEW N \in Nat, NEW k,
         \A i \in 1 .. N : g[i] \in Int /\ h[i] \in Int,
         \A i \in 1 .. N : i # k => h[i] = g[i]
  PROVE  \A n \in 0 .. N :
            Total(h, n) = Total(g, n) + IF k \in 1 .. n THEN h[k] - g[k] ELSE 0
<1> DEFINE D(n) == IF k \in 1 .. n THEN h[k] - g[k] ELSE 0
           T == {n \in 0 .. N : Total(h, n) # Total(g, n) + D(n)}
<1> SUFFICES ASSUME T # {} PROVE FALSE
  OBVIOUS
<1>1. PICK n \in T : \A y \in T : n =< y
  <2>1. T \subseteq Nat
    OBVIOUS
  <2> HIDE DEF T
  <2> QED BY <2>1, SmallestOfNat
<1>2. n \in 0 .. N /\ Total(h, n) # Total(g, n) + D(n)
  OBVIOUS
<1>3. \A i \in 1 .. n : g[i] \in Int /\ h[i] \in Int
  BY <1>2
<1>4. CASE n = 0
  <2>1. Total(h, 0) = 0 /\ Total(g, 0) = 0
    BY <1>3, <1>4, TotalStep
  <2> QED BY <1>2, <1>4, <2>1
<1>5. CASE n # 0
  <2>0. n \in 1 .. N /\ n - 1 \in 0 .. N /\ ~(n =< n - 1) /\ n > 0 /\ n - 1 \in Nat /\ n \in Nat
    BY <1>2, <1>5
  <2>1. Total(h, n - 1) = Total(g, n - 1) + D(n - 1)
    BY <1>1, <2>0
  <2>2. /\ Total(h, n) = Total(h, n - 1) + h[n]
        /\ Total(g, n) = Total(g, n - 1) + g[n]
    BY <1>3, <2>0, TotalStep
  <2>3. Total(g, n - 1) \in Int
    BY <1>3, <2>0, TotalStep
  <2>4. g[n] \in Int /\ h[n] \in Int /\ (n # k => h[n] = g[n])
    BY <2>0
  <2>5. CASE n = k
    <3>1. D(n - 1) = 0 /\ D(n) = h[n] - g[n]
      BY <2>0, <2>5
    <3> QED BY <1>2, <2>1, <2>2, <2>3, <2>4, <3>1
  <2>6. CASE n # k
    <3>1. D(n - 1) = D(n)
      BY <2>0, <2>6
    <3>2. D(n) \in Int
      BY <1>2
    <3> QED BY <1>2, <2>1, <2>2, <2>3, <2>4, <2>6, <3>1, <3>2
  <2> QED BY <2>5, <2>6
<1> QED BY <1>4, <1>5

LEMMA TotalSame ==
  ASSUME NEW g, NEW h, NEW N \in Nat, \A i \in 1 .. N : g[i] \in Int /\ h[i] \in Int /\ h[i] = g[i]
  PROVE  Total(h, N) = Total(g, N)
<1>1. \A i \in 1 .. N : g[i] \in Int /\ h[i] \in Int
  OBVIOUS
<1>2. \A i \in 1 .. N : i # 0 => h[i] = g[i]
  OBVIOUS
<1>3. N \in 0 .. N /\ 0 \notin 1 .. N
  OBVIOUS
<1>4. Total(h, N) = Total(g, N) + IF 0 \in 1 .. N THEN h[0] - g[0] ELSE 0
  <2>1. \A k : (\A i \in 1 .. N : i # k => h[i] = g[i]) =>
          \A n \in 0 .. N : Total(h, n) = Total(g, n) + IF k \in 1 .. n THEN h[k] - g[k] ELSE 0
    BY <1>1, TotalChanged
  <2> DEFINE E(k) == Total(h, N) = Total(g, N) + IF k \in 1 .. N THEN h[k] - g[k] ELSE 0
  <2>2. \A k : (\A i \in 1 .. N : i # k => h[i] = g[i]) => E(k)
    BY <1>3, <2>1
  <2> HIDE DEF E
  <2>3. E(0)
    BY <1>2, <2>2
  <2> QED BY <2>3 DEF E
<1>5. Total(g, N) \in Int
  BY <1>1, TotalStep
<1> QED BY <1>3, <1>4, <1>5

\* The first summand taken away.
LEMMA TotalTail ==
  ASSUME NEW g, NEW h, NEW N \in Nat,
         \A i \in 1 .. N + 1 : g[i] \in Int,
         \A i \in 1 .. N : h[i] = g[i + 1]
  PROVE  \A n \in 0 .. N : Total(g, n + 1) = g[1] + Total(h, n)
<1> DEFINE T == {n \in 0 .. N : Total(g, n + 1) # g[1] + Total(h, n)}
<1> SUFFICES ASSUME T # {} PROVE FALSE
  OBVIOUS
<1>1. PICK n \in T : \A y \in T : n =< y
  <2>1. T \subseteq Nat
    OBVIOUS
  <2> HIDE DEF T
  <2> QED BY <2>1, SmallestOfNat
<1>2. n \in 0 .. N /\ Total(g, n + 1) # g[1] + Total(h, n)
  OBVIOUS
<1>3. /\ \A i \in 1 .. n + 1 : g[i] \in Int
      /\ \A i \in 1 .. n : h[i] \in Int /\ h[i] = g[i + 1]
  BY <1>2
<1>4. n + 1 \in Nat /\ n + 1 > 0 /\ (n + 1) - 1 = n /\ g[1] \in Int /\ g[n + 1] \in Int
  BY <1>2, <1>3
<1>5. Total(g, n + 1) = Total(g, n) + g[n + 1] /\ Total(h, n) \in Int /\ Total(g, n) \in Int
  <2>1. \A i \in 1 .. n : g[i] \in Int
    BY <1>2, <1>3
  <2> QED BY <1>2, <1>3, <1>4, <2>1, TotalStep
<1>6. CASE n = 0
  <2>1. Total(h, n) = 0 /\ Total(g, n) = 0
    <3>1. \A i \in 1 .. 0 : g[i] \in Int /\ h[i] \in Int
      OBVIOUS
    <3> QED BY <1>6, <3>1, TotalStep
  <2> QED BY <1>2, <1>4, <1>5, <1>6, <2>1
<1>7. CASE n # 0
  <2>0. n - 1 \in 0 .. N /\ ~(n =< n - 1) /\ n > 0 /\ n \in Nat /\ (n - 1) + 1 = n /\ n \in 1 .. n
    BY <1>2, <1>7
  <2>1. Total(g, n) = g[1] + Total(h, n - 1)
    BY <1>1, <2>0
  <2>2. Total(h, n) = Total(h, n - 1) + h[n] /\ h[n] = g[n + 1]
    BY <1>3, <2>0, TotalStep
  <2>3. Total(h, n - 1) \in Int
    <3>1. n - 1 \in Nat /\ \A i \in 1 .. n - 1 : h[i] \in Int
      BY <1>3, <2>0
    <3> QED BY <3>1, TotalStep
  <2> QED BY <1>2, <1>4, <1>5, <2>1, <2>2, <2>3
<1> QED BY <1>6, <1>7

\* Equal summands.
LEMMA TotalEqual ==
  ASSUME NEW g, NEW N \in Nat, NEW a \in Int, \A i \in 1 .. N : g[i] = a
  PROVE  \A n \in 0 .. N : Total(g, n) = n * a
<1> DEFINE T == {n \in 0 .. N : Total(g, n) # n * a}
<1> SUFFICES ASSUME T # {} PROVE FALSE
  OBVIOUS
<1>1. PICK n \in T : \A y \in T : n =< y
  <2>1. T \subseteq Nat
    OBVIOUS
  <2> HIDE DEF T
  <2> QED BY <2>1, SmallestOfNat
<1>2. n \in 0 .. N /\ Total(g, n) # n * a
  OBVIOUS
<1>3. \A i \in 1 .. n : g[i] \in Int /\ g[i] = a
  BY <1>2
<1>4. CASE n = 0
  <2>1. Total(g, n) = 0
    BY <1>3, <1>4, TotalStep
  <2>2. 0 * a = 0
    OBVIOUS
  <2> QED BY <1>2, <1>4, <2>1, <2>2
<1>5. CASE n # 0
  <2>0. n - 1 \in 0 .. N /\ ~(n =< n - 1) /\ n > 0 /\ n \in Nat /\ n \in 1 .. n
    BY <1>2, <1>5
  <2>1. Total(g, n - 1) = (n - 1) * a
    BY <1>1, <2>0
  <2>2. Total(g, n) = Total(g, n - 1) + a
    BY <1>3, <2>0, TotalStep
  <2>3. (n - 1) * a + a = n * a
    BY <2>0
  <2> QED BY <1>2, <2>1, <2>2, <2>3
<1> QED BY <1>4, <1>5
(***************************************************************************)
(* The modes.                                                              *)
(***************************************************************************)
LEMMA SetMode == \A m \in ModeStates : \A t \in Modes : [m EXCEPT !.mode = t] \in ModeStates
BY DEF ModeStates
LEMMA SetFlip == \A m \in ModeStates : \A f \in Flips : [m EXCEPT !.flip = f] \in ModeStates
BY DEF ModeStates
LEMMA SetCombo == \A m \in ModeStates : \A b \in BOOLEAN : [m EXCEPT !.combo = b] \in ModeStates
BY DEF ModeStates
LEMMA SetCredit == \A m \in ModeStates : \A n \in Nat : [m EXCEPT !.credit = n] \in ModeStates
BY DEF ModeStates

\* A flip keeps the type and the pending combo, and while the machine runs
\* the mode too.
LEMMA FlipModes ==
  ASSUME NEW m \in ModeStates, NEW t \in Modes, NEW busy \in BOOLEAN
  PROVE  /\ Flip(m, t, busy) \in ModeStates
         /\ Flip(m, t, busy).combo = m.combo
         /\ busy => Flip(m, t, busy).mode = m.mode
<1>1. CASE t = m.mode
  BY <1>1 DEF Flip
<1>2. CASE t # m.mode /\ busy
  <2>1. [target |-> t, gesture |-> TRUE] \in Flips
    BY DEF Flips
  <2> QED BY <1>2, <2>1, SetFlip DEF Flip, ModeStates
<1>3. CASE t # m.mode /\ ~busy
  <2> DEFINE g == [m EXCEPT !.mode = t]
  <2>1. g \in ModeStates
    BY SetMode
  <2>2. m.credit + 1 \in Nat
    BY DEF ModeStates
  <2>3. Flip(m, t, busy) = [g EXCEPT !.credit = m.credit + 1]
    BY <1>3 DEF Flip, ModeStates
  <2>4. Flip(m, t, busy) \in ModeStates
    <3> HIDE DEF g
    <3> QED BY <2>1, <2>2, <2>3, SetCredit
  <2> QED BY <1>3, <2>4 DEF Flip, ModeStates
<1> QED BY <1>1, <1>2, <1>3

LEMMA OppositeMode == \A t \in Modes : Opposite(t) \in Modes /\ Opposite(t) # t
BY DEF Opposite, Modes

\* The release of the deferred flip.
LEMMA ReleaseModes ==
  ASSUME NEW m \in ModeStates, NEW busy \in BOOLEAN
  PROVE  /\ ReleaseFlip(m, busy) \in ModeStates
         /\ ReleaseFlip(m, busy).combo = m.combo
         /\ busy => ReleaseFlip(m, busy).mode = m.mode
<1>1. CASE m.flip.target = "none"
  BY <1>1 DEF ReleaseFlip
<1>2. CASE m.flip.target # "none"
  <2> DEFINE g == [m EXCEPT !.flip = NoFlip]
  <2>1. NoFlip \in Flips
    BY DEF NoFlip, Flips
  <2>2. g \in ModeStates
    BY <2>1, SetFlip
  <2>3. g.combo = m.combo /\ g.mode = m.mode
    BY DEF ModeStates
  <2>4. m.flip.target \in Modes
    BY <1>2 DEF ModeStates, Flips, NoFlip
  <2>5. ReleaseFlip(m, busy) = Flip(g, m.flip.target, busy)
    BY <1>2 DEF ReleaseFlip
  <2> HIDE DEF g
  <2> QED BY <2>2, <2>3, <2>4, <2>5, FlipModes
<1> QED BY <1>1, <1>2

\* Settling the combo leaves none pending.
LEMMA SettleModes ==
  ASSUME NEW m \in ModeStates, NEW busy \in BOOLEAN
  PROVE  /\ SettleCombo(m, busy) \in ModeStates
         /\ SettleCombo(m, busy).combo = FALSE
         /\ busy => SettleCombo(m, busy).mode = m.mode
<1>1. CASE m.combo
  <2> DEFINE g == [m EXCEPT !.combo = FALSE]
  <2>1. g \in ModeStates
    BY SetCombo
  <2>2. g.combo = FALSE /\ g.mode = m.mode
    BY DEF ModeStates
  <2>3. Opposite(m.mode) \in Modes
    BY OppositeMode DEF ModeStates
  <2>4. SettleCombo(m, busy) = Flip(g, Opposite(m.mode), busy)
    BY <1>1 DEF SettleCombo
  <2> HIDE DEF g
  <2> QED BY <2>1, <2>2, <2>3, <2>4, FlipModes
<1>2. CASE ~m.combo
  BY <1>2 DEF SettleCombo, ModeStates
<1> QED BY <1>1, <1>2

LEMMA ScriptIsMode == \A s : ScriptOf(s) \in Modes
BY DEF ScriptOf, Modes

\* What a correction does to the modes when it is done.
LEMMA CorrectedModes ==
  ASSUME NEW m \in ModeStates, NEW t \in Modes
  PROVE  FollowScript(m, t) \in ModeStates /\ DeferFlip(m, t) \in ModeStates
<1>1. FollowScript(m, t) \in ModeStates
  BY FlipModes DEF FollowScript
<1>2. DeferFlip(m, t) \in ModeStates
  <2>1. [target |-> t, gesture |-> FALSE] \in Flips
    BY DEF Flips
  <2> QED BY <2>1, SetFlip DEF DeferFlip
<1> QED BY <1>1, <1>2

(***************************************************************************)
(* The shape of the state the proofs rely on.                              *)
(***************************************************************************)
Shape ==
  /\ modes \in ModeStates
  /\ DOMAIN machine = DOMAIN NoMachine
  /\ machine.phase \in Phases
  /\ machine.byDrain \in BOOLEAN
  /\ queue \in Seq(AllKeys)
  /\ drain \in Drains

\* The inductive invariant: a machine at rest is nobody's.
IInv ==
  /\ Shape
  /\ ComboHasOwner
  /\ ParkedKeysHaveDrainer
  /\ machine.byDrain => Busy

\* A step that starts a machine for the goroutine d, or leaves it alone.
Starts(d) ==
  \/ machine' = machine
  \/ /\ ~Busy /\ Busy'
     /\ DOMAIN machine' = DOMAIN NoMachine
     /\ machine'.phase \in Phases
     /\ machine'.byDrain = d
     /\ machine'.moved = FALSE

LEMMA CorrectStep ==
  ASSUME NEW m \in ModeStates, NEW p \in BOOLEAN, NEW d \in BOOLEAN, Correct(m, p, d)
  PROVE  /\ modes' \in ModeStates
         /\ Starts(d)
         /\ ComboHasOwner'
         /\ Busy => modes'.mode = m.mode
<1> DEFINE token == IF p THEN buf ELSE Word(buf)
           tail  == IF p THEN <<>> ELSE WordTail(buf)
           size  == Len(token) + Len(tail)
<1>0. Busy \in BOOLEAN
  BY DEF Busy
<1>s. /\ SettleCombo(m, Busy) \in ModeStates
      /\ SettleCombo(m, Busy).combo = FALSE
      /\ Busy => SettleCombo(m, Busy).mode = m.mode
  BY <1>0, SettleModes
<1>1. CASE modes' = SettleCombo(m, Busy) /\ machine' = machine
  BY <1>1, <1>s DEF Starts, ComboHasOwner
<1>2. CASE /\ ~Busy
           /\ \E terminal \in TerminalClasses :
                machine' = [phase |-> "start", ctx |-> slot, token |-> token, tail |-> tail,
                            left |-> size, erased |-> <<>>, moved |-> FALSE,
                            terminal |-> terminal, phrase |-> p, byDrain |-> d]
           /\ modes' = m
  <2> HIDE DEF token, tail, size
  <2>1. /\ machine'.phase = "start" /\ machine'.byDrain = d /\ machine'.moved = FALSE
        /\ DOMAIN machine' = DOMAIN NoMachine
    BY <1>2 DEF NoMachine
  <2>2. Busy' /\ machine'.phase \in Phases
    BY <2>1 DEF Busy, Phases
  <2> QED BY <1>2, <2>1, <2>2 DEF Starts, ComboHasOwner
<1> QED BY <1>1, <1>2 DEF Correct, MayStart

\* A key that is processed.
LEMMA ArriveStep ==
  ASSUME Shape, ComboHasOwner, NEW k \in AllKeys, NEW d \in BOOLEAN, Arrive(k, d)
  PROVE  /\ modes' \in ModeStates
         /\ Starts(d)
         /\ ComboHasOwner'
         /\ Busy => modes'.mode = modes.mode
<1> DEFINE m == ReleaseFlip(modes, Busy)
<1>0. Busy \in BOOLEAN
  BY DEF Busy
<1>m. /\ m \in ModeStates
      /\ m.combo = modes.combo
      /\ Busy => m.mode = modes.mode
  BY <1>0, ReleaseModes DEF Shape
<1>1. CASE modes' = m /\ machine' = machine
  BY <1>1, <1>m DEF Starts, ComboHasOwner, Busy
<1>2. CASE Correct([m EXCEPT !.combo = TRUE], FALSE, d)
  <2> DEFINE g == [m EXCEPT !.combo = TRUE]
  <2>1. g \in ModeStates /\ g.mode = m.mode
    <3> HIDE DEF m
    <3> QED BY <1>m, SetCombo DEF ModeStates
  <2> HIDE DEF g
  <2> QED BY <1>2, <1>m, <2>1, CorrectStep DEF g
<1>3. CASE modes' = Flip(m, Opposite(m.mode), Busy) /\ machine' = machine
  <2> HIDE DEF m
  <2>1. Opposite(m.mode) \in Modes
    BY <1>m, OppositeMode DEF ModeStates
  <2>2. /\ modes' \in ModeStates
        /\ modes'.combo = m.combo
        /\ Busy => modes'.mode = m.mode
    BY <1>0, <1>3, <1>m, <2>1, FlipModes
  <2> QED BY <1>3, <1>m, <2>2 DEF Starts, ComboHasOwner, Busy
<1> HIDE DEF m
<1> QED BY <1>1, <1>2, <1>3 DEF Arrive, AllKeys, TextKeys, m

\* The commit leaves the machine at rest and no combo behind.
LEMMA CommitStep ==
  ASSUME Shape, NEW f, Commit(f)
  PROVE  /\ modes' \in ModeStates /\ ~modes'.combo
         /\ machine' = NoMachine
         /\ drain' = DrainOnSettle
<1> DEFINE new == Converted(machine.token)
           m   == IF machine.terminal THEN DeferFlip(modes, ScriptOf(new))
                                      ELSE FollowScript(modes, ScriptOf(new))
<1>1. ScriptOf(new) \in Modes
  BY ScriptIsMode
<1>2. m \in ModeStates
  BY <1>1, CorrectedModes DEF Shape
<1>3. modes' = SettleCombo(m, FALSE) /\ machine' = NoMachine /\ drain' = DrainOnSettle
  BY DEF Commit
<1> HIDE DEF m
<1> QED BY <1>2, <1>3, SettleModes

\* A chunk either commits or leaves all but the machine's progress alone.
LEMMA ChunkStep ==
  ASSUME Shape, Chunk
  PROVE  \/ /\ \E f : Commit(f)
            /\ modes' \in ModeStates /\ ~modes'.combo
            /\ machine' = NoMachine
            /\ drain' = DrainOnSettle
         \/ /\ modes' = modes /\ drain' = drain
            /\ DOMAIN machine' = DOMAIN NoMachine
            /\ machine'.phase \in {"burst", "settle"}
            /\ machine'.byDrain = machine.byDrain
            /\ machine'.moved = machine.moved
<1> DEFINE n    == IF ChunkKeys < machine.left THEN ChunkKeys ELSE machine.left
           text == field[machine.ctx]
           f    == [field EXCEPT ![machine.ctx] = DropLast(text, n)]
           last == n = machine.left
<1>1. CASE last /\ ~machine.terminal
  <2>1. Commit(f)
    BY <1>1 DEF Chunk
  <2> QED BY <2>1, CommitStep
<1>2. CASE ~(last /\ ~machine.terminal)
  <2>1. /\ machine' = [machine EXCEPT !.phase = IF last THEN "settle" ELSE "burst",
                                      !.left = @ - n,
                                      !.erased = TakeLast(text, n) \o @]
        /\ modes' = modes /\ drain' = drain
    BY <1>2 DEF Chunk
  <2> HIDE DEF n, text, last
  <2>2. DOMAIN machine = DOMAIN NoMachine
    BY DEF Shape
  <2>3. DOMAIN machine' = DOMAIN machine
    BY <2>1
  <2>4. {"phase", "byDrain", "moved"} \subseteq DOMAIN machine
    BY <2>2 DEF NoMachine
  <2>5. /\ machine'.phase \in {"burst", "settle"}
        /\ machine'.byDrain = machine.byDrain /\ machine'.moved = machine.moved
    BY <2>1, <2>4
  <2> QED BY <2>1, <2>2, <2>3, <2>5
<1> QED BY <1>1, <1>2

\* After the machine has settled, with the queue as it was, the invariant holds.
LEMMA SettledInv ==
  ASSUME IInv, Busy, queue' = queue, drain' = DrainOnSettle, machine' = NoMachine,
         modes' \in ModeStates, ~modes'.combo
  PROVE  IInv'
<1>1. Shape' /\ ~Busy' /\ ~machine'.byDrain
  BY DEF IInv, Shape, NoMachine, Phases, Busy, DrainOnSettle, Drains
<1>2. ParkedKeysHaveDrainer'
  BY <1>1 DEF IInv, Shape, ParkedKeysHaveDrainer, DrainOnSettle, Drains
<1> QED BY <1>1, <1>2 DEF IInv, ComboHasOwner

\* A machine that gets on without settling keeps the invariant.
LEMMA ProgressInv ==
  ASSUME IInv, Busy, queue' = queue, drain' = drain, modes' = modes,
         DOMAIN machine' = DOMAIN NoMachine,
         machine'.phase \in {"burst", "settle"},
         machine'.byDrain = machine.byDrain,
         machine'.moved = machine.moved
  PROVE  IInv'
<1>1. Shape' /\ Busy'
  BY DEF IInv, Shape, Phases, Busy
<1> QED BY <1>1 DEF IInv, ComboHasOwner, ParkedKeysHaveDrainer

\* So does a step that leaves queue and drainer alone and at most starts a
\* machine of its own goroutine.
LEMMA EntryInv ==
  ASSUME IInv, queue' = queue, drain' = drain, modes' \in ModeStates,
         Starts(FALSE), ComboHasOwner'
  PROVE  IInv'
<1>1. CASE machine' = machine
  BY <1>1 DEF IInv, Shape, Busy, ComboHasOwner, ParkedKeysHaveDrainer
<1>2. CASE /\ ~Busy /\ Busy'
           /\ DOMAIN machine' = DOMAIN NoMachine
           /\ machine'.phase \in Phases
           /\ machine'.byDrain = FALSE
           /\ machine'.moved = FALSE
  BY <1>2 DEF IInv, Shape, ComboHasOwner, ParkedKeysHaveDrainer
<1> QED BY <1>1, <1>2 DEF Starts

LEMMA InitInv == Init => IInv
<1> SUFFICES ASSUME Init PROVE IInv
  OBVIOUS
<1>1. modes \in ModeStates
  BY DEF Init, ModeStates, Modes, Flips, NoFlip
<1>2. queue = <<>> /\ drain = "idle" /\ machine = NoMachine /\ ~modes.combo
  BY DEF Init
<1> QED BY <1>1, <1>2 DEF IInv, Shape, ComboHasOwner, ParkedKeysHaveDrainer, Busy,
                          NoMachine, Phases, Drains

\* A key press is parked or processed.
LEMMA KeyInv ==
  ASSUME IInv, NEW k \in AllKeys, Key(k)
  PROVE  IInv' /\ (Busy => modes'.mode = modes.mode)
<1>1. CASE Park(k)
  <2>1. queue' = Append(queue, k) /\ modes' = modes /\ machine' = machine
    BY <1>1 DEF Park
  <2>2. queue' \in Seq(AllKeys) /\ queue' # <<>>
    BY <2>1 DEF IInv, Shape
  <2>3. drain' = IF drain # "idle" THEN drain ELSE IF Busy THEN "waiting" ELSE "running"
    BY <1>1 DEF Park
  <2> QED BY <2>1, <2>2, <2>3
          DEF IInv, Shape, ComboHasOwner, ParkedKeysHaveDrainer, Busy, Drains
<1>2. CASE Arrive(k, FALSE) /\ UNCHANGED <<queue, drain>>
  BY <1>2, ArriveStep, EntryInv DEF IInv
<1> QED BY <1>1, <1>2 DEF Key

\* A parked key is processed by the drainer.
LEMMA DrainKeyInv ==
  ASSUME IInv, DrainKey
  PROVE  IInv' /\ (Busy => modes'.mode = modes.mode)
<1>1. /\ drain \in {"woken", "running"}
      /\ queue \in Seq(AllKeys) /\ queue # <<>>
      /\ machine.byDrain = FALSE
  BY DEF DrainKey, IInv, Shape, ParkedKeysHaveDrainer
<1>2. Head(queue) \in AllKeys /\ Tail(queue) \in Seq(AllKeys)
  BY <1>1
<1>3. /\ modes' \in ModeStates
      /\ Starts(TRUE)
      /\ ComboHasOwner'
      /\ Busy => modes'.mode = modes.mode
  BY <1>2, ArriveStep DEF DrainKey, IInv
<1>4. queue' = Tail(queue)
  BY DEF DrainKey
<1>5. CASE machine' = machine
  <2>1. drain' = IF Tail(queue) = <<>> THEN "idle" ELSE "running"
    BY <1>5 DEF DrainKey
  <2> QED BY <1>1, <1>2, <1>3, <1>4, <1>5, <2>1
          DEF IInv, Shape, ComboHasOwner, ParkedKeysHaveDrainer, Busy, Drains
<1>6. CASE machine' # machine
  <2>1. drain' = "hosting"
    BY <1>6 DEF DrainKey
  <2>2. /\ Busy' /\ DOMAIN machine' = DOMAIN NoMachine
        /\ machine'.phase \in Phases /\ machine'.byDrain = TRUE
    BY <1>3, <1>6 DEF Starts
  <2> QED BY <1>2, <1>3, <1>4, <2>1, <2>2
          DEF IInv, Shape, ComboHasOwner, ParkedKeysHaveDrainer, Drains
<1> QED BY <1>5, <1>6

\* The steps of the machine.
LEMMA MachineInv ==
  ASSUME IInv, MachineStart \/ MachineChunk \/ MachineCommit
  PROVE  IInv' /\ (Busy' => modes' = modes)
<1>b. Busy
  BY DEF MachineStart, MachineChunk, MachineCommit, Busy
<1>q. queue' = queue
  BY DEF MachineStart, MachineChunk, MachineCommit
<1>s. ASSUME modes' \in ModeStates, ~modes'.combo, machine' = NoMachine, drain' = DrainOnSettle
      PROVE  IInv' /\ (Busy' => modes' = modes)
  BY <1>b, <1>q, <1>s, SettledInv DEF Busy, NoMachine
<1>1. CASE Chunk
  <2>1. CASE /\ modes' = modes /\ drain' = drain
             /\ DOMAIN machine' = DOMAIN NoMachine
             /\ machine'.phase \in {"burst", "settle"}
             /\ machine'.byDrain = machine.byDrain
             /\ machine'.moved = machine.moved
    BY <1>b, <1>q, <2>1, ProgressInv
  <2> QED BY <1>1, <1>s, <2>1, ChunkStep DEF IInv
<1>2. CASE MachineStart /\ machine.moved
  <2>1. /\ machine' = NoMachine /\ drain' = DrainOnSettle
        /\ modes' = SettleCombo(modes, FALSE)
    BY <1>2 DEF MachineStart
  <2>2. modes' \in ModeStates /\ ~modes'.combo
    BY <2>1, SettleModes DEF IInv, Shape
  <2> QED BY <1>s, <2>1, <2>2
<1>3. CASE MachineCommit
  BY <1>3, <1>s, CommitStep DEF MachineCommit, IInv
<1> QED BY <1>1, <1>2, <1>3 DEF MachineStart, MachineChunk

\* The death of a context.
LEMMA ContextDiesInv ==
  ASSUME IInv, NEW c \in Nat, ContextDies(c)
  PROVE  IInv' /\ modes'.mode = modes.mode
<1> DEFINE g == [modes EXCEPT !.combo = FALSE]
<1>1. g \in ModeStates /\ ~g.combo /\ g.mode = modes.mode
  BY SetCombo DEF IInv, Shape, ModeStates
<1>2. modes' = [g EXCEPT !.credit = c]
  BY DEF ContextDies, IInv, Shape, ModeStates
<1>3. modes' \in ModeStates /\ ~modes'.combo /\ modes'.mode = modes.mode
  <2> HIDE DEF g
  <2> QED BY <1>1, <1>2, SetCredit DEF ModeStates
<1>4. /\ DOMAIN machine' = DOMAIN machine
      /\ machine'.phase = machine.phase /\ machine'.byDrain = machine.byDrain
  <2>1. "phase" \in DOMAIN machine /\ "byDrain" \in DOMAIN machine
    BY DEF IInv, Shape, NoMachine
  <2> QED BY <2>1 DEF ContextDies
<1>5. queue' = queue /\ drain' = drain
  BY DEF ContextDies
<1> QED BY <1>3, <1>4, <1>5
        DEF IInv, Shape, ComboHasOwner, ParkedKeysHaveDrainer, Busy

\* Every step keeps the invariant, and no step between two of a machine in
\* flight moves the mode but the shell's own choice of an engine.
LEMMA NextInv ==
  ASSUME IInv, Next, KeyKinds \subseteq AllKeys
  PROVE  /\ IInv'
         /\ Busy /\ Busy' /\ modes'.mode # modes.mode => \E t \in Modes : SyncEngine(t)
<1>0. Busy \in BOOLEAN /\ modes \in ModeStates /\ modes.mode \in Modes
  BY DEF Busy, IInv, Shape, ModeStates
<1>1. ASSUME NEW k \in KeyKinds, Key(k)
      PROVE  IInv' /\ (Busy /\ Busy' => modes'.mode = modes.mode)
  BY <1>1, KeyInv
<1>2. CASE DrainKey
  BY <1>2, DrainKeyInv
<1>3. CASE DrainWaits
  BY <1>3 DEF DrainWaits, IInv, Shape, ComboHasOwner, ParkedKeysHaveDrainer, Busy, Drains
<1>4. CASE BoundExpires
  BY <1>4 DEF BoundExpires, IInv, Shape, ComboHasOwner, ParkedKeysHaveDrainer, Busy, Drains
<1>5. CASE MachineStart \/ MachineChunk \/ MachineCommit
  BY <1>5, MachineInv
<1>6. ASSUME NEW phrase \in BOOLEAN, CorrectNow(phrase)
      PROVE  IInv' /\ (Busy /\ Busy' => modes'.mode = modes.mode)
  BY <1>0, <1>6, CorrectStep, EntryInv DEF CorrectNow
<1>7. ASSUME NEW t \in Modes, modes' = Flip(modes, t, Busy), UNCHANGED <<machine, queue, drain>>
      PROVE  IInv' /\ (Busy /\ Busy' => modes'.mode = modes.mode)
  <2>1. /\ modes' \in ModeStates
        /\ modes'.combo = modes.combo
        /\ Busy => modes'.mode = modes.mode
    BY <1>0, <1>7, FlipModes
  <2> QED BY <1>7, <2>1, EntryInv DEF Starts, IInv, ComboHasOwner, Busy
<1>8. CASE ToggleMode
  BY <1>0, <1>7, <1>8, OppositeMode DEF ToggleMode
<1>9. CASE Push
  <2>1. /\ modes' \in {modes, ReleaseFlip(modes, Busy)}
        /\ UNCHANGED <<machine, queue, drain>>
    BY <1>9 DEF Push
  <2>2. /\ modes' \in ModeStates
        /\ modes'.combo = modes.combo
        /\ Busy => modes'.mode = modes.mode
    BY <1>0, <2>1, ReleaseModes
  <2> QED BY <2>1, <2>2, EntryInv DEF Starts, IInv, ComboHasOwner, Busy
<1>10. CASE SyntheticFocusOut
  <2>1. modes.credit - 1 \in Nat
    BY <1>0, <1>10 DEF SyntheticFocusOut, ModeStates
  <2> QED BY <1>10, <2>1, ContextDiesInv DEF SyntheticFocusOut
<1>11. CASE FocusOut
  BY <1>11, ContextDiesInv DEF FocusOut
<1>12. CASE Reset
  BY <1>0, <1>12, ContextDiesInv DEF Reset, ModeStates
<1>13. CASE AfterExpiry \/ AttachEngine
  BY <1>13 DEF AfterExpiry, AttachEngine, IInv, Shape, ComboHasOwner, ParkedKeysHaveDrainer, Busy
<1>14. ASSUME NEW t \in Modes, SwitchMode(t)
       PROVE  IInv' /\ (Busy /\ Busy' => modes'.mode = modes.mode)
  BY <1>7, <1>14 DEF SwitchMode
<1>15. ASSUME NEW t \in Modes, SyncEngine(t)
       PROVE  IInv'
  <2>1. modes' = [modes EXCEPT !.mode = t] /\ UNCHANGED <<machine, queue, drain>>
    BY <1>15 DEF SyncEngine
  <2>2. modes' \in ModeStates /\ modes'.combo = modes.combo
    BY <1>0, <2>1 DEF ModeStates
  <2> QED BY <2>1, <2>2, EntryInv DEF Starts, IInv, ComboHasOwner, Busy
<1> QED BY <1>1, <1>2, <1>3, <1>4, <1>5, <1>6, <1>8, <1>9, <1>10, <1>11, <1>12, <1>13, <1>14, <1>15
        DEF Next

LEMMA StutterInv == IInv /\ UNCHANGED vars => IInv' /\ modes'.mode = modes.mode
BY DEF vars, IInv, Shape, ComboHasOwner, ParkedKeysHaveDrainer, Busy

LEMMA Inductive == Spec => []IInv
<1>1. Init => IInv
  BY InitInv
<1>2. IInv /\ [Next]_vars => IInv'
  BY NextInv, StutterInv, KindsAssumption
<1> QED BY <1>1, <1>2, PTL DEF Spec

\* The key-hold path (holdDuringDelivery, awaitDeliverySettle): whatever the
\* interleaving of keys, entries, deaths and overrun waits, a parked key has
\* a drainer, and a drainer asleep has a machine that will wake it.
THEOREM ParkedKeysAreOwned == Spec => []ParkedKeysHaveDrainer
<1>1. IInv => ParkedKeysHaveDrainer
  BY DEF IInv
<1> QED BY <1>1, Inductive, PTL

\* comboPending: every exit of a correction settles the layout half of the
\* combo that started it, or hands it to the machine it starts.
THEOREM ComboIsSettled == Spec => []ComboHasOwner
<1>1. IInv => ComboHasOwner
  BY DEF IInv
<1> QED BY <1>1, Inductive, PTL

\* flipTo's guard covers every path to the layout of the daemon's own:
\* between two steps of a machine in flight only the shell moves the mode.
THEOREM NoFlipInFlight == Spec => FlipsWait
<1>1. IInv /\ [Next]_vars
        => [Busy /\ Busy' /\ modes'.mode # modes.mode => \E t \in Modes : SyncEngine(t)]_vars
  BY NextInv, StutterInv, KindsAssumption
<1> QED BY <1>1, Inductive, PTL DEF Spec, FlipsWait

(***************************************************************************)
(* The word under the burst.  Three conditions on the constants, each what *)
(* a run or a counterexample of TLC is about: no entry but a key starts a  *)
(* machine; a woken drainer is neither overtaken by such an entry nor woken *)
(* by its bound; and no key is drained between two engines, no Enter comes. *)
(***************************************************************************)
\* The three conditions.
OnlyKeysCorrect == Entries \cap {"correct", "phrase"} = {}
InTurn == ~Overrun /\ (Barging => OnlyKeysCorrect)
Orderly == InTurn /\ ~LateMint /\ "enter" \notin KeyKinds

\* The types, but for what a machine has erased.
Types ==
  /\ field \in [Contexts -> Texts]
  /\ ctx \in Contexts
  /\ slot \in Contexts
  /\ buf \in Texts
  /\ machine.ctx \in Contexts
  /\ machine.token \in Texts
  /\ machine.tail \in Texts
  /\ machine.left \in Nat
  /\ {machine.moved, machine.terminal, machine.phrase} \subseteq BOOLEAN
  /\ queue \in Seq(KeyKinds)
  /\ after \in Rounds
  /\ resets \in Nat
  /\ inputs \in Nat
  /\ typed \in Int

\* Steps by what they do to the text.
Quiet == UNCHANGED <<field, buf, machine>>
Inserts(c) ==
  /\ field' = [field EXCEPT ![slot] = Append(@, c)]
  /\ buf' = Append(buf, c)
  /\ machine' = machine
Deletes ==
  /\ field' = [field EXCEPT ![slot] = DropLast(@, 1)]
  /\ buf' = IF buf = <<>> THEN buf ELSE DropLast(buf, 1)
  /\ machine' = machine
EndsLine ==
  /\ field' = [field EXCEPT ![slot] = Append(@, "p")]
  /\ buf' = <<>>
  /\ machine' = machine
Token(p) == IF p THEN buf ELSE Word(buf)
Behind(p) == IF p THEN <<>> ELSE WordTail(buf)
Begins(p, d) ==
  /\ UNCHANGED <<field, buf>>
  /\ ~Busy
  /\ HasLetter(Token(p))
  /\ Len(Token(p)) + Len(Behind(p)) =< BackspaceCap
  /\ \E terminal \in BOOLEAN :
       machine' = [phase |-> "start", ctx |-> slot, token |-> Token(p), tail |-> Behind(p),
                   left |-> Len(Token(p)) + Len(Behind(p)), erased |-> <<>>, moved |-> FALSE,
                   terminal |-> terminal, phrase |-> p, byDrain |-> d]
Cut(n) == [field EXCEPT ![machine.ctx] = DropLast(field[machine.ctx], n)]
Erases(n) ==
  /\ field' = Cut(n)
  /\ machine' = [machine EXCEPT !.phase = IF n = machine.left THEN "settle" ELSE "burst",
                                !.left = @ - n,
                                !.erased = TakeLast(field[machine.ctx], n) \o @]
  /\ UNCHANGED <<buf, modes, after, drain>>

\* What a correction, a key and a chunk may do to the text.
LEMMA CorrectText ==
  ASSUME NEW m, NEW p \in BOOLEAN, NEW d \in BOOLEAN, Correct(m, p, d),
         UNCHANGED <<field, buf>>
  PROVE  /\ Quiet \/ Begins(p, d)
         /\ after' \in {after, NoRound}
<1> DEFINE token == IF p THEN buf ELSE Word(buf)
           tail  == IF p THEN <<>> ELSE WordTail(buf)
           size  == Len(token) + Len(tail)
<1>1. CASE machine' = machine /\ after' \in {after, NoRound}
  BY <1>1 DEF Quiet
<1>2. CASE /\ HasLetter(token) /\ ~Busy /\ size =< BackspaceCap
           /\ \E terminal \in TerminalClasses :
                machine' = [phase |-> "start", ctx |-> slot, token |-> token, tail |-> tail,
                            left |-> size, erased |-> <<>>, moved |-> FALSE,
                            terminal |-> terminal, phrase |-> p, byDrain |-> d]
           /\ after' = NoRound
  <2>1. token = Token(p) /\ tail = Behind(p)
    BY DEF Token, Behind
  <2> HIDE DEF token, tail
  <2> QED BY <1>2, <2>1, KindsAssumption DEF Begins
<1> QED BY <1>1, <1>2 DEF Correct, MayStart

LEMMA ArriveText ==
  ASSUME NEW k \in AllKeys, NEW d \in BOOLEAN, Arrive(k, d)
  PROVE  /\ \/ Quiet
            \/ k \in TextKeys /\ ((\E c \in Cells : Inserts(c)) \/ Deletes)
            \/ k = "enter" /\ EndsLine
            \/ Begins(FALSE, d)
         /\ after' \in {after, NoRound}
<1> DEFINE m == ReleaseFlip(modes, Busy)
<1>1. CASE k = "letter"
  <2>1. \E c \in Cells : Inserts(c)
    BY <1>1 DEF Arrive, Inserts, Cells
  <2>2. after' = after
    BY <1>1 DEF Arrive
  <2> QED BY <1>1, <2>1, <2>2 DEF TextKeys
<1>2. CASE k = "space"
  <2>1. Inserts("s") /\ after' = after
    BY <1>2 DEF Arrive, Inserts
  <2>2. "s" \in Cells
    BY DEF Cells
  <2> QED BY <1>2, <2>1, <2>2 DEF TextKeys
<1>3. CASE k = "backspace"
  BY <1>3 DEF Arrive, Deletes, TextKeys
<1>4. CASE k = "enter"
  BY <1>4 DEF Arrive, EndsLine
<1>5. CASE k = "combo"
  <2>1. Correct([m EXCEPT !.combo = TRUE], FALSE, d) /\ UNCHANGED <<field, buf>>
    BY <1>5 DEF Arrive
  <2> HIDE DEF m
  <2> QED BY <2>1, CorrectText
<1>6. CASE k \in {"chord", "modifier"}
  BY <1>6 DEF Arrive, Quiet
<1> QED BY <1>1, <1>2, <1>3, <1>4, <1>5, <1>6 DEF AllKeys, TextKeys

LEMMA ChunkText ==
  ASSUME Types, Chunk
  PROVE  \/ ~machine.terminal /\ Commit(Cut(machine.left))
         \/ \E n \in 0 .. machine.left : Erases(n) /\ (n = 0 => machine.left = 0)
<1> DEFINE n == IF ChunkKeys < machine.left THEN ChunkKeys ELSE machine.left
<1>0. ChunkKeys \in Nat \ {0} /\ machine.left \in Nat
  BY BoundsAssumption DEF Types
<1>1. n \in 0 .. machine.left /\ (n = 0 => machine.left = 0)
  BY <1>0
<1>2. CASE n = machine.left /\ ~machine.terminal
  <2>1. Commit([field EXCEPT ![machine.ctx] = DropLast(field[machine.ctx], n)])
    BY <1>2 DEF Chunk
  <2> QED BY <1>2, <2>1 DEF Cut
<1>3. CASE ~(n = machine.left /\ ~machine.terminal)
  <2>1. Erases(n)
    BY <1>3 DEF Chunk, Erases, Cut
  <2> QED BY <1>1, <2>1
<1> QED BY <1>2, <1>3

\* What a commit writes.
LEMMA CommitText ==
  ASSUME NEW f, Commit(f)
  PROVE  /\ field' = [f EXCEPT ![machine.ctx] = (@ \o Converted(machine.token)) \o machine.tail]
         /\ buf' = IF machine.phrase THEN ReplacePhrase(buf, Converted(machine.token))
                                     ELSE ReplaceWord(buf, Converted(machine.token))
         /\ machine' = NoMachine
         /\ after' \in {after, [expected |-> Converted(machine.token) \o machine.tail, missed |-> FALSE]}
BY DEF Commit

\* The fields of a machine that gets on.
LEMMA ErasesFields ==
  ASSUME Shape, NEW n, Erases(n)
  PROVE  /\ machine'.ctx = machine.ctx /\ machine'.token = machine.token
         /\ machine'.tail = machine.tail /\ machine'.left = machine.left - n
         /\ machine'.erased = TakeLast(field[machine.ctx], n) \o machine.erased
         /\ machine'.phase = IF n = machine.left THEN "settle" ELSE "burst"
         /\ machine'.moved = machine.moved /\ machine'.terminal = machine.terminal
         /\ machine'.phrase = machine.phrase
         /\ DOMAIN machine' = DOMAIN NoMachine
<1>1. DOMAIN machine = {"phase", "ctx", "token", "tail", "left", "erased", "moved",
                        "terminal", "phrase", "byDrain"}
  BY DEF Shape, NoMachine
<1> QED BY <1>1 DEF Erases, Shape

LEMMA MovedFields ==
  ASSUME Shape, machine' = [machine EXCEPT !.moved = TRUE]
  PROVE  /\ machine'.ctx = machine.ctx /\ machine'.token = machine.token
         /\ machine'.tail = machine.tail /\ machine'.left = machine.left
         /\ machine'.erased = machine.erased /\ machine'.phase = machine.phase
         /\ machine'.moved = TRUE /\ machine'.terminal = machine.terminal
         /\ machine'.phrase = machine.phrase
<1>1. DOMAIN machine = {"phase", "ctx", "token", "tail", "left", "erased", "moved",
                        "terminal", "phrase", "byDrain"}
  BY DEF Shape, NoMachine
<1> QED BY <1>1

\* The machine at rest.
LEMMA NoMachineTyped ==
  /\ NoMachine.token \in Texts /\ NoMachine.tail \in Texts /\ NoMachine.left \in Nat
  /\ NoMachine.ctx \in Contexts /\ NoMachine.erased \in Texts
  /\ {NoMachine.moved, NoMachine.terminal, NoMachine.phrase} \subseteq BOOLEAN
  /\ NoMachine \in Machines /\ NoMachine.phase = "idle"
<1>1. <<>> \in Texts
  BY DEF Texts
<1>2. 1 \in Contexts
  BY BoundsAssumption DEF Contexts
<1> QED BY <1>1, <1>2 DEF NoMachine, Machines, Phases

\* The word that is put back.
LEMMA ReplacedIsText ==
  ASSUME NEW b \in Texts, NEW w \in Texts
  PROVE  /\ ReplacePhrase(b, w) \in Texts
         /\ ReplaceWord(b, w) = IF HasLetter(b) THEN Before(b) \o (w \o WordTail(b)) ELSE b
         /\ ReplaceWord(b, w) \in Texts
<1>1. ReplacePhrase(b, w) \in Texts
  BY DEF ReplacePhrase
<1>2. Before(b) \in Texts /\ WordTail(b) \in Texts
  BY WordParts
<1>3. (Before(b) \o w) \o WordTail(b) = Before(b) \o (w \o WordTail(b))
  BY <1>2, JoinAssoc
<1>4. ReplaceWord(b, w) = IF HasLetter(b) THEN Before(b) \o (w \o WordTail(b)) ELSE b
  BY <1>3 DEF ReplaceWord, Before
<1>5. w \o WordTail(b) \in Texts
  BY <1>2, JoinIsText
<1>6. Before(b) \o (w \o WordTail(b)) \in Texts
  BY <1>2, <1>5, JoinIsText
<1> QED BY <1>1, <1>4, <1>6

\* What a step may do to the text and the machine keeps the types.
LEMMA TextTypes ==
  ASSUME Types, Shape, ctx' \in Contexts, slot' \in Contexts, queue' \in Seq(KeyKinds),
         resets' \in Nat, inputs' \in Nat, typed' \in Int, after' \in {after, NoRound},
         \/ Quiet
         \/ \E c \in Cells : Inserts(c)
         \/ Deletes
         \/ EndsLine
         \/ \E p, d \in BOOLEAN : Begins(p, d)
         \/ \E n \in 0 .. machine.left : Erases(n)
  PROVE  Types'
<1>1. after' \in Rounds
  <2>1. <<>> \in Texts
    BY DEF Texts
  <2>2. NoRound \in Rounds
    BY <2>1 DEF NoRound, Rounds
  <2>3. after \in Rounds
    BY DEF Types
  <2> QED BY <2>2, <2>3
<1> DEFINE Rest == field' \in [Contexts -> Texts] /\ buf' \in Texts
<1>2. ASSUME machine' = machine, Rest PROVE Types'
  BY <1>1, <1>2 DEF Types
<1>3. CASE Quiet
  <2>1. Rest /\ machine' = machine
    BY <1>3 DEF Quiet, Types
  <2> QED BY <1>2, <2>1
<1>4. ASSUME NEW c \in Cells, Inserts(c) PROVE Types'
  <2>1. field[slot] \in Texts /\ Append(field[slot], c) \in Texts /\ Append(buf, c) \in Texts
    BY AppendIsText DEF Types
  <2>2. Rest /\ machine' = machine
    BY <1>4, <2>1 DEF Inserts, Types
  <2> QED BY <1>2, <2>2
<1>5. CASE Deletes
  <2>1. 1 \in Nat /\ field[slot] \in Texts
    BY DEF Types
  <2>2. DropLast(field[slot], 1) \in Texts /\ DropLast(buf, 1) \in Texts
    BY <2>1, DropIsText DEF Types
  <2>3. Rest /\ machine' = machine
    BY <1>5, <2>2 DEF Deletes, Types
  <2> QED BY <1>2, <2>3
<1>6. CASE EndsLine
  <2>1. field[slot] \in Texts /\ "p" \in Cells /\ <<>> \in Texts
    BY DEF Types, Cells, Texts
  <2>2. Append(field[slot], "p") \in Texts
    BY <2>1, AppendIsText
  <2>3. Rest /\ machine' = machine
    BY <1>6, <2>1, <2>2 DEF EndsLine, Types
  <2> QED BY <1>2, <2>3
<1>7. ASSUME NEW p \in BOOLEAN, NEW d \in BOOLEAN, Begins(p, d) PROVE Types'
  <2>1. Token(p) \in Texts /\ Behind(p) \in Texts
    <3>1. <<>> \in Texts
      BY DEF Texts
    <3> QED BY <3>1, WordParts DEF Token, Behind, Types
  <2>2. Len(Token(p)) \in Nat /\ Len(Behind(p)) \in Nat
    BY <2>1 DEF Texts
  <2>3. /\ machine'.ctx = slot /\ machine'.token = Token(p) /\ machine'.tail = Behind(p)
        /\ machine'.left = Len(Token(p)) + Len(Behind(p))
        /\ {machine'.moved, machine'.terminal, machine'.phrase} \subseteq BOOLEAN
    BY <1>7 DEF Begins
  <2>4. machine'.left \in Nat
    BY <2>2, <2>3
  <2>5. Rest
    BY <1>7 DEF Begins, Types
  <2> QED BY <1>1, <2>1, <2>3, <2>4, <2>5 DEF Types
<1>8. ASSUME NEW n \in 0 .. machine.left, Erases(n) PROVE Types'
  <2>1. n \in Nat /\ machine.left - n \in Nat /\ field[machine.ctx] \in Texts
    BY DEF Types
  <2>2. DropLast(field[machine.ctx], n) \in Texts
    BY <2>1, DropIsText
  <2>3. Rest
    BY <1>8, <2>2 DEF Erases, Cut, Types
  <2> QED BY <1>1, <1>8, <2>1, <2>3, ErasesFields DEF Types
<1> QED BY <1>3, <1>4, <1>5, <1>6, <1>7, <1>8

\* So does a commit.
LEMMA CommitTypes ==
  ASSUME Types, Shape, NEW f \in [Contexts -> Texts], Commit(f),
         UNCHANGED <<ctx, slot, queue, resets, inputs, typed>>
  PROVE  Types'
<1> DEFINE new == Converted(machine.token)
<1>1. new \in Texts
  BY ConvertedIsText DEF Types
<1>2. machine.tail \in Texts /\ f[machine.ctx] \in Texts /\ buf \in Texts
  BY DEF Types
<1>3. f[machine.ctx] \o new \in Texts /\ new \o machine.tail \in Texts
  BY <1>1, <1>2, JoinIsText
<1>4. (f[machine.ctx] \o new) \o machine.tail \in Texts
  BY <1>2, <1>3, JoinIsText
<1>5. ReplacePhrase(buf, new) \in Texts /\ ReplaceWord(buf, new) \in Texts
  BY <1>1, <1>2, ReplacedIsText
<1>6. /\ field' = [f EXCEPT ![machine.ctx] = (@ \o new) \o machine.tail]
      /\ buf' = IF machine.phrase THEN ReplacePhrase(buf, new) ELSE ReplaceWord(buf, new)
      /\ machine' = NoMachine
      /\ after' \in {after, [expected |-> new \o machine.tail, missed |-> FALSE]}
  BY CommitText
<1> HIDE DEF new
<1>7. field' \in [Contexts -> Texts]
  BY <1>4, <1>6
<1>8. buf' \in Texts
  BY <1>5, <1>6
<1>9. after' \in Rounds
  <2>1. [expected |-> new \o machine.tail, missed |-> FALSE] \in Rounds
    BY <1>3 DEF Rounds
  <2>2. after \in Rounds
    BY DEF Types
  <2> QED BY <1>6, <2>1, <2>2
<1> QED BY <1>6, <1>7, <1>8, <1>9, NoMachineTyped DEF Types

\* A burst in flight has the word and its tail before it, partly erased.
BurstOK ==
  Busy => \E before \in Texts :
            /\ field[machine.ctx] \o machine.erased = before \o (machine.token \o machine.tail)
            /\ Len(field[machine.ctx]) = Len(before) + machine.left

\* Unless the buffer was wiped meanwhile, it is level with the text as it
\* was before the burst, and the word is still the buffer's.
LevelOK ==
  Busy /\ buf # <<>> =>
    /\ machine.ctx = ctx
    /\ Ends(field[ctx] \o machine.erased, buf)
    /\ machine.phrase => machine.token = buf /\ machine.tail = <<>>
    /\ ~machine.phrase => HasLetter(buf) /\ machine.token = Word(buf) /\ machine.tail = WordTail(buf)

\* The buffer, the machine and the text fit each other.
WordsOK ==
  /\ machine \in Machines
  /\ machine.phase = "start" => machine.erased = <<>>
  /\ machine.phase = "settle" => machine.left = 0
  /\ buf # <<>> => slot = ctx
  /\ ~Busy /\ slot = ctx => Ends(field[ctx], buf)
  /\ BurstOK
  /\ LevelOK

\* Every kind of step keeps them so.
LEMMA QuietWords == WordsOK /\ Quiet /\ UNCHANGED <<ctx, slot>> => WordsOK'
BY DEF WordsOK, Quiet, BurstOK, LevelOK, Busy

LEMMA TypedWords ==
  ASSUME Types, WordsOK, ~Busy, slot = ctx, UNCHANGED <<ctx, slot>>,
         Deletes \/ \E c \in Cells : Inserts(c)
  PROVE  WordsOK'
<1>1. field[ctx] \in Texts /\ buf \in Texts /\ Ends(field[ctx], buf)
  BY DEF Types, WordsOK
<1>2. machine' = machine /\ ~Busy' /\ slot' = ctx'
  BY DEF Deletes, Inserts, Busy
<1>3. Ends(field'[ctx'], buf')
  <2>1. ASSUME NEW c \in Cells, Inserts(c) PROVE Ends(field'[ctx'], buf')
    <3>1. field'[ctx'] = Append(field[ctx], c) /\ buf' = Append(buf, c)
      BY <2>1 DEF Inserts, Types
    <3> QED BY <1>1, <3>1, EndsAppend
  <2>2. CASE Deletes /\ buf # <<>>
    <3>1. field'[ctx'] = DropLast(field[ctx], 1) /\ buf' = DropLast(buf, 1)
      BY <2>2 DEF Deletes, Types
    <3> QED BY <1>1, <2>2, <3>1, EndsDrop
  <2>3. CASE Deletes /\ buf = <<>>
    <3>1. field'[ctx'] = DropLast(field[ctx], 1) /\ buf' = <<>>
      BY <2>3 DEF Deletes, Types
    <3>2. 1 \in Nat
      OBVIOUS
    <3>3. DropLast(field[ctx], 1) \in Texts
      BY <1>1, <3>2, DropIsText
    <3> QED BY <3>1, <3>3, EndsWithNothing
  <2> QED BY <2>1, <2>2, <2>3
<1> QED BY <1>2, <1>3 DEF WordsOK, BurstOK, LevelOK, Busy

LEMMA BeginsWords ==
  ASSUME Types, WordsOK, UNCHANGED <<ctx, slot>>, NEW p \in BOOLEAN, NEW d \in BOOLEAN, Begins(p, d)
  PROVE  WordsOK'
<1>1. /\ machine'.phase = "start" /\ machine'.ctx = slot
      /\ machine'.token = Token(p) /\ machine'.tail = Behind(p)
      /\ machine'.left = Len(Token(p)) + Len(Behind(p)) /\ machine'.erased = <<>>
      /\ machine'.phrase = p
      /\ field' = field /\ buf' = buf /\ ~Busy
  BY DEF Begins
<1>2. buf \in Texts /\ field[ctx] \in Texts /\ slot \in Contexts
  BY DEF Types
<1>3. HasLetter(buf) /\ buf # <<>>
  <2>1. HasLetter(buf)
    BY <1>2, WordParts DEF Begins, Token
  <2> QED BY <2>1 DEF HasLetter
<1>4. slot = ctx /\ Ends(field[ctx], buf)
  BY <1>1, <1>3 DEF WordsOK
<1>5. Token(p) \in Texts /\ Behind(p) \in Texts
  <2>1. <<>> \in Texts
    BY DEF Texts
  <2> QED BY <1>2, <2>1, WordParts DEF Token, Behind
<1> DEFINE head == IF p THEN <<>> ELSE Before(buf)
<1>6. head \in Texts /\ buf = head \o (Token(p) \o Behind(p))
  <2>1. CASE p
    <3>1. head = <<>> /\ Token(p) = buf /\ Behind(p) = <<>>
      BY <2>1 DEF Token, Behind
    <3>2. <<>> \o (buf \o <<>>) = buf /\ <<>> \in Texts
      BY <1>2, JoinEmpty
    <3> QED BY <3>1, <3>2
  <2>2. CASE ~p
    BY <1>2, <1>3, <2>2, WordParts DEF Token, Behind
  <2> QED BY <2>1, <2>2
<1> HIDE DEF head
<1>7. BurstOK'
  <2>1. PICK x \in Texts : field[ctx] = x \o buf
    BY <1>4 DEF Ends
  <2> DEFINE w == Token(p) \o Behind(p)
  <2>2. w \in Texts /\ Len(w) = Len(Token(p)) + Len(Behind(p))
    BY <1>5, JoinIsText
  <2>3. x \o head \in Texts /\ buf = head \o w
    BY <1>6, JoinIsText
  <2> HIDE DEF w
  <2>a. (x \o head) \o w = x \o (head \o w)
    BY <1>6, <2>2, JoinAssoc
  <2>4. field[ctx] = (x \o head) \o w
    BY <2>1, <2>3, <2>a
  <2>5. Len(field[ctx]) = Len(x \o head) + Len(w)
    BY <2>2, <2>3, <2>4, JoinIsText
  <2>6. field[ctx] \o <<>> = (x \o head) \o w
    BY <1>2, <2>4, JoinEmpty
  <2>7. /\ field'[machine'.ctx] \o machine'.erased = (x \o head) \o (machine'.token \o machine'.tail)
        /\ Len(field'[machine'.ctx]) = Len(x \o head) + machine'.left
    BY <1>1, <1>4, <2>2, <2>5, <2>6 DEF w
  <2> QED BY <2>3, <2>7 DEF BurstOK
<1>8. LevelOK'
  <2>1. Ends(field[ctx] \o <<>>, buf)
    BY <1>2, <1>4, JoinEmpty
  <2>2. /\ machine'.phrase => machine'.token = buf /\ machine'.tail = <<>>
        /\ ~machine'.phrase => machine'.token = Word(buf) /\ machine'.tail = WordTail(buf)
    BY <1>1 DEF Token, Behind
  <2> QED BY <1>1, <1>3, <1>4, <2>1, <2>2 DEF LevelOK
<1>9. machine' \in Machines
  <2>1. Len(Token(p)) + Len(Behind(p)) \in Nat
    BY <1>5 DEF Texts
  <2>2. <<>> \in Texts /\ "start" \in Phases
    BY DEF Texts, Phases
  <2>3. PICK terminal \in BOOLEAN :
          machine' = [phase |-> "start", ctx |-> slot, token |-> Token(p), tail |-> Behind(p),
                      left |-> Len(Token(p)) + Len(Behind(p)), erased |-> <<>>, moved |-> FALSE,
                      terminal |-> terminal, phrase |-> p, byDrain |-> d]
    BY DEF Begins
  <2> QED BY <1>2, <1>5, <2>1, <2>2, <2>3 DEF Machines
<1> QED BY <1>1, <1>4, <1>7, <1>8, <1>9 DEF WordsOK, Busy

\* A chunk moves cells from the text to what has been erased.
LEMMA ErasesWords ==
  ASSUME Types, Shape, WordsOK, Busy, UNCHANGED <<ctx, slot>>,
         NEW n \in 0 .. machine.left, Erases(n)
  PROVE  WordsOK'
<1> DEFINE t == field[machine.ctx]
<1>0. n \in Nat /\ t \in Texts /\ machine.ctx \in Contexts /\ machine.left \in Nat
      /\ machine.erased \in Texts /\ machine.token \in Texts /\ machine.tail \in Texts
  BY DEF Types, WordsOK, Machines
<1>1. PICK before \in Texts : /\ t \o machine.erased = before \o (machine.token \o machine.tail)
                              /\ Len(t) = Len(before) + machine.left
  BY DEF WordsOK, BurstOK
<1>2. Len(before) \in Nat /\ n =< machine.left
  BY <1>0 DEF Texts
<1>3. n =< Len(t)
  BY <1>0, <1>1, <1>2
<1> DEFINE a == DropLast(t, n)
           z == TakeLast(t, n)
<1>4. a \in Texts /\ z \in Texts /\ Len(a) = Len(t) - n /\ a \o z = t
  BY <1>0, <1>3, DropIsText
<1>5. z \o machine.erased \in Texts
  BY <1>0, <1>4, JoinIsText
<1>6. a \o (z \o machine.erased) = t \o machine.erased
  <2> DEFINE e == machine.erased
  <2>1. e \in Texts
    BY <1>0
  <2> HIDE DEF a, z, e
  <2>2. (a \o z) \o e = a \o (z \o e)
    BY <1>4, <2>1, JoinAssoc
  <2> QED BY <1>4, <2>2 DEF e
<1>7. /\ field' = [field EXCEPT ![machine.ctx] = a]
      /\ machine'.ctx = machine.ctx /\ machine'.token = machine.token
      /\ machine'.tail = machine.tail /\ machine'.left = machine.left - n
      /\ machine'.erased = z \o machine.erased
      /\ machine'.phase = (IF n = machine.left THEN "settle" ELSE "burst")
      /\ machine'.phrase = machine.phrase
      /\ buf' = buf
  BY ErasesFields DEF Erases, Cut
<1>8. field'[machine'.ctx] = a
  BY <1>0, <1>7 DEF Types
<1> HIDE DEF a, z, t
<1>9. BurstOK'
  <2>1. Len(a) = Len(before) + (machine.left - n)
    BY <1>0, <1>1, <1>2, <1>4
  <2>2. /\ field'[machine'.ctx] \o machine'.erased = before \o (machine'.token \o machine'.tail)
        /\ Len(field'[machine'.ctx]) = Len(before) + machine'.left
    BY <1>1, <1>6, <1>7, <1>8, <2>1
  <2> QED BY <2>2 DEF BurstOK
<1>10. LevelOK'
  <2> SUFFICES ASSUME buf # <<>>
               PROVE  /\ machine'.ctx = ctx
                      /\ Ends(field'[ctx] \o machine'.erased, buf)
                      /\ machine.phrase => machine.token = buf /\ machine.tail = <<>>
                      /\ ~machine.phrase => HasLetter(buf) /\ machine.token = Word(buf) /\ machine.tail = WordTail(buf)
    BY <1>7 DEF LevelOK
  <2>1. /\ machine.ctx = ctx
        /\ Ends(field[ctx] \o machine.erased, buf)
        /\ machine.phrase => machine.token = buf /\ machine.tail = <<>>
        /\ ~machine.phrase => HasLetter(buf) /\ machine.token = Word(buf) /\ machine.tail = WordTail(buf)
    BY DEF WordsOK, LevelOK
  <2>2. field'[ctx] \o machine'.erased = field[ctx] \o machine.erased
    BY <1>6, <1>7, <1>8, <2>1 DEF t
  <2> QED BY <1>7, <2>1, <2>2
<1>11. machine' \in Machines
  <2>1. machine.left - n \in Nat /\ {"settle", "burst"} \subseteq Phases
    BY <1>0, <1>2 DEF Phases
  <2>2. machine' = [machine EXCEPT !.phase = IF n = machine.left THEN "settle" ELSE "burst",
                                   !.left = @ - n, !.erased = z \o @]
    BY DEF Erases, z, t
  <2>3. machine \in Machines
    BY DEF WordsOK
  <2> QED BY <1>5, <2>1, <2>2, <2>3 DEF Machines
<1>12. machine'.phase = "settle" => machine'.left = 0
  BY <1>0, <1>7
<1> QED BY <1>7, <1>9, <1>10, <1>11, <1>12 DEF WordsOK, Busy

\* What the rest of the burst leaves is what is before the word; what it has
\* taken, with what it is about to take, is the word and its tail.
LEMMA BurstParts ==
  ASSUME Types, WordsOK, Busy
  PROVE  \E before \in Texts :
           /\ field[machine.ctx] \o machine.erased = before \o (machine.token \o machine.tail)
           /\ DropLast(field[machine.ctx], machine.left) = before
           /\ TakeLast(field[machine.ctx], machine.left) \o machine.erased
                = machine.token \o machine.tail
<1> DEFINE t == field[machine.ctx]
           e == machine.erased
           w == machine.token \o machine.tail
           l == machine.left
<1>1. t \in Texts /\ e \in Texts /\ l \in Nat
  BY DEF Types, WordsOK, Machines
<1>2. w \in Texts
  <2>1. machine.token \in Texts /\ machine.tail \in Texts
    BY DEF Types
  <2> QED BY <2>1, JoinIsText
<1>3. PICK before \in Texts : t \o e = before \o w /\ Len(t) = Len(before) + l
  BY DEF WordsOK, BurstOK
<1> HIDE DEF t, e, w, l
<1>4. l =< Len(t) /\ Len(before) = Len(t) - l
  <2>1. Len(before) \in Nat /\ Len(t) \in Nat
    BY <1>1 DEF Texts
  <2> QED BY <1>1, <1>3, <2>1
<1> DEFINE a == DropLast(t, l)
           z == TakeLast(t, l)
<1>5. a \in Texts /\ z \in Texts /\ Len(a) = Len(t) - l /\ a \o z = t
  BY <1>1, <1>4, DropIsText
<1> HIDE DEF a, z
<1>6. a \in Texts /\ z \in Texts /\ Len(a) = Len(before)
  BY <1>4, <1>5
<1>7. (a \o z) \o e = a \o (z \o e)
  BY <1>1, <1>6, JoinAssoc, SMTT(60)
<1> DEFINE r == z \o e
<1>8. r \in Texts
  BY <1>1, <1>6, JoinIsText
<1>9. a \o r = before \o w
  BY <1>3, <1>5, <1>7
<1>10. a = before /\ r = w
  <2> HIDE DEF r
  <2> QED BY <1>2, <1>6, <1>8, <1>9, CancelHead
<1>11. t \o e = before \o w /\ DropLast(t, l) = before /\ TakeLast(t, l) \o e = w
  BY <1>3, <1>10 DEF a, z
<1> QED BY <1>11 DEF t, e, w, l

LEMMA CommitWords ==
  ASSUME Types, WordsOK, Busy, UNCHANGED <<ctx, slot>>,
         NEW f \in [Contexts -> Texts], f[machine.ctx] = DropLast(field[machine.ctx], machine.left),
         Commit(f)
  PROVE  WordsOK'
<1> DEFINE new == Converted(machine.token)
           tail == machine.tail
           w == machine.token \o machine.tail
           g == f[machine.ctx]
<1>0. /\ machine.ctx \in Contexts /\ machine.left \in Nat /\ field[machine.ctx] \in Texts
      /\ machine.erased \in Texts /\ machine.token \in Texts /\ tail \in Texts
      /\ buf \in Texts /\ g \in Texts
  BY DEF Types, WordsOK, Machines
<1>1. new \in Texts /\ w \in Texts
  BY <1>0, ConvertedIsText, JoinIsText
<1>2. /\ field' = [f EXCEPT ![machine.ctx] = (@ \o new) \o machine.tail]
      /\ buf' = IF machine.phrase THEN ReplacePhrase(buf, new) ELSE ReplaceWord(buf, new)
      /\ machine' = NoMachine
  BY CommitText
<1>3. field'[machine.ctx] = (g \o new) \o tail
  BY <1>0, <1>2
<1>4. PICK before \in Texts : /\ field[machine.ctx] \o machine.erased = before \o w
                              /\ DropLast(field[machine.ctx], machine.left) = before
  BY BurstParts
<1>5. g = before
  BY <1>4
<1>6. (g \o new) \o tail = g \o (new \o tail) /\ new \o tail \in Texts /\ g \o new \in Texts
  <2>1. g \in Texts /\ new \in Texts /\ tail \in Texts
    BY <1>0, <1>1
  <2> HIDE DEF new, tail, g
  <2>2. (g \o new) \o tail = g \o (new \o tail)
    BY <2>1, JoinAssoc
  <2>3. new \o tail \in Texts /\ g \o new \in Texts
    BY <2>1, JoinIsText
  <2> QED BY <2>2, <2>3
<1>7. field' \in [Contexts -> Texts]
  <2>1. (g \o new) \o tail \in Texts
    BY <1>0, <1>6, JoinIsText
  <2> QED BY <1>2, <2>1
<1>8. CASE buf = <<>>
  <2>1. ~HasLetter(buf)
    BY <1>8 DEF HasLetter
  <2>2. buf' = <<>>
    BY <1>2, <1>8, <2>1 DEF ReplacePhrase, ReplaceWord
  <2>3. slot' = ctx' => Ends(field'[ctx'], buf')
    <3>1. field'[ctx'] \in Texts
      BY <1>7 DEF Types
    <3> QED BY <2>2, <3>1, EndsWithNothing
  <2> QED BY <1>2, <2>2, <2>3, NoMachineTyped DEF WordsOK, BurstOK, LevelOK, Busy
<1>9. CASE buf # <<>>
  <2>1. /\ slot = ctx /\ machine.ctx = ctx
        /\ Ends(field[ctx] \o machine.erased, buf)
        /\ machine.phrase => machine.token = buf /\ machine.tail = <<>>
        /\ ~machine.phrase => HasLetter(buf) /\ machine.token = Word(buf) /\ machine.tail = WordTail(buf)
    BY <1>9 DEF WordsOK, LevelOK
  <2>2. Ends(field'[ctx], buf')
    <3>1. CASE machine.phrase
      <4>1. buf' = new
        BY <1>2, <1>9, <3>1 DEF ReplacePhrase
      <4>2. field'[ctx] = (g \o new) \o <<>>
        BY <1>3, <2>1, <3>1
      <4>3. field'[ctx] = g \o new
        <5> HIDE DEF new, g
        <5> QED BY <1>6, <4>2, JoinEmpty
      <4> QED BY <1>0, <4>1, <4>3 DEF Ends
    <3>2. CASE ~machine.phrase
      <4> DEFINE head == Before(buf)
      <4>1. head \in Texts /\ buf = head \o w
        BY <1>0, <2>1, <3>2, WordParts
      <4>2. buf' = head \o (new \o tail)
        BY <1>0, <1>1, <1>2, <2>1, <3>2, ReplacedIsText
      <4>3. PICK x \in Texts : field[ctx] \o machine.erased = x \o buf
        BY <2>1 DEF Ends
      <4> HIDE DEF head, w, new, tail, g
      <4>t. head \in Texts /\ w \in Texts
        BY <1>1, <4>1
      <4>a. (x \o head) \o w = x \o (head \o w)
        BY <4>t, JoinAssoc
      <4>4. x \o (head \o w) = (x \o head) \o w /\ x \o head \in Texts
        BY <4>t, <4>a, JoinIsText
      <4>5. before \o w = (x \o head) \o w
        BY <1>4, <2>1, <4>1, <4>3, <4>4
      <4>6. before = x \o head
        BY <1>1, <4>4, <4>5, CancelTail
      <4>7. (x \o head) \o (new \o tail) = x \o (head \o (new \o tail))
        BY <1>6, <4>1, JoinAssoc
      <4>8. field'[ctx] = x \o buf'
        BY <1>3, <1>5, <1>6, <2>1, <4>2, <4>6, <4>7
      <4> QED BY <4>8 DEF Ends
    <3> QED BY <3>1, <3>2
  <2> QED BY <1>2, <2>1, <2>2, NoMachineTyped DEF WordsOK, BurstOK, LevelOK, Busy
<1> QED BY <1>8, <1>9

\* A machine that stops before its first BackSpace leaves all as it was.
LEMMA AbortWords ==
  ASSUME Types, WordsOK, machine.phase = "start", machine' = NoMachine,
         UNCHANGED <<field, buf, ctx, slot>>
  PROVE  WordsOK'
<1>1. slot = ctx => Ends(field[ctx], buf)
  <2>1. field[ctx] \in Texts
    BY DEF Types
  <2>2. CASE buf = <<>>
    BY <2>1, <2>2, EndsWithNothing
  <2>3. CASE buf # <<>>
    <3>1. Ends(field[ctx] \o <<>>, buf)
      BY <2>3 DEF WordsOK, LevelOK, Busy
    <3> QED BY <2>1, <3>1, JoinEmpty
  <2> QED BY <2>2, <2>3
<1> QED BY <1>1, NoMachineTyped DEF WordsOK, BurstOK, LevelOK, Busy

\* The death of a context, the daemon's own or the owner's.
LEMMA MovedWords ==
  ASSUME Types, Shape, WordsOK,
         machine' = IF Busy THEN [machine EXCEPT !.moved = TRUE] ELSE machine,
         field' = field, slot' = slot,
         \/ ctx' = ctx /\ buf' = buf
         \/ buf' = <<>> /\ ctx' \in Contexts
  PROVE  WordsOK'
<1>1. /\ machine'.ctx = machine.ctx /\ machine'.token = machine.token
      /\ machine'.tail = machine.tail /\ machine'.left = machine.left
      /\ machine'.erased = machine.erased /\ machine'.phase = machine.phase
      /\ machine'.phrase = machine.phrase
  BY MovedFields
<1>2. machine' \in Machines
  BY DEF WordsOK, Machines
<1>3. ~Busy /\ slot' = ctx' => Ends(field'[ctx'], buf')
  <2>1. CASE ctx' = ctx /\ buf' = buf
    BY <2>1 DEF WordsOK
  <2>2. CASE buf' = <<>> /\ ctx' \in Contexts
    <3>1. field'[ctx'] \in Texts
      BY <2>2 DEF Types
    <3> QED BY <2>2, <3>1, EndsWithNothing
  <2> QED BY <2>1, <2>2
<1>4. BurstOK'
  BY <1>1 DEF WordsOK, BurstOK, Busy
<1>5. LevelOK'
  BY <1>1 DEF WordsOK, LevelOK, Busy
<1> QED BY <1>1, <1>2, <1>3, <1>4, <1>5 DEF WordsOK, Busy

LEMMA AttachWords ==
  ASSUME Types, WordsOK, slot # ctx, slot' = ctx, UNCHANGED <<field, ctx, buf, machine>>
  PROVE  WordsOK'
<1>1. buf = <<>>
  BY DEF WordsOK
<1>2. Ends(field[ctx], buf)
  <2>1. field[ctx] \in Texts
    BY DEF Types
  <2> QED BY <1>1, <2>1, EndsWithNothing
<1> QED BY <1>1, <1>2 DEF WordsOK, BurstOK, LevelOK, Busy

LEMMA WordsMeanErase == Types /\ WordsOK => EraseOnlyTheWord
BY BurstParts DEF EraseOnlyTheWord

LEMMA WordsMeanMirror == Types /\ WordsOK => Mirror
<1> SUFFICES ASSUME Types, WordsOK, ~Busy, slot = ctx PROVE IsSuffixOf(buf, field[ctx])
  BY DEF Mirror
<1>1. field[ctx] \in Texts /\ buf \in Texts /\ Ends(field[ctx], buf)
  BY DEF Types, WordsOK
<1> QED BY <1>1, SuffixEnds

\* The parts of the second invariant, and what each needs of the constants.
TextInv == Types /\ (Orderly => WordsOK)
TurnInv == InTurn /\ drain = "woken" => ~Busy

LEMMA QuietText ==
  ASSUME TextInv, Shape, Quiet, UNCHANGED <<ctx, slot>>, queue' \in Seq(KeyKinds),
         resets' \in Nat, inputs' \in Nat, typed' \in Int, after' \in {after, NoRound}
  PROVE  TextInv'
<1>1. Types'
  BY TextTypes DEF TextInv, Types
<1>2. Orderly => WordsOK'
  BY QuietWords DEF TextInv
<1> QED BY <1>1, <1>2 DEF TextInv, Orderly, InTurn, OnlyKeysCorrect

LEMMA ArrivedText ==
  ASSUME TextInv, Shape, NEW k \in KeyKinds, NEW d \in BOOLEAN, Arrive(k, d),
         UNCHANGED <<ctx, slot>>, queue' \in Seq(KeyKinds),
         resets' \in Nat, inputs' \in Nat, typed' \in Int,
         Orderly /\ k \in TextKeys => ~Busy /\ slot = ctx
  PROVE  TextInv'
<1>0. k \in AllKeys
  BY KindsAssumption
<1>1. /\ \/ Quiet
         \/ k \in TextKeys /\ ((\E c \in Cells : Inserts(c)) \/ Deletes)
         \/ k = "enter" /\ EndsLine
         \/ Begins(FALSE, d)
      /\ after' \in {after, NoRound}
  BY <1>0, ArriveText
<1>2. Types'
  BY <1>1, TextTypes DEF TextInv, Types
<1>3. ASSUME Orderly PROVE WordsOK'
  <2>1. WordsOK /\ Types /\ k # "enter"
    BY <1>3 DEF TextInv, Orderly
  <2>2. CASE Quiet
    BY <2>1, <2>2, QuietWords
  <2>3. CASE k \in TextKeys /\ ((\E c \in Cells : Inserts(c)) \/ Deletes)
    BY <1>3, <2>1, <2>3, TypedWords
  <2>4. CASE Begins(FALSE, d)
    BY <2>1, <2>4, BeginsWords
  <2> QED BY <1>1, <2>1, <2>2, <2>3, <2>4
<1> QED BY <1>2, <1>3 DEF TextInv, Orderly, InTurn, OnlyKeysCorrect

LEMMA CorrectNowText ==
  ASSUME TextInv, Shape, NEW p \in BOOLEAN, CorrectNow(p)
  PROVE  TextInv'
<1>1. Correct(modes, p, FALSE) /\ UNCHANGED <<field, ctx, slot, buf, queue, resets, typed>>
      /\ inputs' = inputs + 1
  BY DEF CorrectNow, Input
<1>2. (Quiet \/ Begins(p, FALSE)) /\ after' \in {after, NoRound}
  BY <1>1, CorrectText
<1>3. Types'
  <2>1. ctx' \in Contexts /\ slot' \in Contexts /\ queue' \in Seq(KeyKinds)
        /\ resets' \in Nat /\ inputs' \in Nat /\ typed' \in Int
    BY <1>1 DEF TextInv, Types
  <2>2. Quiet \/ \E q, d \in BOOLEAN : Begins(q, d)
    BY <1>2
  <2> QED BY <1>2, <2>1, <2>2, TextTypes DEF TextInv
<1>4. Orderly => WordsOK'
  BY <1>1, <1>2, QuietWords, BeginsWords DEF TextInv
<1> QED BY <1>3, <1>4 DEF TextInv, Orderly, InTurn, OnlyKeysCorrect

LEMMA AddsInt == \A k : Adds(k) \in Int
BY DEF Adds

LEMMA KeyText ==
  ASSUME TextInv, Shape, NEW k \in KeyKinds, Key(k)
  PROVE  TextInv'
<1>1. UNCHANGED <<ctx, slot, resets>> /\ inputs' = inputs + 1 /\ typed' = typed + Adds(k) /\ slot = ctx
  BY DEF Key, Input
<1>2. resets' \in Nat /\ inputs' \in Nat /\ typed' \in Int
  BY <1>1, AddsInt DEF TextInv, Types
<1>3. CASE Park(k)
  <2>1. Quiet /\ after' = after /\ queue' = Append(queue, k)
    BY <1>3 DEF Park, Quiet
  <2>2. queue' \in Seq(KeyKinds)
    BY <2>1 DEF TextInv, Types
  <2> QED BY <1>1, <1>2, <2>1, <2>2, QuietText
<1>4. CASE /\ ~((Busy /\ Holdable(k)) \/ queue # <<>>)
           /\ Arrive(k, FALSE) /\ UNCHANGED <<queue, drain>>
  <2>1. k \in TextKeys => ~Busy /\ slot = ctx
    BY <1>1, <1>4 DEF Holdable
  <2>2. queue' \in Seq(KeyKinds)
    BY <1>4 DEF TextInv, Types
  <2> QED BY <1>1, <1>2, <1>4, <2>1, <2>2, ArrivedText
<1> QED BY <1>3, <1>4 DEF Key

LEMMA DrainKeyText ==
  ASSUME TextInv, TurnInv, IInv, DrainKey
  PROVE  TextInv'
<1>1. /\ drain = "woken" \/ (drain = "running" /\ ~Busy)
      /\ LateMint \/ slot = ctx
      /\ Arrive(Head(queue), TRUE)
      /\ queue' = Tail(queue)
      /\ UNCHANGED <<ctx, slot, resets, inputs, typed>>
  BY DEF DrainKey
<1>2. queue \in Seq(KeyKinds) /\ queue # <<>>
  BY <1>1 DEF TextInv, Types, IInv, ParkedKeysHaveDrainer
<1>3. Head(queue) \in KeyKinds /\ queue' \in Seq(KeyKinds)
  BY <1>1, <1>2
<1>4. Orderly => ~Busy /\ slot = ctx
  BY <1>1 DEF Orderly, TurnInv
<1>5. resets' \in Nat /\ inputs' \in Nat /\ typed' \in Int
  BY <1>1 DEF TextInv, Types
<1> QED BY <1>1, <1>3, <1>4, <1>5, ArrivedText DEF IInv

LEMMA CommittedText ==
  ASSUME TextInv, Shape, Busy, NEW f \in [Contexts -> Texts], Commit(f),
         f[machine.ctx] = DropLast(field[machine.ctx], machine.left) \/ ~Orderly,
         UNCHANGED <<ctx, slot, queue, resets, inputs, typed>>
  PROVE  TextInv'
<1>1. Types'
  BY CommitTypes DEF TextInv
<1>2. Orderly => WordsOK'
  BY CommitWords DEF TextInv
<1> QED BY <1>1, <1>2 DEF TextInv, Orderly, InTurn, OnlyKeysCorrect

LEMMA MachineText ==
  ASSUME TextInv, IInv, MachineStart \/ MachineChunk \/ MachineCommit
  PROVE  TextInv'
<1>0. Shape /\ Busy /\ UNCHANGED <<ctx, slot, queue, resets, inputs, typed>>
  BY DEF IInv, MachineStart, MachineChunk, MachineCommit, Busy
<1>t. /\ field \in [Contexts -> Texts] /\ machine.ctx \in Contexts /\ machine.left \in Nat
      /\ field[machine.ctx] \in Texts
      /\ ctx \in Contexts /\ slot \in Contexts /\ queue \in Seq(KeyKinds)
      /\ resets \in Nat /\ inputs \in Nat /\ typed \in Int
  BY DEF TextInv, Types
<1>1. CASE Chunk
  <2>1. CASE Commit(Cut(machine.left))
    <3>1. DropLast(field[machine.ctx], machine.left) \in Texts
      BY <1>t, DropIsText
    <3>2. /\ Cut(machine.left) \in [Contexts -> Texts]
          /\ Cut(machine.left)[machine.ctx] = DropLast(field[machine.ctx], machine.left)
      BY <1>t, <3>1 DEF Cut
    <3> QED BY <1>0, <2>1, <3>2, CommittedText
  <2>2. ASSUME NEW n \in 0 .. machine.left, Erases(n) PROVE TextInv'
    <3>1. Types'
      <4>1. after' = after
        BY <2>2 DEF Erases
      <4> QED BY <1>0, <1>t, <2>2, <4>1, TextTypes DEF TextInv
    <3>2. Orderly => WordsOK'
      BY <1>0, <2>2, ErasesWords DEF TextInv
    <3> QED BY <3>1, <3>2 DEF TextInv, Orderly, InTurn, OnlyKeysCorrect
  <2> QED BY <1>1, <2>1, <2>2, ChunkText DEF TextInv
<1>2. CASE MachineStart /\ machine.moved
  <2>1. /\ machine' = NoMachine /\ machine.phase = "start"
        /\ UNCHANGED <<field, buf, after>>
    BY <1>2 DEF MachineStart
  <2>2. Types'
    BY <1>0, <2>1, NoMachineTyped DEF TextInv, Types
  <2>3. Orderly => WordsOK'
    BY <1>0, <2>1, AbortWords DEF TextInv
  <2> QED BY <2>2, <2>3 DEF TextInv, Orderly, InTurn, OnlyKeysCorrect
<1>3. CASE MachineCommit
  <2>1. Commit(field) /\ machine.phase = "settle"
    BY <1>3 DEF MachineCommit
  <2>2. Orderly => field[machine.ctx] = DropLast(field[machine.ctx], machine.left)
    <3> SUFFICES ASSUME Orderly PROVE field[machine.ctx] = DropLast(field[machine.ctx], machine.left)
      OBVIOUS
    <3>1. machine.left = 0
      BY <2>1 DEF TextInv, WordsOK
    <3> DEFINE t == field[machine.ctx]
    <3>2. t \in Texts
      BY <1>t
    <3> HIDE DEF t
    <3>3. DropLast(t, 0) = t
      <4>1. Len(t) \in Nat
        BY <3>2 DEF Texts
      <4>2. Len(t) - 0 = Len(t)
        BY <4>1
      <4>3. SubSeq(t, 1, Len(t)) = t
        BY <3>2 DEF Texts
      <4> QED BY <4>2, <4>3 DEF DropLast
    <3> QED BY <3>1, <3>3 DEF t
  <2> QED BY <1>0, <1>t, <2>1, <2>2, CommittedText
<1> QED BY <1>1, <1>2, <1>3 DEF MachineStart, MachineChunk

LEMMA ContextDiesText ==
  ASSUME TextInv, Shape, NEW c, ContextDies(c), resets' \in Nat,
         \/ ctx' = ctx /\ buf' = buf
         \/ buf' = <<>> /\ ctx' \in Contexts
  PROVE  TextInv'
<1>1. /\ machine' = IF Busy THEN [machine EXCEPT !.moved = TRUE] ELSE machine
      /\ field' = field /\ slot' = slot /\ after' = NoRound
      /\ UNCHANGED <<queue, inputs, typed>>
  BY DEF ContextDies
<1>2. Types'
  <2>1. <<>> \in Texts
    BY DEF Texts
  <2>2. NoRound \in Rounds
    BY <2>1 DEF NoRound, Rounds
  <2>3. buf' \in Texts /\ ctx' \in Contexts
    BY <2>1 DEF TextInv, Types
  <2>4. CASE machine' = machine
    BY <1>1, <2>2, <2>3, <2>4 DEF TextInv, Types
  <2>5. CASE machine' = [machine EXCEPT !.moved = TRUE]
    BY <1>1, <2>2, <2>3, <2>5, MovedFields DEF TextInv, Types
  <2> QED BY <1>1, <2>4, <2>5
<1>3. Orderly => WordsOK'
  BY <1>1, MovedWords DEF TextInv
<1> QED BY <1>2, <1>3 DEF TextInv, Orderly, InTurn, OnlyKeysCorrect

\* The text, under every action.
LEMMA NextText ==
  ASSUME TextInv, TurnInv, IInv, Next
  PROVE  TextInv'
<1>0. Shape
  BY DEF IInv
<1>t. /\ ctx \in Contexts /\ slot \in Contexts /\ queue \in Seq(KeyKinds) /\ buf \in Texts
      /\ resets \in Nat /\ inputs \in Nat /\ typed \in Int /\ inputs + 1 \in Nat
  BY DEF TextInv, Types
<1>1. ASSUME Quiet, UNCHANGED <<ctx, slot, queue, resets, typed>>, inputs' \in {inputs, inputs + 1},
             after' \in {after, NoRound}
      PROVE  TextInv'
  <2>1. inputs' \in Nat
    BY <1>t, <1>1
  <2> QED BY <1>0, <1>t, <1>1, <2>1, QuietText
<1>2. CASE \E k \in KeyKinds : Key(k)
  BY <1>0, <1>2, KeyText
<1>3. CASE DrainKey
  BY <1>3, DrainKeyText
<1>4. CASE DrainWaits \/ BoundExpires
  BY <1>1, <1>4 DEF DrainWaits, BoundExpires, Quiet
<1>5. CASE MachineStart \/ MachineChunk \/ MachineCommit
  BY <1>5, MachineText
<1>6. CASE \E phrase \in BOOLEAN : CorrectNow(phrase)
  BY <1>0, <1>6, CorrectNowText
<1>7. CASE ToggleMode \/ \E t \in Modes : SwitchMode(t) \/ SyncEngine(t)
  BY <1>1, <1>7 DEF ToggleMode, SwitchMode, SyncEngine, Input, Quiet
<1>8. CASE Push
  <2>1. UNCHANGED <<field, ctx, slot, buf, machine, queue, resets, typed>> /\ inputs' = inputs + 1
    BY <1>8 DEF Push, Input
  <2>2. after' \in Rounds
    <3>1. <<>> \in Texts
      BY DEF Texts
    <3>2. NoRound \in Rounds
      BY <3>1 DEF NoRound, Rounds
    <3>3. after \in Rounds
      BY DEF TextInv, Types
    <3>4. [after EXCEPT !.missed = TRUE] \in Rounds
      BY <3>3 DEF Rounds
    <3> QED BY <1>8, <3>2, <3>4 DEF Push
  <2>3. Types'
    BY <1>t, <2>1, <2>2 DEF TextInv, Types
  <2>4. Orderly => WordsOK'
    BY <2>1, QuietWords DEF TextInv, Quiet
  <2> QED BY <2>3, <2>4 DEF TextInv, Orderly, InTurn, OnlyKeysCorrect
<1>9. CASE AfterExpiry
  BY <1>1, <1>9 DEF AfterExpiry, Quiet
<1>10. CASE SyntheticFocusOut
  BY <1>0, <1>t, <1>10, ContextDiesText DEF SyntheticFocusOut
<1>11. CASE FocusOut
  <2>1. ctx' \in Contexts
    BY <1>t, <1>11, BoundsAssumption DEF FocusOut, Contexts
  <2> QED BY <1>0, <1>t, <1>11, <2>1, ContextDiesText DEF FocusOut
<1>12. CASE Reset
  BY <1>0, <1>t, <1>12, ContextDiesText DEF Reset
<1>13. CASE AttachEngine
  <2>1. /\ slot # ctx /\ slot' = ctx
        /\ UNCHANGED <<field, ctx, buf, machine, queue, after, resets, inputs, typed>>
    BY <1>13 DEF AttachEngine
  <2>2. Types'
    BY <2>1 DEF TextInv, Types
  <2>3. Orderly => WordsOK'
    BY <2>1, AttachWords DEF TextInv
  <2> QED BY <2>2, <2>3 DEF TextInv, Orderly, InTurn, OnlyKeysCorrect
<1> QED BY <1>2, <1>3, <1>4, <1>5, <1>6, <1>7, <1>8, <1>9, <1>10, <1>11, <1>12, <1>13 DEF Next

LEMMA DiesFields ==
  ASSUME Shape, NEW c, ContextDies(c)
  PROVE  (Busy' <=> Busy) /\ modes'.flip = modes.flip /\ drain' = drain
<1>1. Busy' <=> Busy
  <2>1. CASE machine' = machine
    BY <2>1 DEF Busy
  <2>2. CASE machine' = [machine EXCEPT !.moved = TRUE]
    BY <2>2, MovedFields DEF Busy
  <2> QED BY <2>1, <2>2 DEF ContextDies
<1>2. modes'.flip = modes.flip
  BY DEF ContextDies, Shape, ModeStates
<1> QED BY <1>1, <1>2 DEF ContextDies

\* A woken drainer finds the machine at rest.
LEMMA NextTurn ==
  ASSUME TurnInv, IInv, Next
  PROVE  TurnInv'
<1> SUFFICES ASSUME InTurn, drain' = "woken", Busy' PROVE FALSE
  BY DEF TurnInv, InTurn, OnlyKeysCorrect
<1>0. Shape /\ (drain = "woken" => ~Busy /\ queue # <<>>)
  BY DEF IInv, TurnInv, ParkedKeysHaveDrainer
<1>1. ASSUME drain' = drain, Busy' <=> Busy PROVE FALSE
  BY <1>0, <1>1
<1>2. ASSUME NEW k \in KeyKinds, Key(k) PROVE FALSE
  <2>1. CASE Park(k)
    BY <1>0, <2>1 DEF Park, Busy
  <2>2. CASE queue = <<>> /\ drain' = drain
    BY <1>0, <2>2
  <2> QED BY <1>2, <2>1, <2>2 DEF Key
<1>3. CASE DrainKey
  BY <1>3 DEF DrainKey
<1>4. CASE DrainWaits
  BY <1>4 DEF DrainWaits
<1>5. CASE BoundExpires
  BY <1>5 DEF BoundExpires, InTurn
<1>6. CASE MachineStart \/ MachineChunk \/ MachineCommit
  <2>1. Busy
    BY <1>6 DEF MachineStart, MachineChunk, MachineCommit, Busy
  <2>2. machine' # NoMachine
    BY NoMachineTyped DEF Busy
  <2>3. drain' = drain
    <3>1. ASSUME NEW f PROVE ~Commit(f)
      BY <2>2 DEF Commit
    <3>2. CASE Chunk
      BY <3>1, <3>2 DEF Chunk
    <3> QED BY <1>6, <2>2, <3>1, <3>2 DEF MachineStart, MachineChunk, MachineCommit
  <2> QED BY <1>0, <2>1, <2>3
<1>7. ASSUME NEW phrase \in BOOLEAN, CorrectNow(phrase) PROVE FALSE
  <2>1. drain # "woken"
    BY <1>7 DEF CorrectNow, Input, InTurn, OnlyKeysCorrect
  <2> QED BY <1>7, <2>1 DEF CorrectNow
<1>8. CASE ToggleMode \/ (\E t \in Modes : SwitchMode(t) \/ SyncEngine(t)) \/ Push
           \/ AfterExpiry \/ AttachEngine
  BY <1>1, <1>8 DEF ToggleMode, SwitchMode, SyncEngine, Push, AfterExpiry, AttachEngine, Busy
<1>9. CASE SyntheticFocusOut \/ FocusOut \/ Reset
  BY <1>0, <1>1, <1>9, DiesFields DEF SyntheticFocusOut, FocusOut, Reset
<1> QED BY <1>2, <1>3, <1>4, <1>5, <1>6, <1>7, <1>8, <1>9 DEF Next

JInv == IInv /\ TextInv /\ TurnInv

LEMMA InitText == Init => TextInv /\ TurnInv
<1> SUFFICES ASSUME Init PROVE TextInv /\ TurnInv
  OBVIOUS
<1>1. /\ field = [c \in Contexts |-> [i \in 1 .. Ahead |-> "p"]]
      /\ ctx = 1 /\ slot = 1 /\ buf = <<>> /\ machine = NoMachine
      /\ queue = <<>> /\ drain = "idle" /\ after = NoRound
      /\ resets = 0 /\ inputs = 0 /\ typed = 0
  BY DEF Init
<1>2. ~Busy /\ machine.phase = "idle"
  BY <1>1, NoMachineTyped DEF Busy
<1>3. [i \in 1 .. Ahead |-> "p"] \in Texts
  BY BoundsAssumption DEF Ahead, Texts, Cells
<1>4. <<>> \in Texts /\ 1 \in Contexts
  BY BoundsAssumption DEF Texts, Contexts
<1>5. NoRound \in Rounds
  BY <1>4 DEF NoRound, Rounds
<1>6. field \in [Contexts -> Texts]
  BY <1>1, <1>3
<1>7. Types
  <2>1. queue \in Seq(KeyKinds) /\ resets \in Nat /\ inputs \in Nat /\ typed \in Int
    BY <1>1
  <2>2. /\ machine.ctx \in Contexts /\ machine.token \in Texts /\ machine.tail \in Texts
        /\ machine.left \in Nat
        /\ {machine.moved, machine.terminal, machine.phrase} \subseteq BOOLEAN
    BY <1>1, NoMachineTyped
  <2> QED BY <1>1, <1>4, <1>5, <1>6, <2>1, <2>2 DEF Types
<1>8. Ends(field[ctx], buf)
  BY <1>1, <1>4, <1>6, EndsWithNothing
<1>9. WordsOK
  BY <1>1, <1>2, <1>8, NoMachineTyped DEF WordsOK, BurstOK, LevelOK
<1> QED BY <1>1, <1>2, <1>7, <1>9 DEF TextInv, TurnInv

LEMMA StutterText ==
  ASSUME JInv, UNCHANGED vars
  PROVE  JInv'
<1>1. IInv'
  BY StutterInv DEF JInv
<1>2. Types'
  BY DEF JInv, TextInv, Types, vars
<1>3. Orderly => WordsOK'
  BY QuietWords DEF JInv, TextInv, Quiet, vars
<1>4. TurnInv'
  BY DEF JInv, TurnInv, OnlyKeysCorrect, InTurn, Busy, vars
<1> QED BY <1>1, <1>2, <1>3, <1>4 DEF JInv, TextInv, Orderly, InTurn, OnlyKeysCorrect

LEMMA StrongInductive == Spec => []JInv
<1>1. Init => JInv
  BY InitInv, InitText DEF JInv
<1>2. JInv /\ [Next]_vars => JInv'
  <2>1. JInv /\ Next => JInv'
    BY NextInv, NextText, NextTurn, KindsAssumption DEF JInv
  <2> QED BY <2>1, StutterText
<1> QED BY <1>1, <1>2, PTL DEF Spec

\* Between two steps of a machine in flight its text does not move.
LEMMA TextStands ==
  ASSUME InTurn, JInv, Next, Busy, machine' = machine
  PROVE  field'[machine.ctx] \in {field[machine.ctx], Append(field[machine.ctx], "p")}
<1>0. /\ Shape /\ TurnInv /\ Types
      /\ field \in [Contexts -> Texts] /\ slot \in Contexts /\ machine.ctx \in Contexts
      /\ machine.left \in Nat
  BY DEF JInv, IInv, TextInv, Types
<1>1. CASE field' = field
  BY <1>1
<1>2. ASSUME NEW k \in KeyKinds, Key(k)
      PROVE  field'[machine.ctx] \in {field[machine.ctx], Append(field[machine.ctx], "p")}
  <2>1. CASE Park(k)
    BY <2>1 DEF Park
  <2>2. CASE ~(Busy /\ Holdable(k)) /\ Arrive(k, FALSE)
    <3>1. k \notin TextKeys /\ k \in AllKeys
      BY <2>2, KindsAssumption DEF Holdable
    <3>2. Quiet \/ EndsLine
      BY <2>2, <3>1, ArriveText DEF Begins
    <3> QED BY <1>0, <3>2 DEF Quiet, EndsLine
  <2> QED BY <1>2, <2>1, <2>2 DEF Key
<1>3. CASE DrainKey
  BY <1>0, <1>3 DEF DrainKey, TurnInv
<1>4. CASE MachineStart \/ MachineChunk \/ MachineCommit
  <2>1. machine' # NoMachine
    BY NoMachineTyped DEF Busy
  <2>2. ASSUME NEW f PROVE ~Commit(f)
    BY <2>1 DEF Commit
  <2>3. CASE Chunk /\ machine.phase \in {"start", "burst"}
    <3>1. PICK n \in 0 .. machine.left : Erases(n) /\ (n = 0 => machine.left = 0)
      BY <1>0, <2>2, <2>3, ChunkText
    <3>2. /\ machine.left = machine.left - n
          /\ machine.phase = IF n = machine.left THEN "settle" ELSE "burst"
      BY <1>0, <3>1, ErasesFields
    <3>3. n = 0
      BY <1>0, <3>2
    <3> QED BY <2>3, <3>1, <3>2, <3>3
  <2> QED BY <1>4, <2>1, <2>2, <2>3 DEF MachineStart, MachineChunk, MachineCommit
<1>5. CASE DrainWaits \/ BoundExpires \/ (\E phrase \in BOOLEAN : CorrectNow(phrase)) \/ ToggleMode
           \/ (\E t \in Modes : SwitchMode(t) \/ SyncEngine(t)) \/ Push \/ AfterExpiry
           \/ AttachEngine
  BY <1>1, <1>5 DEF DrainWaits, BoundExpires, CorrectNow, ToggleMode, SwitchMode, SyncEngine, Push,
                    AfterExpiry, AttachEngine
<1>6. CASE SyntheticFocusOut \/ FocusOut \/ Reset
  BY <1>1, <1>6 DEF SyntheticFocusOut, FocusOut, Reset, ContextDies
<1> QED BY <1>2, <1>3, <1>4, <1>5, <1>6 DEF Next

\* executeLevel2 and replayBurst: no BackSpace goes beyond the word and its
\* tail, whatever keys, gestures, resets and moves of the focus its windows
\* let in (Enter is the exception, which no condition but its absence mends).
THEOREM ErasesTheWord == Orderly /\ Spec => []EraseOnlyTheWord
<1> SUFFICES ASSUME Orderly PROVE Spec => []EraseOnlyTheWord
  OBVIOUS
<1>1. JInv => EraseOnlyTheWord
  BY WordsMeanErase DEF JInv, TextInv
<1> QED BY <1>1, StrongInductive, PTL

\* The typed-input buffer between corrections: the next correction erases
\* what it means to.
THEOREM MirrorsTheText == Orderly /\ Spec => []Mirror
<1> SUFFICES ASSUME Orderly PROVE Spec => []Mirror
  OBVIOUS
<1>1. JInv => Mirror
  BY WordsMeanMirror DEF JInv, TextInv
<1> QED BY <1>1, StrongInductive, PTL

\* holdDuringDelivery: no typed key reaches the client ahead of the commit
\* of a machine in flight, Enter or not, as long as the woken drainer is the
\* next to have the mutex.
THEOREM KeysComeAfter == InTurn /\ Spec => KeysFollowTheCommit
<1> SUFFICES ASSUME InTurn PROVE Spec => KeysFollowTheCommit
  OBVIOUS
<1>1. JInv /\ [Next]_vars =>
        [Busy /\ machine' = machine
           => field'[machine.ctx] \in {field[machine.ctx], Append(field[machine.ctx], "p")}]_vars
  BY TextStands
<1> QED BY <1>1, StrongInductive, PTL DEF Spec, KeysFollowTheCommit

(***************************************************************************)
(* The mode the next key will see.                                         *)
(***************************************************************************)
Eff(m) == IF m.flip.target = "none" THEN m.mode ELSE m.flip.target

\* A flip asks for its target, done or parked; one at rest leaves the slot.
LEMMA FlipEffective ==
  ASSUME NEW m \in ModeStates, NEW t \in Modes, NEW busy \in BOOLEAN
  PROVE  /\ Eff(Flip(m, t, busy)) \in {t, Eff(m)}
         /\ m.flip.target \in {"none", t} => Eff(Flip(m, t, busy)) = t
         /\ ~busy /\ m.flip.target # "none" => Eff(Flip(m, t, busy)) = Eff(m)
<1>1. CASE t = m.mode
  BY <1>1 DEF Flip, Eff
<1>2. CASE t # m.mode /\ busy
  <2>1. Flip(m, t, busy) = [m EXCEPT !.flip = [target |-> t, gesture |-> TRUE]]
    BY <1>2 DEF Flip
  <2>2. Flip(m, t, busy).flip.target = t /\ t # "none"
    BY <2>1 DEF ModeStates, Modes
  <2> QED BY <1>2, <2>2 DEF Eff
<1>3. CASE t # m.mode /\ ~busy
  <2>1. Flip(m, t, busy) = [m EXCEPT !.mode = t, !.credit = m.credit + 1]
    BY <1>3 DEF Flip
  <2>2. Flip(m, t, busy).flip = m.flip /\ Flip(m, t, busy).mode = t
    BY <2>1 DEF ModeStates
  <2> QED BY <2>2 DEF Eff
<1> QED BY <1>1, <1>2, <1>3

\* The release of the slot gives the next key what it would have seen.
LEMMA ReleaseEffective ==
  ASSUME NEW m \in ModeStates, NEW busy \in BOOLEAN
  PROVE  Eff(ReleaseFlip(m, busy)) = Eff(m)
<1>1. CASE m.flip.target = "none"
  BY <1>1 DEF ReleaseFlip
<1>2. CASE m.flip.target # "none"
  <2> DEFINE g == [m EXCEPT !.flip = NoFlip]
  <2>1. NoFlip \in Flips /\ NoFlip.target = "none"
    BY DEF NoFlip, Flips
  <2>2. g \in ModeStates /\ g.flip.target = "none"
    BY <2>1, SetFlip DEF ModeStates
  <2>3. m.flip.target \in Modes
    BY <1>2, <2>1 DEF ModeStates, Flips
  <2>4. ReleaseFlip(m, busy) = Flip(g, m.flip.target, busy)
    BY <1>2 DEF ReleaseFlip
  <2> HIDE DEF g
  <2> QED BY <1>2, <2>2, <2>3, <2>4, FlipEffective DEF Eff
<1> QED BY <1>1, <1>2

\* A combo that is settled asks for the other layout.
LEMMA SettleEffective ==
  ASSUME NEW m \in ModeStates, NEW busy \in BOOLEAN
  PROVE  /\ ~m.combo => SettleCombo(m, busy) = m
         /\ m.combo => Eff(SettleCombo(m, busy)) \in {Opposite(m.mode), Eff(m)}
         /\ m.combo /\ m.flip.target \in {"none", Opposite(m.mode)}
              => Eff(SettleCombo(m, busy)) = Opposite(m.mode)
<1>1. CASE m.combo
  <2> DEFINE g == [m EXCEPT !.combo = FALSE]
  <2>1. g \in ModeStates /\ g.flip = m.flip /\ g.mode = m.mode
    BY SetCombo DEF ModeStates
  <2>2. Opposite(m.mode) \in Modes
    BY OppositeMode DEF ModeStates
  <2>3. SettleCombo(m, busy) = Flip(g, Opposite(m.mode), busy)
    BY <1>1 DEF SettleCombo
  <2>4. Eff(g) = Eff(m)
    BY <2>1 DEF Eff
  <2> HIDE DEF g
  <2> QED BY <1>1, <2>1, <2>2, <2>3, <2>4, FlipEffective
<1>2. CASE ~m.combo
  BY <1>2 DEF SettleCombo
<1> QED BY <1>1, <1>2

\* What a commit leaves the next key to type in.
LEMMA CommitEffective ==
  ASSUME Shape, NEW f, Commit(f)
  PROVE  /\ modes.flip.target \in {"none", Following} => Eff(modes') = Following
         /\ Eff(modes') \in {Following, Eff(modes)}
         /\ ~modes.combo /\ modes.flip.gesture => Eff(modes') = Eff(modes)
<1> DEFINE t == ScriptOf(Converted(machine.token))
           m == IF machine.terminal THEN DeferFlip(modes, t) ELSE FollowScript(modes, t)
<1>0. t \in Modes /\ modes \in ModeStates /\ m \in ModeStates
  BY ScriptIsMode, CorrectedModes DEF Shape
<1>1. modes' = SettleCombo(m, FALSE)
  BY DEF Commit
<1>2. CASE modes.combo
  <2>1. m = modes
    BY <1>2 DEF DeferFlip, FollowScript
  <2>2. Following = Opposite(modes.mode)
    BY <1>2 DEF Following
  <2> HIDE DEF m
  <2> QED BY <1>0, <1>1, <1>2, <2>1, <2>2, SettleEffective
<1>3. CASE ~modes.combo /\ ~FlipAfter
  <2>1. m = modes
    BY <1>3 DEF DeferFlip, FollowScript
  <2>2. modes' = modes
    <3> HIDE DEF m
    <3> QED BY <1>0, <1>1, <1>3, <2>1, SettleEffective
  <2>3. Following = modes.mode
    BY <1>3 DEF Following
  <2> QED BY <2>2, <2>3 DEF Eff
<1>4. CASE ~modes.combo /\ FlipAfter
  <2>1. Following = t
    BY <1>4 DEF Following
  <2>2. modes.flip.gesture => modes.flip.target # "none"
    BY <1>0 DEF ModeStates, Flips, NoFlip, Modes
  <2> HIDE DEF t
  <2>3. CASE ~machine.terminal
    <3>1. m = Flip(modes, t, FALSE)
      BY <1>4, <2>3 DEF FollowScript
    <3> HIDE DEF m
    <3>2. ~m.combo
      BY <1>0, <1>4, <3>1, FlipModes
    <3>3. modes' = m
      BY <1>0, <1>1, <3>2, SettleEffective
    <3> QED BY <1>0, <2>1, <2>2, <3>1, <3>3, FlipEffective
  <2>4. CASE machine.terminal /\ (modes.flip.gesture \/ t = modes.mode)
    <3>1. m = modes
      BY <2>4 DEF DeferFlip
    <3>2. modes' = modes
      <4> HIDE DEF m
      <4> QED BY <1>0, <1>1, <1>4, <3>1, SettleEffective
    <3> QED BY <2>1, <2>2, <2>4, <3>2 DEF Eff
  <2>5. CASE machine.terminal /\ ~modes.flip.gesture /\ t # modes.mode
    <3>1. m = [modes EXCEPT !.flip = [target |-> t, gesture |-> FALSE]]
      BY <1>4, <2>5 DEF DeferFlip
    <3>2. ~m.combo /\ m.flip.target = t /\ t # "none"
      BY <1>0, <1>4, <3>1 DEF ModeStates, Modes
    <3>3. modes' = m
      <4> HIDE DEF m
      <4> QED BY <1>0, <1>1, <3>2, SettleEffective
    <3> HIDE DEF m
    <3> QED BY <2>1, <2>5, <3>2, <3>3 DEF Eff
  <2> QED BY <2>3, <2>4, <2>5
<1> QED BY <1>2, <1>3, <1>4

\* A key that is no gesture leaves the next key what it would have seen.
LEMMA ArriveEffective ==
  ASSUME Shape, NEW k \in AllKeys \ {"combo", "chord"}, NEW d, Arrive(k, d)
  PROVE  Eff(modes') = Eff(modes)
<1>1. modes' = ReleaseFlip(modes, Busy)
  BY DEF Arrive, AllKeys, TextKeys
<1>2. Busy \in BOOLEAN /\ modes \in ModeStates
  BY DEF Busy, Shape
<1> QED BY <1>1, <1>2, ReleaseEffective

\* A machine ends with nothing but its commit or its refusal to start.
LEMMA CommitsCommit ==
  ASSUME IInv, Next, KeyKinds \subseteq AllKeys, Commits
  PROVE  \E f : Commit(f)
<1>0. Shape /\ Busy /\ ~Busy' /\ machine' # machine
  BY NoMachineTyped DEF IInv, Commits, Busy
<1>1. CASE MachineStart \/ MachineChunk \/ MachineCommit
  <2>1. CASE Chunk
    BY <1>0, <2>1, ChunkStep DEF Busy
  <2> QED BY <1>1, <2>1 DEF MachineStart, MachineChunk, MachineCommit, Commits
<1>2. ASSUME NEW d \in BOOLEAN, Starts(d) PROVE FALSE
  BY <1>0, <1>2 DEF Starts
<1>3. ASSUME NEW k \in KeyKinds, Key(k) PROVE FALSE
  <2>1. CASE Park(k)
    BY <1>0, <2>1 DEF Park
  <2>2. CASE Arrive(k, FALSE)
    BY <1>2, <2>2, ArriveStep DEF IInv
  <2> QED BY <1>3, <2>1, <2>2 DEF Key
<1>4. CASE DrainKey
  <2>1. Head(queue) \in AllKeys
    BY <1>4 DEF DrainKey, IInv, Shape, ParkedKeysHaveDrainer
  <2>2. Arrive(Head(queue), TRUE)
    BY <1>4 DEF DrainKey
  <2> QED BY <1>2, <2>1, <2>2, ArriveStep DEF IInv
<1>5. ASSUME NEW p \in BOOLEAN, CorrectNow(p) PROVE FALSE
  BY <1>0, <1>2, <1>5, CorrectStep DEF CorrectNow, Shape
<1>6. CASE SyntheticFocusOut \/ FocusOut \/ Reset
  BY <1>0, <1>6, DiesFields DEF SyntheticFocusOut, FocusOut, Reset
<1>7. CASE DrainWaits \/ BoundExpires \/ ToggleMode \/ Push \/ AfterExpiry \/ AttachEngine
           \/ \E t \in Modes : SwitchMode(t) \/ SyncEngine(t)
  BY <1>0, <1>7 DEF DrainWaits, BoundExpires, ToggleMode, SwitchMode, SyncEngine, Push,
                    AfterExpiry, AttachEngine
<1> QED BY <1>1, <1>3, <1>4, <1>5, <1>6, <1>7 DEF Next

\* What may move the mode the next key will see.
MayMove ==
  \/ Gestures
  \/ Eff(modes') = Following /\ (modes.combo \/ (Commits /\ ~modes.flip.gesture))

LEMMA OnlyTheseMove ==
  ASSUME IInv, Next, KeyKinds \subseteq AllKeys
  PROVE  Eff(modes') = Eff(modes) \/ MayMove
<1>0. Shape /\ modes \in ModeStates /\ Busy \in BOOLEAN /\ (modes.combo => Busy /\ ~machine.moved)
  BY DEF IInv, Shape, Busy, ComboHasOwner
<1>c. ASSUME NEW f, Commit(f), Commits PROVE Eff(modes') = Eff(modes) \/ MayMove
  BY <1>0, <1>c, CommitEffective DEF MayMove
<1>s. ASSUME NEW busy \in BOOLEAN, modes' = SettleCombo(modes, busy)
      PROVE  Eff(modes') = Eff(modes) \/ MayMove
  BY <1>0, <1>s, SettleEffective DEF MayMove, Following
<1>1. CASE modes' = modes
  BY <1>1
<1>2. CASE MachineStart \/ MachineChunk \/ MachineCommit
  <2>0. Busy
    BY <1>2 DEF MachineStart, MachineChunk, MachineCommit, Busy
  <2>1. CASE Chunk /\ ~(machine.phase = "start" /\ machine.moved)
    <3>1. ASSUME NEW f, Commit(f) PROVE Eff(modes') = Eff(modes) \/ MayMove
      BY <1>c, <2>0, <2>1, <3>1 DEF Commits, Commit
    <3> QED BY <1>1, <2>1, <3>1 DEF Chunk
  <2>2. CASE MachineStart /\ machine.moved
    BY <1>s, <2>2 DEF MachineStart
  <2>3. CASE MachineCommit
    BY <1>c, <2>0, <2>3 DEF MachineCommit, Commits, Commit
  <2> QED BY <1>2, <2>1, <2>2, <2>3 DEF MachineStart, MachineChunk
<1>3. ASSUME NEW k \in KeyKinds, Key(k) PROVE Eff(modes') = Eff(modes) \/ MayMove
  <2>1. CASE k \in {"combo", "chord"}
    BY <1>3, <2>1 DEF MayMove, Gestures
  <2>2. CASE Park(k)
    BY <1>1, <2>2 DEF Park
  <2>3. CASE k \notin {"combo", "chord"} /\ Arrive(k, FALSE)
    BY <1>0, <2>3, ArriveEffective
  <2> QED BY <1>3, <2>1, <2>2, <2>3 DEF Key
<1>4. CASE DrainKey
  <2>1. Head(queue) \in AllKeys
    BY <1>4 DEF DrainKey, IInv, Shape, ParkedKeysHaveDrainer
  <2>2. CASE Head(queue) \in {"combo", "chord"}
    BY <1>4, <2>2 DEF MayMove, Gestures
  <2>3. CASE Head(queue) \notin {"combo", "chord"}
    BY <1>0, <1>4, <2>1, <2>3, ArriveEffective DEF DrainKey
  <2> QED BY <2>2, <2>3
<1>5. ASSUME NEW p \in BOOLEAN, CorrectNow(p) PROVE Eff(modes') = Eff(modes) \/ MayMove
  BY <1>0, <1>1, <1>s, <1>5 DEF CorrectNow, Correct
<1>6. CASE ToggleMode \/ \E t \in Modes : SwitchMode(t) \/ SyncEngine(t)
  BY <1>6 DEF MayMove, Gestures
<1>7. CASE Push
  BY <1>0, <1>1, <1>7, ReleaseEffective DEF Push
<1>8. CASE SyntheticFocusOut \/ FocusOut \/ Reset
  <2>1. modes'.flip = modes.flip
    BY <1>0, <1>8, DiesFields DEF SyntheticFocusOut, FocusOut, Reset
  <2>2. modes'.mode = modes.mode
    BY <1>0, <1>8 DEF SyntheticFocusOut, FocusOut, Reset, ContextDies, ModeStates
  <2> QED BY <2>1, <2>2 DEF Eff
<1>9. CASE DrainWaits \/ BoundExpires \/ AfterExpiry \/ AttachEngine
  BY <1>1, <1>9 DEF DrainWaits, BoundExpires, AfterExpiry, AttachEngine
<1> QED BY <1>2, <1>3, <1>4, <1>5, <1>6, <1>7, <1>8, <1>9 DEF Next

\* deferCorrectionFlip, settleCorrectionFlip, settleCombo, flipTo: under any
\* scheduling and whatever starts the corrections, the key after a commit
\* types in the mode the commit asks for, unless another flip waits; and
\* nothing but a commit and the owner moves that mode, nor does a commit
\* overrule a gesture that waits.
THEOREM ModeIsTheResults == Spec => ModeFollowsResult
<1>1. Effective = Eff(modes) /\ Effective' = Eff(modes')
  BY DEF Effective, Eff
<1>2. ASSUME IInv, Next
      PROVE  /\ Commits /\ modes.flip.target \in {"none", Following} => Effective' = Following
             /\ Effective' # Effective
                  => \/ Gestures
                     \/ /\ Effective' = Following
                        /\ modes.combo \/ (Commits /\ ~modes.flip.gesture)
  <2>1. Commits => \E f : Commit(f)
    BY <1>2, CommitsCommit, KindsAssumption
  <2>2. Eff(modes') = Eff(modes) \/ MayMove
    BY <1>2, OnlyTheseMove, KindsAssumption
  <2> QED BY <1>1, <1>2, <2>1, <2>2, CommitEffective DEF IInv, MayMove
<1>3. ASSUME UNCHANGED vars
      PROVE  Effective' = Effective /\ ~Commits
  BY <1>3, NoMachineTyped DEF vars, Effective, Commits, Busy
<1>4. IInv /\ [Next]_vars
        => [/\ Commits /\ modes.flip.target \in {"none", Following} => Effective' = Following
            /\ Effective' # Effective
                 => \/ Gestures
                    \/ /\ Effective' = Following
                       /\ modes.combo \/ (Commits /\ ~modes.flip.gesture)]_vars
  BY <1>2, <1>3
<1> QED BY <1>4, Inductive, PTL DEF Spec, ModeFollowsResult

(***************************************************************************)
(* The keys, under any scheduling.  A burst never finds a text too short   *)
(* for it, because a text has lost no more cells than keys have reached it *)
(* and the cap bounds the burst; so each step moves cells between the      *)
(* texts, the queue and the machine and loses none.                        *)
(***************************************************************************)
\* What the machine has taken out of the text of context c.
Gone(c) == IF c = machine.ctx THEN Len(machine.erased) ELSE 0

\* The cells a burst can count on.
Room ==
  /\ Len(queue) =< inputs /\ inputs =< MaxInputs
  /\ machine \in Machines
  /\ machine.phase \in {"idle", "start"} => machine.erased = <<>>
  /\ machine.phase = "settle" => machine.left = 0
  /\ Busy => /\ Len(machine.erased) + machine.left = Len(machine.token) + Len(machine.tail)
             /\ Len(machine.erased) + machine.left =< BackspaceCap
  /\ \A c \in Contexts : Len(field[c]) + Gone(c) + inputs >= Ahead + Len(queue)

\* What the proofs about the keys know of a state.
KInv == JInv /\ Room /\ Conserved

\* Lengths and bounds are numbers.
LEMMA Lengths ==
  /\ \A s \in Texts : Len(s) \in Nat
  /\ \A q \in Seq(KeyKinds) : Len(q) \in Nat
  /\ Len(<<>>) = 0
BY DEF Texts

LEMMA Bounds ==
  /\ MaxCtx \in Nat /\ MaxInputs \in Nat /\ BackspaceCap \in Nat
  /\ Ahead \in Nat /\ Ahead = MaxInputs + BackspaceCap
  /\ MaxCtx * Ahead \in Nat
<1>1. MaxCtx \in Nat /\ MaxInputs \in Nat /\ BackspaceCap \in Nat
  BY BoundsAssumption
<1>2. Ahead \in Nat /\ Ahead = MaxInputs + BackspaceCap
  BY <1>1 DEF Ahead
<1>3. MaxCtx * Ahead \in Nat
  BY <1>1, <1>2
<1> QED BY <1>1, <1>2, <1>3

\* The number of cells in all the texts, when one text changes.
LEMMA OneTextChanges ==
  ASSUME NEW f \in [Contexts -> Texts], NEW g \in [Contexts -> Texts], NEW c \in Contexts,
         \A d \in Contexts : d # c => Len(g[d]) = Len(f[d])
  PROVE  /\ InTexts(f) \in Int
         /\ InTexts(g) = InTexts(f) + Len(g[c]) - Len(f[c])
<1> DEFINE F == [d \in Contexts |-> Len(f[d])]
           G == [d \in Contexts |-> Len(g[d])]
<1>1. MaxCtx \in Nat /\ Contexts = 1 .. MaxCtx
  BY BoundsAssumption DEF Contexts
<1>2. \A d \in 1 .. MaxCtx : F[d] \in Int /\ G[d] \in Int
  BY <1>1 DEF Texts
<1>3. \A d \in 1 .. MaxCtx : d # c => G[d] = F[d]
  BY <1>1
<1>4. F[c] = Len(f[c]) /\ G[c] = Len(g[c]) /\ c \in 1 .. MaxCtx /\ F[c] \in Int /\ G[c] \in Int
  BY <1>1, <1>2
<1>5. InTexts(f) = Total(F, MaxCtx) /\ InTexts(g) = Total(G, MaxCtx)
  BY DEF InTexts
<1> HIDE DEF F, G
<1>6. Total(F, MaxCtx) \in Int
  BY <1>1, <1>2, TotalStep
<1>7. MaxCtx \in 0 .. MaxCtx
  BY <1>1
<1>8. Total(G, MaxCtx) = Total(F, MaxCtx) + IF c \in 1 .. MaxCtx THEN G[c] - F[c] ELSE 0
  BY <1>1, <1>2, <1>3, <1>7, TotalChanged
<1> QED BY <1>4, <1>5, <1>6, <1>8

\* A key joins the queue at its end and leaves it at its head.
LEMMA QueueCounts ==
  ASSUME NEW q \in Seq(KeyKinds)
  PROVE  /\ InQueue(q) \in Int
         /\ q = <<>> => InQueue(q) = 0
         /\ \A k \in KeyKinds : InQueue(Append(q, k)) = InQueue(q) + Adds(k)
         /\ q # <<>> => InQueue(q) = Adds(Head(q)) + InQueue(Tail(q))
<1> DEFINE A(s) == [i \in DOMAIN s |-> Adds(s[i])]
<1>1. ASSUME NEW s \in Seq(KeyKinds)
      PROVE  /\ Len(s) \in Nat /\ DOMAIN s = 1 .. Len(s)
             /\ \A i \in 1 .. Len(s) : A(s)[i] = Adds(s[i]) /\ A(s)[i] \in Int
             /\ InQueue(s) = Total(A(s), Len(s))
             /\ InQueue(s) \in Int
  <2>1. Len(s) \in Nat /\ DOMAIN s = 1 .. Len(s)
    OBVIOUS
  <2>2. \A i \in 1 .. Len(s) : A(s)[i] = Adds(s[i]) /\ A(s)[i] \in Int
    BY <2>1, AddsInt
  <2>3. InQueue(s) = Total(A(s), Len(s))
    BY DEF InQueue
  <2> HIDE DEF A
  <2> QED BY <2>1, <2>2, <2>3, TotalStep
<1>2. q = <<>> => InQueue(q) = 0
  <2> SUFFICES ASSUME q = <<>> PROVE InQueue(q) = 0
    OBVIOUS
  <2>1. Len(q) = 0
    OBVIOUS
  <2> HIDE DEF A
  <2> QED BY <1>1, <2>1, TotalStep
<1>3. ASSUME NEW k \in KeyKinds PROVE InQueue(Append(q, k)) = InQueue(q) + Adds(k)
  <2> DEFINE r == Append(q, k)
             n == Len(q)
  <2>1. r \in Seq(KeyKinds) /\ Len(r) = n + 1 /\ n \in Nat /\ r[n + 1] = k
        /\ \A i \in 1 .. n : r[i] = q[i]
    OBVIOUS
  <2> HIDE DEF A, r, n
  <2>2. Total(A(r), n + 1) = Total(A(r), n) + Adds(k)
    <3>1. n + 1 \in Nat /\ n + 1 > 0 /\ (n + 1) - 1 = n /\ n + 1 \in 1 .. n + 1
      BY <2>1
    <3>2. \A i \in 1 .. n + 1 : A(r)[i] \in Int
      BY <1>1, <2>1
    <3>3. A(r)[n + 1] = Adds(k)
      BY <1>1, <2>1, <3>1
    <3> QED BY <3>1, <3>2, <3>3, TotalStep
  <2>3. Total(A(r), n) = Total(A(q), n)
    <3>1. \A i \in 1 .. n : A(r)[i] \in Int /\ A(q)[i] \in Int /\ A(r)[i] = A(q)[i]
      <4> TAKE i \in 1 .. n
      <4>1. i \in 1 .. Len(r) /\ i \in 1 .. Len(q)
        BY <2>1 DEF n
      <4> QED BY <1>1, <2>1, <4>1
    <3> QED BY <2>1, <3>1, TotalSame
  <2>4. InQueue(r) = Total(A(r), n + 1) /\ InQueue(q) = Total(A(q), n)
    BY <1>1, <2>1 DEF n
  <2> QED BY <2>2, <2>3, <2>4 DEF r
<1>4. ASSUME q # <<>> PROVE InQueue(q) = Adds(Head(q)) + InQueue(Tail(q))
  <2> DEFINE r == Tail(q)
             n == Len(r)
  <2>1. /\ r \in Seq(KeyKinds) /\ n \in Nat /\ Len(q) = n + 1 /\ q[1] = Head(q)
        /\ \A i \in 1 .. n : r[i] = q[i + 1]
    BY <1>4
  <2> HIDE DEF A, r, n
  <2>2. \A i \in 1 .. n + 1 : A(q)[i] \in Int
    BY <1>1, <2>1
  <2>3. \A i \in 1 .. n : A(r)[i] = A(q)[i + 1]
    <3> TAKE i \in 1 .. n
    <3>1. i \in 1 .. Len(r) /\ i + 1 \in 1 .. Len(q)
      BY <2>1 DEF n
    <3> QED BY <1>1, <2>1, <3>1
  <2>4. n \in 0 .. n /\ 1 \in 1 .. Len(q)
    BY <2>1
  <2>5. Total(A(q), n + 1) = A(q)[1] + Total(A(r), n)
    BY <2>1, <2>2, <2>3, <2>4, TotalTail
  <2>6. A(q)[1] = Adds(Head(q))
    BY <1>1, <2>1, <2>4
  <2>7. InQueue(q) = Total(A(q), n + 1) /\ InQueue(r) = Total(A(r), n)
    BY <1>1, <2>1 DEF n
  <2> QED BY <2>5, <2>6, <2>7 DEF r
<1> QED BY <1>1, <1>2, <1>3, <1>4

LEMMA ConvertedKeepsLen == \A s \in Texts : Len(Converted(s)) = Len(s)
<1> TAKE s \in Texts
<1>1. DOMAIN Converted(s) = DOMAIN s
  BY DEF Converted
<1>2. Converted(s) \in Texts /\ s \in Texts
  BY ConvertedIsText
<1> QED BY <1>1, <1>2 DEF Texts

\* What a processed key does to the text, by what it counts for.
LEMMA ArriveCounts ==
  ASSUME NEW k \in AllKeys, NEW d \in BOOLEAN, Arrive(k, d)
  PROVE  \/ /\ Adds(k) = 1 /\ machine' = machine
            /\ \E c \in Cells : field' = [field EXCEPT ![slot] = Append(@, c)]
         \/ /\ Adds(k) = -1 /\ machine' = machine
            /\ field' = [field EXCEPT ![slot] = DropLast(@, 1)]
         \/ Adds(k) = 0 /\ field' = field /\ (machine' = machine \/ Begins(FALSE, d))
<1> DEFINE m == ReleaseFlip(modes, Busy)
<1>1. CASE k = "letter"
  <2>1. \E c \in Cells : field' = [field EXCEPT ![slot] = Append(@, c)]
    BY <1>1 DEF Arrive, Cells
  <2> QED BY <1>1, <2>1 DEF Arrive, Adds
<1>2. CASE k = "space"
  <2>1. field' = [field EXCEPT ![slot] = Append(@, "s")] /\ "s" \in Cells
    BY <1>2 DEF Arrive, Cells
  <2> QED BY <1>2, <2>1 DEF Arrive, Adds
<1>3. CASE k = "backspace"
  BY <1>3 DEF Arrive, Adds
<1>4. CASE k = "enter"
  <2>1. field' = [field EXCEPT ![slot] = Append(@, "p")] /\ "p" \in Cells
    BY <1>4 DEF Arrive, Cells
  <2> QED BY <1>4, <2>1 DEF Arrive, Adds
<1>5. CASE k = "combo"
  <2>1. Correct([m EXCEPT !.combo = TRUE], FALSE, d) /\ UNCHANGED <<field, buf>>
    BY <1>5 DEF Arrive
  <2>2. Adds(k) = 0
    BY <1>5 DEF Adds
  <2> HIDE DEF m
  <2>3. Quiet \/ Begins(FALSE, d)
    BY <2>1, CorrectText
  <2> QED BY <2>1, <2>2, <2>3 DEF Quiet
<1>6. CASE k \in {"chord", "modifier"}
  BY <1>6 DEF Arrive, Adds
<1> QED BY <1>1, <1>2, <1>3, <1>4, <1>5, <1>6 DEF AllKeys, TextKeys

\* A machine that starts, and one that stays what it is to the text.
Begun ==
  /\ ~Busy /\ Busy'
  /\ machine' \in Machines
  /\ machine'.phase = "start" /\ machine'.erased = <<>>
  /\ machine'.left = Len(machine'.token) + Len(machine'.tail)
  /\ machine'.left =< BackspaceCap
Stays ==
  /\ machine' \in Machines
  /\ machine'.phase = machine.phase /\ machine'.ctx = machine.ctx
  /\ machine'.token = machine.token /\ machine'.tail = machine.tail
  /\ machine'.left = machine.left /\ machine'.erased = machine.erased

LEMMA BeginsBegun ==
  ASSUME Types, NEW p \in BOOLEAN, NEW d \in BOOLEAN, Begins(p, d)
  PROVE  Begun
<1>1. Token(p) \in Texts /\ Behind(p) \in Texts /\ <<>> \in Texts
  <2>1. <<>> \in Texts
    BY DEF Texts
  <2> QED BY <2>1, WordParts DEF Token, Behind, Types
<1>2. Len(Token(p)) + Len(Behind(p)) \in Nat
  BY <1>1 DEF Texts
<1>3. PICK terminal \in BOOLEAN :
        machine' = [phase |-> "start", ctx |-> slot, token |-> Token(p), tail |-> Behind(p),
                    left |-> Len(Token(p)) + Len(Behind(p)), erased |-> <<>>, moved |-> FALSE,
                    terminal |-> terminal, phrase |-> p, byDrain |-> d]
  BY DEF Begins
<1>4. slot \in Contexts /\ "start" \in Phases
  BY DEF Types, Phases
<1>5. machine' \in Machines
  BY <1>1, <1>2, <1>3, <1>4 DEF Machines
<1>6. ~Busy /\ Len(Token(p)) + Len(Behind(p)) =< BackspaceCap
  BY DEF Begins
<1> QED BY <1>3, <1>5, <1>6 DEF Begun, Busy

\* The texts stay long enough where a step takes no more cells than the
\* inputs it counts, or the parked keys it takes up.
LEMMA RoomStays ==
  ASSUME JInv, JInv', Room, Stays \/ Begun,
         Len(queue') =< inputs', inputs' =< MaxInputs,
         \A c \in Contexts : Len(field'[c]) + inputs' + Len(queue) >= Len(field[c]) + inputs + Len(queue')
  PROVE  Room'
<1>0. /\ \A c \in Contexts : field[c] \in Texts /\ field'[c] \in Texts
      /\ queue \in Seq(KeyKinds) /\ queue' \in Seq(KeyKinds) /\ inputs \in Nat /\ inputs' \in Nat
  BY DEF JInv, TextInv, Types
<1>1. /\ \A c \in Contexts : Len(field[c]) \in Nat /\ Len(field'[c]) \in Nat
      /\ Len(queue) \in Nat /\ Len(queue') \in Nat /\ inputs \in Nat /\ inputs' \in Nat
  BY <1>0, Lengths
<1>2. Len(<<>>) = 0 /\ Len(machine.erased) \in Nat
  BY Lengths DEF Room, Machines
\* the arithmetic of one context
<1>a. ASSUME NEW c \in Contexts, NEW g \in Nat, Gone(c) = g, Gone(c)' = g
      PROVE  Len(field'[c]) + Gone(c)' + inputs' >= Ahead + Len(queue')
  <2> DEFINE a == Len(field[c])
             b == Len(field'[c])
             p == Len(queue)
             q == Len(queue')
             j == inputs'
  <2>1. a + g + inputs >= Ahead + p
    BY <1>a DEF Room
  <2>2. b + j + p >= a + inputs + q
    OBVIOUS
  <2>3. a \in Nat /\ b \in Nat /\ p \in Nat /\ q \in Nat /\ inputs \in Nat /\ j \in Nat
        /\ Ahead \in Nat
    BY <1>1, Bounds
  <2> HIDE DEF a, b, p, q, j
  <2>4. b + g + j >= Ahead + q
    BY <2>1, <2>2, <2>3
  <2> QED BY <1>a, <2>4 DEF b, q, j
<1>3. CASE Stays
  <2>1. \A c \in Contexts : Gone(c)' = Gone(c) /\ Gone(c) \in Nat
    BY <1>2, <1>3 DEF Gone, Stays
  <2>2. \A c \in Contexts : Len(field'[c]) + Gone(c)' + inputs' >= Ahead + Len(queue')
    BY <1>a, <2>1
  <2> QED BY <1>3, <2>2 DEF Room, Stays, Busy
<1>4. CASE Begun
  <2>1. machine.erased = <<>>
    BY <1>4 DEF Room, Begun, Busy
  <2>2. \A c \in Contexts : Gone(c)' = 0 /\ Gone(c) = 0
    BY <1>2, <1>4, <2>1 DEF Gone, Begun
  <2>3. \A c \in Contexts : Len(field'[c]) + Gone(c)' + inputs' >= Ahead + Len(queue')
    BY <1>a, <2>2
  <2>4. machine'.left \in Nat /\ Len(machine'.erased) = 0
    BY <1>2, <1>4 DEF Begun, Machines
  <2>5. Len(machine'.erased) + machine'.left = machine'.left
    BY <2>4
  <2> QED BY <1>4, <2>3, <2>5 DEF Room, Begun
<1> QED BY <1>3, <1>4

\* The cells of the machine, where it stays or starts.
LEMMA ErasedStays ==
  ASSUME Room, Stays \/ Begun
  PROVE  Len(machine'.erased) = Len(machine.erased) /\ Len(machine.erased) \in Nat
<1>1. Len(machine.erased) \in Nat
  BY DEF Room, Machines, Texts
<1>2. CASE Stays
  BY <1>1, <1>2 DEF Stays
<1>3. CASE Begun
  BY <1>1, <1>3 DEF Room, Begun, Busy
<1> QED BY <1>2, <1>3, <1>1

\* Steps that write no text: an entry, a flip, a death, an expiry.
LEMMA QuietKeys ==
  ASSUME KInv, JInv', Stays \/ Begun, UNCHANGED <<field, queue, typed>>,
         inputs' = inputs \/ (inputs < MaxInputs /\ inputs' = inputs + 1)
  PROVE  KInv'
<1>0. /\ \A c \in Contexts : field[c] \in Texts
      /\ queue \in Seq(KeyKinds) /\ inputs \in Nat
  BY DEF KInv, JInv, TextInv, Types
<1>1. /\ \A c \in Contexts : Len(field[c]) \in Nat
      /\ Len(queue) \in Nat /\ inputs \in Nat /\ MaxInputs \in Nat
  BY <1>0, Lengths, Bounds
<1>2. Len(queue') =< inputs' /\ inputs' =< MaxInputs
  BY <1>1 DEF KInv, Room
<1>3. \A c \in Contexts :
        Len(field'[c]) + inputs' + Len(queue) >= Len(field[c]) + inputs + Len(queue')
  <2> TAKE c \in Contexts
  <2> DEFINE a == Len(field[c])
             p == Len(queue)
  <2>1. a \in Nat /\ p \in Nat /\ Len(field'[c]) = a /\ Len(queue') = p
    BY <1>1
  <2> HIDE DEF a, p
  <2>2. a + inputs' + p >= a + inputs + p
    BY <1>1, <2>1
  <2> QED BY <2>1, <2>2 DEF a, p
<1>4. Room'
  BY <1>2, <1>3, RoomStays DEF KInv
<1>5. Conserved'
  BY ErasedStays DEF KInv, Conserved
<1> QED BY <1>4, <1>5 DEF KInv

LEMMA StaysWhenLeft ==
  /\ Room /\ machine' = machine => Stays
  /\ Room /\ machine' = [machine EXCEPT !.moved = TRUE] => Stays
<1>1. Room => machine \in Machines
  BY DEF Room
<1>2. machine \in Machines /\ machine' = [machine EXCEPT !.moved = TRUE] => Stays
  BY DEF Machines, Stays
<1> QED BY <1>1, <1>2 DEF Stays

\* The machine never holds more than the cap.
LEMMA GoneIsBounded ==
  ASSUME Room, NEW c \in Contexts
  PROVE  Gone(c) \in Nat /\ Gone(c) =< BackspaceCap
<1>1. Len(machine.erased) \in Nat /\ machine.left \in Nat /\ BackspaceCap \in Nat
  BY BoundsAssumption DEF Room, Machines, Texts
<1>2. Len(machine.erased) =< BackspaceCap
  <2>1. CASE Busy
    BY <1>1, <2>1 DEF Room
  <2>2. CASE ~Busy
    <3>1. machine.erased = <<>>
      BY <2>2 DEF Room, Busy
    <3> QED BY <1>1, <3>1
  <2> QED BY <2>1, <2>2
<1> QED BY <1>1, <1>2 DEF Gone

\* A key that is processed, at once or from the queue.
LEMMA ArrivedKeys ==
  ASSUME KInv, JInv', NEW k \in KeyKinds, NEW d \in BOOLEAN, Arrive(k, d),
         inputs' + Len(queue) = inputs + Len(queue') + 1,
         Len(queue') =< inputs', inputs' =< MaxInputs,
         typed' + InQueue(queue) = typed + InQueue(queue') + Adds(k)
  PROVE  KInv'
<1>0. k \in AllKeys
  BY KindsAssumption
<1>t. /\ field \in [Contexts -> Texts] /\ field' \in [Contexts -> Texts]
      /\ queue \in Seq(KeyKinds) /\ queue' \in Seq(KeyKinds)
      /\ typed \in Int /\ typed' \in Int /\ inputs \in Nat /\ inputs' \in Nat
      /\ slot \in Contexts /\ Types
  BY DEF KInv, JInv, TextInv, Types
<1>n. /\ \A c \in Contexts : Len(field[c]) \in Nat /\ Len(field'[c]) \in Nat
      /\ Len(queue) \in Nat /\ Len(queue') \in Nat
  <2>1. \A c \in Contexts : field[c] \in Texts /\ field'[c] \in Texts
    BY <1>t
  <2> QED BY <1>t, <2>1, Lengths
<1>q. InQueue(queue) \in Int /\ InQueue(queue') \in Int /\ Adds(k) \in Int
  BY <1>t, QueueCounts, AddsInt
<1>r. Room /\ Conserved /\ JInv
  BY DEF KInv
\* it is enough to see one text grow by what the key counts for
<1>1. ASSUME Stays \/ Begun, Adds(k) \in {-1, 0, 1},
             Len(field'[slot]) = Len(field[slot]) + Adds(k),
             \A c \in Contexts : c # slot => Len(field'[c]) = Len(field[c])
      PROVE  KInv'
  <2>1. \A c \in Contexts :
          Len(field'[c]) + inputs' + Len(queue) >= Len(field[c]) + inputs + Len(queue')
    <3> TAKE c \in Contexts
    <3> DEFINE a == Len(field[c])
               b == Len(field'[c])
               x == Adds(k)
               p == Len(queue)
               q == Len(queue')
               j == inputs'
    <3>1. a \in Nat /\ b \in Nat /\ p \in Nat /\ q \in Nat /\ j \in Nat /\ x \in {-1, 0, 1}
          /\ (b = a \/ b = a + x) /\ j + p = inputs + q + 1
      BY <1>t, <1>n, <1>1
    <3> HIDE DEF a, b, x, p, q, j
    <3>2. b + 1 >= a
      BY <3>1
    <3>3. b + j + p >= a + inputs + q
      BY <1>t, <3>1, <3>2
    <3> QED BY <3>3 DEF a, b, p, q, j
  <2>2. Room'
    BY <1>r, <1>1, <2>1, RoomStays
  <2>3. InTexts(field) \in Int
        /\ InTexts(field') = InTexts(field) + Len(field'[slot]) - Len(field[slot])
    BY <1>t, <1>1, OneTextChanges
  <2>4. InTexts(field') = InTexts(field) + Adds(k)
    <3> DEFINE a == Len(field[slot])
               b == Len(field'[slot])
               x == Adds(k)
               T == InTexts(field)
    <3>1. a \in Nat /\ b = a + x /\ x \in Int /\ T \in Int /\ InTexts(field') = T + b - a
      BY <1>t, <1>n, <1>q, <1>1, <2>3
    <3> HIDE DEF a, b, x, T
    <3>2. T + b - a = T + x
      BY <3>1
    <3> QED BY <3>1, <3>2 DEF x, T
  <2>5. Len(machine'.erased) = Len(machine.erased) /\ Len(machine.erased) \in Nat
    BY <1>r, <1>1, ErasedStays
  <2>6. InTexts(field) + InQueue(queue) + Len(machine.erased) = MaxCtx * Ahead + typed
    BY <1>r DEF Conserved
  <2>7. InTexts(field') + InQueue(queue') + Len(machine'.erased) = MaxCtx * Ahead + typed'
    <3> DEFINE T == InTexts(field)
               x == Adds(k)
               Q == InQueue(queue)
               R == InQueue(queue')
               e == Len(machine.erased)
               C == MaxCtx * Ahead
               u == typed'
    <3>1. /\ T \in Int /\ x \in Int /\ Q \in Int /\ R \in Int /\ e \in Nat /\ C \in Nat
          /\ u \in Int /\ T + Q + e = C + typed /\ u + Q = typed + R + x
      BY <1>t, <1>q, <2>3, <2>5, <2>6, Bounds
    <3>2. InTexts(field') = T + x /\ Len(machine'.erased) = e
      BY <2>4, <2>5
    <3> HIDE DEF T, x, Q, R, e, C, u
    <3>3. (T + x) + R + e = C + u
      BY <1>t, <3>1
    <3> QED BY <3>2, <3>3 DEF R, C, u
  <2>8. Conserved'
    BY <2>7 DEF Conserved, Ahead
  <2> QED BY <2>2, <2>8 DEF KInv
<1>2. Stays \/ ~(machine' = machine)
  BY <1>r, StaysWhenLeft
<1>3. CASE /\ Adds(k) = 1 /\ machine' = machine
           /\ \E c \in Cells : field' = [field EXCEPT ![slot] = Append(@, c)]
  <2>1. PICK c \in Cells : field' = [field EXCEPT ![slot] = Append(@, c)]
    BY <1>3
  <2>2. field'[slot] = Append(field[slot], c) /\ \A e \in Contexts : e # slot => field'[e] = field[e]
    BY <1>t, <2>1
  <2>3. Len(field'[slot]) = Len(field[slot]) + 1
    BY <1>t, <2>2 DEF Texts
  <2> QED BY <1>1, <1>2, <1>3, <2>2, <2>3
<1>4. CASE /\ Adds(k) = -1 /\ machine' = machine
           /\ field' = [field EXCEPT ![slot] = DropLast(@, 1)]
  <2>1. field'[slot] = DropLast(field[slot], 1)
        /\ \A e \in Contexts : e # slot => field'[e] = field[e]
    BY <1>t, <1>4
  <2>2. 1 =< Len(field[slot])
    <3> DEFINE a == Len(field[slot])
               g == Gone(slot)
               p == Len(queue)
               q == Len(queue')
               j == inputs'
    <3>1. a + g + inputs >= Ahead + p
      BY <1>r, <1>t DEF Room
    <3>2. g \in Nat /\ g =< BackspaceCap
      BY <1>r, <1>t, GoneIsBounded
    <3>3. a \in Nat /\ p \in Nat /\ q \in Nat /\ j \in Nat /\ j + p = inputs + q + 1 /\ j =< MaxInputs
      BY <1>t, <1>n
    <3> HIDE DEF a, g, p, q, j
    <3>4. 1 =< a
      BY <1>t, <3>1, <3>2, <3>3, Bounds
    <3> QED BY <3>4 DEF a
  <2>3. Len(field'[slot]) = Len(field[slot]) - 1
    <3>1. field[slot] \in Texts /\ 1 \in Nat
      BY <1>t
    <3> QED BY <2>1, <2>2, <3>1, DropIsText
  <2>4. Len(field'[slot]) = Len(field[slot]) + Adds(k)
    BY <1>t, <1>n, <1>4, <2>3
  <2> QED BY <1>1, <1>2, <1>4, <2>1, <2>4
<1>5. CASE Adds(k) = 0 /\ field' = field /\ (machine' = machine \/ Begins(FALSE, d))
  <2>1. Stays \/ Begun
    BY <1>t, <1>2, <1>5, BeginsBegun
  <2>2. Len(field'[slot]) = Len(field[slot]) + Adds(k)
    BY <1>t, <1>n, <1>5
  <2> QED BY <1>1, <1>5, <2>1, <2>2
<1> QED BY <1>0, <1>3, <1>4, <1>5, ArriveCounts

LEMMA KeyKeys ==
  ASSUME KInv, JInv', NEW k \in KeyKinds, Key(k)
  PROVE  KInv'
<1>t. /\ queue \in Seq(KeyKinds) /\ queue' \in Seq(KeyKinds) /\ Len(queue) \in Nat
      /\ typed \in Int /\ inputs \in Nat /\ MaxInputs \in Nat
      /\ field \in [Contexts -> Texts] /\ \A c \in Contexts : Len(field[c]) \in Nat
  <2>1. /\ queue \in Seq(KeyKinds) /\ queue' \in Seq(KeyKinds)
        /\ typed \in Int /\ inputs \in Nat /\ field \in [Contexts -> Texts]
    BY DEF KInv, JInv, TextInv, Types
  <2>2. \A c \in Contexts : field[c] \in Texts
    BY <2>1
  <2> QED BY <2>1, <2>2, Lengths, Bounds
<1>q. InQueue(queue) \in Int /\ Adds(k) \in Int
  BY <1>t, QueueCounts, AddsInt
<1>1. inputs < MaxInputs /\ inputs' = inputs + 1 /\ typed' = typed + Adds(k) /\ Len(queue) =< inputs
  BY DEF Key, Input, KInv, Room
<1>2. CASE Park(k)
  <2>1. queue' = Append(queue, k) /\ field' = field /\ machine' = machine
    BY <1>2 DEF Park
  <2>2. Len(queue') = Len(queue) + 1 /\ InQueue(queue') = InQueue(queue) + Adds(k)
    BY <1>t, <2>1, QueueCounts
  <2>3. Stays
    BY <2>1, StaysWhenLeft DEF KInv
  <2>4. Len(queue') =< inputs' /\ inputs' =< MaxInputs
    BY <1>t, <1>1, <2>2
  <2>5. \A c \in Contexts :
          Len(field'[c]) + inputs' + Len(queue) >= Len(field[c]) + inputs + Len(queue')
    <3> TAKE c \in Contexts
    <3> DEFINE a == Len(field[c])
               p == Len(queue)
    <3>1. a \in Nat /\ p \in Nat /\ Len(field'[c]) = a /\ Len(queue') = p + 1
      BY <1>t, <2>1, <2>2
    <3> HIDE DEF a, p
    <3>2. a + (inputs + 1) + p >= a + inputs + (p + 1)
      BY <1>t, <3>1
    <3> QED BY <1>1, <3>1, <3>2 DEF a, p
  <2>6. Room'
    BY <2>3, <2>4, <2>5, RoomStays DEF KInv
  <2>7. InTexts(field) + InQueue(queue) + Len(machine.erased) = MaxCtx * Ahead + typed
    BY DEF KInv, Conserved
  <2>8. InTexts(field') + InQueue(queue') + Len(machine'.erased) = MaxCtx * Ahead + typed'
    <3> DEFINE T == InTexts(field)
               x == Adds(k)
               Q == InQueue(queue)
               e == Len(machine.erased)
               C == MaxCtx * Ahead
    <3>1. T \in Int
      <4>1. slot \in Contexts
        BY DEF KInv, JInv, TextInv, Types
      <4> QED BY <1>t, <4>1, OneTextChanges
    <3>2. e \in Nat /\ Len(machine'.erased) = e
      BY <2>3, ErasedStays DEF KInv
    <3>3. Q \in Int /\ x \in Int /\ C \in Nat /\ T + Q + e = C + typed
      BY <1>q, <2>7, Bounds
    <3>4. InTexts(field') = T /\ InQueue(queue') = Q + x /\ typed' = typed + x
      BY <1>1, <2>1, <2>2
    <3> HIDE DEF T, x, Q, e, C
    <3>5. T + (Q + x) + e = C + (typed + x)
      BY <1>t, <3>1, <3>2, <3>3
    <3> QED BY <3>2, <3>4, <3>5 DEF C
  <2>9. Conserved'
    BY <2>8 DEF Conserved, Ahead
  <2> QED BY <2>6, <2>9 DEF KInv
<1>3. CASE Arrive(k, FALSE) /\ UNCHANGED <<queue, drain>>
  <2>1. /\ inputs' + Len(queue) = inputs + Len(queue') + 1
        /\ Len(queue') =< inputs' /\ inputs' =< MaxInputs
        /\ typed' + InQueue(queue) = typed + InQueue(queue') + Adds(k)
    BY <1>t, <1>q, <1>1, <1>3
  <2> QED BY <1>3, <2>1, ArrivedKeys
<1> QED BY <1>2, <1>3 DEF Key

LEMMA DrainKeyKeys ==
  ASSUME KInv, JInv', DrainKey
  PROVE  KInv'
<1>1. /\ drain \in {"woken", "running"}
      /\ Arrive(Head(queue), TRUE)
      /\ queue' = Tail(queue)
      /\ UNCHANGED <<inputs, typed>>
  BY DEF DrainKey
<1>2. queue \in Seq(KeyKinds) /\ queue # <<>> /\ typed \in Int /\ inputs \in Nat
  BY <1>1 DEF KInv, JInv, TextInv, Types, IInv, ParkedKeysHaveDrainer
<1>3. /\ Head(queue) \in KeyKinds /\ Tail(queue) \in Seq(KeyKinds)
      /\ Len(queue) = Len(Tail(queue)) + 1 /\ Len(Tail(queue)) \in Nat
  BY <1>2
<1>4. /\ InQueue(queue) = Adds(Head(queue)) + InQueue(Tail(queue))
      /\ InQueue(Tail(queue)) \in Int /\ Adds(Head(queue)) \in Int
  BY <1>2, <1>3, QueueCounts, AddsInt
<1>5. Len(queue) =< inputs /\ inputs =< MaxInputs /\ MaxInputs \in Nat
  BY BoundsAssumption DEF KInv, Room
<1>6. /\ inputs' + Len(queue) = inputs + Len(queue') + 1
      /\ Len(queue') =< inputs' /\ inputs' =< MaxInputs
      /\ typed' + InQueue(queue) = typed + InQueue(queue') + Adds(Head(queue))
  BY <1>1, <1>2, <1>3, <1>4, <1>5
<1> QED BY <1>1, <1>3, <1>6, ArrivedKeys

\* What a burst finds: at least what it is about to erase.
LEMMA BurstFits ==
  ASSUME KInv, Busy
  PROVE  machine.left \in Nat /\ machine.left =< Len(field[machine.ctx])
<1> DEFINE a == Len(field[machine.ctx])
           e == Len(machine.erased)
           p == Len(queue)
<1>0. /\ machine.left \in Nat /\ machine.ctx \in Contexts /\ machine.erased \in Texts
      /\ field[machine.ctx] \in Texts /\ queue \in Seq(KeyKinds) /\ inputs \in Nat
  BY DEF KInv, JInv, TextInv, Types, Room, Machines
<1>1. a \in Nat /\ e \in Nat /\ p \in Nat
  BY <1>0, Lengths
<1>2. e + machine.left =< BackspaceCap /\ inputs =< MaxInputs
  BY DEF KInv, Room
<1>3. Gone(machine.ctx) = e
  BY DEF Gone
<1>4. a + e + inputs >= Ahead + p
  BY <1>0, <1>3 DEF KInv, Room
<1> HIDE DEF a, e, p
<1>5. machine.left =< a
  <2> DEFINE r == machine.left
  <2>1. r \in Nat /\ e + r =< BackspaceCap
    BY <1>0, <1>2
  <2> HIDE DEF r
  <2>2. r =< a
    BY <1>0, <1>1, <1>2, <1>4, <2>1, Bounds
  <2> QED BY <2>2 DEF r
<1> QED BY <1>0, <1>5 DEF a

\* A step of the machine that moves n cells from its text, or puts back its
\* own, keeps them all.
LEMMA MachineKeys ==
  ASSUME KInv, JInv', Busy, UNCHANGED <<queue, inputs, typed>>,
         machine' \in Machines,
         machine'.phase \in {"idle", "start"} => machine'.erased = <<>>,
         machine'.phase = "settle" => machine'.left = 0,
         Busy' => /\ machine'.ctx = machine.ctx
                  /\ Len(machine'.erased) + machine'.left = Len(machine'.token) + Len(machine'.tail)
                  /\ Len(machine'.erased) + machine'.left =< BackspaceCap,
         \A c \in Contexts : c # machine.ctx => Len(field'[c]) = Len(field[c]),
         Len(field'[machine.ctx]) + Len(machine'.erased)
           = Len(field[machine.ctx]) + Len(machine.erased)
  PROVE  KInv'
<1>t. /\ field \in [Contexts -> Texts] /\ field' \in [Contexts -> Texts]
      /\ machine.ctx \in Contexts /\ queue \in Seq(KeyKinds) /\ typed \in Int
  BY DEF KInv, JInv, TextInv, Types
<1>n. /\ \A c \in Contexts : Len(field[c]) \in Nat /\ Len(field'[c]) \in Nat
      /\ Len(machine.erased) \in Nat /\ Len(machine'.erased) \in Nat
  <2>1. \A c \in Contexts : field[c] \in Texts /\ field'[c] \in Texts
    BY <1>t
  <2>2. machine.erased \in Texts /\ machine'.erased \in Texts
    BY DEF KInv, Room, Machines
  <2> QED BY <2>1, <2>2, Lengths
<1>1. \A c \in Contexts : Len(field'[c]) + Gone(c)' = Len(field[c]) + Gone(c)
  <2> TAKE c \in Contexts
  <2>1. CASE c # machine.ctx
    <3>1. Gone(c) = 0 /\ Gone(c)' = 0
      <4>1. Busy' => machine'.ctx = machine.ctx
        OBVIOUS
      <4>2. ~Busy' => Len(machine'.erased) = 0
        BY Lengths DEF Busy
      <4> QED BY <2>1, <4>1, <4>2 DEF Gone
    <3> QED BY <2>1, <3>1
  <2>2. CASE c = machine.ctx
    <3>1. Gone(c) = Len(machine.erased)
      BY <2>2 DEF Gone
    <3>2. Gone(c)' = Len(machine'.erased)
      <4>1. Busy' => machine'.ctx = machine.ctx
        OBVIOUS
      <4>2. ~Busy' => Len(machine'.erased) = 0
        BY Lengths DEF Busy
      <4> QED BY <2>2, <4>1, <4>2 DEF Gone
    <3> QED BY <2>2, <3>1, <3>2
  <2> QED BY <2>1, <2>2
<1>2. Room'
  <2>1. \A c \in Contexts : Len(field'[c]) + Gone(c)' + inputs' >= Ahead + Len(queue')
    BY <1>1 DEF KInv, Room
  <2> QED BY <2>1 DEF KInv, Room
<1>3. InTexts(field) \in Int
      /\ InTexts(field') = InTexts(field) + Len(field'[machine.ctx]) - Len(field[machine.ctx])
  BY <1>t, OneTextChanges
<1>4. InQueue(queue) \in Int
  BY <1>t, QueueCounts
<1>5. InTexts(field) + InQueue(queue) + Len(machine.erased) = MaxCtx * Ahead + typed
  BY DEF KInv, Conserved
<1>7. InTexts(field') + InQueue(queue) + Len(machine'.erased) = MaxCtx * Ahead + typed
  <2> DEFINE a == Len(field[machine.ctx])
             b == Len(field'[machine.ctx])
             e == Len(machine.erased)
             f == Len(machine'.erased)
             T == InTexts(field)
             Q == InQueue(queue)
             C == MaxCtx * Ahead
  <2>1. /\ a \in Nat /\ b \in Nat /\ e \in Nat /\ f \in Nat /\ T \in Int /\ Q \in Int /\ C \in Nat
        /\ b + f = a + e /\ T + Q + e = C + typed
    BY <1>t, <1>n, <1>3, <1>4, <1>5, Bounds
  <2>2. InTexts(field') = T + b - a
    BY <1>3
  <2> HIDE DEF a, b, e, f, T, Q, C
  <2>3. (T + b - a) + Q + f = C + typed
    BY <1>t, <2>1
  <2> QED BY <2>2, <2>3 DEF f, Q, C
<1>8. Conserved'
  BY <1>7 DEF Conserved, Ahead
<1> QED BY <1>2, <1>8 DEF KInv

LEMMA ErasesKeys ==
  ASSUME KInv, JInv', Busy, UNCHANGED <<queue, inputs, typed>>,
         NEW n \in 0 .. machine.left, Erases(n)
  PROVE  KInv'
<1> DEFINE t == field[machine.ctx]
           a == DropLast(t, n)
           z == TakeLast(t, n)
<1>0. /\ Shape /\ field \in [Contexts -> Texts] /\ t \in Texts /\ machine.ctx \in Contexts
      /\ machine.left \in Nat /\ machine.erased \in Texts /\ machine \in Machines
  BY DEF KInv, JInv, IInv, TextInv, Types, Room, Machines
<1>1. n \in Nat /\ n =< machine.left /\ machine.left =< Len(t)
  BY <1>0, BurstFits
<1>2. Len(t) \in Nat /\ Len(machine.erased) \in Nat
  BY <1>0 DEF Texts
<1>3. a \in Texts /\ Len(a) = Len(t) - n /\ z \in Texts /\ Len(z) = n
  <2>1. n =< Len(t)
    BY <1>0, <1>1, <1>2
  <2> HIDE DEF t
  <2> QED BY <1>0, <1>1, <2>1, DropIsText
<1>4. z \o machine.erased \in Texts /\ Len(z \o machine.erased) = n + Len(machine.erased)
  <2> HIDE DEF z
  <2> QED BY <1>0, <1>3, JoinIsText
<1>5. /\ field' = [field EXCEPT ![machine.ctx] = a]
      /\ machine'.ctx = machine.ctx /\ machine'.token = machine.token
      /\ machine'.tail = machine.tail /\ machine'.left = machine.left - n
      /\ machine'.erased = z \o machine.erased
      /\ machine'.phase = (IF n = machine.left THEN "settle" ELSE "burst")
  BY <1>0, ErasesFields DEF Erases, Cut
<1>6. machine' \in Machines
  <2>1. machine.left - n \in Nat /\ {"settle", "burst"} \subseteq Phases
    BY <1>0, <1>1 DEF Phases
  <2>2. machine' = [machine EXCEPT !.phase = IF n = machine.left THEN "settle" ELSE "burst",
                                   !.left = @ - n, !.erased = z \o @]
    BY DEF Erases, z, t
  <2> HIDE DEF z, t
  <2> QED BY <1>0, <1>4, <2>1, <2>2 DEF Machines
<1> HIDE DEF a, z
<1>7. field'[machine.ctx] = a /\ \A c \in Contexts : c # machine.ctx => field'[c] = field[c]
  BY <1>0, <1>5
<1>8. /\ Len(machine'.erased) + machine'.left = Len(machine.erased) + machine.left
      /\ Len(field'[machine.ctx]) + Len(machine'.erased) = Len(field[machine.ctx]) + Len(machine.erased)
  <2> DEFINE l == Len(t)
             e == Len(machine.erased)
             r == machine.left
  <2>1. l \in Nat /\ e \in Nat /\ r \in Nat /\ n \in Nat
    BY <1>0, <1>1, <1>2
  <2>2. /\ Len(machine'.erased) = n + e /\ machine'.left = r - n
        /\ Len(field'[machine.ctx]) = l - n
    BY <1>3, <1>4, <1>5, <1>7
  <2> HIDE DEF l, e, r
  <2>3. (n + e) + (r - n) = e + r /\ (l - n) + (n + e) = l + e
    BY <2>1
  <2> QED BY <2>2, <2>3 DEF l, e, r
<1>10. /\ Len(machine.erased) + machine.left = Len(machine.token) + Len(machine.tail)
       /\ Len(machine.erased) + machine.left =< BackspaceCap
  BY DEF KInv, Room
<1>11. machine'.phase = "settle" => machine'.left = 0
  BY <1>0, <1>1, <1>5
<1> QED BY <1>5, <1>6, <1>7, <1>8, <1>10, <1>11, MachineKeys

LEMMA CommitKeys ==
  ASSUME KInv, JInv', Busy, UNCHANGED <<queue, inputs, typed>>,
         NEW f \in [Contexts -> Texts], Commit(f),
         Len(f[machine.ctx]) + machine.left = Len(field[machine.ctx]),
         \A c \in Contexts : c # machine.ctx => f[c] = field[c]
  PROVE  KInv'
<1> DEFINE new == Converted(machine.token)
           b == f[machine.ctx]
<1>0. /\ machine.ctx \in Contexts /\ machine.left \in Nat /\ machine.erased \in Texts
      /\ machine.token \in Texts /\ machine.tail \in Texts /\ b \in Texts
  BY DEF KInv, Room, Machines
<1>1. new \in Texts /\ Len(new) = Len(machine.token)
  BY <1>0, ConvertedIsText, ConvertedKeepsLen
<1>2. /\ field' = [f EXCEPT ![machine.ctx] = (@ \o new) \o machine.tail]
      /\ machine' = NoMachine
  BY CommitText
<1> HIDE DEF new
<1>3. field'[machine.ctx] = (b \o new) \o machine.tail
      /\ \A c \in Contexts : c # machine.ctx => field'[c] = field[c]
  BY <1>0, <1>2
<1> HIDE DEF b
<1>4. Len((b \o new) \o machine.tail) = Len(b) + Len(machine.token) + Len(machine.tail)
  <2>1. b \o new \in Texts /\ Len(b \o new) = Len(b) + Len(new)
    BY <1>0, <1>1, JoinIsText
  <2>2. Len((b \o new) \o machine.tail) = Len(b \o new) + Len(machine.tail)
    BY <1>0, <2>1, JoinIsText
  <2> QED BY <1>1, <2>1, <2>2
<1>5. Len(machine.erased) + machine.left = Len(machine.token) + Len(machine.tail)
  BY DEF KInv, Room
<1>6. /\ Len(b) \in Nat /\ Len(machine.erased) \in Nat /\ Len(machine.token) \in Nat
      /\ Len(machine.tail) \in Nat /\ Len(b) + machine.left = Len(field[machine.ctx])
  BY <1>0 DEF Texts, b
<1>7. machine'.erased = <<>> /\ Len(<<>>) = 0 /\ ~Busy' /\ machine'.phase = "idle" /\ machine' \in Machines
  BY <1>2, NoMachineTyped DEF NoMachine, Busy
<1>8. Len(field'[machine.ctx]) + Len(machine'.erased) = Len(field[machine.ctx]) + Len(machine.erased)
  <2> DEFINE l == Len(b)
             e == Len(machine.erased)
             r == machine.left
             w == Len(machine.token)
             x == Len(machine.tail)
  <2>1. l \in Nat /\ e \in Nat /\ r \in Nat /\ w \in Nat /\ x \in Nat /\ e + r = w + x
    BY <1>0, <1>5, <1>6
  <2>2. /\ Len(field'[machine.ctx]) = l + w + x /\ Len(machine'.erased) = 0
        /\ Len(field[machine.ctx]) = l + r
    BY <1>3, <1>4, <1>6, <1>7
  <2> HIDE DEF l, e, r, w, x
  <2>3. (l + w + x) + 0 = (l + r) + e
    BY <2>1
  <2> QED BY <2>2, <2>3 DEF e
<1> QED BY <1>3, <1>7, <1>8, MachineKeys

LEMMA MachineStepKeys ==
  ASSUME KInv, JInv', MachineStart \/ MachineChunk \/ MachineCommit
  PROVE  KInv'
<1>0. /\ Busy /\ UNCHANGED <<queue, inputs, typed>>
      /\ Types /\ field \in [Contexts -> Texts] /\ machine.ctx \in Contexts
      /\ field[machine.ctx] \in Texts
  BY DEF KInv, JInv, TextInv, Types, MachineStart, MachineChunk, MachineCommit, Busy
<1>1. machine.left \in Nat /\ machine.left =< Len(field[machine.ctx]) /\ Len(field[machine.ctx]) \in Nat
  BY <1>0, BurstFits DEF Texts
<1>2. CASE Chunk
  <2>1. CASE Commit(Cut(machine.left))
    <3>1. DropLast(field[machine.ctx], machine.left) \in Texts
          /\ Len(DropLast(field[machine.ctx], machine.left)) = Len(field[machine.ctx]) - machine.left
      BY <1>0, <1>1, DropIsText
    <3>2. /\ Cut(machine.left) \in [Contexts -> Texts]
          /\ Cut(machine.left)[machine.ctx] = DropLast(field[machine.ctx], machine.left)
          /\ \A c \in Contexts : c # machine.ctx => Cut(machine.left)[c] = field[c]
      BY <1>0, <3>1 DEF Cut
    <3>3. Len(Cut(machine.left)[machine.ctx]) + machine.left = Len(field[machine.ctx])
      BY <1>1, <3>1, <3>2
    <3> QED BY <1>0, <2>1, <3>2, <3>3, CommitKeys
  <2>2. ASSUME NEW n \in 0 .. machine.left, Erases(n) PROVE KInv'
    BY <1>0, <2>2, ErasesKeys
  <2> QED BY <1>0, <1>2, <2>1, <2>2, ChunkText
<1>3. CASE MachineStart /\ machine.moved
  <2>1. machine' = NoMachine /\ machine.phase = "start" /\ field' = field
    BY <1>3 DEF MachineStart
  <2>2. machine.erased = <<>> /\ machine'.erased = <<>>
    BY <2>1 DEF KInv, Room, NoMachine
  <2>3. ~Busy' /\ machine'.phase = "idle" /\ machine' \in Machines
    BY <2>1, NoMachineTyped DEF Busy
  <2> QED BY <1>0, <2>1, <2>2, <2>3, MachineKeys
<1>4. CASE MachineCommit
  <2>1. Commit(field) /\ machine.left = 0
    BY <1>4 DEF MachineCommit, KInv, Room
  <2>2. Len(field[machine.ctx]) + machine.left = Len(field[machine.ctx])
    BY <1>1, <2>1
  <2> QED BY <1>0, <2>1, <2>2, CommitKeys
<1> QED BY <1>2, <1>3, <1>4 DEF MachineStart, MachineChunk, MachineCommit

LEMMA NextKeys ==
  ASSUME KInv, JInv', Next
  PROVE  KInv'
<1>0. Room /\ Types
  BY DEF KInv, JInv, TextInv
<1>1. ASSUME machine' = machine, UNCHANGED <<field, queue, typed>>,
             inputs' = inputs \/ (inputs < MaxInputs /\ inputs' = inputs + 1)
      PROVE  KInv'
  BY <1>0, <1>1, StaysWhenLeft, QuietKeys
<1>2. CASE \E k \in KeyKinds : Key(k)
  BY <1>2, KeyKeys
<1>3. CASE DrainKey
  BY <1>3, DrainKeyKeys
<1>4. CASE DrainWaits \/ BoundExpires \/ AfterExpiry \/ AttachEngine
  BY <1>1, <1>4 DEF DrainWaits, BoundExpires, AfterExpiry, AttachEngine
<1>5. CASE MachineStart \/ MachineChunk \/ MachineCommit
  BY <1>5, MachineStepKeys
<1>6. ASSUME NEW phrase \in BOOLEAN, CorrectNow(phrase) PROVE KInv'
  <2>1. /\ Correct(modes, phrase, FALSE) /\ UNCHANGED <<field, buf, queue, typed>>
        /\ inputs < MaxInputs /\ inputs' = inputs + 1
    BY <1>6 DEF CorrectNow, Input
  <2>2. Quiet \/ Begins(phrase, FALSE)
    BY <2>1, CorrectText
  <2>3. Stays \/ Begun
    BY <1>0, <2>2, StaysWhenLeft, BeginsBegun DEF Quiet
  <2> QED BY <2>1, <2>3, QuietKeys
<1>7. CASE ToggleMode \/ \E t \in Modes : SwitchMode(t) \/ SyncEngine(t)
  BY <1>1, <1>7 DEF ToggleMode, SwitchMode, SyncEngine, Input
<1>8. CASE Push
  BY <1>1, <1>8 DEF Push, Input
<1>9. CASE SyntheticFocusOut \/ FocusOut \/ Reset
  <2>1. /\ machine' = IF Busy THEN [machine EXCEPT !.moved = TRUE] ELSE machine
        /\ UNCHANGED <<field, queue, inputs, typed>>
    BY <1>9 DEF SyntheticFocusOut, FocusOut, Reset, ContextDies
  <2>2. Stays
    BY <1>0, <2>1, StaysWhenLeft
  <2> QED BY <2>1, <2>2, QuietKeys
<1> QED BY <1>2, <1>3, <1>4, <1>5, <1>6, <1>7, <1>8, <1>9 DEF Next

LEMMA InitKeys == Init => Room /\ Conserved
<1> SUFFICES ASSUME Init PROVE Room /\ Conserved
  OBVIOUS
<1> DEFINE t == [i \in 1 .. Ahead |-> "p"]
           F == [c \in Contexts |-> Len(field[c])]
<1>0. MaxCtx \in Nat /\ Ahead \in Nat /\ MaxInputs \in Nat
  BY BoundsAssumption DEF Ahead
<1>1. /\ field = [c \in Contexts |-> t]
      /\ machine = NoMachine /\ queue = <<>> /\ inputs = 0 /\ typed = 0
  BY DEF Init
<1>2. Len(t) = Ahead
  BY <1>0
<1> HIDE DEF t
<1>3. /\ machine \in Machines /\ machine.phase = "idle" /\ machine.erased = <<>> /\ ~Busy
      /\ Len(queue) = 0 /\ Len(machine.erased) = 0
  BY <1>1, NoMachineTyped DEF NoMachine, Busy
<1>4. \A c \in Contexts : Len(field[c]) = Ahead /\ Gone(c) = 0
  BY <1>1, <1>2, <1>3 DEF Gone
<1>5. Room
  <2>1. \A c \in Contexts : Len(field[c]) + Gone(c) + inputs >= Ahead + Len(queue)
    <3> TAKE c \in Contexts
    <3>1. Ahead + 0 + 0 >= Ahead + 0
      BY <1>0
    <3> QED BY <1>1, <1>3, <1>4, <3>1
  <2>2. Len(queue) =< inputs /\ inputs =< MaxInputs
    BY <1>0, <1>1, <1>3
  <2> QED BY <1>3, <2>1, <2>2 DEF Room
<1>6. InTexts(field) = MaxCtx * Ahead
  <2>1. \A i \in 1 .. MaxCtx : F[i] = Ahead
    BY <1>4 DEF Contexts
  <2>2. InTexts(field) = Total(F, MaxCtx)
    BY DEF InTexts
  <2>3. MaxCtx \in 0 .. MaxCtx /\ Ahead \in Int
    BY <1>0
  <2> HIDE DEF F
  <2> QED BY <1>0, <2>1, <2>2, <2>3, TotalEqual
<1>7. InQueue(queue) = 0
  <2>1. queue \in Seq(KeyKinds)
    BY <1>1
  <2> QED BY <1>1, <2>1, QueueCounts
<1>8. MaxCtx * Ahead \in Int
  BY <1>0
<1> QED BY <1>1, <1>3, <1>5, <1>6, <1>7, <1>8 DEF Conserved

LEMMA KeysInductive == Spec => []KInv
<1>1. Init => KInv
  BY InitInv, InitText, InitKeys DEF JInv, KInv
<1>2. KInv /\ JInv' /\ [Next]_vars => KInv'
  <2>1. KInv /\ JInv' /\ UNCHANGED vars => KInv'
    <3> SUFFICES ASSUME KInv, JInv', UNCHANGED vars PROVE KInv'
      OBVIOUS
    <3>1. Room'
      BY DEF KInv, Room, Gone, Busy, vars
    <3>2. Conserved'
      BY DEF KInv, Conserved, vars
    <3> QED BY <3>1, <3>2 DEF KInv
  <2> QED BY <2>1, NextKeys
<1> QED BY <1>1, <1>2, StrongInductive, PTL DEF Spec

LEMMA KeysMean == KInv => KeysInv
BY DEF KInv, JInv, IInv, Shape, TextInv, Types, Room, Conserved, TypeOK, KeysInv

\* holdDuringDelivery, awaitDeliverySettle and replayBurst: whatever the
\* schedule (woken drainers overtaken, waits that expire, keys drained between
\* two engines) every key press reaches a text once, and what a burst erases
\* its commit puts back.
THEOREM KeysConserved == Spec => []KeysInv
BY KeysMean, KeysInductive, PTL

\* The types, of which only the erased text needs more than itself: that no
\* burst finds a text shorter than it is.
THEOREM TypeCorrect == Spec => []TypeOK
<1>1. KInv => TypeOK
  BY KeysMean DEF KeysInv
<1> QED BY <1>1, KeysInductive, PTL
=============================================================================
