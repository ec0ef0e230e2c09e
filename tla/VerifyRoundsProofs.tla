------------------------- MODULE VerifyRoundsProofs -------------------------
(***************************************************************************)
(* The verified correction keeps what it promises for every kind of        *)
(* client, every set of keys and entries and every bound of VerifyRounds.  *)
(*                                                                         *)
(* The inductive invariant is Sound: open rounds carry live epochs and     *)
(* have their deadlines; what is under way has an engine that lives; every *)
(* deletion in the channel is answered by the next thing that is no        *)
(* request; and the buffer is the end of what the client's text will be    *)
(* once the channel is empty, but for the half that is still owed.  Every  *)
(* operation of the actor is a composition of a few others, and each has   *)
(* a lemma that it keeps Sound (Goes), so that the proofs follow the calls *)
(* of the code.  The lemmas about texts are those of DeliveryProofs.       *)
(***************************************************************************)
EXTENDS VerifyRounds, WellFoundedInduction, TLAPS

(***************************************************************************)
(* The text: joining, splitting and dropping cells, and the word a         *)
(* correction takes out of the buffer.                                     *)
(***************************************************************************)
\* A set of numbers has a smallest: what the proofs here use for induction.
LEMMA SmallestOfNat ==
  ASSUME NEW T, T \subseteq Nat, T # {}
  PROVE  \E x \in T : \A y \in T : x =< y
<1>1. IsWellFoundedOn(OpToRel(<,Nat), Nat)
  BY NatLessThanWellFounded
<1>2. PICK x \in T : \A y \in T : ~ (<<y, x>> \in OpToRel(<,Nat))
  BY <1>1, WFMin
<1>3. \A y \in T : ~(y < x)
  BY <1>2 DEF OpToRel
<1> QED BY <1>3

\* Max is what it says on a set that is bounded.
LEMMA MaxOfBounded ==
  ASSUME NEW n \in Nat, NEW S, S \subseteq 0 .. n, S # {}
  PROVE  Max(S) \in S /\ \A y \in S : Max(S) >= y
<1> DEFINE T == {k \in Nat : n - k \in S}
<1>1. T \subseteq Nat /\ T # {}
  <2>1. PICK i \in S : TRUE
    OBVIOUS
  <2>2. n - i \in Nat /\ n - (n - i) = i
    BY <2>1
  <2> QED BY <2>1, <2>2
<1>2. PICK x \in T : \A y \in T : x =< y
  <2> HIDE DEF T
  <2> QED BY <1>1, SmallestOfNat
<1>3. n - x \in S
  OBVIOUS
<1>4. \A i \in S : n - x >= i
  <2> TAKE i \in S
  <2>2. n - i \in Nat /\ n - (n - i) = i
    OBVIOUS
  <2>3. n - i \in T
    BY <2>2
  <2> QED BY <1>2, <2>2, <2>3
<1> QED BY <1>3, <1>4 DEF Max

LEMMA LastOfBounded ==
  ASSUME NEW n \in Nat, NEW S, S \subseteq 1 .. n
  PROVE  /\ LastOf(S) \in 0 .. n
         /\ S # {} => LastOf(S) \in S
         /\ \A i \in S : i =< LastOf(S)
<1>1. CASE S = {}
  BY <1>1 DEF LastOf
<1>2. CASE S # {}
  <2>1. S \subseteq 0 .. n
    OBVIOUS
  <2>2. Max(S) \in S /\ \A y \in S : Max(S) >= y
    BY <1>2, <2>1, MaxOfBounded
  <2>3. LastOf(S) = Max(S)
    BY <1>2 DEF LastOf
  <2>4. LastOf(S) \in S /\ \A y \in S : LastOf(S) >= y
    BY <2>2, <2>3
  <2>5. LastOf(S) \in 1 .. n
    BY <2>4
  <2>6. ASSUME NEW i \in S PROVE i =< LastOf(S)
    <3>1. i \in 1 .. n /\ LastOf(S) >= i
      BY <2>4
    <3> QED BY <2>5, <3>1
  <2> QED BY <2>4, <2>5, <2>6
<1> QED BY <1>1, <1>2

\* Where the word is.
LEMMA WordBounds ==
  ASSUME NEW b \in Texts
  PROVE  /\ WordEnd(b) \in 0 .. Len(b)
         /\ WordStart(b) \in 1 .. WordEnd(b) + 1
         /\ HasLetter(b) => WordEnd(b) \in 1 .. Len(b) /\ b[WordEnd(b)] \in Letters
         /\ HasLetter(b) => WordStart(b) =< WordEnd(b)
         /\ ~HasLetter(b) => WordEnd(b) = 0
<1> DEFINE S == {i \in DOMAIN b : b[i] \in Letters}
<1> DEFINE T == {i \in 1 .. WordEnd(b) : b[i] \notin Letters}
<1>0. Len(b) \in Nat /\ DOMAIN b = 1 .. Len(b)
  BY DEF Texts
<1>1. S \subseteq 1 .. Len(b) /\ (S # {} <=> HasLetter(b))
  BY <1>0 DEF HasLetter
<1>2. WordEnd(b) = LastOf(S)
  BY DEF WordEnd
<1>3. /\ WordEnd(b) \in 0 .. Len(b)
      /\ S # {} => WordEnd(b) \in S
  <2> HIDE DEF S
  <2> QED BY <1>0, <1>1, <1>2, LastOfBounded
<1>4. S = {} => WordEnd(b) = 0
  BY <1>2 DEF LastOf
<1>5. T \subseteq 1 .. WordEnd(b) /\ WordEnd(b) \in Nat
  BY <1>0, <1>3
<1>6. WordStart(b) = LastOf(T) + 1
  BY DEF WordStart
<1>7. /\ LastOf(T) \in 0 .. WordEnd(b)
      /\ T # {} => LastOf(T) \in T
  <2> HIDE DEF T
  <2> QED BY <1>5, LastOfBounded
<1>8. WordStart(b) \in 1 .. WordEnd(b) + 1
  BY <1>5, <1>6, <1>7
<1>9. ASSUME HasLetter(b) PROVE WordStart(b) =< WordEnd(b)
  <2>1. b[WordEnd(b)] \in Letters /\ WordEnd(b) \in Nat \ {0}
    BY <1>0, <1>1, <1>3, <1>9
  <2>2. CASE T = {}
    BY <1>6, <2>1, <2>2 DEF LastOf
  <2>3. CASE T # {}
    BY <1>5, <1>6, <1>7, <2>1, <2>3
  <2> QED BY <2>2, <2>3
<1> QED BY <1>0, <1>1, <1>3, <1>4, <1>8, <1>9

\* SubSeq of text is text.
LEMMA PartIsText ==
  ASSUME NEW s \in Texts, NEW i \in Nat \ {0}, NEW j \in Int, j =< Len(s)
  PROVE  /\ SubSeq(s, i, j) \in Texts
         /\ Len(SubSeq(s, i, j)) = IF i =< j THEN j - i + 1 ELSE 0
         /\ \A k \in 1 .. j - i + 1 : SubSeq(s, i, j)[k] = s[k + i - 1]
BY DEF Texts

\* Joining.
LEMMA JoinIsText == 
  ASSUME NEW s \in Texts, NEW t \in Texts
  PROVE  /\ s \o t \in Texts
         /\ Len(s \o t) = Len(s) + Len(t)
         /\ \A i \in 1 .. Len(s) : (s \o t)[i] = s[i]
         /\ \A i \in 1 .. Len(t) : (s \o t)[Len(s) + i] = t[i]
BY DEF Texts

LEMMA SameText ==
  ASSUME NEW s \in Texts, NEW t \in Texts, Len(s) = Len(t), \A i \in 1 .. Len(s) : s[i] = t[i]
  PROVE  s = t
BY DEF Texts

LEMMA JoinAssoc ==
  ASSUME NEW s \in Texts, NEW t \in Texts, NEW u \in Texts
  PROVE  (s \o t) \o u = s \o (t \o u)
BY DEF Texts

LEMMA JoinEmpty ==
  ASSUME NEW s \in Texts
  PROVE  s \o <<>> = s /\ <<>> \o s = s /\ <<>> \in Texts
BY DEF Texts

LEMMA SplitText ==
  ASSUME NEW s \in Texts, NEW n \in 0 .. Len(s)
  PROVE  SubSeq(s, 1, n) \o SubSeq(s, n + 1, Len(s)) = s
<1> DEFINE a == SubSeq(s, 1, n)
           z == SubSeq(s, n + 1, Len(s))
<1>0. Len(s) \in Nat
  BY DEF Texts
<1>1. /\ a \in Texts /\ Len(a) = n
      /\ \A k \in 1 .. n : a[k] = s[k]
  BY <1>0, PartIsText
<1>2. /\ z \in Texts /\ Len(z) = Len(s) - n
      /\ \A k \in 1 .. Len(s) - n : z[k] = s[k + n]
  BY <1>0, PartIsText
<1> HIDE DEF a, z
<1>j. /\ a \o z \in Texts /\ Len(a \o z) = Len(a) + Len(z)
      /\ \A i \in 1 .. Len(a) : (a \o z)[i] = a[i]
      /\ \A i \in 1 .. Len(z) : (a \o z)[Len(a) + i] = z[i]
  BY <1>1, <1>2, JoinIsText
<1>3. a \o z \in Texts /\ Len(a \o z) = Len(s)
  BY <1>0, <1>1, <1>2, <1>j
<1>4. ASSUME NEW i \in 1 .. Len(s) PROVE (a \o z)[i] = s[i]
  <2>1. CASE i =< n
    BY <1>0, <1>1, <1>j, <2>1
  <2>2. CASE i > n
    <3>1. i - n \in 1 .. Len(z) /\ i = Len(a) + (i - n)
      BY <1>0, <1>1, <1>2, <2>2
    <3>2. (a \o z)[Len(a) + (i - n)] = z[i - n]
      BY <1>j, <3>1
    <3>3. z[i - n] = s[(i - n) + n] /\ (i - n) + n = i
      BY <1>2, <3>1
    <3> QED BY <3>1, <3>2, <3>3
  <2>3. i =< n \/ i > n
    BY <1>0
  <2> QED BY <2>1, <2>2, <2>3
<1> QED BY <1>3, <1>4, SameText DEF a, z

\* Equal ends cancel.
LEMMA CancelTail ==
  ASSUME NEW s \in Texts, NEW t \in Texts, NEW u \in Texts, s \o u = t \o u
  PROVE  s = t
BY JoinIsText, SameText DEF Texts

LEMMA CancelHead ==
  ASSUME NEW s \in Texts, NEW t \in Texts, NEW u \in Texts, NEW v \in Texts,
         s \o u = t \o v, Len(s) = Len(t)
  PROVE  s = t /\ u = v
<1>0. Len(s) \in Nat /\ Len(u) \in Nat /\ Len(v) \in Nat
  BY DEF Texts
<1>1. s = t
  <2>1. \A i \in 1 .. Len(s) : s[i] = (s \o u)[i] /\ t[i] = (t \o v)[i]
    BY JoinIsText
  <2> QED BY <2>1, SameText
<1>2. Len(u) = Len(v)
  BY <1>0, JoinIsText
<1>3. ASSUME NEW i \in 1 .. Len(u) PROVE u[i] = v[i]
  <2>1. (s \o u)[Len(s) + i] = u[i]
    BY JoinIsText, ZenonT(60)
  <2>2. i \in 1 .. Len(v)
    BY <1>2
  <2>3. (t \o v)[Len(t) + i] = v[i]
    BY <2>2, JoinIsText
  <2> QED BY <2>1, <2>3
<1> QED BY <1>1, <1>2, <1>3, SameText

\* DropLast and TakeLast split a text.
LEMMA DropIsText ==
  ASSUME NEW s \in Texts, NEW n \in Nat
  PROVE  /\ DropLast(s, n) \in Texts
         /\ n =< Len(s) => Len(DropLast(s, n)) = Len(s) - n
         /\ n =< Len(s) => TakeLast(s, n) \in Texts /\ Len(TakeLast(s, n)) = n
         /\ n =< Len(s) => DropLast(s, n) \o TakeLast(s, n) = s
<1>0. Len(s) \in Nat
  BY DEF Texts
<1>1. DropLast(s, n) \in Texts /\ (n =< Len(s) => Len(DropLast(s, n)) = Len(s) - n)
  BY <1>0, PartIsText DEF DropLast
<1>2. ASSUME n =< Len(s)
      PROVE  /\ TakeLast(s, n) \in Texts /\ Len(TakeLast(s, n)) = n
             /\ DropLast(s, n) \o TakeLast(s, n) = s
  <2>1. Len(s) - n + 1 \in Nat \ {0} /\ Len(s) - n \in 0 .. Len(s)
    BY <1>0, <1>2
  <2>2. TakeLast(s, n) \in Texts /\ Len(TakeLast(s, n)) = n
    BY <1>0, <1>2, <2>1, PartIsText DEF TakeLast
  <2>3. DropLast(s, n) \o TakeLast(s, n) = s
    BY <2>1, SplitText DEF TakeLast, DropLast
  <2> QED BY <2>2, <2>3
<1> QED BY <1>1, <1>2

\* The end of a joined text.
LEMMA TakeJoined ==
  ASSUME NEW x \in Texts, NEW s \in Texts
  PROVE  TakeLast(x \o s, Len(s)) = s /\ DropLast(x \o s, Len(s)) = x
<1>0. Len(s) \in Nat /\ Len(x) \in Nat
  BY DEF Texts
<1> DEFINE t == x \o s
<1>1. t \in Texts /\ Len(t) = Len(x) + Len(s)
  BY JoinIsText
<1>2. t = x \o s
  OBVIOUS
<1> HIDE DEF t
<1>3. /\ DropLast(t, Len(s)) \in Texts /\ Len(DropLast(t, Len(s))) = Len(x)
      /\ TakeLast(t, Len(s)) \in Texts
      /\ DropLast(t, Len(s)) \o TakeLast(t, Len(s)) = t
  <2>1. Len(s) =< Len(t) /\ Len(t) - Len(s) = Len(x)
    BY <1>0, <1>1
  <2>2. /\ DropLast(t, Len(s)) \in Texts /\ Len(DropLast(t, Len(s))) = Len(t) - Len(s)
        /\ TakeLast(t, Len(s)) \in Texts
        /\ DropLast(t, Len(s)) \o TakeLast(t, Len(s)) = t
    BY <1>0, <1>1, <2>1, DropIsText
  <2> QED BY <2>1, <2>2
<1>4. DropLast(t, Len(s)) = x /\ TakeLast(t, Len(s)) = s
  BY <1>2, <1>3, CancelHead
<1> QED BY <1>2, <1>4

\* t ends with s.
Ends(t, s) == \E x \in Texts : t = x \o s

LEMMA SuffixEnds ==
  ASSUME NEW s \in Texts, NEW t \in Texts
  PROVE  IsSuffixOf(s, t) <=> Ends(t, s)
<1>0. Len(s) \in Nat /\ Len(t) \in Nat
  BY DEF Texts
<1>1. ASSUME Ends(t, s) PROVE IsSuffixOf(s, t)
  <2>1. PICK x \in Texts : t = x \o s
    BY <1>1 DEF Ends
  <2>2. Len(t) = Len(x) + Len(s) /\ Len(x) \in Nat
    BY <2>1, JoinIsText DEF Texts
  <2> QED BY <1>0, <2>1, <2>2, TakeJoined DEF IsSuffixOf
<1>2. ASSUME IsSuffixOf(s, t) PROVE Ends(t, s)
  <2>1. Len(s) =< Len(t) /\ TakeLast(t, Len(s)) = s
    BY <1>2 DEF IsSuffixOf
  <2>2. DropLast(t, Len(s)) \in Texts /\ DropLast(t, Len(s)) \o TakeLast(t, Len(s)) = t
    BY <1>0, <2>1, DropIsText
  <2> QED BY <2>1, <2>2 DEF Ends
<1> QED BY <1>1, <1>2

LEMMA EndsWithNothing == \A t \in Texts : Ends(t, <<>>)
BY JoinEmpty DEF Ends

LEMMA AppendIsText ==
  ASSUME NEW s \in Texts, NEW c \in Cells
  PROVE  Append(s, c) \in Texts /\ Append(s, c) = s \o <<c>> /\ <<c>> \in Texts
BY DEF Texts

\* A key that reaches field and buffer keeps them level.
LEMMA EndsAppend ==
  ASSUME NEW s \in Texts, NEW t \in Texts, NEW c \in Cells, Ends(t, s)
  PROVE  Ends(Append(t, c), Append(s, c))
<1>1. PICK x \in Texts : t = x \o s
  BY DEF Ends
<1>2. t \o <<c>> = x \o (s \o <<c>>)
  BY <1>1, AppendIsText, JoinAssoc
<1> QED BY <1>2, AppendIsText DEF Ends

LEMMA EndsDrop ==
  ASSUME NEW s \in Texts, NEW t \in Texts, s # <<>>, Ends(t, s)
  PROVE  Ends(DropLast(t, 1), DropLast(s, 1))
<1>0. Len(s) \in Nat \ {0}
  BY DEF Texts
<1>1. PICK x \in Texts : t = x \o s
  BY DEF Ends
<1> DEFINE a == DropLast(s, 1)
           z == TakeLast(s, 1)
<1>2. a \in Texts /\ z \in Texts /\ Len(z) = 1 /\ a \o z = s
  <2>1. 1 \in Nat /\ 1 =< Len(s)
    BY <1>0
  <2> QED BY <2>1, DropIsText
<1> HIDE DEF a, z
<1>3. t = (x \o a) \o z /\ x \o a \in Texts
  <2>1. (x \o a) \o z = x \o (a \o z)
    BY <1>2, JoinAssoc
  <2>2. x \o a \in Texts
    BY <1>2, JoinIsText
  <2> QED BY <1>1, <1>2, <2>1, <2>2
<1>4. DropLast(t, 1) = x \o a
  BY <1>2, <1>3, TakeJoined
<1> QED BY <1>4 DEF Ends, a

\* The word between what is before and what is behind it.
Before(b) == SubSeq(b, 1, WordStart(b) - 1)

LEMMA WordParts ==
  ASSUME NEW b \in Texts
  PROVE  /\ Before(b) \in Texts /\ Word(b) \in Texts /\ WordTail(b) \in Texts
         /\ HasLetter(b) => b = Before(b) \o (Word(b) \o WordTail(b))
         /\ HasLetter(Word(b)) => HasLetter(b)
<1>0. Len(b) \in Nat
  BY DEF Texts
<1>1. /\ WordEnd(b) \in 0 .. Len(b)
      /\ WordStart(b) \in 1 .. WordEnd(b) + 1
      /\ ~HasLetter(b) => WordEnd(b) = 0
  BY WordBounds
<1>2. Before(b) \in Texts /\ Word(b) \in Texts /\ WordTail(b) \in Texts
  BY <1>0, <1>1, PartIsText DEF Before, Word, WordTail
<1> DEFINE h == SubSeq(b, 1, WordEnd(b))
<1>3. /\ h \in Texts /\ Len(h) = WordEnd(b)
      /\ \A i \in 1 .. WordEnd(b) : h[i] = b[i]
  BY <1>0, <1>1, PartIsText
<1>4. h \o WordTail(b) = b
  BY <1>0, <1>1, SplitText DEF WordTail
<1> HIDE DEF h
<1> DEFINE p == WordStart(b) - 1
<1>5. p \in 0 .. WordEnd(b) /\ WordEnd(b) \in Nat /\ WordEnd(b) =< Len(b) /\ WordStart(b) = p + 1
  BY <1>0, <1>1
<1> HIDE DEF p
<1>6. SubSeq(h, 1, p) \o SubSeq(h, p + 1, WordEnd(b)) = h
  BY <1>3, <1>5, SplitText
<1>7. SubSeq(h, 1, p) = SubSeq(b, 1, p)
  <2>1. SubSeq(h, 1, p) \in Texts /\ Len(SubSeq(h, 1, p)) = p /\ \A k \in 1 .. p : SubSeq(h, 1, p)[k] = h[k]
    BY <1>3, <1>5, PartIsText
  <2>2. SubSeq(b, 1, p) \in Texts /\ Len(SubSeq(b, 1, p)) = p /\ \A k \in 1 .. p : SubSeq(b, 1, p)[k] = b[k]
    BY <1>0, <1>5, PartIsText
  <2>3. \A k \in 1 .. p : h[k] = b[k]
    BY <1>3, <1>5
  <2> QED BY <2>1, <2>2, <2>3, SameText
<1>8. SubSeq(h, p + 1, WordEnd(b)) = SubSeq(b, p + 1, WordEnd(b))
  <2> DEFINE e == WordEnd(b)
  <2>0. e \in Nat /\ p \in 0 .. e /\ e =< Len(b) /\ Len(h) = e /\ \A i \in 1 .. e : h[i] = b[i]
    BY <1>3, <1>5
  <2> HIDE DEF e
  <2>1. /\ SubSeq(h, p + 1, e) \in Texts /\ Len(SubSeq(h, p + 1, e)) = e - p
        /\ \A k \in 1 .. e - p : SubSeq(h, p + 1, e)[k] = h[k + p]
    BY <1>3, <2>0, PartIsText
  <2>2. /\ SubSeq(b, p + 1, e) \in Texts /\ Len(SubSeq(b, p + 1, e)) = e - p
        /\ \A k \in 1 .. e - p : SubSeq(b, p + 1, e)[k] = b[k + p]
    BY <1>0, <2>0, PartIsText
  <2>3. \A k \in 1 .. e - p : h[k + p] = b[k + p]
    BY <2>0
  <2>4. SubSeq(h, p + 1, e) = SubSeq(b, p + 1, e)
    BY <2>1, <2>2, <2>3, SameText
  <2> QED BY <2>4 DEF e
<1>9. Before(b) \o Word(b) = h
  <2>1. WordStart(b) - 1 = p
    BY DEF p
  <2>2. Before(b) = SubSeq(h, 1, p)
    BY <1>7, <2>1 DEF Before
  <2>3. Word(b) = SubSeq(h, p + 1, WordEnd(b))
    BY <1>5, <1>8 DEF Word
  <2> QED BY <1>6, <2>2, <2>3
<1>10. b = Before(b) \o (Word(b) \o WordTail(b))
  BY <1>2, <1>4, <1>9, JoinAssoc
<1>11. ASSUME ~HasLetter(b) PROVE ~HasLetter(Word(b))
  <2>1. Word(b) = SubSeq(b, WordStart(b), 0) /\ WordStart(b) \in Nat \ {0}
    BY <1>1, <1>11 DEF Word
  <2>2. Len(Word(b)) = 0
    BY <1>0, <2>1, PartIsText
  <2> QED BY <1>2, <2>2 DEF HasLetter, Texts
<1> QED BY <1>2, <1>10, <1>11

LEMMA ConvertedIsText == \A s \in Texts : Converted(s) \in Texts
<1> TAKE s \in Texts
<1>1. Len(s) \in Nat /\ DOMAIN s = 1 .. Len(s) /\ \A i \in 1 .. Len(s) : s[i] \in Cells
  BY DEF Texts
<1>2. Converted(s) \in [1 .. Len(s) -> Cells]
  BY <1>1 DEF Converted, Cells
<1> QED BY <1>1, <1>2 DEF Texts
(***************************************************************************)
(* The rounds.  Sound is the invariant that every operation of the actor   *)
(* keeps, between any two of its calls too; its parts come one by one.     *)
(***************************************************************************)
\* A round that is open, its timer, and the callbacks of its timers that
\* wait for the mutex all carry epochs that have been given out; a callback
\* that is over carries that of an earlier round.
Epochs(a, r) ==
  /\ a[r].epoch =< a.epoch[r]
  /\ a.armed[r] =< a.epoch[r]
  /\ \A t \in a.late : t.round = r =>
       t.epoch # 0 /\ t.epoch =< a.epoch[r] /\ (t.over => t.epoch # a[r].epoch)

Deadline(a, r) ==
  \/ a[r].epoch = 0
  \/ r = "flip" /\ a.flip.kind # "ladder"
  \/ a.armed[r] = a[r].epoch
  \/ \E t \in a.late : t.round = r /\ t.epoch = a[r].epoch

\* All rounds in order, but for the deadline of one of them.
InOrder(a, but) == \A r \in Rounds : Epochs(a, r) /\ (r # but => Deadline(a, r))

\* What callbacks that are over may expect of a step.
KeepsOver(a, b) == \A t \in a.late : t.over => t \in b.late

OverIn(late, r) == {IF t.round = r THEN [t EXCEPT !.over = TRUE] ELSE t : t \in late}

PendingT == [range : Ranges, auto : BOOLEAN, cacheNil : BOOLEAN, epoch : Nat]
LadderT == [range : Ranges, eng : Nat, epoch : Nat]
AfterT == [expected : Texts, missed : BOOLEAN, epoch : Nat]
BurstT == [range : Ranges, eng : Nat, terminal : BOOLEAN, sent : BOOLEAN, moved : BOOLEAN]
FlipT == [target : Modes \cup {"none"}, kind : {"none", "ladder", "terminal", "gesture"},
          epoch : Nat]

LEMMA NoTypes ==
  /\ <<>> \in Texts /\ NoRange \in Ranges
  /\ NoPending \in PendingT /\ NoLadder \in LadderT /\ NoAfter \in AfterT
  /\ NoBurst \in BurstT /\ NoFlip \in FlipT
<1>1. <<>> \in Texts
  BY DEF Texts
<1>2. NoRange \in Ranges
  BY <1>1 DEF NoRange, Ranges
<1>3. NoPending \in PendingT /\ NoLadder \in LadderT /\ NoBurst \in BurstT
  BY <1>2 DEF NoPending, NoLadder, NoBurst, PendingT, LadderT, BurstT
<1>4. NoAfter \in AfterT /\ NoFlip \in FlipT
  BY <1>1 DEF NoAfter, NoFlip, AfterT, FlipT
<1> QED BY <1>1, <1>2, <1>3, <1>4

LEMMA ActorFields ==
  ASSUME NEW a \in Actors
  PROVE  /\ a.epoch \in [Rounds -> Nat] /\ a.armed \in [Rounds -> Nat]
         /\ a.late \subseteq Callbacks
         /\ \A r \in Rounds : a[r].epoch \in Nat
BY DEF Actors, Rounds

LEMMA OverLate ==
  ASSUME NEW late, late \subseteq Callbacks, NEW r \in Rounds
  PROVE  /\ OverIn(late, r) \subseteq Callbacks
         /\ \A t \in late : t.over => t \in OverIn(late, r)
         /\ \A u \in OverIn(late, r) :
              \E t \in late : /\ u.round = t.round /\ u.epoch = t.epoch
                              /\ u.round # r => u = t
         /\ \A t \in late : t.round # r => t \in OverIn(late, r)
<1>1. ASSUME NEW t \in late
      PROVE  /\ [t EXCEPT !.over = TRUE] \in Callbacks
             /\ [t EXCEPT !.over = TRUE].round = t.round
             /\ [t EXCEPT !.over = TRUE].epoch = t.epoch
             /\ t.over => [t EXCEPT !.over = TRUE] = t
  <2>1. t \in Callbacks
    OBVIOUS
  <2> QED BY <2>1 DEF Callbacks
<1>2. OverIn(late, r) \subseteq Callbacks
  BY <1>1 DEF OverIn
<1>3. \A t \in late : t.over => t \in OverIn(late, r)
  BY <1>1 DEF OverIn
<1>4. \A u \in OverIn(late, r) :
        \E t \in late : u.round = t.round /\ u.epoch = t.epoch /\ (u.round # r => u = t)
  BY <1>1 DEF OverIn
<1>5. \A t \in late : t.round # r => t \in OverIn(late, r)
  BY DEF OverIn
<1> QED BY <1>2, <1>3, <1>4, <1>5

\* What is not about rounds.
LEMMA OrderKept ==
  ASSUME NEW a \in Actors, NEW b \in Actors, NEW but, InOrder(a, but),
         \A r \in Rounds : b[r].epoch = a[r].epoch, b.flip.kind = a.flip.kind,
         b.epoch = a.epoch, b.armed = a.armed, b.late = a.late
  PROVE  InOrder(b, but) /\ KeepsOver(a, b)
BY DEF InOrder, Epochs, Deadline, KeepsOver

\* A round is closed, its timer stopped.
LEMMA OrderClosed ==
  ASSUME NEW a \in Actors, NEW b \in Actors, NEW x \in Rounds, NEW but, InOrder(a, but),
         but = x \/ but \notin Rounds,
         \A r \in Rounds \ {x} : b[r] = a[r],
         b[x].epoch = 0,
         b.epoch = a.epoch,
         b.armed = [a.armed EXCEPT ![x] = 0],
         b.late = OverIn(a.late, x)
  PROVE  InOrder(b, "none") /\ KeepsOver(a, b)
<1>1. KeepsOver(a, b)
  BY ActorFields, OverLate DEF KeepsOver
<1>2. ASSUME NEW r \in Rounds PROVE Epochs(b, r) /\ Deadline(b, r)
  <2>0. /\ a.epoch[r] \in Nat /\ a.armed[r] \in Nat
        /\ b.armed[r] = IF r = x THEN 0 ELSE a.armed[r]
        /\ Epochs(a, r)
    BY ActorFields DEF InOrder
  <2>1. CASE r = x
    <3>1. \A u \in b.late : u.round = r => u.epoch # 0 /\ u.epoch =< b.epoch[r]
      BY <2>0, OverLate, ActorFields DEF Epochs
    <3> QED BY <2>0, <2>1, <3>1 DEF Epochs, Deadline
  <2>2. CASE r # x
    <3>1. b[r] = a[r] /\ (r = "flip" => b.flip = a.flip)
      BY <2>2
    <3>2. \A u \in b.late : u.round = r => u \in a.late
      BY <2>2, OverLate, ActorFields
    <3>3. \A u \in a.late : u.round = r => u \in b.late
      BY <2>2, OverLate, ActorFields
    <3>4. Epochs(b, r)
      BY <2>0, <2>2, <3>1, <3>2 DEF Epochs
    <3>5. Deadline(a, r)
      BY <2>2 DEF InOrder
    <3>6. Deadline(b, r)
      BY <2>0, <2>2, <3>1, <3>3, <3>5 DEF Deadline
    <3> QED BY <3>4, <3>6
  <2> QED BY <2>1, <2>2
<1> QED BY <1>1, <1>2 DEF InOrder

\* A round is opened under a fresh epoch, with a timer if it has one.
LEMMA OrderOpened ==
  ASSUME NEW a \in Actors, NEW b \in Actors, NEW x \in Rounds, InOrder(a, "none"),
         \A r \in Rounds \ {x} : b[r] = a[r],
         b[x].epoch = a.epoch[x] + 1,
         b.epoch = [a.epoch EXCEPT ![x] = @ + 1],
         NEW n \in {0, a.epoch[x] + 1},
         b.armed = [a.armed EXCEPT ![x] = n],
         n = 0 => x = "flip" /\ b.flip.kind # "ladder",
         b.late = a.late \/ b.late = OverIn(a.late, x)
  PROVE  InOrder(b, "none") /\ KeepsOver(a, b)
<1>1. KeepsOver(a, b)
  BY ActorFields, OverLate DEF KeepsOver
<1>l. /\ \A u \in b.late : \E t \in a.late : /\ u.round = t.round /\ u.epoch = t.epoch
                                             /\ u.round # x => u = t
      /\ \A t \in a.late : t.round # x => t \in b.late
  <2>1. CASE b.late = a.late
    BY <2>1
  <2>2. CASE b.late = OverIn(a.late, x)
    BY <2>2, OverLate, ActorFields
  <2> QED BY <2>1, <2>2
<1>2. ASSUME NEW r \in Rounds PROVE Epochs(b, r) /\ Deadline(b, r)
  <2>0. /\ a.epoch[r] \in Nat /\ a.armed[r] \in Nat
        /\ b.armed[r] = IF r = x THEN n ELSE a.armed[r]
        /\ b.epoch[r] = IF r = x THEN a.epoch[r] + 1 ELSE a.epoch[r]
        /\ Epochs(a, r)
    BY ActorFields DEF InOrder
  <2>1. CASE r = x
    <3>1. \A u \in b.late : u.round = r => u.epoch # 0 /\ u.epoch =< a.epoch[r] /\ u.epoch \in Nat
      <4> TAKE u \in b.late
      <4>1. PICK t \in a.late : u.round = t.round /\ u.epoch = t.epoch
        BY <1>l
      <4>2. t \in Callbacks
        BY ActorFields
      <4> QED BY <2>0, <4>1, <4>2 DEF Epochs, Callbacks
    <3>2. Epochs(b, r)
      BY <2>0, <2>1, <3>1 DEF Epochs
    <3>3. Deadline(b, r)
      BY <2>0, <2>1 DEF Deadline
    <3> QED BY <3>2, <3>3
  <2>2. CASE r # x
    <3>1. b[r] = a[r] /\ (r = "flip" => b.flip = a.flip)
      BY <2>2
    <3>2. \A u \in b.late : u.round = r => u \in a.late
      BY <2>2, <1>l
    <3>4. Epochs(b, r)
      BY <2>0, <2>2, <3>1, <3>2 DEF Epochs
    <3>5. Deadline(a, r)
      BY <2>2 DEF InOrder, Rounds
    <3>6. Deadline(b, r)
      BY <1>l, <2>0, <2>2, <3>1, <3>5 DEF Deadline
    <3> QED BY <3>4, <3>6
  <2> QED BY <2>1, <2>2
<1> QED BY <1>1, <1>2 DEF InOrder

(***************************************************************************)
(* The channel to the client: what has been deleted is replaced next, and  *)
(* what the text will be once everything in the channel has arrived.       *)
(***************************************************************************)
Opening == {"delete", "burst"}

\* Position i of the channel waits for a replacement; position 0 stands for
\* the client, which has deleted or not.
OpensAt(d, gap, i) == IF i = 0 THEN gap ELSE d[i].kind \in Opening

\* Behind position i only requests, and behind those the replacement.
Bare(d, i) == \A k \in i + 1 .. Len(d) : d[k].kind = "require"
Answered(d, i) ==
  \E j \in i + 1 .. Len(d) : /\ d[j].kind = "commit"
                             /\ \A k \in i + 1 .. j - 1 : d[k].kind = "require"

\* Every deletion is answered, but for one the actor still has to answer.
Gapless(d, gap, open) ==
  \A i \in 0 .. Len(d) : OpensAt(d, gap, i) => Answered(d, i) \/ (open /\ Bare(d, i))

\* What a signal does to the text of a client that does what it is asked
\* for, if a deletion takes what was planned.
Moves(m, s, t) ==
  /\ m.kind \in {"key", "commit"} => t = s \o m.text
  /\ m.kind = "erase" => t = IF s = <<>> THEN <<>> ELSE DropLast(s, 1)
  /\ m.kind \in Opening => s = t \o m.text
  /\ m.kind = "require" => t = s

\* The channel takes the text f to the text w.
Leads(d, f, w) ==
  \E T \in [0 .. Len(d) -> Texts] :
    T[0] = f /\ T[Len(d)] = w /\ \A i \in 1 .. Len(d) : Moves(d[i], T[i - 1], T[i])

LEMMA AppendFacts ==
  ASSUME NEW d \in Seq(Signals), NEW m \in Signals
  PROVE  /\ Append(d, m) \in Seq(Signals)
         /\ Len(d) \in Nat /\ Len(Append(d, m)) = Len(d) + 1
         /\ \A i \in 1 .. Len(d) : Append(d, m)[i] = d[i]
         /\ Append(d, m)[Len(d) + 1] = m
OBVIOUS

LEMMA TailFacts ==
  ASSUME NEW d \in Seq(Signals), d # <<>>
  PROVE  /\ Head(d) = d[1] /\ Head(d) \in Signals
         /\ Tail(d) \in Seq(Signals)
         /\ Len(d) \in Nat \ {0} /\ Len(Tail(d)) = Len(d) - 1
         /\ \A i \in 1 .. Len(d) - 1 : Tail(d)[i] = d[i + 1]
OBVIOUS

LEMMA GapAppend ==
  ASSUME NEW d \in Seq(Signals), NEW gap \in BOOLEAN, NEW open \in BOOLEAN,
         NEW now \in BOOLEAN, NEW m \in Signals, Gapless(d, gap, open),
         \/ m.kind = "require" /\ (open => now)
         \/ m.kind = "commit"
         \/ m.kind \in {"key", "erase"} /\ ~open
         \/ m.kind \in Opening /\ ~open /\ now
  PROVE  Gapless(Append(d, m), gap, now)
<1> DEFINE e == Append(d, m)
<1>0. /\ e \in Seq(Signals) /\ Len(d) \in Nat /\ Len(e) = Len(d) + 1
      /\ \A i \in 1 .. Len(d) : e[i] = d[i]
      /\ e[Len(d) + 1] = m
  BY AppendFacts
<1> HIDE DEF e
<1> SUFFICES ASSUME NEW i \in 0 .. Len(e), OpensAt(e, gap, i)
             PROVE  Answered(e, i) \/ (now /\ Bare(e, i))
  BY DEF Gapless, e
<1>1. CASE i = Len(d) + 1
  <2>1. m.kind \in Opening
    BY <1>0, <1>1 DEF OpensAt
  <2>2. now
    BY <2>1 DEF Opening
  <2>3. Bare(e, i)
    BY <1>0, <1>1 DEF Bare
  <2> QED BY <2>2, <2>3
<1>2. CASE i # Len(d) + 1
  <2>0. i \in 0 .. Len(d) /\ OpensAt(d, gap, i)
    BY <1>0, <1>2 DEF OpensAt
  <2>1. CASE Answered(d, i)
    BY <1>0, <2>0, <2>1 DEF Answered
  <2>2. CASE open /\ Bare(d, i)
    <3>1. CASE m.kind = "require"
      BY <1>0, <2>0, <2>2, <3>1 DEF Bare
    <3>2. CASE m.kind = "commit"
      <4>1. \A k \in i + 1 .. (Len(d) + 1) - 1 : e[k].kind = "require"
        BY <1>0, <2>0, <2>2 DEF Bare
      <4>2. Len(d) + 1 \in i + 1 .. Len(e)
        BY <1>0, <2>0
      <4> QED BY <1>0, <3>2, <4>1, <4>2 DEF Answered
    <3> QED BY <2>2, <3>1, <3>2
  <2> QED BY <2>0, <2>1, <2>2 DEF Gapless
<1> QED BY <1>1, <1>2

LEMMA GapWeaker ==
  ASSUME NEW d, NEW gap \in BOOLEAN, NEW open \in BOOLEAN, NEW now \in BOOLEAN,
         Gapless(d, gap, open), open => now
  PROVE  Gapless(d, gap, now)
BY DEF Gapless

\* The client takes a signal.
LEMMA GapTail ==
  ASSUME NEW d \in Seq(Signals), NEW gap \in BOOLEAN, NEW open \in BOOLEAN,
         NEW after \in BOOLEAN, Gapless(d, gap, open), d # <<>>,
         after => (gap \/ Head(d).kind \in Opening) /\ Head(d).kind # "commit"
  PROVE  /\ Gapless(Tail(d), after, open)
         /\ gap => Head(d).kind \in {"commit", "require"}
<1> DEFINE e == Tail(d)
<1>0. /\ Head(d) = d[1] /\ e \in Seq(Signals)
      /\ Len(d) \in Nat \ {0} /\ Len(e) = Len(d) - 1
      /\ \A i \in 1 .. Len(d) - 1 : e[i] = d[i + 1]
  BY TailFacts
<1> HIDE DEF e
<1>1. ASSUME gap PROVE d[1].kind \in {"commit", "require"}
  <2>1. Answered(d, 0) \/ Bare(d, 0)
    BY <1>0, <1>1 DEF Gapless, OpensAt
  <2>2. CASE Bare(d, 0)
    BY <1>0, <2>2 DEF Bare
  <2>3. CASE Answered(d, 0)
    <3>1. PICK j \in 0 + 1 .. Len(d) : d[j].kind = "commit" /\ \A k \in 0 + 1 .. j - 1 : d[k].kind = "require"
      BY <2>3 DEF Answered
    <3>2. CASE j = 1
      BY <3>1, <3>2
    <3>3. CASE j # 1
      BY <1>0, <3>1, <3>3
    <3> QED BY <3>2, <3>3
  <2> QED BY <2>1, <2>2, <2>3
\* An answer moves with its question.
<1>2. ASSUME NEW i \in 1 .. Len(d), Answered(d, i) PROVE Answered(e, i - 1)
  <2>1. PICK j \in i + 1 .. Len(d) : d[j].kind = "commit" /\ \A k \in i + 1 .. j - 1 : d[k].kind = "require"
    BY <1>2 DEF Answered
  <2>2. j - 1 \in (i - 1) + 1 .. Len(e) /\ e[j - 1].kind = "commit"
    BY <1>0, <2>1
  <2>3. ASSUME NEW k \in (i - 1) + 1 .. (j - 1) - 1 PROVE e[k].kind = "require"
    <3>1. k + 1 \in i + 1 .. j - 1 /\ k \in 1 .. Len(d) - 1
      BY <1>0, <2>1
    <3> QED BY <1>0, <2>1, <3>1
  <2> QED BY <2>2, <2>3 DEF Answered
<1>3. ASSUME NEW i \in 1 .. Len(d), Bare(d, i) PROVE Bare(e, i - 1)
  <2>1. ASSUME NEW k \in (i - 1) + 1 .. Len(e) PROVE e[k].kind = "require"
    <3>1. k + 1 \in i + 1 .. Len(d) /\ k \in 1 .. Len(d) - 1
      BY <1>0
    <3> QED BY <1>0, <1>3, <3>1 DEF Bare
  <2> QED BY <2>1 DEF Bare
<1>4. ASSUME NEW i \in 0 .. Len(e), OpensAt(e, after, i)
      PROVE  Answered(e, i) \/ (open /\ Bare(e, i))
  <2>0. i + 1 \in 1 .. Len(d) /\ (i + 1) - 1 = i
    BY <1>0
  <2>1. CASE OpensAt(d, gap, i + 1)
    <3>1. Answered(d, i + 1) \/ (open /\ Bare(d, i + 1))
      BY <1>0, <2>0, <2>1 DEF Gapless
    <3>2. (Answered(d, i + 1) => Answered(e, (i + 1) - 1)) /\ (Bare(d, i + 1) => Bare(e, (i + 1) - 1))
      BY <1>2, <1>3, <2>0
    <3> QED BY <2>0, <3>1, <3>2
  <2>2. CASE ~OpensAt(d, gap, i + 1)
    <3>1. i = 0 /\ gap /\ d[1].kind = "require"
      <4>1. i = 0
        BY <1>0, <1>4, <2>2 DEF OpensAt
      <4>2. d[1].kind \notin Opening /\ gap /\ d[1].kind # "commit"
        BY <1>0, <1>4, <2>2, <4>1 DEF OpensAt
      <4> QED BY <1>1, <4>1, <4>2
    <3>2. Answered(d, 0) \/ (open /\ Bare(d, 0))
      BY <1>0, <3>1 DEF Gapless, OpensAt
    <3>3. CASE Answered(d, 0)
      <4>1. PICK j \in 0 + 1 .. Len(d) : d[j].kind = "commit" /\ \A k \in 0 + 1 .. j - 1 : d[k].kind = "require"
        BY <3>3 DEF Answered
      <4>2. j \in 1 + 1 .. Len(d) /\ \A k \in 1 + 1 .. j - 1 : d[k].kind = "require"
        BY <1>0, <3>1, <4>1
      <4>3. Answered(d, 1)
        BY <4>1, <4>2 DEF Answered
      <4> QED BY <1>2, <2>0, <3>1, <4>3
    <3>4. CASE open /\ Bare(d, 0)
      <4>1. Bare(d, 1)
        BY <1>0, <3>4 DEF Bare
      <4> QED BY <1>3, <2>0, <3>1, <3>4, <4>1
    <3> QED BY <3>2, <3>3, <3>4
  <2> QED BY <2>1, <2>2
<1> QED BY <1>0, <1>1, <1>4 DEF Gapless, e

\* With nothing under way, no deletion waits.
LEMMA GapOver ==
  ASSUME NEW gap \in BOOLEAN, Gapless(<<>>, gap, FALSE)
  PROVE  ~gap
BY DEF Gapless, OpensAt, Answered

LEMMA LeadsNowhere == \A f, w \in Texts : Leads(<<>>, f, w) <=> f = w
<1> TAKE f, w \in Texts
<1>1. ASSUME f = w PROVE Leads(<<>>, f, w)
  <2> DEFINE T == [i \in 0 .. 0 |-> f]
  <2>1. T \in [0 .. Len(<<>>) -> Texts] /\ T[0] = f /\ T[Len(<<>>)] = w
    BY <1>1
  <2>2. \A i \in 1 .. Len(<<>>) : Moves(<<>>[i], T[i - 1], T[i])
    OBVIOUS
  <2> HIDE DEF T
  <2> QED BY <2>1, <2>2 DEF Leads
<1>2. ASSUME Leads(<<>>, f, w) PROVE f = w
  BY <1>2 DEF Leads
<1> QED BY <1>1, <1>2

LEMMA LeadsAppend ==
  ASSUME NEW d \in Seq(Signals), NEW m \in Signals, NEW f \in Texts, NEW w \in Texts,
         NEW v \in Texts, Leads(d, f, w), Moves(m, w, v)
  PROVE  Leads(Append(d, m), f, v)
<1> DEFINE e == Append(d, m)
<1>0. /\ e \in Seq(Signals) /\ Len(d) \in Nat /\ Len(e) = Len(d) + 1
      /\ \A i \in 1 .. Len(d) : e[i] = d[i]
      /\ e[Len(d) + 1] = m
  BY AppendFacts
<1>1. PICK T \in [0 .. Len(d) -> Texts] :
        T[0] = f /\ T[Len(d)] = w /\ \A i \in 1 .. Len(d) : Moves(d[i], T[i - 1], T[i])
  BY DEF Leads
<1> DEFINE U == [i \in 0 .. Len(d) + 1 |-> IF i = Len(d) + 1 THEN v ELSE T[i]]
<1>2. /\ U \in [0 .. Len(d) + 1 -> Texts] /\ U[0] = f /\ U[Len(d) + 1] = v
      /\ \A i \in 0 .. Len(d) : U[i] = T[i]
  BY <1>0, <1>1
<1> HIDE DEF U, e
<1>3. ASSUME NEW i \in 1 .. Len(d) + 1 PROVE Moves(e[i], U[i - 1], U[i])
  <2>1. CASE i = Len(d) + 1
    <3>1. i - 1 = Len(d) /\ U[i - 1] = w /\ U[i] = v /\ e[i] = m
      BY <1>0, <1>1, <1>2, <2>1
    <3> QED BY <3>1
  <2>2. CASE i # Len(d) + 1
    <3>1. i \in 1 .. Len(d) /\ i - 1 \in 0 .. Len(d) /\ i \in 0 .. Len(d)
      BY <1>0, <2>2
    <3>2. U[i - 1] = T[i - 1] /\ U[i] = T[i] /\ e[i] = d[i]
      BY <1>0, <1>2, <3>1
    <3> QED BY <1>1, <3>1, <3>2
  <2> QED BY <2>1, <2>2
<1> QED BY <1>0, <1>2, <1>3 DEF Leads, e

LEMMA LeadsTail ==
  ASSUME NEW d \in Seq(Signals), d # <<>>, NEW f \in Texts, NEW w \in Texts, Leads(d, f, w)
  PROVE  \E g \in Texts : Moves(Head(d), f, g) /\ Leads(Tail(d), g, w)
<1> DEFINE e == Tail(d)
<1>0. /\ Head(d) = d[1] /\ e \in Seq(Signals)
      /\ Len(d) \in Nat \ {0} /\ Len(e) = Len(d) - 1
      /\ \A i \in 1 .. Len(d) - 1 : e[i] = d[i + 1]
  BY TailFacts
<1>1. PICK T \in [0 .. Len(d) -> Texts] :
        T[0] = f /\ T[Len(d)] = w /\ \A i \in 1 .. Len(d) : Moves(d[i], T[i - 1], T[i])
  BY DEF Leads
<1> DEFINE U == [i \in 0 .. Len(d) - 1 |-> T[i + 1]]
<1>2. /\ U \in [0 .. Len(d) - 1 -> Texts] /\ U[0] = T[1] /\ U[Len(d) - 1] = w
      /\ \A i \in 0 .. Len(d) - 1 : U[i] = T[i + 1]
  BY <1>0, <1>1
<1> HIDE DEF U, e
<1>3. ASSUME NEW i \in 1 .. Len(d) - 1 PROVE Moves(e[i], U[i - 1], U[i])
  <2>1. /\ i \in 0 .. Len(d) - 1 /\ i - 1 \in 0 .. Len(d) - 1 /\ (i - 1) + 1 = i
        /\ i + 1 \in 1 .. Len(d) /\ (i + 1) - 1 = i
    BY <1>0
  <2>2. e[i] = d[i + 1] /\ U[i - 1] = T[i] /\ U[i] = T[i + 1]
    BY <1>0, <1>2, <2>1
  <2>3. Moves(d[i + 1], T[(i + 1) - 1], T[i + 1])
    BY <1>1, <2>1
  <2> QED BY <2>1, <2>2, <2>3
<1>4. Leads(e, T[1], w)
  BY <1>0, <1>2, <1>3 DEF Leads
<1>5. T[1] \in Texts /\ Moves(d[1], T[1 - 1], T[1]) /\ 1 - 1 = 0
  BY <1>0, <1>1
<1>6. Moves(Head(d), f, T[1])
  BY <1>0, <1>1, <1>5
<1> QED BY <1>4, <1>5, <1>6 DEF e

(***************************************************************************)
(* The range of a correction.                                              *)
(***************************************************************************)
\* r is what a correction of the word, or of the phrase, takes out of b.
RangeOf(b, r) ==
  /\ HasLetter(r.token)
  /\ r.phrase => r.token = b /\ r.tail = <<>>
  /\ ~r.phrase => r.token = Word(b) /\ r.tail = WordTail(b)

ReplacedIn(b, r) == IF r.phrase THEN ReplacePhrase(b, New(r)) ELSE ReplaceWord(b, New(r))

LEMMA RangeTexts ==
  ASSUME NEW r \in Ranges
  PROVE  /\ r.token \in Texts /\ r.tail \in Texts /\ r.phrase \in BOOLEAN
         /\ Match(r) \in Texts /\ New(r) \in Texts /\ New(r) \o r.tail \in Texts
<1>1. r.token \in Texts /\ r.tail \in Texts /\ r.phrase \in BOOLEAN
  BY DEF Ranges
<1>2. New(r) \in Texts
  BY <1>1, ConvertedIsText DEF New
<1> QED BY <1>1, <1>2, JoinIsText DEF Match

LEMMA RangeParts ==
  ASSUME NEW b \in Texts, NEW r \in Ranges, RangeOf(b, r)
  PROVE  \E p \in Texts : /\ b = p \o Match(r)
                          /\ ReplacedIn(b, r) = p \o (New(r) \o r.tail)
<1>0. /\ r.token \in Texts /\ r.tail \in Texts /\ r.phrase \in BOOLEAN
      /\ New(r) \in Texts
  BY RangeTexts
<1>1. CASE r.phrase
  <2>1. r.token = b /\ r.tail = <<>> /\ HasLetter(b)
    BY <1>1 DEF RangeOf
  <2>2. Match(r) = b
    BY <1>0, <2>1, JoinEmpty DEF Match
  <2>3. b # <<>>
    BY <2>1 DEF HasLetter
  <2>4. ReplacedIn(b, r) = New(r)
    BY <1>1, <2>3 DEF ReplacedIn, ReplacePhrase
  <2>5. New(r) \o r.tail = New(r)
    BY <1>0, <2>1, JoinEmpty
  <2>6. <<>> \in Texts /\ <<>> \o b = b /\ <<>> \o New(r) = New(r)
    BY <1>0, JoinEmpty
  <2> QED BY <2>2, <2>4, <2>5, <2>6
<1>2. CASE ~r.phrase
  <2>1. r.token = Word(b) /\ r.tail = WordTail(b) /\ HasLetter(Word(b))
    BY <1>2 DEF RangeOf
  <2>2. /\ Before(b) \in Texts /\ HasLetter(b)
        /\ b = Before(b) \o (Word(b) \o WordTail(b))
    BY <2>1, WordParts
  <2>3. ReplacedIn(b, r) = (Before(b) \o New(r)) \o r.tail
    BY <1>2, <2>1, <2>2 DEF ReplacedIn, ReplaceWord, Before
  <2>4. (Before(b) \o New(r)) \o r.tail = Before(b) \o (New(r) \o r.tail)
    BY <1>0, <2>2, JoinAssoc, ZenonT(60)
  <2> QED BY <2>1, <2>2, <2>3, <2>4 DEF Match
<1> QED BY <1>0, <1>1, <1>2

LEMMA ReplacedIsText ==
  ASSUME NEW b \in Texts, NEW r \in Ranges
  PROVE  ReplacedIn(b, r) \in Texts
<1>0. r.tail \in Texts /\ New(r) \in Texts
  BY RangeTexts
<1>1. ReplacePhrase(b, New(r)) \in Texts
  BY <1>0 DEF ReplacePhrase
<1>2. ReplaceWord(b, New(r)) \in Texts
  <2>1. Before(b) \in Texts /\ WordTail(b) \in Texts
    BY WordParts
  <2>2. (Before(b) \o New(r)) \o WordTail(b) \in Texts
    BY <1>0, <2>1, JoinIsText
  <2> QED BY <2>2 DEF ReplaceWord, Before
<1> QED BY <1>1, <1>2 DEF ReplacedIn

LEMMA NothingReplaced == \A r \in Ranges : ReplacedIn(<<>>, r) = <<>>
<1> TAKE r \in Ranges
<1>1. ~HasLetter(<<>>)
  BY DEF HasLetter
<1> QED BY <1>1 DEF ReplacedIn, ReplacePhrase, ReplaceWord

\* What is planned can be taken out of a text that ends with the buffer.
LEMMA PlannedIsThere ==
  ASSUME NEW b \in Texts, NEW r \in Ranges, RangeOf(b, r), NEW w \in Texts, Ends(w, b)
  PROVE  \E v \in Texts : w = v \o Match(r) /\ Ends(v \o Match(r), b)
<1>1. PICK p \in Texts : b = p \o Match(r)
  BY RangeParts
<1>2. PICK x \in Texts : w = x \o b
  BY DEF Ends
<1>3. x \o (p \o Match(r)) = (x \o p) \o Match(r) /\ x \o p \in Texts
  <2> DEFINE z == Match(r)
  <2>1. z \in Texts
    BY RangeTexts
  <2> HIDE DEF z
  <2>2. x \o (p \o z) = (x \o p) \o z
    BY <2>1, JoinAssoc
  <2>3. x \o p \in Texts
    BY JoinIsText
  <2> QED BY <2>2, <2>3 DEF z
<1> QED BY <1>1, <1>2, <1>3

\* And put in again, replaced.
LEMMA ReplacedIsThere ==
  ASSUME NEW b \in Texts, NEW r \in Ranges, RangeOf(b, r), NEW w \in Texts, Ends(w \o Match(r), b)
  PROVE  Ends(w \o (New(r) \o r.tail), ReplacedIn(b, r))
<1>0. Match(r) \in Texts /\ New(r) \o r.tail \in Texts
  BY RangeTexts
<1>1. PICK p \in Texts : b = p \o Match(r) /\ ReplacedIn(b, r) = p \o (New(r) \o r.tail)
  BY RangeParts
<1>2. PICK x \in Texts : w \o Match(r) = x \o b
  BY DEF Ends
<1>3. x \o (p \o Match(r)) = (x \o p) \o Match(r) /\ x \o p \in Texts
  <2> DEFINE z == Match(r)
  <2>1. z \in Texts
    BY <1>0
  <2> HIDE DEF z
  <2>2. x \o (p \o z) = (x \o p) \o z
    BY <2>1, JoinAssoc
  <2>3. x \o p \in Texts
    BY JoinIsText
  <2> QED BY <2>2, <2>3 DEF z
<1>4. w = x \o p
  <2>1. w \o Match(r) = (x \o p) \o Match(r)
    BY <1>1, <1>2, <1>3
  <2> QED BY <1>0, <1>3, <2>1, CancelTail
<1>5. (x \o p) \o (New(r) \o r.tail) = x \o (p \o (New(r) \o r.tail))
  BY <1>0, JoinAssoc
<1>6. p \o (New(r) \o r.tail) \in Texts
  BY <1>0, JoinIsText
<1> QED BY <1>1, <1>4, <1>5 DEF Ends

LEMMA WordRangeIs ==
  ASSUME NEW a \in Actors
  PROVE  /\ WordRange(a) \in Ranges /\ PhraseRange(a) \in Ranges
         /\ HasLetter(WordRange(a).token) => RangeOf(a.buf, WordRange(a))
         /\ HasLetter(PhraseRange(a).token) => RangeOf(a.buf, PhraseRange(a))
<1>1. a.buf \in Texts
  BY DEF Actors
<1>2. Word(a.buf) \in Texts /\ WordTail(a.buf) \in Texts /\ <<>> \in Texts
  BY <1>1, WordParts, NoTypes
<1>3. WordRange(a) \in Ranges /\ PhraseRange(a) \in Ranges
  BY <1>1, <1>2 DEF WordRange, PhraseRange, Ranges
<1>4. /\ ~WordRange(a).phrase /\ PhraseRange(a).phrase
      /\ WordRange(a).token = Word(a.buf) /\ WordRange(a).tail = WordTail(a.buf)
      /\ PhraseRange(a).token = a.buf /\ PhraseRange(a).tail = <<>>
  BY DEF WordRange, PhraseRange
<1> QED BY <1>3, <1>4 DEF RangeOf

(***************************************************************************)
(* The invariant of the actor.                                             *)
(***************************************************************************)
ClientT == [kind : AllClients, field : Texts, news : BOOLEAN, gap : BOOLEAN, torn : BOOLEAN,
            harmed : BOOLEAN]

Known(a) == a \in Actors /\ a.eng # 0 /\ (a.flip # NoFlip => a.flip.target \in Modes)

\* As long as no engine has been created anew over something undelivered,
\* what is under way and what is still to come has a living engine.
Engines(a) ==
  ~a.crossed =>
    /\ \A i \in DOMAIN a.down : a.down[i].kind = "require" \/ a.down[i].eng \in {0, a.eng}
    /\ a.ladder # NoLadder => a.ladder.eng = a.eng
    /\ Busy(a) => a.burst.eng = a.eng

Alone(a) == ~a.doubled => a.ladder = NoLadder \/ ~Busy(a)

\* No round is open with a client of the terminal class, and none is opened
\* by an autocorrection while its word is half replaced.
Learned(a) ==
  /\ a.pending # NoPending => ~a.dead
  /\ a.ladder # NoLadder /\ a.payload # NoRange => ~a.dead /\ a.pending = NoPending

\* A deletion has been sent, its replacement not.
HalfDone(a) == a.ladder # NoLadder \/ (Busy(a) /\ a.burst.sent)

Owed(a) == CASE a.ladder # NoLadder -> Match(a.ladder.range)
             [] a.ladder = NoLadder /\ Busy(a) /\ a.burst.sent -> Match(a.burst.range)
             [] OTHER -> <<>>

Calm(a) == ~a.crossed /\ ~a.raced /\ ~a.doubled

\* The buffer is the end of what the text f will be, but for the half that
\* is still owed; what a round is about is what is in the buffer.
Level(a, f) ==
  /\ \E w \in Texts : Leads(a.down, f, w) /\ Ends(w \o Owed(a), a.buf)
  /\ a.pending # NoPending => RangeOf(a.buf, a.pending.range)
  /\ a.ladder # NoLadder => RangeOf(a.buf, a.ladder.range)
  /\ Busy(a) /\ ~a.burst.moved /\ ~a.burst.sent => RangeOf(a.buf, a.burst.range)
  /\ Busy(a) /\ a.burst.sent => a.buf = <<>> \/ RangeOf(a.buf, a.burst.range)

Sound(a, c, but) ==
  /\ Known(a)
  /\ InOrder(a, but)
  /\ Engines(a) /\ Alone(a) /\ Learned(a)
  /\ ~a.crossed /\ ~a.doubled => Gapless(a.down, c.gap, HalfDone(a))
  /\ Calm(a) /\ c.kind # "deaf" => Level(a, c.field)

\* b comes after a: what a step may never take back.
Later(a, b) ==
  /\ KeepsOver(a, b)
  /\ a.crossed => b.crossed
  /\ a.raced => b.raced
  /\ a.doubled => b.doubled

LEMMA LaterTrans ==
  ASSUME NEW a, NEW b, NEW d, Later(a, b), Later(b, d)
  PROVE  Later(a, d)
BY DEF Later, KeepsOver

Goes(a, b, c) == Sound(b, c, "none") /\ Later(a, b)

LEMMA GoesOn ==
  ASSUME NEW a, NEW b, NEW d, NEW c, Goes(a, b, c), Goes(b, d, c)
  PROVE  Goes(a, d, c)
BY LaterTrans DEF Goes

LEMMA GoesNowhere ==
  ASSUME NEW a, NEW c, Sound(a, c, "none")
  PROVE  Goes(a, a, c)
BY DEF Goes, Later, KeepsOver

\* What the layout's business leaves alone.
Rest(a, b) ==
  /\ b.buf = a.buf /\ b.dead = a.dead /\ b.payload = a.payload
  /\ b.ladder = a.ladder /\ b.burst = a.burst
SameWork(a, b) == Rest(a, b) /\ b.pending = a.pending

LEMMA Kept ==
  ASSUME NEW a, NEW c, NEW but, Sound(a, c, but),
         NEW b, NEW now, Known(b), InOrder(b, now),
         b.eng = a.eng \/ Engines(b),
         b.crossed = a.crossed \/ (a.crossed => b.crossed),
         b.raced = a.raced \/ (a.raced => b.raced),
         b.doubled = a.doubled,
         b.buf = a.buf, b.dead = a.dead, b.ladder = a.ladder, b.burst = a.burst,
         b.down = a.down,
         b.pending = a.pending \/ b.pending = NoPending,
         b.payload = a.payload \/ b.payload = NoRange
  PROVE  Sound(b, c, now)
<1>0. (a.crossed => b.crossed) /\ (a.raced => b.raced) /\ (a.doubled => b.doubled)
  OBVIOUS
<1>1. Engines(b)
  <2>1. CASE b.eng = a.eng
    BY <1>0, <2>1 DEF Engines, Sound, Busy
  <2> QED BY <2>1
<1>2. Alone(b)
  BY <1>0 DEF Alone, Sound, Busy
<1>3. Learned(b)
  BY DEF Learned, Sound
<1>4. HalfDone(b) = HalfDone(a) /\ Owed(b) = Owed(a) /\ Busy(b) = Busy(a)
  BY DEF HalfDone, Owed, Busy
<1>5. ~b.crossed /\ ~b.doubled => Gapless(b.down, c.gap, HalfDone(b))
  BY <1>0, <1>4 DEF Sound
<1>6. Calm(b) => Calm(a)
  BY <1>0 DEF Calm
<1>7. Calm(b) /\ c.kind # "deaf" => Level(b, c.field)
  BY <1>4, <1>6 DEF Sound, Level
<1> QED BY <1>1, <1>2, <1>3, <1>5, <1>7 DEF Sound

(***************************************************************************)
(* The layout.                                                             *)
(***************************************************************************)
LEMMA OppositeMode == \A t \in Modes : Opposite(t) \in Modes
BY DEF Opposite, Modes

LEMMA ScriptIsMode == \A s \in Texts : ScriptOf(s) \in Modes
BY DEF ScriptOf, Modes

LEMMA CallTypes ==
  /\ \A kind \in {"focusout", "reset"} : Call(kind, "none") \in Calls
  /\ \A key \in AllKeys : Call("key", key) \in Calls
  /\ \A t \in Texts : Report(t) \in Calls
BY NoTypes DEF Calls, Call, Report

\* A round is closed: its timer is stopped, and nothing else is done.
ClosedRound(a, b, x) ==
  /\ b.armed = [a.armed EXCEPT ![x] = 0] /\ b.late = OverIn(a.late, x)
  /\ b[x].epoch = 0
  /\ \A r \in Rounds \ {x} : b[r] = a[r]
  /\ b.epoch = a.epoch /\ b.eng = a.eng /\ b.down = a.down
  /\ b.crossed = a.crossed /\ b.raced = a.raced /\ b.doubled = a.doubled
  /\ b.buf = a.buf /\ b.dead = a.dead /\ b.payload = a.payload /\ b.burst = a.burst

LEMMA OverFields ==
  ASSUME NEW a \in Actors, NEW r \in Rounds
  PROVE  /\ [a.armed EXCEPT ![r] = 0] \in [Rounds -> Nat]
         /\ OverIn(a.late, r) \subseteq Callbacks
         /\ Over(a, r) = [a EXCEPT !.armed = [a.armed EXCEPT ![r] = 0], !.late = OverIn(a.late, r)]
BY ActorFields, OverLate DEF Over, OverIn, Actors

LEMMA ClosedSound ==
  ASSUME NEW a, NEW c, NEW x \in Rounds \ {"ladder"}, NEW but, Sound(a, c, but),
         but = x \/ but \notin Rounds,
         NEW b, Known(b), ClosedRound(a, b, x), x = "pending" => b.pending = NoPending
  PROVE  Goes(a, b, c)
<1>0. a \in Actors /\ b \in Actors /\ InOrder(a, but) /\ "ladder" \in Rounds /\ "pending" \in Rounds
  BY DEF Sound, Known, Rounds
<1>1. InOrder(b, "none") /\ KeepsOver(a, b)
  BY <1>0, OrderClosed DEF ClosedRound
<1>2. b.ladder = a.ladder
  BY <1>0 DEF ClosedRound
<1>3. b.pending = a.pending \/ b.pending = NoPending
  BY <1>0 DEF ClosedRound
<1>4. Sound(b, c, "none")
  BY <1>1, <1>2, <1>3, Kept DEF ClosedRound
<1> QED BY <1>1, <1>4 DEF Goes, Later, ClosedRound

LEMMA ResolveSound ==
  ASSUME NEW a, NEW c, NEW but, Sound(a, c, but), but = "pending" \/ but \notin Rounds
  PROVE  /\ Goes(a, ResolvePending(a), c) /\ Rest(a, ResolvePending(a))
         /\ ResolvePending(a).pending = NoPending /\ ResolvePending(a).combo = a.combo
<1> DEFINE b == ResolvePending(a)
<1>0. a \in Actors /\ Known(a) /\ "pending" \in Rounds \ {"ladder"}
  BY DEF Sound, Known, Rounds
<1>1. b = [a EXCEPT !.armed = [a.armed EXCEPT !["pending"] = 0],
                    !.late = OverIn(a.late, "pending"), !.pending = NoPending]
  BY <1>0, OverFields DEF ResolvePending, Actors
<1> HIDE DEF b
<1>2. b \in Actors
  BY <1>0, <1>1, OverFields, NoTypes, ZenonT(60) DEF Actors, PendingT
<1>3. ClosedRound(a, b, "pending") /\ b.pending = NoPending /\ b.flip = a.flip /\ b.combo = a.combo
  BY <1>0, <1>1 DEF Actors, Rounds, ClosedRound, NoPending
<1>4. Known(b) /\ b.ladder = a.ladder
  BY <1>0, <1>2, <1>3 DEF Known, ClosedRound, Rounds
<1>5. Goes(a, b, c)
  BY <1>0, <1>3, <1>4, ClosedSound
<1> QED BY <1>3, <1>4, <1>5 DEF Rest, ClosedRound, b

LEMMA ClearSound ==
  ASSUME NEW a, NEW c, NEW but, Sound(a, c, but), but = "after" \/ but \notin Rounds
  PROVE  /\ Goes(a, ClearAfter(a), c) /\ SameWork(a, ClearAfter(a))
         /\ ClearAfter(a).combo = a.combo
<1> DEFINE b == ClearAfter(a)
<1>0. a \in Actors /\ Known(a) /\ "after" \in Rounds \ {"ladder"}
  BY DEF Sound, Known, Rounds
<1>1. b = [a EXCEPT !.armed = [a.armed EXCEPT !["after"] = 0],
                    !.late = OverIn(a.late, "after"), !.after = NoAfter]
  BY <1>0, OverFields DEF ClearAfter, Actors
<1> HIDE DEF b
<1>2. b \in Actors
  BY <1>0, <1>1, OverFields, NoTypes, ZenonT(60) DEF Actors, AfterT
<1>3. ClosedRound(a, b, "after") /\ b.flip = a.flip /\ b.combo = a.combo
  BY <1>0, <1>1 DEF Actors, Rounds, ClosedRound, NoAfter
<1>4. Known(b) /\ b.ladder = a.ladder /\ b.pending = a.pending
  BY <1>0, <1>2, <1>3 DEF Known, ClosedRound, Rounds
<1>5. Goes(a, b, c)
  BY <1>0, <1>3, <1>4, ClosedSound
<1> QED BY <1>3, <1>4, <1>5 DEF Rest, SameWork, ClosedRound, b

\* The slot of the deferred flip is emptied.
Unflipped(a) == [Over(a, "flip") EXCEPT !.flip = NoFlip]

LEMMA UnflippedSound ==
  ASSUME NEW a, NEW c, NEW but, Sound(a, c, but), but = "flip" \/ but \notin Rounds
  PROVE  /\ Goes(a, Unflipped(a), c) /\ SameWork(a, Unflipped(a))
         /\ Unflipped(a).combo = a.combo
<1> DEFINE b == Unflipped(a)
<1>0. a \in Actors /\ Known(a) /\ "flip" \in Rounds \ {"ladder"}
  BY DEF Sound, Known, Rounds
<1>1. b = [a EXCEPT !.armed = [a.armed EXCEPT !["flip"] = 0],
                    !.late = OverIn(a.late, "flip"), !.flip = NoFlip]
  BY <1>0, OverFields DEF Unflipped, Actors
<1> HIDE DEF b
<1>2. b \in Actors
  BY <1>0, <1>1, OverFields, NoTypes, ZenonT(60) DEF Actors, FlipT
<1>3. ClosedRound(a, b, "flip") /\ b.flip = NoFlip /\ b.combo = a.combo
  BY <1>0, <1>1 DEF Actors, Rounds, ClosedRound, NoFlip
<1>4. Known(b) /\ b.ladder = a.ladder /\ b.pending = a.pending
  BY <1>0, <1>2, <1>3 DEF Known, ClosedRound, Rounds
<1>5. Goes(a, b, c)
  BY <1>0, <1>3, <1>4, ClosedSound
<1> QED BY <1>3, <1>4, <1>5 DEF Rest, SameWork, ClosedRound, b

\* The slot is taken: parkGestureFlip, and the deferred flips.
Slot(a, target, kind, n) ==
  [a EXCEPT !.armed = [a.armed EXCEPT !["flip"] = n],
            !.late = OverIn(a.late, "flip"),
            !.epoch = [a.epoch EXCEPT !["flip"] = @ + 1],
            !.flip = [target |-> target, kind |-> kind, epoch |-> a.epoch["flip"] + 1]]

LEMMA SlotTaken ==
  ASSUME NEW a \in Actors, NEW t, NEW kind
  PROVE  [Over(a, "flip") EXCEPT
            !.epoch["flip"] = @ + 1,
            !.flip = [target |-> t, kind |-> kind, epoch |-> a.epoch["flip"] + 1]]
           = Slot(a, t, kind, 0)
<1> DEFINE f == [target |-> t, kind |-> kind, epoch |-> a.epoch["flip"] + 1]
           b == Over(a, "flip")
<1>0. b = [a EXCEPT !.armed = [a.armed EXCEPT !["flip"] = 0], !.late = OverIn(a.late, "flip")]
  BY OverFields DEF Rounds
<1> HIDE DEF b
<1>1. b.epoch = a.epoch
  BY <1>0 DEF Actors
<1>2. [b EXCEPT !.epoch["flip"] = @ + 1, !.flip = f]
        = [b EXCEPT !.epoch = [a.epoch EXCEPT !["flip"] = @ + 1], !.flip = f]
  BY <1>1
<1>3. [b EXCEPT !.epoch["flip"] = @ + 1, !.flip = f] = Slot(a, t, kind, 0)
  BY <1>0, <1>2 DEF Slot, Actors
<1> QED BY <1>3 DEF b

LEMMA SlotSound ==
  ASSUME NEW a, NEW c, Sound(a, c, "none"), NEW target \in Modes,
         NEW kind \in {"ladder", "terminal", "gesture"},
         NEW n \in {0, a.epoch["flip"] + 1}, n = 0 => kind # "ladder"
  PROVE  /\ Goes(a, Slot(a, target, kind, n), c) /\ SameWork(a, Slot(a, target, kind, n))
         /\ Slot(a, target, kind, n).combo = a.combo
<1> DEFINE b == Slot(a, target, kind, n)
<1>0. a \in Actors /\ Known(a) /\ "flip" \in Rounds /\ InOrder(a, "none")
  BY DEF Sound, Known, Rounds
<1>1. a.epoch["flip"] \in Nat /\ OverIn(a.late, "flip") \subseteq Callbacks
  BY <1>0, ActorFields, OverLate
<1>2. /\ [a.armed EXCEPT !["flip"] = n] \in [Rounds -> Nat]
      /\ [a.epoch EXCEPT !["flip"] = @ + 1] \in [Rounds -> Nat]
      /\ [target |-> target, kind |-> kind, epoch |-> a.epoch["flip"] + 1] \in FlipT
  BY <1>0, <1>1, ActorFields DEF FlipT
<1>3. b \in Actors
  BY <1>0, <1>1, <1>2 DEF Actors, FlipT, Slot
<1>4. /\ b.armed = [a.armed EXCEPT !["flip"] = n] /\ b.late = OverIn(a.late, "flip")
      /\ b.epoch = [a.epoch EXCEPT !["flip"] = @ + 1]
      /\ b.flip = [target |-> target, kind |-> kind, epoch |-> a.epoch["flip"] + 1]
      /\ \A r \in Rounds \ {"flip"} : b[r] = a[r]
      /\ b.eng = a.eng /\ b.down = a.down
      /\ b.crossed = a.crossed /\ b.raced = a.raced /\ b.doubled = a.doubled
      /\ b.buf = a.buf /\ b.dead = a.dead /\ b.payload = a.payload /\ b.burst = a.burst
      /\ b.combo = a.combo
  BY <1>0 DEF Actors, Rounds, Slot
<1> HIDE DEF b
<1>5. b["flip"].epoch = a.epoch["flip"] + 1 /\ b.flip.kind = kind /\ b.flip.target = target
  BY <1>4
<1>6. InOrder(b, "none") /\ KeepsOver(a, b)
  BY <1>0, <1>3, <1>4, <1>5, OrderOpened
<1>7. Known(b) /\ b.ladder = a.ladder /\ b.pending = a.pending
  BY <1>0, <1>3, <1>4, <1>5 DEF Known, Rounds
<1>8. Sound(b, c, "none")
  BY <1>4, <1>6, <1>7, Kept
<1>9. Goes(a, b, c)
  BY <1>4, <1>6, <1>8 DEF Goes, Later
<1> QED BY <1>4, <1>7, <1>9 DEF Rest, SameWork, b

\* flipTo.
LEMMA FlipSound ==
  ASSUME NEW a, NEW c, Sound(a, c, "none"), NEW t \in Modes
  PROVE  /\ Goes(a, FlipTo(a, t), c) /\ SameWork(a, FlipTo(a, t))
         /\ FlipTo(a, t).combo = a.combo
<1>0. a \in Actors /\ Known(a) /\ InOrder(a, "none")
  BY DEF Sound, Known
<1>1. CASE t = a.mode
  BY <1>1, GoesNowhere DEF FlipTo, SameWork, Rest
<1>2. CASE t # a.mode /\ Busy(a)
  <2>1. "flip" \in Rounds
    BY DEF Rounds
  <2>2. FlipTo(a, t) = Park(a, t)
    BY <1>2 DEF FlipTo
  <2>3. Park(a, t) = Slot(a, t, "gesture", 0)
    <3>1. Park(a, t) = [Over(a, "flip") EXCEPT
                          !.epoch["flip"] = @ + 1,
                          !.flip = [target |-> t, kind |-> "gesture", epoch |-> a.epoch["flip"] + 1]]
      BY DEF Park
    <3> QED BY <1>0, <3>1, SlotTaken
  <2> QED BY <2>2, <2>3, SlotSound
<1>3. CASE t # a.mode /\ ~Busy(a)
  <2> DEFINE x == a.crossed \/ Undelivered(a)
             b == [a EXCEPT !.mode = t, !.eng = @ + 1, !.credit = @ + 1,
                            !.up = Append(@, Call("focusout", "none")), !.crossed = x]
  <2>1. FlipTo(a, t) = b
    BY <1>3 DEF FlipTo
  <2>2. x \in BOOLEAN
    OBVIOUS
  <2>3. (a.crossed => x) /\ (~x => ~a.crossed /\ ~Undelivered(a))
    OBVIOUS
  <2> HIDE DEF x
  <2>4. Append(a.up, Call("focusout", "none")) \in Seq(Calls)
    BY <1>0, CallTypes DEF Actors
  <2>5. b \in Actors
    <3> DEFINE u == Append(a.up, Call("focusout", "none"))
    <3>1. u \in Seq(Calls)
      BY <2>4
    <3> HIDE DEF u
    <3>2. a.eng + 1 \in Nat /\ a.credit + 1 \in Nat
      BY <1>0 DEF Actors
    <3>3. [a EXCEPT !.mode = t, !.eng = @ + 1, !.credit = @ + 1, !.up = u, !.crossed = x] \in Actors
      BY <1>0, <2>2, <3>1, <3>2 DEF Actors
    <3> QED BY <3>3 DEF u
  <2>6. /\ \A r \in Rounds : b[r] = a[r]
        /\ b.epoch = a.epoch /\ b.armed = a.armed /\ b.late = a.late
        /\ b.crossed = x /\ b.raced = a.raced /\ b.doubled = a.doubled
        /\ b.buf = a.buf /\ b.dead = a.dead /\ b.ladder = a.ladder /\ b.burst = a.burst
        /\ b.down = a.down /\ b.pending = a.pending /\ b.payload = a.payload
        /\ b.flip = a.flip /\ b.combo = a.combo
        /\ b.eng # 0
    BY <1>0, SMTT(60) DEF Actors, Rounds, Known
  <2> HIDE DEF b
  <2>7. Known(b)
    BY <1>0, <2>5, <2>6 DEF Known
  <2>8. InOrder(b, "none") /\ KeepsOver(a, b)
    BY <1>0, <2>5, <2>6, OrderKept
  <2>9. Engines(b)
    <3> SUFFICES ASSUME ~x PROVE /\ \A i \in DOMAIN b.down : b.down[i].kind = "require" \/ b.down[i].eng \in {0, b.eng}
                                 /\ b.ladder = NoLadder /\ ~Busy(b)
      BY <2>6 DEF Engines
    <3>1. /\ a.ladder = NoLadder
          /\ \A i \in DOMAIN a.down : a.down[i].eng = 0 \/ a.down[i].kind = "require"
      BY <2>3 DEF Undelivered
    <3> QED BY <1>3, <2>6, <3>1 DEF Busy
  <2>10. Sound(b, c, "none")
    BY <2>3, <2>6, <2>7, <2>8, <2>9, Kept
  <2>11. Goes(a, b, c)
    BY <2>3, <2>6, <2>8, <2>10 DEF Goes, Later
  <2> QED BY <2>1, <2>6, <2>11 DEF SameWork, Rest
<1> QED BY <1>1, <1>2, <1>3

LEMMA SameWorkTrans ==
  ASSUME NEW a, NEW b, NEW d, SameWork(a, b), SameWork(b, d)
  PROVE  SameWork(a, d)
BY DEF SameWork, Rest

LEMMA ReleaseSound ==
  ASSUME NEW a, NEW c, NEW but, Sound(a, c, but),
         but \notin Rounds \/ (but = "flip" /\ a.flip # NoFlip)
  PROVE  /\ Goes(a, ReleaseFlip(a), c) /\ SameWork(a, ReleaseFlip(a))
         /\ ReleaseFlip(a).combo = a.combo
<1>1. CASE a.flip = NoFlip
  <2>1. Sound(a, c, "none")
    BY <1>1 DEF Sound, InOrder
  <2> QED BY <1>1, <2>1, GoesNowhere DEF ReleaseFlip, SameWork, Rest
<1>2. CASE a.flip # NoFlip
  <2>1. a.flip.target \in Modes
    BY <1>2 DEF Sound, Known
  <2>2. ReleaseFlip(a) = FlipTo(Unflipped(a), a.flip.target)
    BY <1>2 DEF ReleaseFlip, Unflipped
  <2>3. Goes(a, Unflipped(a), c) /\ SameWork(a, Unflipped(a)) /\ Unflipped(a).combo = a.combo
    BY UnflippedSound
  <2> DEFINE b == Unflipped(a)
  <2> HIDE DEF b
  <2>4. /\ Goes(b, FlipTo(b, a.flip.target), c) /\ SameWork(b, FlipTo(b, a.flip.target))
        /\ FlipTo(b, a.flip.target).combo = b.combo
    BY <2>1, <2>3, FlipSound DEF Goes, b
  <2> QED BY <2>2, <2>3, <2>4, GoesOn, SameWorkTrans DEF b
<1> QED BY <1>1, <1>2

LEMMA VerifySound ==
  ASSUME NEW a, NEW c, Sound(a, c, "none")
  PROVE  /\ Goes(a, ReleaseOnVerify(a), c) /\ SameWork(a, ReleaseOnVerify(a))
         /\ ReleaseOnVerify(a).combo = a.combo
<1>1. "none" \notin Rounds
  BY DEF Rounds
<1> QED BY <1>1, ReleaseSound, GoesNowhere DEF ReleaseOnVerify, SameWork, Rest

\* Nothing but a combo, the composer's state or the channel up is touched.
LEMMA AsideSound ==
  ASSUME NEW a, NEW c, NEW but, Sound(a, c, but), NEW b \in Actors,
         \A r \in Rounds : b[r] = a[r],
         b.epoch = a.epoch, b.armed = a.armed, b.late = a.late,
         b.eng = a.eng, b.down = a.down,
         b.crossed = a.crossed, b.raced = a.raced, b.doubled = a.doubled,
         b.buf = a.buf, b.dead = a.dead, b.burst = a.burst,
         b.payload = a.payload \/ b.payload = NoRange
  PROVE  Sound(b, c, but) /\ Later(a, b)
<1>0. /\ a \in Actors /\ Known(a) /\ InOrder(a, but)
      /\ b.flip = a.flip /\ b.ladder = a.ladder /\ b.pending = a.pending
  BY DEF Sound, Known, Rounds
<1>1. InOrder(b, but) /\ KeepsOver(a, b)
  BY <1>0, OrderKept
<1>2. Known(b)
  BY <1>0 DEF Known
<1>3. Sound(b, c, but)
  BY <1>0, <1>1, <1>2, Kept
<1> QED BY <1>1, <1>3 DEF Later

LEMMA SettleSound ==
  ASSUME NEW a, NEW c, Sound(a, c, "none")
  PROVE  /\ Goes(a, SettleCombo(a), c) /\ SameWork(a, SettleCombo(a))
         /\ SettleCombo(a).combo = FALSE
<1>0. a \in Actors
  BY DEF Sound, Known
<1>1. CASE ~a.combo
  <2>1. a.combo = FALSE
    BY <1>0, <1>1 DEF Actors
  <2> QED BY <1>1, <2>1, GoesNowhere DEF SettleCombo, SameWork, Rest
<1>2. CASE a.combo
  <2> DEFINE b == [a EXCEPT !.combo = FALSE]
  <2>1. b \in Actors
    BY <1>0 DEF Actors
  <2>2. /\ \A r \in Rounds : b[r] = a[r]
        /\ b.epoch = a.epoch /\ b.armed = a.armed /\ b.late = a.late
        /\ b.eng = a.eng /\ b.down = a.down
        /\ b.crossed = a.crossed /\ b.raced = a.raced /\ b.doubled = a.doubled
        /\ b.buf = a.buf /\ b.dead = a.dead /\ b.burst = a.burst /\ b.payload = a.payload
        /\ b.combo = FALSE /\ b.pending = a.pending /\ b.ladder = a.ladder
    BY <1>0 DEF Actors, Rounds
  <2>3. SettleCombo(a) = FlipTo(b, Opposite(a.mode))
    BY <1>2 DEF SettleCombo
  <2>4. a.mode \in Modes
    BY <1>0 DEF Actors
  <2> HIDE DEF b
  <2>5. Sound(b, c, "none") /\ Later(a, b)
    BY <2>1, <2>2, AsideSound
  <2>6. Opposite(a.mode) \in Modes
    BY <2>4, OppositeMode
  <2>7. /\ Goes(b, SettleCombo(a), c) /\ SameWork(b, SettleCombo(a))
        /\ SettleCombo(a).combo = b.combo
    BY <2>3, <2>5, <2>6, FlipSound
  <2>8. Goes(a, b, c) /\ SameWork(a, b)
    BY <2>2, <2>5 DEF Goes, SameWork, Rest
  <2> QED BY <2>2, <2>7, <2>8, GoesOn, SameWorkTrans
<1> QED BY <1>1, <1>2

LEMMA FollowSound ==
  ASSUME NEW a, NEW c, Sound(a, c, "none"), NEW t \in Modes
  PROVE  /\ Goes(a, FollowScript(a, t), c) /\ SameWork(a, FollowScript(a, t))
         /\ FollowScript(a, t).combo = a.combo
BY FlipSound, GoesNowhere DEF FollowScript, SameWork, Rest

LEMMA DeferSound ==
  ASSUME NEW a, NEW c, Sound(a, c, "none"), NEW t \in Modes, NEW kind \in {"ladder", "terminal"}
  PROVE  /\ Goes(a, DeferFlip(a, t, kind), c) /\ SameWork(a, DeferFlip(a, t, kind))
         /\ DeferFlip(a, t, kind).combo = a.combo
<1>0. a \in Actors /\ "flip" \in Rounds
  BY DEF Sound, Known, Rounds
<1>1. CASE a.combo \/ ~FlipAfter \/ a.flip.kind = "gesture" \/ t = a.mode
  BY <1>1, GoesNowhere DEF DeferFlip, SameWork, Rest
<1>2. CASE ~(a.combo \/ ~FlipAfter \/ a.flip.kind = "gesture" \/ t = a.mode)
  <2> DEFINE o == Over(a, "flip")
             f == [target |-> t, kind |-> kind, epoch |-> a.epoch["flip"] + 1]
             b == [o EXCEPT !.flip = f]
  <2>1. DeferFlip(a, t, kind) = IF kind = "ladder" THEN Arm(b, "flip") ELSE [b EXCEPT !.epoch["flip"] = @ + 1]
    BY <1>2 DEF DeferFlip
  <2>2. a.epoch \in [Rounds -> Nat] /\ a.armed \in [Rounds -> Nat]
    BY <1>0, ActorFields
  <2>3. o = [a EXCEPT !.armed = [a.armed EXCEPT !["flip"] = 0], !.late = OverIn(a.late, "flip")]
    BY <1>0, OverFields
  <2> HIDE DEF o
  <2>4. CASE kind = "ladder"
    <3>1. /\ b.epoch = a.epoch /\ b.armed = [a.armed EXCEPT !["flip"] = 0]
          /\ b = [a EXCEPT !.armed = [a.armed EXCEPT !["flip"] = 0], !.late = OverIn(a.late, "flip"), !.flip = f]
      BY <1>0, <2>3 DEF Actors
    <3> HIDE DEF b
    <3>2. [b.armed EXCEPT !["flip"] = a.epoch["flip"] + 1] = [a.armed EXCEPT !["flip"] = a.epoch["flip"] + 1]
      BY <2>2, <3>1
    <3>3. Arm(b, "flip") = [b EXCEPT !.epoch = [a.epoch EXCEPT !["flip"] = @ + 1],
                                     !.armed = [a.armed EXCEPT !["flip"] = a.epoch["flip"] + 1]]
      BY <3>1, <3>2 DEF Arm
    <3>4. Arm(b, "flip") = Slot(a, t, kind, a.epoch["flip"] + 1)
      BY <1>0, <3>1, <3>3 DEF Slot, Actors
    <3>5. a.epoch["flip"] + 1 # 0
      BY <1>0, <2>2
    <3> QED BY <2>1, <2>4, <3>4, <3>5, SlotSound
  <2>5. CASE kind = "terminal"
    <3>1. [b EXCEPT !.epoch["flip"] = @ + 1] = [o EXCEPT !.epoch["flip"] = @ + 1, !.flip = f]
      BY <1>0, <2>3 DEF Actors
    <3>2. [o EXCEPT !.epoch["flip"] = @ + 1, !.flip = f] = Slot(a, t, kind, 0)
      BY <1>0, SlotTaken DEF o
    <3>3. DeferFlip(a, t, kind) = Slot(a, t, kind, 0)
      BY <2>1, <2>5, <3>1, <3>2
    <3> QED BY <2>5, <3>3, SlotSound
  <2> QED BY <2>4, <2>5
<1> QED BY <1>1, <1>2

(***************************************************************************)
(* The steps of a correction.                                              *)
(***************************************************************************)
LEMMA HalfDoneIs == \A a : HalfDone(a) \in BOOLEAN /\ Busy(a) \in BOOLEAN
BY DEF HalfDone, Busy

LEMMA OwedIsText ==
  ASSUME NEW a \in Actors
  PROVE  Owed(a) \in Texts
<1>1. a.ladder.range \in Ranges /\ a.burst.range \in Ranges
  BY DEF Actors
<1>2. Match(a.ladder.range) \in Texts /\ Match(a.burst.range) \in Texts /\ <<>> \in Texts
  BY <1>1, RangeTexts, NoTypes
<1> QED BY <1>2 DEF Owed

\* What is sent through the living engine, or through none, is alive.
LEMMA EnginesAppend ==
  ASSUME NEW a \in Actors, Engines(a), NEW m \in Signals, NEW b,
         b.down = Append(a.down, m), b.eng = a.eng, b.crossed = a.crossed,
         ~a.crossed => m.kind = "require" \/ m.eng \in {0, a.eng},
         ~a.crossed /\ b.ladder # NoLadder => b.ladder.eng = a.eng,
         ~a.crossed /\ Busy(b) => b.burst.eng = a.eng
  PROVE  Engines(b)
<1>1. a.down \in Seq(Signals)
  BY DEF Actors
<1>2. ASSUME ~a.crossed, NEW i \in DOMAIN b.down
      PROVE  b.down[i].kind = "require" \/ b.down[i].eng \in {0, a.eng}
  <2>1. Len(a.down) \in Nat /\ i \in 1 .. Len(a.down) + 1
    BY <1>1, AppendFacts
  <2>2. CASE i = Len(a.down) + 1
    BY <1>1, <1>2, <2>2, AppendFacts
  <2>3. CASE i \in 1 .. Len(a.down)
    BY <1>1, <1>2, <2>3, AppendFacts DEF Engines
  <2> QED BY <2>1, <2>2, <2>3
<1> QED BY <1>2 DEF Engines

LEMMA AskSound ==
  ASSUME NEW a, NEW c \in ClientT, Sound(a, c, "none"), NEW e \in Nat
  PROVE  /\ Goes(a, Send(a, "require", <<>>, e), c) /\ SameWork(a, Send(a, "require", <<>>, e))
         /\ Send(a, "require", <<>>, e).combo = a.combo
<1> DEFINE m == [kind |-> "require", text |-> <<>>, eng |-> e]
           b == Send(a, "require", <<>>, e)
<1>0. a \in Actors /\ Known(a) /\ InOrder(a, "none") /\ a.down \in Seq(Signals)
  BY DEF Sound, Known, Actors
<1>1. m \in Signals /\ m.kind = "require"
  BY NoTypes DEF Signals
<1>2. b = [a EXCEPT !.down = Append(a.down, m)]
  BY DEF Send
<1> HIDE DEF m, b
<1>3. Append(a.down, m) \in Seq(Signals)
  BY <1>0, <1>1
<1>4. b \in Actors
  BY <1>0, <1>2, <1>3, ZenonT(60) DEF Actors
<1>5. /\ \A r \in Rounds : b[r] = a[r]
      /\ b.epoch = a.epoch /\ b.armed = a.armed /\ b.late = a.late
      /\ b.crossed = a.crossed /\ b.raced = a.raced /\ b.doubled = a.doubled
      /\ b.buf = a.buf /\ b.dead = a.dead /\ b.ladder = a.ladder /\ b.burst = a.burst
      /\ b.down = Append(a.down, m) /\ b.pending = a.pending /\ b.payload = a.payload
      /\ b.flip = a.flip /\ b.combo = a.combo /\ b.eng = a.eng
  BY <1>0, <1>2 DEF Actors, Rounds
<1>6. Known(b) /\ InOrder(b, "none") /\ KeepsOver(a, b)
  BY <1>0, <1>4, <1>5, OrderKept DEF Known
<1>7. Engines(b)
  <2>1. /\ ~a.crossed /\ b.ladder # NoLadder => b.ladder.eng = a.eng
        /\ ~a.crossed /\ Busy(b) => b.burst.eng = a.eng
        /\ Engines(a)
    BY <1>5 DEF Sound, Engines, Busy
  <2> QED BY <1>0, <1>1, <1>5, <2>1, EnginesAppend
<1>8. Alone(b) /\ Learned(b)
  BY <1>5 DEF Sound, Alone, Learned, Busy
<1>9. HalfDone(b) = HalfDone(a) /\ Owed(b) = Owed(a) /\ Busy(b) = Busy(a)
  BY <1>5 DEF HalfDone, Owed, Busy
<1>10. ~b.crossed /\ ~b.doubled => Gapless(b.down, c.gap, HalfDone(b))
  <2>1. c.gap \in BOOLEAN
    BY DEF ClientT
  <2> QED BY <1>0, <1>1, <1>5, <1>9, <2>1, HalfDoneIs, GapAppend DEF Sound
<1>11. ASSUME Calm(b), c.kind # "deaf" PROVE Level(b, c.field)
  <2>1. Level(a, c.field)
    BY <1>5, <1>11 DEF Sound, Calm
  <2>2. PICK w \in Texts : Leads(a.down, c.field, w) /\ Ends(w \o Owed(a), a.buf)
    BY <2>1 DEF Level
  <2>3. Moves(m, w, w)
    BY <1>1 DEF Moves, Opening
  <2>4. c.field \in Texts
    BY DEF ClientT
  <2>5. Leads(b.down, c.field, w)
    BY <1>0, <1>1, <1>5, <2>2, <2>3, <2>4, LeadsAppend
  <2> QED BY <1>5, <1>9, <2>1, <2>2, <2>5 DEF Level
<1>12. Sound(b, c, "none")
  BY <1>6, <1>7, <1>8, <1>10, <1>11 DEF Sound
<1> QED BY <1>5, <1>6, <1>12 DEF Goes, Later, SameWork, Rest, b

\* The verify-after round is opened.
LEMMA ArmAfterSound ==
  ASSUME NEW a, NEW c \in ClientT, Sound(a, c, "none"), NEW r \in Ranges
  PROVE  /\ Goes(a, ArmAfter(a, r), c) /\ SameWork(a, ArmAfter(a, r))
         /\ ArmAfter(a, r).combo = a.combo
<1> DEFINE n == a.epoch["after"] + 1
           f == [expected |-> New(r) \o r.tail, missed |-> FALSE, epoch |-> n]
           o == Over(a, "after")
           b == [ClearAfter(a) EXCEPT !.after = f]
           d == Arm(b, "after")
<1>0. a \in Actors /\ Known(a) /\ InOrder(a, "none") /\ "after" \in Rounds /\ a.eng \in Nat
  BY DEF Sound, Known, Rounds, Actors
<1>1. /\ a.epoch \in [Rounds -> Nat] /\ a.armed \in [Rounds -> Nat] /\ n \in Nat
      /\ OverIn(a.late, "after") \subseteq Callbacks
  BY <1>0, ActorFields, OverLate
<1>2. f \in AfterT /\ f.epoch = n
  BY <1>1, RangeTexts DEF AfterT
<1>3. ArmAfter(a, r) = Send(d, "require", <<>>, a.eng)
  BY DEF ArmAfter
<1>4. o = [a EXCEPT !.armed = [a.armed EXCEPT !["after"] = 0], !.late = OverIn(a.late, "after")]
  BY <1>0, OverFields
<1> HIDE DEF f, o
<1>5. b = [a EXCEPT !.armed = [a.armed EXCEPT !["after"] = 0], !.late = OverIn(a.late, "after"),
                    !.after = f]
  BY <1>0, <1>4 DEF ClearAfter, o, Actors
<1>6. b.epoch = a.epoch /\ b.armed = [a.armed EXCEPT !["after"] = 0]
  BY <1>0, <1>5 DEF Actors
<1> HIDE DEF b
<1>7. [b.armed EXCEPT !["after"] = n] = [a.armed EXCEPT !["after"] = n]
  BY <1>1, <1>6
<1>8. d = [b EXCEPT !.epoch = [a.epoch EXCEPT !["after"] = @ + 1],
                    !.armed = [a.armed EXCEPT !["after"] = n]]
  BY <1>6, <1>7 DEF Arm
<1>9. d = [a EXCEPT !.armed = [a.armed EXCEPT !["after"] = n], !.late = OverIn(a.late, "after"),
                    !.epoch = [a.epoch EXCEPT !["after"] = @ + 1], !.after = f]
  BY <1>0, <1>5, <1>8 DEF Actors
<1> HIDE DEF d
<1>10. /\ [a.armed EXCEPT !["after"] = n] \in [Rounds -> Nat]
       /\ [a.epoch EXCEPT !["after"] = @ + 1] \in [Rounds -> Nat]
  BY <1>1
<1>11. d \in Actors
  BY <1>0, <1>1, <1>2, <1>9, <1>10, ZenonT(60) DEF Actors, AfterT
<1>12. /\ d.armed = [a.armed EXCEPT !["after"] = n] /\ d.late = OverIn(a.late, "after")
       /\ d.epoch = [a.epoch EXCEPT !["after"] = @ + 1]
       /\ d.after = f
       /\ \A x \in Rounds \ {"after"} : d[x] = a[x]
       /\ d.eng = a.eng /\ d.down = a.down
       /\ d.crossed = a.crossed /\ d.raced = a.raced /\ d.doubled = a.doubled
       /\ d.buf = a.buf /\ d.dead = a.dead /\ d.payload = a.payload /\ d.burst = a.burst
       /\ d.combo = a.combo
  BY <1>0, <1>9 DEF Actors, Rounds
<1>13. InOrder(d, "none") /\ KeepsOver(a, d)
  <2>1. d["after"].epoch = n /\ n # 0
    BY <1>0, <1>1, <1>2, <1>12
  <2> QED BY <1>0, <1>11, <1>12, <2>1, OrderOpened
<1>14. Known(d) /\ d.ladder = a.ladder /\ d.pending = a.pending
  BY <1>0, <1>11, <1>12 DEF Known, Rounds
<1>15. Sound(d, c, "none")
  BY <1>12, <1>13, <1>14, Kept
<1>16. Goes(a, d, c) /\ SameWork(a, d)
  BY <1>12, <1>13, <1>14, <1>15 DEF Goes, Later, SameWork, Rest
<1>17. /\ Goes(d, ArmAfter(a, r), c) /\ SameWork(d, ArmAfter(a, r))
       /\ ArmAfter(a, r).combo = d.combo
  BY <1>0, <1>3, <1>15, AskSound
<1> QED BY <1>12, <1>16, <1>17, GoesOn, SameWorkTrans

\* The second phase of the ladder: the replacement is sent, the buffer
\* follows, the ladder is over.
Finished(a) ==
  LET r == a.ladder.range
  IN  Replaced(Send(DropLadder(a), "commit", New(r) \o r.tail, a.ladder.eng), r)

LEMMA FinishedSound ==
  ASSUME NEW a, NEW c \in ClientT, NEW but, Sound(a, c, but), a.ladder # NoLadder,
         but = "ladder" \/ but \notin Rounds
  PROVE  /\ Goes(a, Finished(a), c)
         /\ Finished(a).ladder = NoLadder /\ Finished(a).burst = a.burst
         /\ Finished(a).payload = a.payload /\ Finished(a).dead = a.dead
         /\ Finished(a).pending = a.pending /\ Finished(a).combo = a.combo
<1> DEFINE r == a.ladder.range
           text == New(r) \o r.tail
           m == [kind |-> "commit", text |-> text, eng |-> a.ladder.eng]
           o == Over(a, "ladder")
           x == a.raced \/ a.pending # NoPending
           b == Finished(a)
<1>0. /\ a \in Actors /\ Known(a) /\ InOrder(a, but) /\ "ladder" \in Rounds
      /\ a.down \in Seq(Signals) /\ r \in Ranges /\ a.ladder.eng \in Nat /\ a.buf \in Texts
  BY DEF Sound, Known, Rounds, Actors
<1>1. text \in Texts /\ Match(r) \in Texts
  BY <1>0, RangeTexts
<1>2. m \in Signals /\ m.kind = "commit" /\ m.text = text /\ m.eng = a.ladder.eng
  BY <1>0, <1>1 DEF Signals
<1>3. x \in BOOLEAN /\ (a.raced => x) /\ (~x => a.pending = NoPending)
  OBVIOUS
<1>4. /\ [a.armed EXCEPT !["ladder"] = 0] \in [Rounds -> Nat]
      /\ OverIn(a.late, "ladder") \subseteq Callbacks
      /\ o = [a EXCEPT !.armed = [a.armed EXCEPT !["ladder"] = 0], !.late = OverIn(a.late, "ladder")]
  BY <1>0, OverFields
<1>5. ReplacedIn(a.buf, r) \in Texts
  BY <1>0, ReplacedIsText
<1> HIDE DEF x, m, o
<1>6. Append(a.down, m) \in Seq(Signals)
  BY <1>0, <1>2
<1>7. b = [a EXCEPT !.armed = [a.armed EXCEPT !["ladder"] = 0], !.late = OverIn(a.late, "ladder"),
                    !.ladder = NoLadder, !.down = Append(a.down, m),
                    !.buf = ReplacedIn(a.buf, r), !.raced = x]
  <2> DEFINE p == DropLadder(a)
             q == Send(p, "commit", text, a.ladder.eng)
  <2>1. p = [a EXCEPT !.armed = [a.armed EXCEPT !["ladder"] = 0], !.late = OverIn(a.late, "ladder"),
                      !.ladder = NoLadder]
    BY <1>0, <1>4 DEF DropLadder, o, Actors
  <2>2. q = [p EXCEPT !.down = Append(p.down, m)]
    BY DEF Send, m
  <2>3. b = [q EXCEPT !.buf = ReplacedIn(q.buf, r), !.raced = q.raced \/ q.pending # NoPending]
    BY DEF Finished, Replaced, ReplacedIn
  <2> HIDE DEF p
  <2>4. p.down = a.down
    BY <1>0, <2>1 DEF Actors
  <2> HIDE DEF q
  <2>5. q.buf = a.buf /\ q.raced = a.raced /\ q.pending = a.pending
    BY <1>0, <2>1, <2>2 DEF Actors
  <2>6. b = [q EXCEPT !.buf = ReplacedIn(a.buf, r), !.raced = x]
    BY <2>3, <2>5 DEF x
  <2> HIDE DEF b
  <2> QED BY <1>0, <2>1, <2>2, <2>4, <2>6 DEF Actors
<1> HIDE DEF b
<1>8. b \in Actors
  BY <1>0, <1>3, <1>4, <1>5, <1>6, <1>7, NoTypes, ZenonT(60) DEF Actors, LadderT
<1>9. /\ b.armed = [a.armed EXCEPT !["ladder"] = 0] /\ b.late = OverIn(a.late, "ladder")
      /\ b.ladder = NoLadder /\ b.down = Append(a.down, m)
      /\ b.buf = ReplacedIn(a.buf, r) /\ b.raced = x
      /\ \A y \in Rounds \ {"ladder"} : b[y] = a[y]
      /\ b.epoch = a.epoch /\ b.eng = a.eng
      /\ b.crossed = a.crossed /\ b.doubled = a.doubled
      /\ b.dead = a.dead /\ b.payload = a.payload /\ b.burst = a.burst
      /\ b.combo = a.combo
  BY <1>0, <1>7 DEF Actors, Rounds
<1>10. InOrder(b, "none") /\ KeepsOver(a, b)
  <2>1. b["ladder"].epoch = 0
    BY <1>9 DEF NoLadder
  <2> QED BY <1>0, <1>8, <1>9, <2>1, OrderClosed
<1>11. Known(b) /\ b.pending = a.pending
  BY <1>0, <1>8, <1>9 DEF Known, Rounds
<1>12. Engines(b)
  <2>1. /\ ~a.crossed => m.eng \in {0, a.eng}
        /\ ~a.crossed /\ Busy(b) => b.burst.eng = a.eng
        /\ Engines(a)
    BY <1>2, <1>9 DEF Sound, Engines, Busy
  <2> QED BY <1>0, <1>2, <1>9, <2>1, EnginesAppend
<1>13. Alone(b) /\ Learned(b)
  BY <1>9, <1>11 DEF Sound, Alone, Learned, Busy
<1>14. ~b.crossed /\ ~b.doubled => Gapless(b.down, c.gap, HalfDone(b))
  <2>1. c.gap \in BOOLEAN
    BY DEF ClientT
  <2> QED BY <1>0, <1>2, <1>9, <2>1, HalfDoneIs, GapAppend DEF Sound
<1>15. ASSUME Calm(b), c.kind # "deaf" PROVE Level(b, c.field)
  <2>1. Calm(a) /\ a.pending = NoPending
    BY <1>3, <1>9, <1>15 DEF Calm
  <2>2. Level(a, c.field) /\ RangeOf(a.buf, r)
    BY <1>15, <2>1 DEF Sound, Level
  <2>3. Owed(a) = Match(r) /\ ~Busy(a)
    BY <2>1 DEF Owed, Sound, Alone, Calm
  <2>4. PICK w \in Texts : Leads(a.down, c.field, w) /\ Ends(w \o Match(r), a.buf)
    BY <2>2, <2>3 DEF Level
  <2>5. Moves(m, w, w \o text) /\ w \o text \in Texts
    BY <1>1, <1>2, JoinIsText DEF Moves, Opening
  <2>6. c.field \in Texts
    BY DEF ClientT
  <2>7. Leads(b.down, c.field, w \o text)
    BY <1>0, <1>2, <1>9, <2>4, <2>5, <2>6, LeadsAppend
  <2>8. Ends(w \o text, b.buf)
    BY <1>0, <1>9, <2>2, <2>4, ReplacedIsThere
  <2>9. ~Busy(b) /\ b.ladder = NoLadder /\ b.pending = NoPending
    BY <1>9, <1>11, <2>1, <2>3 DEF Busy
  <2>10. Owed(b) = <<>> /\ (w \o text) \o <<>> = w \o text
    BY <2>5, <2>9, JoinEmpty DEF Owed
  <2>11. Ends((w \o text) \o Owed(b), b.buf)
    BY <2>8, <2>10
  <2> QED BY <2>5, <2>7, <2>9, <2>11 DEF Level
<1>16. Sound(b, c, "none")
  BY <1>10, <1>11, <1>12, <1>13, <1>14, <1>15 DEF Sound
<1>17. Later(a, b)
  BY <1>3, <1>9, <1>10 DEF Later
<1> QED BY <1>9, <1>11, <1>16, <1>17 DEF Goes, b

\* flushLevel1Confirm.
LEMMA FlushSound ==
  ASSUME NEW a, NEW c \in ClientT, NEW but, Sound(a, c, but),
         but \notin Rounds \/ (but = "ladder" /\ a.ladder # NoLadder)
  PROVE  /\ Goes(a, Flush(a), c)
         /\ Flush(a).ladder = NoLadder /\ Flush(a).burst = a.burst
         /\ Flush(a).payload = a.payload /\ Flush(a).dead = a.dead
         /\ Flush(a).pending = a.pending
         /\ a.ladder = NoLadder => Flush(a) = a
         /\ a.ladder # NoLadder => Flush(a).combo = FALSE
<1>1. CASE a.ladder = NoLadder
  <2>1. Sound(a, c, "none")
    BY <1>1 DEF Sound, InOrder
  <2> QED BY <1>1, <2>1, GoesNowhere DEF Flush
<1>2. CASE a.ladder # NoLadder
  <2> DEFINE r == a.ladder.range
             b == Finished(a)
             d == DeferFlip(b, ScriptOf(New(r)), "ladder")
             e == SettleCombo(d)
  <2>0. r \in Ranges /\ ScriptOf(New(r)) \in Modes
    <3>1. r \in Ranges
      BY DEF Sound, Known, Actors
    <3> QED BY <3>1, RangeTexts, ScriptIsMode
  <2>1. Flush(a) = ArmAfter(e, r)
    BY <1>2 DEF Flush, Commit, Finished
  <2>2. /\ Goes(a, b, c) /\ b.ladder = NoLadder /\ b.burst = a.burst
        /\ b.payload = a.payload /\ b.dead = a.dead /\ b.pending = a.pending
    BY <1>2, FinishedSound
  <2> HIDE DEF b
  <2>3. Goes(b, d, c) /\ SameWork(b, d)
    BY <2>0, <2>2, DeferSound DEF Goes
  <2> HIDE DEF d
  <2>4. Goes(d, e, c) /\ SameWork(d, e) /\ e.combo = FALSE
    BY <2>3, SettleSound DEF Goes
  <2> HIDE DEF e
  <2>5. Goes(e, Flush(a), c) /\ SameWork(e, Flush(a)) /\ Flush(a).combo = e.combo
    <3> HIDE DEF r
    <3> QED BY <2>0, <2>1, <2>4, ArmAfterSound DEF Goes
  <2>6. Goes(a, Flush(a), c) /\ SameWork(b, Flush(a))
    BY <2>2, <2>3, <2>4, <2>5, GoesOn, SameWorkTrans
  <2> QED BY <1>2, <2>2, <2>4, <2>5, <2>6 DEF SameWork, Rest
<1> QED BY <1>1, <1>2

\* A combo that has not flipped the layout yet has a round that will.
Owned(a) == a.combo => a.pending # NoPending \/ a.ladder # NoLadder \/ Busy(a)

\* What a correction that is about to touch the text has been planned over.
Planned(a, c, r) ==
  /\ r \in Ranges
  /\ HasLetter(r.token) /\ Calm(a) /\ c.kind # "deaf" => RangeOf(a.buf, r)

\* executeLevel2 up to its first window.
LEMMA Level2Sound ==
  ASSUME NEW a, NEW c \in ClientT, Sound(a, c, "none"), NEW r, Planned(a, c, r),
         HasLetter(r.token) \/ ~Calm(a) \/ c.kind = "deaf",
         a.ladder = NoLadder, NEW terminal \in BOOLEAN
  PROVE  /\ Goes(a, ExecuteLevel2(a, r, terminal), c)
         /\ Owned(ExecuteLevel2(a, r, terminal))
<1>1. CASE Busy(a)
  BY <1>1, SettleSound DEF ExecuteLevel2, Owned
<1>2. CASE ~Busy(a)
  <2> DEFINE f == [range |-> r, eng |-> a.eng, terminal |-> terminal, sent |-> FALSE, moved |-> FALSE]
             b == [a EXCEPT !.burst = f]
  <2>0. a \in Actors /\ Known(a) /\ InOrder(a, "none") /\ a.eng \in Nat \ {0} /\ r \in Ranges
    BY DEF Sound, Known, Actors, Planned
  <2>1. f \in BurstT /\ f # NoBurst /\ f.range = r /\ f.eng = a.eng /\ ~f.sent
    BY <2>0 DEF BurstT, NoBurst
  <2>2. ExecuteLevel2(a, r, terminal) = b
    BY <1>2 DEF ExecuteLevel2
  <2> HIDE DEF f
  <2>3. b \in Actors
    BY <2>0, <2>1 DEF Actors, BurstT
  <2>4. /\ \A x \in Rounds : b[x] = a[x]
        /\ b.epoch = a.epoch /\ b.armed = a.armed /\ b.late = a.late
        /\ b.crossed = a.crossed /\ b.raced = a.raced /\ b.doubled = a.doubled
        /\ b.buf = a.buf /\ b.dead = a.dead /\ b.ladder = a.ladder /\ b.burst = f
        /\ b.down = a.down /\ b.pending = a.pending /\ b.payload = a.payload
        /\ b.flip = a.flip /\ b.combo = a.combo /\ b.eng = a.eng
    BY <2>0 DEF Actors, Rounds
  <2> HIDE DEF b
  <2>5. Known(b) /\ InOrder(b, "none") /\ KeepsOver(a, b)
    BY <2>0, <2>3, <2>4, OrderKept DEF Known
  <2>6. Engines(b) /\ Alone(b) /\ Learned(b) /\ Busy(b)
    BY <2>1, <2>4 DEF Sound, Engines, Alone, Learned, Busy
  <2>7. HalfDone(b) = HalfDone(a) /\ Owed(b) = Owed(a)
    BY <1>2, <2>1, <2>4 DEF HalfDone, Owed, Busy
  <2>8. ~b.crossed /\ ~b.doubled => Gapless(b.down, c.gap, HalfDone(b))
    BY <2>4, <2>7 DEF Sound
  <2>9. Calm(b) /\ c.kind # "deaf" => Level(b, c.field)
    BY <2>1, <2>4, <2>7 DEF Sound, Level, Calm, Planned
  <2>10. Sound(b, c, "none")
    BY <2>5, <2>6, <2>8, <2>9 DEF Sound
  <2> QED BY <2>2, <2>4, <2>5, <2>6, <2>10 DEF Goes, Later, Owned
<1> QED BY <1>1, <1>2

\* executeCorrection with an engine that has seen a report.
Opened(a) ==
  LET r == a.pending.range
      c == [Over(ResolvePending(a), "ladder") EXCEPT
              !.ladder = [range |-> r, eng |-> a.eng, epoch |-> a.epoch["ladder"] + 1]]
  IN  [Send(Arm(c, "ladder"), "delete", Match(r), a.eng) EXCEPT !.doubled = @ \/ Busy(a)]

LEMMA OpenedSound ==
  ASSUME NEW a, NEW c \in ClientT, Sound(a, c, "none"), a.pending # NoPending,
         a.ladder = NoLadder
  PROVE  Goes(a, Opened(a), c) /\ Opened(a).ladder # NoLadder
<1> DEFINE r == a.pending.range
           n == a.epoch["ladder"] + 1
           l == [range |-> r, eng |-> a.eng, epoch |-> n]
           m == [kind |-> "delete", text |-> Match(r), eng |-> a.eng]
           p == ResolvePending(a)
           o == Over(p, "ladder")
           b == Opened(a)
<1>0. /\ a \in Actors /\ Known(a) /\ "ladder" \in Rounds /\ "pending" \in Rounds
      /\ a.down \in Seq(Signals) /\ r \in Ranges /\ a.eng \in Nat \ {0} /\ a.buf \in Texts
  BY DEF Sound, Known, Rounds, Actors
<1>1. Match(r) \in Texts
  BY <1>0, RangeTexts
<1>2. m \in Signals /\ m.kind = "delete" /\ m.text = Match(r) /\ m.eng = a.eng
  BY <1>0, <1>1 DEF Signals
<1>3. /\ Goes(a, p, c) /\ p.buf = a.buf /\ p.dead = a.dead /\ p.payload = a.payload
      /\ p.ladder = a.ladder /\ p.burst = a.burst /\ p.pending = NoPending /\ p.combo = a.combo
  <2>1. "none" \notin Rounds
    BY DEF Rounds
  <2> QED BY <2>1, ResolveSound DEF Rest
<1>p. p = [a EXCEPT !.armed = [a.armed EXCEPT !["pending"] = 0],
                    !.late = OverIn(a.late, "pending"), !.pending = NoPending]
  BY <1>0, OverFields DEF ResolvePending, Actors
<1> HIDE DEF p
<1>4. p \in Actors /\ Known(p) /\ InOrder(p, "none")
  BY <1>3 DEF Goes, Sound, Known
<1>5. /\ p.down = a.down /\ p.eng = a.eng /\ p.crossed = a.crossed /\ p.raced = a.raced
      /\ p.doubled = a.doubled /\ p.epoch = a.epoch /\ p.flip = a.flip
  BY <1>0, <1>p DEF Actors
<1>6. /\ n \in Nat \ {0} /\ n = p.epoch["ladder"] + 1
      /\ OverIn(p.late, "ladder") \subseteq Callbacks
      /\ o = [p EXCEPT !.armed = [p.armed EXCEPT !["ladder"] = 0], !.late = OverIn(p.late, "ladder")]
      /\ p.epoch \in [Rounds -> Nat] /\ p.armed \in [Rounds -> Nat]
  <2>1. p.epoch \in [Rounds -> Nat] /\ p.armed \in [Rounds -> Nat] /\ p.late \subseteq Callbacks
    BY <1>4, ActorFields
  <2>2. n \in Nat \ {0} /\ n = p.epoch["ladder"] + 1
    BY <1>0, <1>5, <2>1
  <2>3. OverIn(p.late, "ladder") \subseteq Callbacks
    BY <1>0, <2>1, OverLate
  <2>4. o = [p EXCEPT !.armed = [p.armed EXCEPT !["ladder"] = 0], !.late = OverIn(p.late, "ladder")]
    BY <1>0, <1>4, OverFields
  <2> QED BY <2>1, <2>2, <2>3, <2>4
<1>7. l \in LadderT /\ l # NoLadder /\ l.epoch = n /\ l.range = r /\ l.eng = a.eng
  BY <1>0, <1>6 DEF LadderT, NoLadder
<1> DEFINE x == a.doubled \/ Busy(a)
<1>8. x \in BOOLEAN /\ (a.doubled => x) /\ (~x => ~Busy(a))
  OBVIOUS
<1> HIDE DEF x, m, l, o, n
<1>9. b = [p EXCEPT !.armed = [p.armed EXCEPT !["ladder"] = n], !.late = OverIn(p.late, "ladder"),
                    !.epoch = [p.epoch EXCEPT !["ladder"] = @ + 1], !.ladder = l,
                    !.down = Append(p.down, m), !.doubled = x]
  <2> DEFINE q == [o EXCEPT !.ladder = l]
             s == Arm(q, "ladder")
             t == Send(s, "delete", Match(r), a.eng)
  <2>1. b = [t EXCEPT !.doubled = @ \/ Busy(a)]
    BY DEF Opened, o, l, n, p
  <2>2. q = [p EXCEPT !.armed = [p.armed EXCEPT !["ladder"] = 0], !.late = OverIn(p.late, "ladder"), !.ladder = l]
    BY <1>4, <1>6 DEF Actors
  <2>3. q.epoch = p.epoch /\ q.armed = [p.armed EXCEPT !["ladder"] = 0]
    BY <1>4, <2>2 DEF Actors
  <2> HIDE DEF q
  <2>4. [q.armed EXCEPT !["ladder"] = n] = [p.armed EXCEPT !["ladder"] = n]
    BY <1>6, <2>3
  <2>5. s = [q EXCEPT !.epoch = [p.epoch EXCEPT !["ladder"] = @ + 1], !.armed = [p.armed EXCEPT !["ladder"] = n]]
    BY <1>6, <2>3, <2>4 DEF Arm
  <2>6. s = [p EXCEPT !.armed = [p.armed EXCEPT !["ladder"] = n], !.late = OverIn(p.late, "ladder"),
                      !.epoch = [p.epoch EXCEPT !["ladder"] = @ + 1], !.ladder = l]
    BY <1>4, <2>2, <2>5 DEF Actors
  <2> HIDE DEF s
  <2>7. t = [s EXCEPT !.down = Append(s.down, m)]
    BY DEF Send, m
  <2>8. s.down = p.down
    BY <1>4, <2>6 DEF Actors
  <2> HIDE DEF t
  <2>9. t.doubled = a.doubled
    BY <1>4, <1>5, <2>6, <2>7 DEF Actors
  <2>10. b = [t EXCEPT !.doubled = x]
    BY <2>1, <2>9 DEF x
  <2> HIDE DEF b
  <2> QED BY <1>4, <2>6, <2>7, <2>8, <2>10 DEF Actors
<1> HIDE DEF b
<1>10. /\ [p.armed EXCEPT !["ladder"] = n] \in [Rounds -> Nat]
       /\ [p.epoch EXCEPT !["ladder"] = @ + 1] \in [Rounds -> Nat]
       /\ Append(p.down, m) \in Seq(Signals)
  BY <1>0, <1>2, <1>5, <1>6
<1>11. b \in Actors
  BY <1>4, <1>6, <1>7, <1>8, <1>9, <1>10, ZenonT(60) DEF Actors, LadderT
<1>12. /\ b.armed = [p.armed EXCEPT !["ladder"] = n] /\ b.late = OverIn(p.late, "ladder")
       /\ b.epoch = [p.epoch EXCEPT !["ladder"] = @ + 1]
       /\ b.ladder = l /\ b.down = Append(p.down, m) /\ b.doubled = x
       /\ \A y \in Rounds \ {"ladder"} : b[y] = p[y]
       /\ b.eng = p.eng /\ b.crossed = p.crossed /\ b.raced = p.raced /\ b.flip = p.flip
       /\ b.buf = p.buf /\ b.dead = p.dead /\ b.payload = p.payload /\ b.burst = p.burst
       /\ b.pending = NoPending
  BY <1>3, <1>4, <1>9 DEF Actors, Rounds
<1>13. InOrder(b, "none") /\ KeepsOver(p, b)
  <2>1. /\ b["ladder"].epoch = p.epoch["ladder"] + 1 /\ n # 0
        /\ n \in {0, p.epoch["ladder"] + 1}
    BY <1>6, <1>7, <1>12
  <2> QED BY <1>0, <1>4, <1>11, <1>12, <2>1, OrderOpened
<1>14. Known(b)
  BY <1>4, <1>11, <1>12 DEF Known
<1>15. Engines(b)
  <2>1. /\ ~p.crossed => m.eng \in {0, p.eng}
        /\ ~p.crossed /\ Busy(b) => b.burst.eng = p.eng
        /\ Engines(p)
    BY <1>2, <1>3, <1>5, <1>12 DEF Goes, Sound, Engines, Busy
  <2>2. b.ladder # NoLadder => b.ladder.eng = p.eng
    BY <1>5, <1>7, <1>12
  <2> QED BY <1>2, <1>4, <1>12, <2>1, <2>2, EnginesAppend
<1>16. Alone(b) /\ Learned(b)
  <2>1. ~a.dead
    BY DEF Sound, Learned
  <2> QED BY <1>3, <1>8, <1>12, <2>1 DEF Alone, Learned, Busy
<1>17. ~b.crossed /\ ~b.doubled => Gapless(b.down, c.gap, HalfDone(b))
  <2> SUFFICES ASSUME ~b.crossed, ~b.doubled PROVE Gapless(b.down, c.gap, HalfDone(b))
    OBVIOUS
  <2>1. c.gap \in BOOLEAN
    BY DEF ClientT
  <2>2. ~Busy(a) /\ ~a.doubled /\ ~a.crossed
    BY <1>5, <1>8, <1>12
  <2>3. Gapless(p.down, c.gap, HalfDone(p)) /\ ~HalfDone(p)
    BY <1>3, <1>5, <2>2 DEF Goes, Sound, HalfDone, Busy
  <2>4. HalfDone(b) = TRUE /\ Gapless(p.down, c.gap, FALSE)
    BY <1>7, <1>12, <2>3 DEF HalfDone, Gapless
  <2>5. p.down \in Seq(Signals) /\ m.kind \in Opening
    BY <1>0, <1>2, <1>5 DEF Opening
  <2> QED BY <1>2, <1>12, <2>1, <2>4, <2>5, GapAppend, ZenonT(60)
<1>18. ASSUME Calm(b), c.kind # "deaf" PROVE Level(b, c.field)
  <2>1. Calm(a) /\ ~Busy(a)
    BY <1>5, <1>8, <1>12, <1>18 DEF Calm
  <2>2. Level(a, c.field) /\ RangeOf(a.buf, r)
    BY <1>18, <2>1 DEF Sound, Level
  <2>3. Owed(a) = <<>>
    BY <2>1 DEF Owed
  <2>4. PICK w \in Texts : Leads(a.down, c.field, w) /\ Ends(w \o <<>>, a.buf)
    BY <2>2, <2>3 DEF Level
  <2>5. Ends(w, a.buf)
    BY <2>4, JoinEmpty
  <2>6. PICK v \in Texts : w = v \o Match(r) /\ Ends(v \o Match(r), a.buf)
    BY <1>0, <2>2, <2>5, PlannedIsThere
  <2>7. Moves(m, w, v)
    BY <1>2, <2>6 DEF Moves, Opening
  <2>8. c.field \in Texts
    BY DEF ClientT
  <2>9. Leads(b.down, c.field, v)
    BY <1>0, <1>2, <1>5, <1>12, <2>4, <2>7, <2>8, LeadsAppend
  <2>10. Owed(b) = Match(r) /\ ~Busy(b) /\ b.ladder.range = r /\ b.buf = a.buf
    BY <1>3, <1>7, <1>12, <2>1 DEF Owed, Busy
  <2> QED BY <1>12, <2>2, <2>6, <2>9, <2>10 DEF Level
<1>19. Sound(b, c, "none")
  BY <1>13, <1>14, <1>15, <1>16, <1>17, <1>18 DEF Sound
<1>20. Later(p, b)
  BY <1>5, <1>8, <1>12, <1>13 DEF Later
<1>21. Goes(p, b, c)
  BY <1>19, <1>20 DEF Goes
<1>22. Goes(a, b, c)
  BY <1>3, <1>21, GoesOn
<1> QED BY <1>7, <1>12, <1>22 DEF b

LEMMA CorrectionSound ==
  ASSUME NEW a, NEW c \in ClientT, Sound(a, c, "none"), a.pending # NoPending,
         a.ladder = NoLadder
  PROVE  Goes(a, ExecuteCorrection(a), c) /\ Owned(ExecuteCorrection(a))
<1>1. CASE a.seen = a.eng
  <2>1. ExecuteCorrection(a) = Opened(a)
    BY <1>1 DEF ExecuteCorrection, Opened
  <2> QED BY <2>1, OpenedSound DEF Owned
<1>2. CASE a.seen # a.eng
  <2> DEFINE r == a.pending.range
             b == ResolvePending(a)
  <2>1. ExecuteCorrection(a) = ExecuteLevel2(b, r, FALSE)
    BY <1>2 DEF ExecuteCorrection
  <2>2. Goes(a, b, c) /\ b.ladder = NoLadder /\ b.buf = a.buf
    <3>1. "none" \notin Rounds
      BY DEF Rounds
    <3> QED BY <3>1, ResolveSound DEF Rest
  <2> HIDE DEF b
  <2>3. Calm(b) => Calm(a)
    BY <2>2 DEF Goes, Later, Calm
  <2>4. r \in Ranges
    BY DEF Sound, Known, Actors
  <2>5. Calm(b) /\ c.kind # "deaf" => RangeOf(b.buf, r)
    BY <2>2, <2>3 DEF Sound, Level
  <2>6. Planned(b, c, r) /\ (HasLetter(r.token) \/ ~Calm(b) \/ c.kind = "deaf")
    BY <2>4, <2>5 DEF Planned, RangeOf
  <2>7. Goes(b, ExecuteCorrection(a), c) /\ Owned(ExecuteCorrection(a))
    <3> HIDE DEF r
    <3> QED BY <2>1, <2>2, <2>6, Level2Sound DEF Goes
  <2> QED BY <2>2, <2>7, GoesOn
<1> QED BY <1>1, <1>2

\* The pending round is opened, or passed at once.
PendingFor(a, r, auto, e) == [range |-> r, auto |-> auto, cacheNil |-> ~a.surr.known, epoch |-> e]

LEMMA PassedSound ==
  ASSUME NEW a, NEW c \in ClientT, Sound(a, c, "none"), NEW r, Planned(a, c, r),
         HasLetter(r.token), a.ladder = NoLadder, ~a.dead, a.pending = NoPending,
         NEW f \in PendingT, f.range = r, f.epoch = 0
  PROVE  Sound([a EXCEPT !.pending = f], c, "none") /\ Later(a, [a EXCEPT !.pending = f])
<1> DEFINE b == [a EXCEPT !.pending = f]
<1>0. a \in Actors /\ Known(a) /\ InOrder(a, "none")
  BY DEF Sound, Known
<1>1. b \in Actors
  BY <1>0 DEF Actors, PendingT
<1>2. /\ \A x \in Rounds \ {"pending"} : b[x] = a[x]
      /\ b.epoch = a.epoch /\ b.armed = a.armed /\ b.late = a.late
      /\ b.crossed = a.crossed /\ b.raced = a.raced /\ b.doubled = a.doubled
      /\ b.buf = a.buf /\ b.dead = a.dead /\ b.ladder = a.ladder /\ b.burst = a.burst
      /\ b.down = a.down /\ b.pending = f /\ b.payload = a.payload
      /\ b.flip = a.flip /\ b.combo = a.combo /\ b.eng = a.eng
  BY <1>0 DEF Actors, Rounds
<1> HIDE DEF b
<1>3. \A x \in Rounds : b[x].epoch = a[x].epoch
  <2> TAKE x \in Rounds
  <2>1. CASE x = "pending"
    BY <1>2, <2>1 DEF NoPending
  <2>2. CASE x # "pending"
    BY <1>2, <2>2
  <2> QED BY <2>1, <2>2
<1>4. Known(b) /\ InOrder(b, "none") /\ KeepsOver(a, b)
  BY <1>0, <1>1, <1>2, <1>3, OrderKept DEF Known
<1>5. Engines(b) /\ Alone(b) /\ Learned(b)
  BY <1>2 DEF Sound, Engines, Alone, Learned, Busy
<1>6. HalfDone(b) = HalfDone(a) /\ Owed(b) = Owed(a) /\ Busy(b) = Busy(a)
  BY <1>2 DEF HalfDone, Owed, Busy
<1>7. ~b.crossed /\ ~b.doubled => Gapless(b.down, c.gap, HalfDone(b))
  BY <1>2, <1>6 DEF Sound
<1>8. Calm(b) /\ c.kind # "deaf" => Level(b, c.field)
  BY <1>2, <1>6 DEF Sound, Level, Calm, Planned
<1>9. Sound(b, c, "none") /\ Later(a, b)
  BY <1>2, <1>4, <1>5, <1>7, <1>8 DEF Sound, Later
<1> QED BY <1>9 DEF b

LEMMA AskedSound ==
  ASSUME NEW a, NEW c \in ClientT, Sound(a, c, "none"), NEW r, Planned(a, c, r),
         HasLetter(r.token), a.ladder = NoLadder \/ a.payload = NoRange,
         ~a.dead, a.pending = NoPending,
         NEW f \in PendingT, f.range = r, f.epoch = a.epoch["pending"] + 1
  PROVE  Goes(a, [Arm(a, "pending") EXCEPT !.pending = f], c)
<1> DEFINE n == a.epoch["pending"] + 1
           b == [Arm(a, "pending") EXCEPT !.pending = f]
<1>0. a \in Actors /\ Known(a) /\ InOrder(a, "none") /\ "pending" \in Rounds
  BY DEF Sound, Known, Rounds
<1>1. /\ a.epoch \in [Rounds -> Nat] /\ a.armed \in [Rounds -> Nat] /\ n \in Nat \ {0}
      /\ [a.armed EXCEPT !["pending"] = n] \in [Rounds -> Nat]
      /\ [a.epoch EXCEPT !["pending"] = @ + 1] \in [Rounds -> Nat]
  BY <1>0, ActorFields
<1>2. b = [a EXCEPT !.epoch = [a.epoch EXCEPT !["pending"] = @ + 1],
                    !.armed = [a.armed EXCEPT !["pending"] = n], !.pending = f]
  BY <1>0, <1>1 DEF Arm, Actors
<1> HIDE DEF b
<1>3. b \in Actors
  BY <1>0, <1>1, <1>2, ZenonT(60) DEF Actors, PendingT
<1>4. /\ \A x \in Rounds \ {"pending"} : b[x] = a[x]
      /\ b.epoch = [a.epoch EXCEPT !["pending"] = @ + 1]
      /\ b.armed = [a.armed EXCEPT !["pending"] = n] /\ b.late = a.late
      /\ b.crossed = a.crossed /\ b.raced = a.raced /\ b.doubled = a.doubled
      /\ b.buf = a.buf /\ b.dead = a.dead /\ b.ladder = a.ladder /\ b.burst = a.burst
      /\ b.down = a.down /\ b.pending = f /\ b.payload = a.payload
      /\ b.flip = a.flip /\ b.combo = a.combo /\ b.eng = a.eng
  BY <1>0, <1>2 DEF Actors, Rounds
<1>5. InOrder(b, "none") /\ KeepsOver(a, b)
  <2>1. b["pending"].epoch = n /\ n # 0
    BY <1>1, <1>4
  <2> QED BY <1>0, <1>3, <1>4, <2>1, OrderOpened
<1>6. Known(b)
  BY <1>0, <1>3, <1>4 DEF Known
<1>7. Engines(b) /\ Alone(b) /\ Learned(b)
  BY <1>4 DEF Sound, Engines, Alone, Learned, Busy
<1>8. HalfDone(b) = HalfDone(a) /\ Owed(b) = Owed(a) /\ Busy(b) = Busy(a)
  BY <1>4 DEF HalfDone, Owed, Busy
<1>9. ~b.crossed /\ ~b.doubled => Gapless(b.down, c.gap, HalfDone(b))
  BY <1>4, <1>8 DEF Sound
<1>10. Calm(b) /\ c.kind # "deaf" => Level(b, c.field)
  BY <1>4, <1>8 DEF Sound, Level, Calm, Planned
<1>11. Sound(b, c, "none") /\ Later(a, b)
  BY <1>4, <1>5, <1>6, <1>7, <1>9, <1>10 DEF Sound, Later
<1> QED BY <1>11 DEF Goes, b

\* startRangeCorrection. An autocorrection may find a ladder open.
LEMMA StartSound ==
  ASSUME NEW a, NEW c \in ClientT, Sound(a, c, "none"), NEW r, Planned(a, c, r),
         NEW auto \in BOOLEAN,
         a.ladder = NoLadder \/ (auto /\ ~a.dead /\ a.payload = NoRange)
  PROVE  Goes(a, StartRange(a, r, auto), c) /\ Owned(StartRange(a, r, auto))
<1> DEFINE p == ResolvePending(a)
           b == ClearAfter(p)
           e == b.epoch["pending"] + 1
           asked == [Arm(b, "pending") EXCEPT !.pending = PendingFor(a, r, auto, e)]
<1>0. "none" \notin Rounds /\ "pending" \in Rounds
  BY DEF Rounds
<1>1. Goes(a, p, c) /\ Rest(a, p) /\ p.pending = NoPending
  BY <1>0, ResolveSound
<1>2. Goes(p, b, c) /\ SameWork(p, b)
  <2> HIDE DEF p
  <2> QED BY <1>0, <1>1, ClearSound DEF Goes
<1>3. Goes(a, b, c)
  <2> HIDE DEF p, b
  <2> QED BY <1>1, <1>2, GoesOn
<1>4. /\ b.pending = NoPending /\ b.ladder = a.ladder /\ b.dead = a.dead /\ b.payload = a.payload
      /\ b.buf = a.buf /\ Sound(b, c, "none") /\ b \in Actors
  <2> HIDE DEF p, b
  <2> QED BY <1>1, <1>2 DEF SameWork, Rest, Goes, Sound, Known
<1>5. StartRange(a, r, auto) =
        CASE ~HasLetter(r.token) -> SettleCombo(a)
          [] HasLetter(r.token) /\ a.dead -> ExecuteLevel2(b, r, TRUE)
          [] OTHER -> IF auto \/ ~IsSuffixOf(Match(r), a.surr.text)
                        THEN Send(asked, "require", <<>>, a.eng)
                        ELSE ExecuteCorrection([b EXCEPT !.pending = PendingFor(a, r, auto, 0)])
  BY DEF StartRange, PendingFor
<1> HIDE DEF p, b
<1>6. Planned(b, c, r)
  <2>1. Calm(b) => Calm(a)
    BY <1>3 DEF Goes, Later, Calm
  <2> QED BY <1>4, <2>1 DEF Planned
<1>7. \A n \in Nat : PendingFor(a, r, auto, n) \in PendingT
  <2>1. r \in Ranges /\ a.surr.known \in BOOLEAN
    BY DEF Planned, Sound, Known, Actors
  <2>2. (~a.surr.known) \in BOOLEAN
    OBVIOUS
  <2> HIDE DEF asked
  <2> QED BY <2>1, <2>2 DEF PendingFor, PendingT
<1>8. CASE ~HasLetter(r.token)
  BY <1>5, <1>8, SettleSound DEF Owned
<1>9. CASE HasLetter(r.token) /\ a.dead
  <2>1. StartRange(a, r, auto) = ExecuteLevel2(b, r, TRUE) /\ a.ladder = NoLadder
    BY <1>5, <1>9
  <2>2. Goes(b, StartRange(a, r, auto), c) /\ Owned(StartRange(a, r, auto))
    BY <1>4, <1>6, <1>9, <2>1, Level2Sound
  <2> QED BY <1>3, <2>2, GoesOn
<1>10. CASE HasLetter(r.token) /\ ~a.dead
  <2>1. CASE auto \/ ~IsSuffixOf(Match(r), a.surr.text)
    <3> DEFINE f == PendingFor(a, r, auto, e)
    <3>1. StartRange(a, r, auto) = Send(asked, "require", <<>>, a.eng)
      BY <1>5, <1>10, <2>1
    <3>2. b.epoch \in [Rounds -> Nat] /\ e \in Nat
      BY <1>0, <1>4, ActorFields
    <3>3. f \in PendingT /\ f.range = r /\ f.epoch = b.epoch["pending"] + 1 /\ f # NoPending
      <4>1. f \in PendingT
        BY <1>7, <3>2
      <4>2. f.range = r /\ f.epoch = e
        BY DEF PendingFor
      <4>3. f.epoch # NoPending.epoch
        <5>1. b.epoch["pending"] \in Nat
          BY <1>0, <3>2
        <5> QED BY <4>2, <5>1 DEF NoPending
      <4> QED BY <4>1, <4>2, <4>3
    <3> HIDE DEF f
    <3>4. asked = [Arm(b, "pending") EXCEPT !.pending = f]
      BY DEF f
    <3>5. Goes(b, asked, c)
      BY <1>4, <1>6, <1>10, <3>3, <3>4, AskedSound
    <3>6. asked.pending = f
      BY <1>4, <3>4 DEF Arm, Actors
    <3> HIDE DEF asked
    <3>7. a.eng \in Nat
      BY DEF Sound, Known, Actors
    <3>8. Goes(asked, StartRange(a, r, auto), c) /\ SameWork(asked, StartRange(a, r, auto))
      BY <3>1, <3>5, <3>7, AskSound DEF Goes
    <3>9. Owned(StartRange(a, r, auto))
      BY <3>3, <3>6, <3>8 DEF Owned, SameWork
    <3> QED BY <1>3, <3>5, <3>8, <3>9, GoesOn
  <2>2. CASE ~(auto \/ ~IsSuffixOf(Match(r), a.surr.text))
    <3> DEFINE f == PendingFor(a, r, auto, 0)
               d == [b EXCEPT !.pending = f]
    <3>1. StartRange(a, r, auto) = ExecuteCorrection(d) /\ a.ladder = NoLadder
      BY <1>5, <1>10, <2>2
    <3>2. f \in PendingT /\ f.range = r /\ f.epoch = 0
      BY <1>7 DEF PendingFor
    <3>3. f # NoPending
      <4>1. NoPending.range.token = <<>> /\ ~HasLetter(<<>>)
        BY DEF NoPending, NoRange, HasLetter
      <4> QED BY <1>10, <3>2, <4>1
    <3> HIDE DEF f
    <3>4. Sound(d, c, "none") /\ Later(b, d)
      BY <1>4, <1>6, <1>10, <3>1, <3>2, PassedSound
    <3>5. d.pending = f /\ d.ladder = NoLadder
      BY <1>4, <3>1 DEF Actors
    <3> HIDE DEF d
    <3>6. Goes(d, StartRange(a, r, auto), c) /\ Owned(StartRange(a, r, auto))
      BY <3>1, <3>3, <3>4, <3>5, CorrectionSound
    <3>7. Goes(b, d, c)
      BY <3>4 DEF Goes
    <3> QED BY <1>3, <3>6, <3>7, GoesOn
  <2> QED BY <2>1, <2>2
<1> QED BY <1>8, <1>9, <1>10

LEMMA CorrectSound ==
  ASSUME NEW a, NEW c \in ClientT, Sound(a, c, "none")
  PROVE  /\ Goes(a, StartCorrection(a), c) /\ Owned(StartCorrection(a))
         /\ Goes(a, StartPhraseCorrection(a), c) /\ Owned(StartPhraseCorrection(a))
<1> DEFINE b == Flush(a)
<1>0. Goes(a, b, c) /\ b.ladder = NoLadder
  <2>1. "none" \notin Rounds
    BY DEF Rounds
  <2> QED BY <2>1, FlushSound
<1>1. /\ StartCorrection(a) = StartRange(b, WordRange(b), FALSE)
      /\ StartPhraseCorrection(a) = StartRange(b, PhraseRange(b), FALSE)
  BY DEF StartCorrection, StartPhraseCorrection
<1> HIDE DEF b
<1>2. b \in Actors /\ Sound(b, c, "none")
  BY <1>0 DEF Goes, Sound, Known
<1>3. Planned(b, c, WordRange(b)) /\ Planned(b, c, PhraseRange(b))
  BY <1>2, WordRangeIs DEF Planned
<1>4. /\ Goes(b, StartCorrection(a), c) /\ Owned(StartCorrection(a))
      /\ Goes(b, StartPhraseCorrection(a), c) /\ Owned(StartPhraseCorrection(a))
  BY <1>0, <1>1, <1>2, <1>3, StartSound
<1> QED BY <1>0, <1>4, GoesOn

\* The end of the machine: the replacement is sent, the buffer follows.
Landed(a) ==
  LET r == a.burst.range
  IN  [Replaced(Send(a, "commit", New(r) \o r.tail, a.burst.eng), r) EXCEPT !.burst = NoBurst]

LEMMA LandedSound ==
  ASSUME NEW a, NEW c \in ClientT, Sound(a, c, "none"), Busy(a), a.burst.sent
  PROVE  Goes(a, Landed(a), c)
<1> DEFINE r == a.burst.range
           text == New(r) \o r.tail
           m == [kind |-> "commit", text |-> text, eng |-> a.burst.eng]
           x == a.raced \/ a.pending # NoPending
           b == Landed(a)
<1>0. /\ a \in Actors /\ Known(a) /\ InOrder(a, "none")
      /\ a.down \in Seq(Signals) /\ r \in Ranges /\ a.burst.eng \in Nat /\ a.buf \in Texts
  BY DEF Sound, Known, Actors
<1>1. text \in Texts /\ Match(r) \in Texts
  BY <1>0, RangeTexts
<1>2. m \in Signals /\ m.kind = "commit" /\ m.text = text /\ m.eng = a.burst.eng
  BY <1>0, <1>1 DEF Signals
<1>3. x \in BOOLEAN /\ (a.raced => x) /\ (~x => a.pending = NoPending)
  OBVIOUS
<1>5. ReplacedIn(a.buf, r) \in Texts
  BY <1>0, ReplacedIsText
<1> HIDE DEF x, m
<1>6. Append(a.down, m) \in Seq(Signals)
  BY <1>0, <1>2
<1>7. b = [a EXCEPT !.down = Append(a.down, m), !.buf = ReplacedIn(a.buf, r), !.raced = x,
                    !.burst = NoBurst]
  <2> DEFINE q == Send(a, "commit", text, a.burst.eng)
  <2>1. q = [a EXCEPT !.down = Append(a.down, m)]
    BY DEF Send, m
  <2>2. b = [[q EXCEPT !.buf = ReplacedIn(q.buf, r), !.raced = q.raced \/ q.pending # NoPending]
               EXCEPT !.burst = NoBurst]
    BY DEF Landed, Replaced, ReplacedIn
  <2> HIDE DEF q
  <2>3. q.buf = a.buf /\ q.raced = a.raced /\ q.pending = a.pending
    BY <1>0, <2>1 DEF Actors
  <2>4. b = [[q EXCEPT !.buf = ReplacedIn(a.buf, r), !.raced = x] EXCEPT !.burst = NoBurst]
    BY <2>2, <2>3 DEF x
  <2> HIDE DEF b
  <2> QED BY <1>0, <2>1, <2>4 DEF Actors
<1> HIDE DEF b
<1>8. b \in Actors
  BY <1>0, <1>3, <1>5, <1>6, <1>7, NoTypes, ZenonT(60) DEF Actors, BurstT
<1>9. /\ \A y \in Rounds : b[y] = a[y]
      /\ b.epoch = a.epoch /\ b.armed = a.armed /\ b.late = a.late
      /\ b.down = Append(a.down, m) /\ b.buf = ReplacedIn(a.buf, r) /\ b.raced = x
      /\ b.burst = NoBurst /\ b.ladder = a.ladder /\ b.pending = a.pending /\ b.flip = a.flip
      /\ b.eng = a.eng /\ b.crossed = a.crossed /\ b.doubled = a.doubled
      /\ b.dead = a.dead /\ b.payload = a.payload
  BY <1>0, <1>7 DEF Actors, Rounds
<1>10. InOrder(b, "none") /\ KeepsOver(a, b) /\ Known(b)
  BY <1>0, <1>8, <1>9, OrderKept DEF Known
<1>11. Engines(b)
  <2>1. /\ ~a.crossed => m.eng \in {0, a.eng}
        /\ ~a.crossed /\ b.ladder # NoLadder => b.ladder.eng = a.eng
        /\ Engines(a) /\ ~Busy(b)
    BY <1>2, <1>9 DEF Sound, Engines, Busy
  <2> QED BY <1>0, <1>2, <1>9, <2>1, EnginesAppend
<1>12. Alone(b) /\ Learned(b)
  BY <1>9 DEF Sound, Alone, Learned, Busy
<1>13. ~b.crossed /\ ~b.doubled => Gapless(b.down, c.gap, HalfDone(b))
  <2>1. c.gap \in BOOLEAN
    BY DEF ClientT
  <2> QED BY <1>0, <1>2, <1>9, <2>1, HalfDoneIs, GapAppend DEF Sound
<1>14. ASSUME Calm(b), c.kind # "deaf" PROVE Level(b, c.field)
  <2>1. Calm(a) /\ a.pending = NoPending
    BY <1>3, <1>9, <1>14 DEF Calm
  <2>2. a.ladder = NoLadder /\ Owed(a) = Match(r)
    BY <2>1 DEF Sound, Alone, Calm, Owed
  <2>3. Level(a, c.field)
    BY <1>14, <2>1 DEF Sound
  <2>4. PICK w \in Texts : Leads(a.down, c.field, w) /\ Ends(w \o Match(r), a.buf)
    BY <2>2, <2>3 DEF Level
  <2>5. Moves(m, w, w \o text) /\ w \o text \in Texts
    BY <1>1, <1>2, JoinIsText DEF Moves, Opening
  <2>6. c.field \in Texts
    BY DEF ClientT
  <2>7. Leads(b.down, c.field, w \o text)
    BY <1>0, <1>2, <1>9, <2>4, <2>5, <2>6, LeadsAppend
  <2>8. Ends(w \o text, b.buf)
    <3>1. CASE a.buf = <<>>
      BY <1>0, <1>9, <2>5, <3>1, NothingReplaced, EndsWithNothing
    <3>2. CASE RangeOf(a.buf, r)
      BY <1>0, <1>9, <2>4, <3>2, ReplacedIsThere
    <3> QED BY <2>3, <3>1, <3>2 DEF Level
  <2>9. ~Busy(b) /\ b.ladder = NoLadder /\ b.pending = NoPending
    BY <1>9, <2>1, <2>2 DEF Busy
  <2>10. Owed(b) = <<>> /\ (w \o text) \o <<>> = w \o text
    BY <2>5, <2>9, JoinEmpty DEF Owed
  <2>11. Ends((w \o text) \o Owed(b), b.buf)
    BY <2>8, <2>10
  <2> QED BY <2>5, <2>7, <2>9, <2>11 DEF Level
<1>15. Sound(b, c, "none")
  BY <1>10, <1>11, <1>12, <1>13, <1>14 DEF Sound
<1>16. Later(a, b)
  BY <1>3, <1>9, <1>10 DEF Later
<1> QED BY <1>15, <1>16 DEF Goes, b

LEMMA CommitBurstSound ==
  ASSUME NEW a, NEW c \in ClientT, Sound(a, c, "none"), Busy(a), a.burst.sent
  PROVE  Goes(a, CommitBurst(a), c) /\ Owned(CommitBurst(a))
<1> DEFINE r == a.burst.range
           s == ScriptOf(New(r))
           b == Landed(a)
<1>0. r \in Ranges /\ s \in Modes
  <2>1. r \in Ranges
    BY DEF Sound, Known, Actors
  <2> QED BY <2>1, RangeTexts, ScriptIsMode
<1>1. CommitBurst(a) = IF a.burst.terminal
                         THEN ArmAfter(SettleCombo(DeferFlip(b, s, "terminal")), r)
                         ELSE SettleCombo(FollowScript(b, s))
  BY DEF CommitBurst, Landed
<1>2. Goes(a, b, c)
  BY LandedSound
<1> HIDE DEF b, s, r
<1>3. CASE a.burst.terminal
  <2> DEFINE d == DeferFlip(b, s, "terminal")
             e == SettleCombo(d)
  <2>1. Goes(b, d, c)
    BY <1>0, <1>2, DeferSound DEF Goes
  <2> HIDE DEF d
  <2>2. Goes(d, e, c) /\ e.combo = FALSE
    BY <2>1, SettleSound DEF Goes
  <2> HIDE DEF e
  <2>3. CommitBurst(a) = ArmAfter(e, r)
    BY <1>1, <1>3 DEF d, e
  <2>4. Goes(e, CommitBurst(a), c) /\ CommitBurst(a).combo = e.combo
    BY <1>0, <2>2, <2>3, ArmAfterSound DEF Goes
  <2>5. Goes(a, CommitBurst(a), c)
    BY <1>2, <2>1, <2>2, <2>4, GoesOn
  <2> QED BY <2>2, <2>4, <2>5 DEF Owned
<1>4. CASE ~a.burst.terminal
  <2> DEFINE d == FollowScript(b, s)
  <2>1. Goes(b, d, c)
    BY <1>0, <1>2, FollowSound DEF Goes
  <2>2. CommitBurst(a) = SettleCombo(d)
    BY <1>1, <1>4
  <2> HIDE DEF d
  <2>3. Goes(d, CommitBurst(a), c) /\ CommitBurst(a).combo = FALSE
    BY <2>1, <2>2, SettleSound DEF Goes
  <2>4. Goes(a, CommitBurst(a), c)
    BY <1>2, <2>1, <2>3, GoesOn
  <2> QED BY <2>3, <2>4 DEF Owned
<1> QED BY <1>3, <1>4

\* The machine sends its BackSpaces.
Burst(a) ==
  [Send(a, "burst", Match(a.burst.range), a.burst.eng) EXCEPT !.burst.sent = TRUE]

LEMMA BurstSound ==
  ASSUME NEW a, NEW c \in ClientT, Sound(a, c, "none"), Busy(a), ~a.burst.sent, ~a.burst.moved
  PROVE  /\ Goes(a, Burst(a), c) /\ Busy(Burst(a)) /\ Burst(a).burst.sent
         /\ Burst(a).burst = [a.burst EXCEPT !.sent = TRUE]
<1> DEFINE r == a.burst.range
           m == [kind |-> "burst", text |-> Match(r), eng |-> a.burst.eng]
           f == [a.burst EXCEPT !.sent = TRUE]
           b == Burst(a)
<1>0. /\ a \in Actors /\ Known(a) /\ InOrder(a, "none") /\ a.burst \in BurstT
      /\ a.down \in Seq(Signals) /\ r \in Ranges /\ a.burst.eng \in Nat /\ a.buf \in Texts
  BY DEF Sound, Known, Actors, BurstT
<1>1. Match(r) \in Texts
  BY <1>0, RangeTexts
<1>2. m \in Signals /\ m.kind = "burst" /\ m.text = Match(r) /\ m.eng = a.burst.eng
  BY <1>0, <1>1 DEF Signals
<1>3. /\ f \in BurstT /\ f.range = r /\ f.eng = a.burst.eng /\ f.sent = TRUE
      /\ f.moved = a.burst.moved
  BY <1>0 DEF BurstT
<1>n. f # NoBurst
  BY <1>3 DEF NoBurst
<1> HIDE DEF m
<1>6. Append(a.down, m) \in Seq(Signals)
  BY <1>0, <1>2
<1>7. b = [a EXCEPT !.down = Append(a.down, m), !.burst = f]
  BY <1>0 DEF Burst, Send, m, Actors
<1> HIDE DEF b, f
<1>8. b \in Actors
  BY <1>0, <1>3, <1>6, <1>7, ZenonT(60) DEF Actors, BurstT
<1>9. /\ \A y \in Rounds : b[y] = a[y]
      /\ b.epoch = a.epoch /\ b.armed = a.armed /\ b.late = a.late
      /\ b.down = Append(a.down, m) /\ b.buf = a.buf /\ b.raced = a.raced
      /\ b.burst = f /\ b.ladder = a.ladder /\ b.pending = a.pending /\ b.flip = a.flip
      /\ b.eng = a.eng /\ b.crossed = a.crossed /\ b.doubled = a.doubled
      /\ b.dead = a.dead /\ b.payload = a.payload
  BY <1>0, <1>7 DEF Actors, Rounds
<1>10. InOrder(b, "none") /\ KeepsOver(a, b) /\ Known(b)
  BY <1>0, <1>8, <1>9, OrderKept DEF Known
<1>11. Engines(b) /\ Busy(b)
  <2>1. /\ ~a.crossed => m.eng \in {0, a.eng}
        /\ ~a.crossed /\ b.ladder # NoLadder => b.ladder.eng = a.eng
        /\ ~a.crossed => b.burst.eng = a.eng
        /\ Engines(a)
    BY <1>2, <1>3, <1>9 DEF Sound, Engines
  <2> QED BY <1>0, <1>2, <1>9, <1>n, <2>1, EnginesAppend DEF Busy
<1>12. Alone(b) /\ Learned(b)
  BY <1>9 DEF Sound, Alone, Learned, Busy
<1>13. ~b.crossed /\ ~b.doubled => Gapless(b.down, c.gap, HalfDone(b))
  <2> SUFFICES ASSUME ~b.crossed, ~b.doubled PROVE Gapless(b.down, c.gap, HalfDone(b))
    OBVIOUS
  <2>1. c.gap \in BOOLEAN
    BY DEF ClientT
  <2>2. Gapless(a.down, c.gap, HalfDone(a)) /\ ~HalfDone(a)
    BY <1>9 DEF Sound, HalfDone, Alone
  <2>3. Gapless(a.down, c.gap, FALSE) /\ HalfDone(b) = TRUE
    BY <1>3, <1>9, <1>11, <2>2 DEF HalfDone, Gapless
  <2>4. m.kind \in Opening
    BY <1>2 DEF Opening
  <2> QED BY <1>0, <1>2, <1>9, <2>1, <2>3, <2>4, GapAppend
<1>14. ASSUME Calm(b), c.kind # "deaf" PROVE Level(b, c.field)
  <2>1. Calm(a) /\ Level(a, c.field) /\ RangeOf(a.buf, r) /\ a.ladder = NoLadder
    BY <1>9, <1>14 DEF Calm, Sound, Level, Alone
  <2>2. Owed(a) = <<>>
    BY <2>1 DEF Owed
  <2>3. PICK w \in Texts : Leads(a.down, c.field, w) /\ Ends(w \o <<>>, a.buf)
    BY <2>1, <2>2 DEF Level
  <2>4. Ends(w, a.buf)
    BY <2>3, JoinEmpty
  <2>5. PICK v \in Texts : w = v \o Match(r) /\ Ends(v \o Match(r), a.buf)
    BY <1>0, <2>1, <2>4, PlannedIsThere
  <2>6. Moves(m, w, v)
    BY <1>2, <2>5 DEF Moves, Opening
  <2>7. c.field \in Texts
    BY DEF ClientT
  <2>8. Leads(b.down, c.field, v)
    BY <1>0, <1>2, <1>9, <2>3, <2>6, <2>7, LeadsAppend
  <2>9. Owed(b) = Match(r)
    BY <1>3, <1>9, <1>11, <2>1 DEF Owed
  <2> QED BY <1>3, <1>9, <2>1, <2>5, <2>8, <2>9 DEF Level
<1>15. Sound(b, c, "none")
  BY <1>10, <1>11, <1>12, <1>13, <1>14 DEF Sound
<1>16. Later(a, b)
  BY <1>9, <1>10 DEF Later
<1> QED BY <1>3, <1>9, <1>11, <1>15, <1>16 DEF Goes, b, f

\* The legacy form of the machine sends both in one hold of the mutex.
LEMMA BurstAtOnce ==
  ASSUME NEW a \in Actors
  PROVE  CommitBurst(Send(a, "burst", Match(a.burst.range), a.burst.eng)) = CommitBurst(Burst(a))
<1> DEFINE b == Send(a, "burst", Match(a.burst.range), a.burst.eng)
           m == [kind |-> "burst", text |-> Match(a.burst.range), eng |-> a.burst.eng]
           d == Burst(a)
<1>1. b = [a EXCEPT !.down = Append(a.down, m)]
  BY DEF Send
<1>2. d = [b EXCEPT !.burst.sent = TRUE]
  BY DEF Burst
<1>3. a.burst \in BurstT
  BY DEF Actors, BurstT
<1> HIDE DEF m, b, d
<1>4. b.burst = a.burst /\ d.burst = [a.burst EXCEPT !.sent = TRUE]
  BY <1>1, <1>2 DEF Actors
<1>5. /\ d.burst.range = b.burst.range /\ d.burst.eng = b.burst.eng
      /\ d.burst.terminal = b.burst.terminal
  BY <1>3, <1>4 DEF BurstT
<1>6. Landed(d) = Landed(b)
  <2> DEFINE r == b.burst.range
             n == [kind |-> "commit", text |-> New(r) \o r.tail, eng |-> b.burst.eng]
             x == b.raced \/ b.pending # NoPending
  <2>1. d.down = b.down /\ d.buf = b.buf /\ d.raced = b.raced /\ d.pending = b.pending
    BY <1>1, <1>2 DEF Actors
  <2>2. Landed(b) = [b EXCEPT !.down = Append(b.down, n), !.buf = ReplacedIn(b.buf, r), !.raced = x,
                              !.burst = NoBurst]
    BY <1>1 DEF Landed, Replaced, ReplacedIn, Send, Actors
  <2>3. Landed(d) = [d EXCEPT !.down = Append(b.down, n), !.buf = ReplacedIn(b.buf, r), !.raced = x,
                              !.burst = NoBurst]
    BY <1>1, <1>2, <1>5, <2>1 DEF Landed, Replaced, ReplacedIn, Send, Actors
  <2> HIDE DEF n, x, r
  <2>4. [d EXCEPT !.down = Append(b.down, n), !.buf = ReplacedIn(b.buf, r), !.raced = x,
                              !.burst = NoBurst]
      = [b EXCEPT !.down = Append(b.down, n), !.buf = ReplacedIn(b.buf, r), !.raced = x,
                              !.burst = NoBurst]
    BY <1>1, <1>2 DEF Actors
  <2> QED BY <2>2, <2>3, <2>4
<1>7. CommitBurst(d) = CommitBurst(b)
  BY <1>5, <1>6 DEF CommitBurst, Landed
<1> QED BY <1>7 DEF b, d

(***************************************************************************)
(* What the client calls, and what the deadlines do.                       *)
(***************************************************************************)
LEMMA SetDead ==
  ASSUME NEW a, NEW c, Sound(a, c, "none"), a.pending = NoPending,
         a.ladder = NoLadder \/ a.payload = NoRange
  PROVE  Goes(a, [a EXCEPT !.dead = TRUE], c)
<1> DEFINE b == [a EXCEPT !.dead = TRUE]
<1>0. a \in Actors /\ Known(a) /\ InOrder(a, "none")
  BY DEF Sound, Known
<1>1. b \in Actors
  BY <1>0 DEF Actors
<1>2. /\ \A y \in Rounds : b[y] = a[y]
      /\ b.epoch = a.epoch /\ b.armed = a.armed /\ b.late = a.late
      /\ b.down = a.down /\ b.buf = a.buf /\ b.raced = a.raced
      /\ b.burst = a.burst /\ b.ladder = a.ladder /\ b.pending = a.pending /\ b.flip = a.flip
      /\ b.eng = a.eng /\ b.crossed = a.crossed /\ b.doubled = a.doubled /\ b.payload = a.payload
  BY <1>0 DEF Actors, Rounds
<1> HIDE DEF b
<1>3. InOrder(b, "none") /\ KeepsOver(a, b) /\ Known(b)
  BY <1>0, <1>1, <1>2, OrderKept DEF Known
<1>4. Engines(b) /\ Alone(b) /\ Learned(b)
  BY <1>2 DEF Sound, Engines, Alone, Learned, Busy
<1>5. HalfDone(b) = HalfDone(a) /\ Owed(b) = Owed(a) /\ Busy(b) = Busy(a)
  BY <1>2 DEF HalfDone, Owed, Busy
<1>6. ~b.crossed /\ ~b.doubled => Gapless(b.down, c.gap, HalfDone(b))
  BY <1>2, <1>5 DEF Sound
<1>7. Calm(b) /\ c.kind # "deaf" => Level(b, c.field)
  BY <1>2, <1>5 DEF Sound, Level, Calm
<1>8. Sound(b, c, "none") /\ Later(a, b)
  BY <1>2, <1>3, <1>4, <1>6, <1>7 DEF Sound, Later
<1> QED BY <1>8 DEF Goes, b

LEMMA SettlePendingSound ==
  ASSUME NEW a, NEW c \in ClientT, Sound(a, c, "none"), NEW t \in Texts,
         a.pending # NoPending, a.ladder = NoLadder
  PROVE  Goes(a, SettlePending(a, t), c) /\ Owned(SettlePending(a, t))
<1> DEFINE p == a.pending
           b == ResolvePending(a)
           d == [b EXCEPT !.dead = TRUE]
           terminal == ExecuteLevel2(d, p.range, TRUE)
<1>0. Goes(a, b, c) /\ Rest(a, b) /\ b.pending = NoPending
  <2>1. "none" \notin Rounds
    BY DEF Rounds
  <2> QED BY <2>1, ResolveSound
<1>1. \/ SettlePending(a, t) = terminal
      \/ SettlePending(a, t) = ExecuteCorrection(a)
      \/ SettlePending(a, t) = a
      \/ SettlePending(a, t) = SettleCombo(b)
  BY DEF SettlePending
<1> HIDE DEF b
<1>2. Goes(a, terminal, c) /\ Owned(terminal)
  <2>1. Goes(b, d, c)
    BY <1>0, SetDead DEF Goes, Rest
  <2>2. d.buf = a.buf /\ d.ladder = NoLadder
    BY <1>0 DEF Goes, Sound, Known, Actors, Rest
  <2>3. Goes(a, d, c)
    BY <1>0, <2>1, GoesOn
  <2>4. p.range \in Ranges
    BY DEF Sound, Known, Actors
  <2>5. Calm(d) /\ c.kind # "deaf" => RangeOf(d.buf, p.range)
    <3>1. Calm(d) => Calm(a)
      BY <2>3 DEF Goes, Later, Calm
    <3> QED BY <2>2, <3>1 DEF Sound, Level
  <2>6. Planned(d, c, p.range) /\ (HasLetter(p.range.token) \/ ~Calm(d) \/ c.kind = "deaf")
    BY <2>4, <2>5 DEF Planned, RangeOf
  <2> HIDE DEF d, p
  <2>7. Goes(d, terminal, c) /\ Owned(terminal)
    BY <2>2, <2>3, <2>6, Level2Sound DEF Goes
  <2> QED BY <2>3, <2>7, GoesOn
<1>3. Goes(a, ExecuteCorrection(a), c) /\ Owned(ExecuteCorrection(a))
  BY CorrectionSound
<1>4. Goes(a, a, c) /\ Owned(a)
  BY GoesNowhere DEF Owned
<1>5. Goes(a, SettleCombo(b), c) /\ Owned(SettleCombo(b))
  <2>1. Goes(b, SettleCombo(b), c) /\ SettleCombo(b).combo = FALSE
    BY <1>0, SettleSound DEF Goes
  <2> QED BY <1>0, <2>1, GoesOn DEF Owned
<1> HIDE DEF terminal
<1> QED BY <1>1, <1>2, <1>3, <1>4, <1>5

LEMMA RearmSound ==
  ASSUME NEW a, NEW c, Sound(a, c, "none"), a.after # NoAfter
  PROVE  Goes(a, RearmAfter(a), c) /\ SameWork(a, RearmAfter(a)) /\ RearmAfter(a).combo = a.combo
<1> DEFINE f == [a.after EXCEPT !.missed = TRUE]
           g == [a.armed EXCEPT !["after"] = a.after.epoch]
           b == RearmAfter(a)
<1>0. /\ a \in Actors /\ Known(a) /\ InOrder(a, "none") /\ "after" \in Rounds
      /\ a.after \in AfterT /\ a.armed \in [Rounds -> Nat] /\ a.epoch \in [Rounds -> Nat]
  BY DEF Sound, Known, Actors, AfterT, Rounds
<1>1. f \in AfterT /\ f.epoch = a.after.epoch /\ g \in [Rounds -> Nat]
  BY <1>0 DEF AfterT
<1>2. b = [a EXCEPT !.after = f, !.armed = g]
  BY <1>0 DEF RearmAfter, Actors
<1> HIDE DEF b, f, g
<1>3. b \in Actors
  BY <1>0, <1>1, <1>2, ZenonT(60) DEF Actors, AfterT
<1>4. /\ b.after = f /\ b.armed = g /\ \A y \in Rounds \ {"after"} : b[y] = a[y]
      /\ b.epoch = a.epoch /\ b.late = a.late
      /\ b.down = a.down /\ b.buf = a.buf /\ b.raced = a.raced
      /\ b.burst = a.burst /\ b.ladder = a.ladder /\ b.pending = a.pending /\ b.flip = a.flip
      /\ b.eng = a.eng /\ b.crossed = a.crossed /\ b.doubled = a.doubled /\ b.payload = a.payload
      /\ b.dead = a.dead /\ b.combo = a.combo
  BY <1>0, <1>2 DEF Actors, Rounds
<1>5. InOrder(b, "none")
  <2> SUFFICES ASSUME NEW r \in Rounds PROVE Epochs(b, r) /\ Deadline(b, r)
    BY DEF InOrder
  <2>0. Epochs(a, r) /\ Deadline(a, r)
    BY <1>0 DEF InOrder, Rounds
  <2>1. CASE r = "after"
    <3>1. b.armed[r] = a.after.epoch /\ b[r].epoch = a.after.epoch /\ a[r].epoch = a.after.epoch
      BY <1>0, <1>1, <1>4, <2>1 DEF g
    <3> QED BY <1>4, <2>0, <3>1 DEF Epochs, Deadline
  <2>2. CASE r # "after"
    <3>1. b.armed[r] = a.armed[r] /\ b[r] = a[r] /\ b.flip = a.flip
      BY <1>0, <1>4, <2>2 DEF g
    <3> QED BY <1>4, <2>0, <3>1 DEF Epochs, Deadline
  <2> QED BY <2>1, <2>2
<1>6. Known(b) /\ KeepsOver(a, b)
  BY <1>0, <1>3, <1>4 DEF Known, KeepsOver
<1>7. Sound(b, c, "none")
  BY <1>4, <1>5, <1>6, Kept
<1> QED BY <1>4, <1>6, <1>7 DEF Goes, Later, SameWork, Rest, b

LEMMA SettleAfterSound ==
  ASSUME NEW a, NEW c \in ClientT, Sound(a, c, "none"), NEW t \in Texts, a.after # NoAfter
  PROVE  /\ Goes(a, SettleAfter(a, t), c) /\ SameWork(a, SettleAfter(a, t))
         /\ SettleAfter(a, t).combo = a.combo
<1> DEFINE b == ClearAfter(a)
           d == RearmAfter(a)
<1>0. "none" \notin Rounds /\ a.eng \in Nat
  BY DEF Rounds, Sound, Known, Actors
<1>1. Goes(a, b, c) /\ SameWork(a, b) /\ b.combo = a.combo
  BY <1>0, ClearSound
<1>2. Goes(a, d, c) /\ SameWork(a, d) /\ d.combo = a.combo
  BY RearmSound
<1>3. \/ SettleAfter(a, t) = ReleaseFlip(b)
      \/ SettleAfter(a, t) = ReleaseOnVerify(b)
      \/ SettleAfter(a, t) = Send(d, "require", <<>>, a.eng)
  BY DEF SettleAfter
<1> HIDE DEF b, d
<1>4. Goes(b, ReleaseFlip(b), c) /\ SameWork(b, ReleaseFlip(b)) /\ ReleaseFlip(b).combo = b.combo
  BY <1>0, <1>1, ReleaseSound DEF Goes
<1>5. Goes(b, ReleaseOnVerify(b), c) /\ SameWork(b, ReleaseOnVerify(b)) /\ ReleaseOnVerify(b).combo = b.combo
  BY <1>1, VerifySound DEF Goes
<1>6. CASE SettleAfter(a, t) = ReleaseFlip(b)
  BY <1>1, <1>4, <1>6, GoesOn, SameWorkTrans
<1>7. CASE SettleAfter(a, t) = ReleaseOnVerify(b)
  BY <1>1, <1>5, <1>7, GoesOn, SameWorkTrans
<1>8. CASE SettleAfter(a, t) = Send(d, "require", <<>>, a.eng)
  <2>1. /\ Goes(d, SettleAfter(a, t), c) /\ SameWork(d, SettleAfter(a, t))
        /\ SettleAfter(a, t).combo = d.combo
    BY <1>0, <1>2, <1>8, AskSound DEF Goes
  <2> QED BY <1>2, <2>1, GoesOn, SameWorkTrans
<1> QED BY <1>3, <1>6, <1>7, <1>8

LEMMA OwnedKept ==
  ASSUME NEW a, NEW b, Owned(a), SameWork(a, b), b.combo = a.combo
  PROVE  Owned(b)
BY DEF Owned, SameWork, Rest, Busy

LEMMA FlushOwned ==
  ASSUME NEW a, NEW c \in ClientT, Sound(a, c, "none"), Owned(a)
  PROVE  Goes(a, Flush(a), c) /\ Owned(Flush(a)) /\ Flush(a).ladder = NoLadder
         /\ Flush(a).burst = a.burst
<1>1. "none" \notin Rounds
  BY DEF Rounds
<1>2. /\ Goes(a, Flush(a), c) /\ Flush(a).ladder = NoLadder /\ Flush(a).burst = a.burst
      /\ a.ladder = NoLadder => Flush(a) = a
      /\ a.ladder # NoLadder => Flush(a).combo = FALSE
  BY <1>1, FlushSound
<1> QED BY <1>2 DEF Owned

LEMMA ReportSound ==
  ASSUME NEW a, NEW c \in ClientT, Sound(a, c, "none"), Owned(a), NEW t \in Texts
  PROVE  Goes(a, HandleReport(a, t), c) /\ Owned(HandleReport(a, t))
<1> DEFINE b == [a EXCEPT !.surr = [known |-> TRUE, text |-> t], !.seen = a.eng]
<1>0. a \in Actors
  BY DEF Sound, Known
<1>1. b \in Actors
  BY <1>0 DEF Actors
<1>2. /\ \A r \in Rounds : b[r] = a[r]
      /\ b.epoch = a.epoch /\ b.armed = a.armed /\ b.late = a.late
      /\ b.eng = a.eng /\ b.down = a.down
      /\ b.crossed = a.crossed /\ b.raced = a.raced /\ b.doubled = a.doubled
      /\ b.buf = a.buf /\ b.dead = a.dead /\ b.burst = a.burst
      /\ b.payload = a.payload /\ b.combo = a.combo
      /\ b.ladder = a.ladder /\ b.pending = a.pending /\ b.after = a.after
  BY <1>0 DEF Actors, Rounds
<1>3. \/ b.ladder # NoLadder /\ HandleReport(a, t) = Flush(b)
      \/ b.ladder = NoLadder /\ b.pending # NoPending /\ HandleReport(a, t) = SettlePending(b, t)
      \/ b.after # NoAfter /\ HandleReport(a, t) = SettleAfter(b, t)
      \/ HandleReport(a, t) = b
  BY <1>2 DEF HandleReport
<1> HIDE DEF b
<1>4. Goes(a, b, c) /\ SameWork(a, b) /\ b.combo = a.combo
  <2>1. Sound(b, c, "none") /\ Later(a, b)
    BY <1>1, <1>2, AsideSound
  <2> QED BY <1>2, <2>1 DEF Goes, SameWork, Rest
<1>5. Sound(b, c, "none") /\ Owned(b)
  BY <1>4, OwnedKept DEF Goes
<1>6. Goes(b, HandleReport(a, t), c) /\ Owned(HandleReport(a, t))
  <2>1. CASE HandleReport(a, t) = Flush(b)
    BY <1>5, <2>1, FlushOwned
  <2>2. CASE b.ladder = NoLadder /\ b.pending # NoPending /\ HandleReport(a, t) = SettlePending(b, t)
    BY <1>5, <2>2, SettlePendingSound
  <2>3. CASE b.after # NoAfter /\ HandleReport(a, t) = SettleAfter(b, t)
    BY <1>5, <2>3, SettleAfterSound, OwnedKept
  <2>4. CASE HandleReport(a, t) = b
    BY <1>5, <2>4, GoesNowhere
  <2> QED BY <1>3, <2>1, <2>2, <2>3, <2>4
<1> QED BY <1>4, <1>6, GoesOn

LEMMA ContextSound ==
  ASSUME NEW a, NEW c \in ClientT, Sound(a, c, "none"), a.ladder = NoLadder,
         NEW synthetic \in BOOLEAN, NEW forgets \in BOOLEAN
  PROVE  Goes(a, ContextDies(a, synthetic, forgets), c) /\ Owned(ContextDies(a, synthetic, forgets))
<1> DEFINE p == ResolvePending(a)
           q == ClearAfter(p)
           f == IF Busy(a) THEN [a.burst EXCEPT !.moved = TRUE] ELSE NoBurst
           text == IF synthetic THEN q.buf ELSE <<>>
           x == q.dead /\ (synthetic \/ ~forgets)
           s == [known |-> FALSE, text |-> <<>>]
           b == ContextDies(a, synthetic, forgets)
<1>0. "none" \notin Rounds /\ a \in Actors /\ a.burst \in BurstT
  BY DEF Rounds, Sound, Known, Actors, BurstT
<1>1. Goes(a, p, c) /\ Rest(a, p) /\ p.pending = NoPending
  BY <1>0, ResolveSound
<1>2. b = [q EXCEPT !.buf = text, !.dead = x, !.surr = s, !.seen = 0, !.burst = f, !.combo = FALSE]
  BY DEF ContextDies
<1> HIDE DEF p, b
<1>3. Goes(p, q, c) /\ SameWork(p, q)
  BY <1>0, <1>1, ClearSound DEF Goes
<1> HIDE DEF q
<1>4. Goes(a, q, c)
  BY <1>1, <1>3, GoesOn
<1>5. /\ q.buf = a.buf /\ q.dead = a.dead /\ q.payload = a.payload /\ q.ladder = NoLadder
      /\ q.burst = a.burst /\ q.pending = NoPending
  BY <1>1, <1>3 DEF SameWork, Rest
<1>6. q \in Actors /\ Known(q) /\ InOrder(q, "none") /\ Sound(q, c, "none")
  BY <1>4 DEF Goes, Sound, Known
<1>7. text \in Texts /\ (text = q.buf \/ text = <<>>)
  BY <1>6, NoTypes DEF Actors
<1>8. x \in BOOLEAN
  <2>1. q.dead \in BOOLEAN
    BY <1>6 DEF Actors
  <2> QED BY <2>1
<1>9. s \in [known : BOOLEAN, text : Texts]
  BY NoTypes
<1>10. f \in BurstT
  BY <1>0, NoTypes DEF BurstT
<1>11. /\ f = NoBurst <=> ~Busy(a)
       /\ Busy(a) => f.eng = a.burst.eng /\ f.sent = a.burst.sent /\ f.range = a.burst.range
                       /\ f.moved = TRUE
  BY <1>0 DEF BurstT, NoBurst, Busy
<1> HIDE DEF f, text, x, s
<1>12. b \in Actors
  BY <1>2, <1>6, <1>7, <1>8, <1>9, <1>10, ZenonT(60) DEF Actors, BurstT
<1>13. /\ \A r \in Rounds : b[r] = q[r]
       /\ b.epoch = q.epoch /\ b.armed = q.armed /\ b.late = q.late
       /\ b.eng = q.eng /\ b.down = q.down
       /\ b.crossed = q.crossed /\ b.raced = q.raced /\ b.doubled = q.doubled
       /\ b.buf = text /\ b.burst = f /\ b.payload = q.payload /\ b.combo = FALSE
       /\ b.ladder = q.ladder /\ b.pending = q.pending /\ b.flip = q.flip
  BY <1>2, <1>6 DEF Actors, Rounds
<1>14. InOrder(b, "none") /\ KeepsOver(q, b) /\ Known(b)
  BY <1>6, <1>12, <1>13, OrderKept DEF Known
<1>15. Engines(b) /\ Alone(b) /\ Learned(b)
  BY <1>5, <1>6, <1>11, <1>13 DEF Sound, Engines, Alone, Learned, Busy
<1>16. HalfDone(b) = HalfDone(q) /\ Owed(b) = Owed(q) /\ Busy(b) = Busy(q)
  BY <1>5, <1>11, <1>13 DEF HalfDone, Owed, Busy
<1>17. ~b.crossed /\ ~b.doubled => Gapless(b.down, c.gap, HalfDone(b))
  BY <1>6, <1>13, <1>16 DEF Sound
<1>18. ASSUME Calm(b), c.kind # "deaf" PROVE Level(b, c.field)
  <2>1. Level(q, c.field)
    BY <1>6, <1>13, <1>18 DEF Sound, Calm
  <2>2. PICK w \in Texts : Leads(q.down, c.field, w) /\ Ends(w \o Owed(q), q.buf)
    BY <2>1 DEF Level
  <2>3. w \o Owed(q) \in Texts
    BY <1>6, OwedIsText, JoinIsText
  <2>4. Ends(w \o Owed(b), b.buf)
    BY <1>7, <1>13, <1>16, <2>2, <2>3, EndsWithNothing
  <2>5. Busy(b) => b.burst.moved = TRUE /\ (b.burst.sent => q.burst.sent) /\ b.burst.range = q.burst.range
    BY <1>5, <1>11, <1>13 DEF Busy
  <2>6. Busy(b) /\ b.burst.sent => b.buf = <<>> \/ RangeOf(b.buf, b.burst.range)
    BY <1>7, <1>13, <1>16, <2>1, <2>5 DEF Level
  <2> QED BY <1>5, <1>13, <2>2, <2>4, <2>5, <2>6 DEF Level
<1>19. Sound(b, c, "none")
  BY <1>14, <1>15, <1>17, <1>18 DEF Sound
<1>20. Goes(q, b, c)
  BY <1>13, <1>14, <1>19 DEF Goes, Later
<1>21. Goes(a, b, c)
  BY <1>4, <1>20, GoesOn
<1> QED BY <1>13, <1>21 DEF Owned, b

LEMMA LifecycleSound ==
  ASSUME NEW a, NEW c \in ClientT, Sound(a, c, "none"), Owned(a), NEW kind, NEW forgets \in BOOLEAN
  PROVE  Goes(a, HandleLifecycle(a, kind, forgets), c) /\ Owned(HandleLifecycle(a, kind, forgets))
<1> DEFINE synthetic == kind = "focusout" /\ a.credit > 0
           b == IF synthetic THEN [a EXCEPT !.credit = @ - 1] ELSE a
           d == Flush(b)
<1>0. a \in Actors /\ synthetic \in BOOLEAN
  BY DEF Sound, Known
<1>1. Goes(a, b, c) /\ SameWork(a, b) /\ b.combo = a.combo
  <2>1. CASE synthetic
    <3>1. a.credit - 1 \in Nat /\ b = [a EXCEPT !.credit = a.credit - 1]
      BY <1>0, <2>1 DEF Actors
    <3>2. b \in Actors
      <4> DEFINE n == a.credit - 1
      <4>1. n \in Nat /\ b = [a EXCEPT !.credit = n]
        BY <3>1
      <4> HIDE DEF n, b
      <4> QED BY <1>0, <4>1, ZenonT(60) DEF Actors
    <3>3. /\ \A r \in Rounds : b[r] = a[r]
          /\ b.epoch = a.epoch /\ b.armed = a.armed /\ b.late = a.late
          /\ b.eng = a.eng /\ b.down = a.down
          /\ b.crossed = a.crossed /\ b.raced = a.raced /\ b.doubled = a.doubled
          /\ b.buf = a.buf /\ b.dead = a.dead /\ b.burst = a.burst
          /\ b.payload = a.payload /\ b.combo = a.combo
          /\ b.ladder = a.ladder /\ b.pending = a.pending
      BY <1>0, <3>1 DEF Actors, Rounds
    <3> HIDE DEF b
    <3>4. Sound(b, c, "none") /\ Later(a, b)
      BY <3>2, <3>3, AsideSound
    <3> QED BY <3>3, <3>4 DEF Goes, SameWork, Rest
  <2>2. CASE ~synthetic
    BY <2>2, GoesNowhere DEF SameWork, Rest
  <2> QED BY <2>1, <2>2
<1>2. HandleLifecycle(a, kind, forgets) = ContextDies(d, synthetic, forgets)
  BY DEF HandleLifecycle
<1> HIDE DEF b
<1>3. Goes(b, d, c) /\ d.ladder = NoLadder
  BY <1>1, OwnedKept, FlushOwned DEF Goes
<1> HIDE DEF d, synthetic
<1>4. /\ Goes(d, HandleLifecycle(a, kind, forgets), c)
      /\ Owned(HandleLifecycle(a, kind, forgets))
  BY <1>0, <1>2, <1>3, ContextSound DEF Goes
<1> QED BY <1>1, <1>3, <1>4, GoesOn

\* A key reaches the field and the buffer alike.
Reaches(m, old, new) ==
  \A w \in Texts : Ends(w, old) => \E v \in Texts : Moves(m, w, v) /\ Ends(v, new)

Fed(a, m, text) ==
  [a EXCEPT !.down = Append(a.down, m), !.buf = text, !.raced = a.raced \/ a.pending # NoPending]

LEMMA KeySound ==
  ASSUME NEW a, NEW c \in ClientT, Sound(a, c, "none"), a.ladder = NoLadder, ~Busy(a),
         NEW m \in Signals, m.kind \in {"key", "erase"}, m.eng \in {0, a.eng},
         NEW text \in Texts,
         Reaches(m, a.buf, text)
  PROVE  /\ Goes(a, Fed(a, m, text), c)
         /\ Fed(a, m, text).pending = a.pending /\ Fed(a, m, text).ladder = NoLadder
         /\ Fed(a, m, text).burst = a.burst
         /\ Fed(a, m, text).combo = a.combo /\ Fed(a, m, text).dead = a.dead
<1> DEFINE x == a.raced \/ a.pending # NoPending
           b == Fed(a, m, text)
<1>x. x \in BOOLEAN /\ (a.raced => x) /\ (~x => a.pending = NoPending)
  OBVIOUS
<1>b. b = [a EXCEPT !.down = Append(a.down, m), !.buf = text, !.raced = x]
  BY DEF Fed
<1> HIDE DEF x, b
<1>0. a \in Actors /\ Known(a) /\ InOrder(a, "none") /\ a.down \in Seq(Signals)
  BY DEF Sound, Known, Actors
<1>1. Append(a.down, m) \in Seq(Signals)
  BY <1>0
<1>2. b \in Actors
  BY <1>0, <1>1, <1>x, <1>b, ZenonT(60) DEF Actors
<1>3. /\ \A r \in Rounds : b[r] = a[r]
      /\ b.epoch = a.epoch /\ b.armed = a.armed /\ b.late = a.late
      /\ b.eng = a.eng /\ b.down = Append(a.down, m)
      /\ b.crossed = a.crossed /\ b.raced = x /\ b.doubled = a.doubled
      /\ b.buf = text /\ b.dead = a.dead /\ b.burst = a.burst
      /\ b.payload = a.payload /\ b.combo = a.combo
      /\ b.ladder = a.ladder /\ b.pending = a.pending /\ b.flip = a.flip
  BY <1>0, <1>b DEF Actors, Rounds
<1>4. InOrder(b, "none") /\ KeepsOver(a, b) /\ Known(b)
  BY <1>0, <1>2, <1>3, OrderKept DEF Known
<1>5. Engines(b)
  <2>1. b.ladder = NoLadder /\ ~Busy(b) /\ Engines(a)
    BY <1>3 DEF Sound, Busy
  <2> QED BY <1>0, <1>3, <2>1, EnginesAppend
<1>6. Alone(b) /\ Learned(b)
  BY <1>3 DEF Sound, Alone, Learned, Busy
<1>7. ~b.crossed /\ ~b.doubled => Gapless(b.down, c.gap, HalfDone(b))
  <2> SUFFICES ASSUME ~b.crossed, ~b.doubled PROVE Gapless(b.down, c.gap, HalfDone(b))
    OBVIOUS
  <2>1. c.gap \in BOOLEAN
    BY DEF ClientT
  <2>2. Gapless(a.down, c.gap, HalfDone(a)) /\ ~HalfDone(a)
    BY <1>3 DEF Sound, HalfDone
  <2>3. Gapless(a.down, c.gap, FALSE)
    BY <2>2 DEF Gapless
  <2> QED BY <1>0, <1>3, <2>1, <2>3, HalfDoneIs, GapAppend
<1>8. ASSUME Calm(b), c.kind # "deaf" PROVE Level(b, c.field)
  <2>1. Calm(a) /\ a.pending = NoPending
    BY <1>3, <1>8, <1>x DEF Calm
  <2>2. Level(a, c.field) /\ Owed(a) = <<>>
    BY <1>8, <2>1 DEF Sound, Owed
  <2>3. PICK w \in Texts : Leads(a.down, c.field, w) /\ Ends(w \o <<>>, a.buf)
    BY <2>2 DEF Level
  <2>4. Ends(w, a.buf)
    BY <2>3, JoinEmpty
  <2>5. PICK v \in Texts : Moves(m, w, v) /\ Ends(v, text)
    BY <2>4 DEF Reaches
  <2>6. c.field \in Texts
    BY DEF ClientT
  <2>7. Leads(b.down, c.field, v)
    BY <1>0, <1>3, <2>3, <2>5, <2>6, LeadsAppend
  <2>8. Owed(b) = <<>> /\ ~Busy(b) /\ v \o <<>> = v
    BY <1>3, <2>5, JoinEmpty DEF Owed, Busy
  <2>9. Ends(v \o Owed(b), b.buf)
    BY <1>3, <2>5, <2>8
  <2> QED BY <1>3, <2>1, <2>5, <2>7, <2>8, <2>9 DEF Level
<1>9. Sound(b, c, "none")
  BY <1>4, <1>5, <1>6, <1>7, <1>8 DEF Sound
<1>10. Later(a, b)
  BY <1>3, <1>4, <1>x DEF Later
<1> QED BY <1>3, <1>9, <1>10 DEF Goes, b

LEMMA TypedSound ==
  ASSUME NEW a, NEW c \in ClientT, Sound(a, c, "none"), a.ladder = NoLadder, ~Busy(a),
         NEW cell \in Cells, NEW eng \in {0, a.eng}
  PROVE  /\ Goes(a, Typed(a, cell, eng), c)
         /\ Typed(a, cell, eng).pending = a.pending /\ Typed(a, cell, eng).ladder = NoLadder
         /\ Typed(a, cell, eng).burst = a.burst /\ Typed(a, cell, eng).combo = a.combo
         /\ Typed(a, cell, eng).dead = a.dead
<1> DEFINE m == [kind |-> "key", text |-> <<cell>>, eng |-> eng]
           text == Append(a.buf, cell)
           b == Typed(a, cell, eng)
<1>0. a \in Actors /\ a.buf \in Texts /\ a.eng \in Nat
  BY DEF Sound, Known, Actors
<1>1. text \in Texts /\ <<cell>> \in Texts
  BY <1>0, AppendIsText
<1>2. m \in Signals /\ m.kind = "key" /\ m.text = <<cell>> /\ m.eng \in {0, a.eng}
  BY <1>0, <1>1 DEF Signals
<1>3. Reaches(m, a.buf, text)
  <2> SUFFICES ASSUME NEW w \in Texts, Ends(w, a.buf)
               PROVE  \E v \in Texts : Moves(m, w, v) /\ Ends(v, text)
    BY DEF Reaches
  <2>1. Append(w, cell) \in Texts /\ Append(w, cell) = w \o <<cell>>
    BY AppendIsText
  <2>2. Moves(m, w, Append(w, cell))
    BY <1>2, <2>1 DEF Moves, Opening
  <2> QED BY <1>0, <2>1, <2>2, EndsAppend
<1>5. b = Fed(a, m, text)
  <2> DEFINE q == Send(a, "key", <<cell>>, eng)
  <2>1. q = [a EXCEPT !.down = Append(a.down, m)]
    BY DEF Send
  <2>2. b = [q EXCEPT !.buf = Append(@, cell), !.raced = @ \/ a.pending # NoPending]
    BY DEF Typed
  <2> HIDE DEF q
  <2>3. q.buf = a.buf /\ q.raced = a.raced
    BY <1>0, <2>1 DEF Actors
  <2> DEFINE x == a.raced \/ a.pending # NoPending
  <2>4. b = [q EXCEPT !.buf = text, !.raced = x]
    BY <2>2, <2>3
  <2>5. Fed(a, m, text) = [a EXCEPT !.down = Append(a.down, m), !.buf = text, !.raced = x]
    BY DEF Fed
  <2> HIDE DEF b, x, m, text
  <2> QED BY <1>0, <2>1, <2>4, <2>5 DEF Actors
<1> HIDE DEF m, text, b
<1>6. m.kind \in {"key", "erase"}
  BY <1>2
<1>7. /\ Goes(a, b, c)
      /\ b.pending = a.pending /\ b.ladder = NoLadder /\ b.burst = a.burst
      /\ b.combo = a.combo /\ b.dead = a.dead
  BY <1>1, <1>2, <1>3, <1>5, <1>6, KeySound
<1> QED BY <1>7 DEF b

\* A BackSpace.
Erased(a) ==
  [Send(a, "erase", <<>>, 0) EXCEPT
     !.buf = IF @ = <<>> THEN @ ELSE DropLast(@, 1), !.raced = @ \/ a.pending # NoPending]

LEMMA ErasedSound ==
  ASSUME NEW a, NEW c \in ClientT, Sound(a, c, "none"), a.ladder = NoLadder, ~Busy(a)
  PROVE  /\ Goes(a, Erased(a), c)
         /\ Erased(a).pending = a.pending /\ Erased(a).ladder = NoLadder
         /\ Erased(a).burst = a.burst /\ Erased(a).combo = a.combo
<1> DEFINE m == [kind |-> "erase", text |-> <<>>, eng |-> 0]
           text == IF a.buf = <<>> THEN a.buf ELSE DropLast(a.buf, 1)
           b == Erased(a)
<1>0. a \in Actors /\ a.buf \in Texts
  BY DEF Sound, Known, Actors
<1>1. text \in Texts
  BY <1>0, DropIsText
<1>2. m \in Signals /\ m.kind = "erase" /\ m.eng \in {0, a.eng}
  BY NoTypes DEF Signals
<1>3. Reaches(m, a.buf, text)
  <2> SUFFICES ASSUME NEW w \in Texts, Ends(w, a.buf)
               PROVE  \E v \in Texts : Moves(m, w, v) /\ Ends(v, text)
    BY DEF Reaches
  <2> DEFINE v == IF w = <<>> THEN <<>> ELSE DropLast(w, 1)
  <2>1. v \in Texts
    BY NoTypes, DropIsText
  <2>2. Moves(m, w, v)
    BY <1>2 DEF Moves, Opening
  <2>3. Ends(v, text)
    <3>1. CASE a.buf = <<>>
      BY <2>1, <3>1, EndsWithNothing
    <3>2. CASE a.buf # <<>>
      <4>1. w # <<>>
        <5>1. PICK y \in Texts : w = y \o a.buf
          BY DEF Ends
        <5>2. Len(w) = Len(y) + Len(a.buf) /\ Len(y) \in Nat /\ Len(a.buf) \in Nat \ {0}
          BY <1>0, <3>2, <5>1, JoinIsText DEF Texts
        <5> QED BY <5>2
      <4>2. Ends(DropLast(w, 1), DropLast(a.buf, 1))
        BY <1>0, <3>2, EndsDrop
      <4> QED BY <3>2, <4>1, <4>2
    <3> QED BY <3>1, <3>2
  <2> QED BY <2>1, <2>2, <2>3
<1>5. b = Fed(a, m, text)
  <2> DEFINE q == Send(a, "erase", <<>>, 0)
  <2>1. q = [a EXCEPT !.down = Append(a.down, m)]
    BY DEF Send
  <2>2. b = [q EXCEPT !.buf = IF @ = <<>> THEN @ ELSE DropLast(@, 1), !.raced = @ \/ a.pending # NoPending]
    BY DEF Erased
  <2> HIDE DEF q
  <2>3. q.buf = a.buf /\ q.raced = a.raced
    BY <1>0, <2>1 DEF Actors
  <2> DEFINE x == a.raced \/ a.pending # NoPending
  <2>4. b = [q EXCEPT !.buf = text, !.raced = x]
    BY <2>2, <2>3
  <2>5. Fed(a, m, text) = [a EXCEPT !.down = Append(a.down, m), !.buf = text, !.raced = x]
    BY DEF Fed
  <2> HIDE DEF b, x, m, text
  <2> QED BY <1>0, <2>1, <2>4, <2>5 DEF Actors
<1> HIDE DEF m, text, b
<1>6. m.kind \in {"key", "erase"}
  BY <1>2
<1>7. /\ Goes(a, b, c)
      /\ b.pending = a.pending /\ b.ladder = NoLadder /\ b.burst = a.burst
      /\ b.combo = a.combo
  BY <1>1, <1>2, <1>3, <1>5, <1>6, KeySound
<1> QED BY <1>7 DEF b

\* The payload of an autocorrection is set or taken.
LEMMA PayloadSound ==
  ASSUME NEW a, NEW c, Sound(a, c, "none"), NEW r \in Ranges,
         r = NoRange \/ a.ladder = NoLadder
  PROVE  /\ Goes(a, [a EXCEPT !.payload = r], c)
         /\ [a EXCEPT !.payload = r].payload = r /\ [a EXCEPT !.payload = r].dead = a.dead
         /\ [a EXCEPT !.payload = r].ladder = a.ladder /\ [a EXCEPT !.payload = r].buf = a.buf
         /\ [a EXCEPT !.payload = r].pending = a.pending
         /\ [a EXCEPT !.payload = r].burst = a.burst /\ [a EXCEPT !.payload = r].combo = a.combo
<1> DEFINE b == [a EXCEPT !.payload = r]
<1>0. a \in Actors /\ Known(a) /\ InOrder(a, "none")
  BY DEF Sound, Known
<1>1. b \in Actors
  BY <1>0 DEF Actors
<1>2. /\ \A y \in Rounds : b[y] = a[y]
      /\ b.epoch = a.epoch /\ b.armed = a.armed /\ b.late = a.late
      /\ b.down = a.down /\ b.buf = a.buf /\ b.raced = a.raced /\ b.combo = a.combo
      /\ b.burst = a.burst /\ b.ladder = a.ladder /\ b.pending = a.pending /\ b.flip = a.flip
      /\ b.eng = a.eng /\ b.crossed = a.crossed /\ b.doubled = a.doubled /\ b.payload = r
      /\ b.dead = a.dead
  BY <1>0 DEF Actors, Rounds
<1> HIDE DEF b
<1>3. InOrder(b, "none") /\ KeepsOver(a, b) /\ Known(b)
  BY <1>0, <1>1, <1>2, OrderKept DEF Known
<1>4. Engines(b) /\ Alone(b) /\ Learned(b)
  BY <1>2 DEF Sound, Engines, Alone, Learned, Busy
<1>5. HalfDone(b) = HalfDone(a) /\ Owed(b) = Owed(a) /\ Busy(b) = Busy(a)
  BY <1>2 DEF HalfDone, Owed, Busy
<1>6. ~b.crossed /\ ~b.doubled => Gapless(b.down, c.gap, HalfDone(b))
  BY <1>2, <1>5 DEF Sound
<1>7. Calm(b) /\ c.kind # "deaf" => Level(b, c.field)
  BY <1>2, <1>5 DEF Sound, Level, Calm
<1>8. Sound(b, c, "none") /\ Later(a, b)
  BY <1>2, <1>3, <1>4, <1>6, <1>7 DEF Sound, Later
<1> QED BY <1>2, <1>8 DEF Goes, b

LEMMA CapturedSound ==
  ASSUME NEW a, NEW c \in ClientT, Sound(a, c, "none"), Owned(a), a.ladder = NoLadder,
         NEW wrong \in BOOLEAN
  PROVE  Goes(a, Captured(a, wrong), c) /\ Owned(Captured(a, wrong))
<1> DEFINE r == WordRange(a)
<1>1. r \in Ranges
  BY WordRangeIs DEF Sound, Known
<1> HIDE DEF r
<1>2. Goes(a, [a EXCEPT !.payload = r], c) /\ Owned([a EXCEPT !.payload = r])
  BY <1>1, PayloadSound DEF Owned, Busy
<1> QED BY <1>2, GoesNowhere DEF Captured, r

LEMMA FeedSound ==
  ASSUME NEW a, NEW c \in ClientT, Sound(a, c, "none"), Owned(a), ~Busy(a),
         NEW k \in AllKeys, NEW wrong \in BOOLEAN
  PROVE  Goes(a, FeedKey(a, k, wrong), c) /\ Owned(FeedKey(a, k, wrong))
<1> DEFINE f == Flush(a)
           b == ReleaseFlip(f)
           ends == b.buf # <<>> /\ b.buf[Len(b.buf)] \in Letters
           x == [b EXCEPT !.combo = TRUE]
<1>0. "none" \notin Rounds
  BY DEF Rounds
<1>1. \/ FeedKey(a, k, wrong) = Typed(b, "r", b.eng)
      \/ FeedKey(a, k, wrong) = Typed(b, "e", 0)
      \/ FeedKey(a, k, wrong) = Captured(Typed(b, "s", 0), wrong)
      \/ FeedKey(a, k, wrong) = Typed(b, "s", 0)
      \/ FeedKey(a, k, wrong) = Erased(b)
      \/ FeedKey(a, k, wrong) = StartCorrection(x)
  <2>1. CASE k = "letter"
    BY <2>1 DEF FeedKey
  <2>2. CASE k = "space"
    BY <2>2 DEF FeedKey
  <2>3. CASE k = "backspace"
    BY <2>3 DEF FeedKey, Erased
  <2>4. CASE k = "combo"
    BY <2>4 DEF FeedKey
  <2> QED BY <2>1, <2>2, <2>3, <2>4 DEF AllKeys
<1>2. Goes(a, f, c) /\ Owned(f) /\ f.ladder = NoLadder /\ f.burst = a.burst
  BY FlushOwned
<1> HIDE DEF f
<1>3. Goes(f, b, c) /\ SameWork(f, b) /\ b.combo = f.combo
  BY <1>0, <1>2, ReleaseSound DEF Goes
<1>4. Goes(a, b, c) /\ Owned(b)
  BY <1>2, <1>3, GoesOn, OwnedKept
<1>5. b.ladder = NoLadder /\ ~Busy(b) /\ Sound(b, c, "none")
  BY <1>2, <1>3 DEF SameWork, Rest, Goes, Busy
<1> HIDE DEF b
<1>6. ASSUME NEW cell \in Cells, NEW eng \in {0, b.eng}
      PROVE  /\ Goes(b, Typed(b, cell, eng), c) /\ Owned(Typed(b, cell, eng))
             /\ Typed(b, cell, eng).ladder = NoLadder
  <2>1. /\ Goes(b, Typed(b, cell, eng), c)
        /\ Typed(b, cell, eng).pending = b.pending /\ Typed(b, cell, eng).ladder = NoLadder
        /\ Typed(b, cell, eng).burst = b.burst /\ Typed(b, cell, eng).combo = b.combo
    BY <1>5, TypedSound
  <2> QED BY <1>4, <1>5, <2>1 DEF Owned, Busy
<1>7. {"r", "e", "s"} \subseteq Cells
  BY DEF Cells
<1>8. CASE FeedKey(a, k, wrong) \in {Typed(b, "r", b.eng), Typed(b, "e", 0), Typed(b, "s", 0)}
  BY <1>4, <1>6, <1>7, <1>8, GoesOn
<1>9. CASE FeedKey(a, k, wrong) = Captured(Typed(b, "s", 0), wrong)
  <2> DEFINE d == Typed(b, "s", 0)
  <2>1. Goes(b, d, c) /\ Owned(d) /\ d.ladder = NoLadder
    BY <1>6, <1>7
  <2> HIDE DEF d
  <2>2. Goes(d, Captured(d, wrong), c) /\ Owned(Captured(d, wrong))
    BY <2>1, CapturedSound DEF Goes
  <2> QED BY <1>4, <1>9, <2>1, <2>2, GoesOn DEF d
<1>10. CASE FeedKey(a, k, wrong) = Erased(b)
  <2>1. Goes(b, Erased(b), c) /\ Owned(Erased(b))
    BY <1>4, <1>5, ErasedSound DEF Owned, Busy
  <2> QED BY <1>4, <1>10, <2>1, GoesOn
<1>11. CASE FeedKey(a, k, wrong) = StartCorrection(x)
  <2>0. b \in Actors
    BY <1>5 DEF Sound, Known
  <2>1. x \in Actors
    BY <2>0 DEF Actors
  <2>2. /\ \A r \in Rounds : x[r] = b[r]
        /\ x.epoch = b.epoch /\ x.armed = b.armed /\ x.late = b.late
        /\ x.eng = b.eng /\ x.down = b.down
        /\ x.crossed = b.crossed /\ x.raced = b.raced /\ x.doubled = b.doubled
        /\ x.buf = b.buf /\ x.dead = b.dead /\ x.burst = b.burst /\ x.payload = b.payload
    BY <2>0 DEF Actors, Rounds
  <2> HIDE DEF x
  <2>3. Sound(x, c, "none") /\ Later(b, x)
    BY <1>5, <2>1, <2>2, AsideSound
  <2>4. Goes(b, x, c)
    BY <2>3 DEF Goes
  <2>5. Goes(x, StartCorrection(x), c) /\ Owned(StartCorrection(x))
    BY <2>3, CorrectSound
  <2> QED BY <1>4, <1>11, <2>4, <2>5, GoesOn
<1> QED BY <1>1, <1>8, <1>9, <1>10, <1>11

\* What a callback finds: the round it belongs to is open, under its epoch,
\* or it does nothing.
LEMMA ExpireSound ==
  ASSUME NEW a, NEW c \in ClientT, NEW t \in Callbacks, Sound(a, c, t.round), Owned(a),
         t.epoch # 0, ~IsCurrent(a, t) => Sound(a, c, "none")
  PROVE  Goes(a, Expire(a, t), c) /\ Owned(Expire(a, t))
<1>0. t.round \in Rounds
  BY DEF Callbacks
<1>1. CASE ~IsCurrent(a, t)
  BY <1>1, GoesNowhere DEF Expire
<1>2. CASE IsCurrent(a, t)
  <2>0. a[t.round].epoch = t.epoch
    BY <1>2 DEF IsCurrent
  <2>1. CASE t.round = "pending"
    <3> DEFINE p == ResolvePending(a)
               d == [p EXCEPT !.dead = TRUE]
               q == ClearAfter(d)
    <3>1. a.pending # NoPending
      BY <2>0, <2>1 DEF NoPending
    <3>2. Goes(a, p, c) /\ Rest(a, p) /\ p.pending = NoPending
      BY <2>1, ResolveSound
    <3>3. ResolvePending([a EXCEPT !.dead = TRUE]) = d
      <4>1. a \in Actors /\ "pending" \in Rounds
        BY DEF Sound, Known, Rounds
      <4>2. p = [a EXCEPT !.armed = [a.armed EXCEPT !["pending"] = 0],
                          !.late = OverIn(a.late, "pending"), !.pending = NoPending]
        BY <4>1, OverFields DEF ResolvePending, Actors
      <4> DEFINE y == [a EXCEPT !.dead = TRUE]
      <4>3. y \in Actors /\ y.armed = a.armed /\ y.late = a.late
        BY <4>1 DEF Actors
      <4>4. y = [a EXCEPT !.dead = TRUE]
        OBVIOUS
      <4> HIDE DEF y, p
      <4>5. ResolvePending(y) = [y EXCEPT !.armed = [a.armed EXCEPT !["pending"] = 0],
                                          !.late = OverIn(a.late, "pending"), !.pending = NoPending]
        <5> DEFINE o == Over(y, "pending")
        <5>1. o = [y EXCEPT !.armed = [a.armed EXCEPT !["pending"] = 0],
                            !.late = OverIn(a.late, "pending")]
          BY <4>1, <4>3, OverFields
        <5>2. ResolvePending(y) = [o EXCEPT !.pending = NoPending]
          BY DEF ResolvePending
        <5> HIDE DEF o
        <5> QED BY <4>3, <5>1, <5>2 DEF Actors
      <4> QED BY <4>1, <4>2, <4>4, <4>5 DEF Actors, y
    <3>4. Expire(a, t) = SettleCombo(q)
      BY <1>2, <2>1, <3>3 DEF Expire
    <3> HIDE DEF p
    <3>5. a.ladder = NoLadder \/ a.payload = NoRange
      BY <3>1 DEF Sound, Learned
    <3>6. Goes(p, d, c)
      BY <3>2, <3>5, SetDead DEF Goes, Rest
    <3> HIDE DEF d
    <3>7. Goes(d, q, c)
      <4>1. "none" \notin Rounds
        BY DEF Rounds
      <4> QED BY <3>6, <4>1, ClearSound DEF Goes
    <3> HIDE DEF q
    <3>8. Goes(q, Expire(a, t), c) /\ Expire(a, t).combo = FALSE
      BY <3>4, <3>7, SettleSound DEF Goes
    <3> QED BY <3>2, <3>6, <3>7, <3>8, GoesOn DEF Owned
  <2>2. CASE t.round = "ladder"
    <3>1. a.ladder # NoLadder
      BY <2>0, <2>2 DEF NoLadder
    <3>2. Expire(a, t) = Flush(a)
      BY <1>2, <2>2 DEF Expire
    <3>3. Goes(a, Flush(a), c) /\ Flush(a).combo = FALSE
      BY <2>2, <3>1, FlushSound
    <3> QED BY <3>2, <3>3 DEF Owned
  <2>3. CASE t.round = "after"
    <3> DEFINE b == ClearAfter(a)
    <3>1. Expire(a, t) = ReleaseOnVerify(b)
      BY <1>2, <2>3 DEF Expire
    <3>2. Goes(a, b, c) /\ SameWork(a, b) /\ b.combo = a.combo
      BY <2>3, ClearSound
    <3> HIDE DEF b
    <3>3. Goes(b, Expire(a, t), c) /\ SameWork(b, Expire(a, t)) /\ Expire(a, t).combo = b.combo
      BY <3>1, <3>2, VerifySound DEF Goes
    <3> QED BY <3>2, <3>3, GoesOn, OwnedKept
  <2>4. CASE t.round = "flip"
    <3>1. a.flip # NoFlip
      BY <2>0, <2>4 DEF NoFlip
    <3>2. Expire(a, t) = ReleaseFlip(a)
      BY <1>2, <2>4 DEF Expire
    <3>3. Goes(a, ReleaseFlip(a), c) /\ SameWork(a, ReleaseFlip(a)) /\ ReleaseFlip(a).combo = a.combo
      BY <2>4, <3>1, ReleaseSound
    <3> QED BY <3>2, <3>3, OwnedKept
  <2> QED BY <1>0, <2>1, <2>2, <2>3, <2>4 DEF Rounds
<1> QED BY <1>1, <1>2


(***************************************************************************)
(* The steps.                                                              *)
(***************************************************************************)
LEMMA SameClient ==
  ASSUME NEW a, NEW c, NEW d, NEW but, Sound(a, c, but),
         d.kind = c.kind, d.field = c.field, d.gap = c.gap
  PROVE  Sound(a, d, but)
BY DEF Sound

LEMMA UpSound ==
  ASSUME NEW a, NEW c, Sound(a, c, "none"), NEW up \in Seq(Calls)
  PROVE  /\ Goes(a, [a EXCEPT !.up = up], c) /\ SameWork(a, [a EXCEPT !.up = up])
         /\ [a EXCEPT !.up = up].combo = a.combo
<1> DEFINE b == [a EXCEPT !.up = up]
<1>0. a \in Actors
  BY DEF Sound, Known
<1>1. b \in Actors
  BY <1>0 DEF Actors
<1>2. /\ \A r \in Rounds : b[r] = a[r]
      /\ b.epoch = a.epoch /\ b.armed = a.armed /\ b.late = a.late
      /\ b.eng = a.eng /\ b.down = a.down
      /\ b.crossed = a.crossed /\ b.raced = a.raced /\ b.doubled = a.doubled
      /\ b.buf = a.buf /\ b.dead = a.dead /\ b.burst = a.burst /\ b.payload = a.payload
      /\ b.combo = a.combo /\ b.ladder = a.ladder /\ b.pending = a.pending
  BY <1>0 DEF Actors, Rounds
<1> HIDE DEF b
<1>3. Sound(b, c, "none") /\ Later(a, b)
  BY <1>1, <1>2, AsideSound
<1> QED BY <1>2, <1>3 DEF Goes, SameWork, Rest, b

\* The level-2 machine is stopped before its first BackSpace.
LEMMA StoppedSound ==
  ASSUME NEW a, NEW c, Sound(a, c, "none"), Busy(a), ~a.burst.sent
  PROVE  Goes(a, [a EXCEPT !.burst = NoBurst], c)
<1> DEFINE b == [a EXCEPT !.burst = NoBurst]
<1>0. a \in Actors /\ Known(a) /\ InOrder(a, "none")
  BY DEF Sound, Known
<1>1. b \in Actors
  BY <1>0, NoTypes DEF Actors, BurstT
<1>2. /\ \A r \in Rounds : b[r] = a[r]
      /\ b.epoch = a.epoch /\ b.armed = a.armed /\ b.late = a.late
      /\ b.eng = a.eng /\ b.down = a.down
      /\ b.crossed = a.crossed /\ b.raced = a.raced /\ b.doubled = a.doubled
      /\ b.buf = a.buf /\ b.dead = a.dead /\ b.burst = NoBurst /\ b.payload = a.payload
      /\ b.combo = a.combo /\ b.ladder = a.ladder /\ b.pending = a.pending /\ b.flip = a.flip
  BY <1>0 DEF Actors, Rounds
<1> HIDE DEF b
<1>3. InOrder(b, "none") /\ KeepsOver(a, b) /\ Known(b)
  BY <1>0, <1>1, <1>2, OrderKept DEF Known
<1>4. Engines(b) /\ Alone(b) /\ Learned(b)
  BY <1>2 DEF Sound, Engines, Alone, Learned, Busy
<1>5. HalfDone(b) = HalfDone(a) /\ Owed(b) = Owed(a) /\ ~Busy(b)
  BY <1>2 DEF HalfDone, Owed, Busy
<1>6. ~b.crossed /\ ~b.doubled => Gapless(b.down, c.gap, HalfDone(b))
  BY <1>2, <1>5 DEF Sound
<1>7. Calm(b) /\ c.kind # "deaf" => Level(b, c.field)
  BY <1>2, <1>5 DEF Sound, Level, Calm
<1>8. Sound(b, c, "none") /\ Later(a, b)
  BY <1>2, <1>3, <1>4, <1>6, <1>7 DEF Sound, Later
<1> QED BY <1>8 DEF Goes, b

\* A timer fires.
LEMMA FireSound ==
  ASSUME NEW a, NEW c, Sound(a, c, "none"), NEW round \in Rounds, a.armed[round] # 0
  PROVE  LET new == [round |-> round, epoch |-> a.armed[round], over |-> FALSE]
             b == [a EXCEPT !.armed[round] = 0, !.late = @ \cup {new}]
         IN  Goes(a, b, c) /\ SameWork(a, b) /\ b.combo = a.combo
<1> DEFINE new == [round |-> round, epoch |-> a.armed[round], over |-> FALSE]
           armed == [a.armed EXCEPT ![round] = 0]
           late == a.late \cup {new}
           b == [a EXCEPT !.armed = armed, !.late = late]
<1>0. a \in Actors /\ Known(a) /\ InOrder(a, "none")
  BY DEF Sound, Known
<1>1. /\ a.epoch \in [Rounds -> Nat] /\ a.armed \in [Rounds -> Nat] /\ a.late \subseteq Callbacks
      /\ \A r \in Rounds : a[r].epoch \in Nat
  BY <1>0, ActorFields
<1>2. /\ new \in Callbacks /\ new.round = round /\ new.epoch = a.armed[round] /\ ~new.over
  BY <1>1 DEF Callbacks
<1>3. armed \in [Rounds -> Nat] /\ late \subseteq Callbacks
  BY <1>1, <1>2
<1>4. /\ armed[round] = 0 /\ \A r \in Rounds \ {round} : armed[r] = a.armed[r]
      /\ \A t \in late : t \in a.late \/ t = new
      /\ a.late \subseteq late /\ new \in late
  BY <1>1
<1> HIDE DEF new, armed, late
<1>5. b \in Actors
  BY <1>0, <1>3 DEF Actors
<1>6. /\ \A r \in Rounds : b[r] = a[r]
      /\ b.epoch = a.epoch /\ b.armed = armed /\ b.late = late
      /\ b.eng = a.eng /\ b.down = a.down
      /\ b.crossed = a.crossed /\ b.raced = a.raced /\ b.doubled = a.doubled
      /\ b.buf = a.buf /\ b.dead = a.dead /\ b.burst = a.burst /\ b.payload = a.payload
      /\ b.combo = a.combo /\ b.ladder = a.ladder /\ b.pending = a.pending /\ b.flip = a.flip
  BY <1>0 DEF Actors, Rounds
<1>7. b = [a EXCEPT !.armed[round] = 0,
                    !.late = @ \cup {[round |-> round, epoch |-> a.armed[round], over |-> FALSE]}]
  BY DEF armed, late, new
<1> HIDE DEF b
<1>8. InOrder(b, "none")
  <2> SUFFICES ASSUME NEW r \in Rounds PROVE Epochs(b, r) /\ Deadline(b, r)
    BY DEF InOrder
  <2>0. Epochs(a, r) /\ Deadline(a, r)
    BY <1>0 DEF InOrder, Rounds
  <2>1. b[r].epoch = a[r].epoch /\ b.epoch[r] = a.epoch[r] /\ b.flip.kind = a.flip.kind
    BY <1>6
  <2>2. b.armed[r] = 0 \/ b.armed[r] = a.armed[r]
    BY <1>4, <1>6
  <2>3. Epochs(b, r)
    <3>1. b.armed[r] =< b.epoch[r]
      BY <1>1, <2>0, <2>1, <2>2 DEF Epochs
    <3>2. ASSUME NEW t \in b.late, t.round = r
          PROVE  t.epoch # 0 /\ t.epoch =< b.epoch[r] /\ (t.over => t.epoch # b[r].epoch)
      <4>1. CASE t \in a.late
        BY <2>0, <2>1, <3>2, <4>1 DEF Epochs
      <4>2. CASE t = new
        BY <1>2, <2>0, <2>1, <3>2, <4>2 DEF Epochs
      <4> QED BY <1>4, <1>6, <4>1, <4>2
    <3> QED BY <2>0, <2>1, <3>1, <3>2 DEF Epochs
  <2>4. Deadline(b, r)
    <3>1. CASE a.armed[r] = a[r].epoch /\ r = round
      BY <1>2, <1>4, <1>6, <2>1, <3>1 DEF Deadline
    <3>2. CASE a.armed[r] = a[r].epoch /\ r # round
      BY <1>4, <1>6, <2>1, <3>2 DEF Deadline
    <3>3. CASE a.armed[r] # a[r].epoch
      BY <1>4, <1>6, <2>0, <2>1, <3>3 DEF Deadline
    <3> QED BY <3>1, <3>2, <3>3
  <2> QED BY <2>3, <2>4
<1>9. KeepsOver(a, b) /\ Known(b)
  BY <1>0, <1>4, <1>5, <1>6 DEF KeepsOver, Known
<1>10. Sound(b, c, "none")
  BY <1>6, <1>8, <1>9, Kept
<1>11. Goes(a, b, c) /\ SameWork(a, b)
  BY <1>6, <1>9, <1>10 DEF Goes, Later, SameWork, Rest
<1> QED BY <1>6, <1>7, <1>11

\* A callback gets the mutex.
LEMMA RunSound ==
  ASSUME NEW a, NEW c \in ClientT, Sound(a, c, "none"), Owned(a), NEW t \in a.late
  PROVE  LET b == [a EXCEPT !.late = @ \ {t}]
         IN  /\ Goes(b, Expire(b, t), c) /\ Owned(Expire(b, t))
             /\ b.crossed = a.crossed /\ b.raced = a.raced /\ b.doubled = a.doubled
             /\ b.late = a.late \ {t}
             /\ t.over => Expire(b, t) = b
<1> DEFINE late == a.late \ {t}
           b == [a EXCEPT !.late = late]
<1>0. a \in Actors /\ Known(a) /\ InOrder(a, "none")
  BY DEF Sound, Known
<1>1. /\ a.epoch \in [Rounds -> Nat] /\ a.armed \in [Rounds -> Nat] /\ a.late \subseteq Callbacks
      /\ t \in Callbacks /\ t.round \in Rounds /\ late \subseteq Callbacks
  BY <1>0, ActorFields DEF Callbacks
<1>4. late \subseteq a.late /\ \A u \in a.late : u # t => u \in late
  OBVIOUS
<1> HIDE DEF late
<1>5. b \in Actors
  BY <1>0, <1>1 DEF Actors
<1>6. /\ \A r \in Rounds : b[r] = a[r]
      /\ b.epoch = a.epoch /\ b.armed = a.armed /\ b.late = late
      /\ b.eng = a.eng /\ b.down = a.down
      /\ b.crossed = a.crossed /\ b.raced = a.raced /\ b.doubled = a.doubled
      /\ b.buf = a.buf /\ b.dead = a.dead /\ b.burst = a.burst /\ b.payload = a.payload
      /\ b.combo = a.combo /\ b.ladder = a.ladder /\ b.pending = a.pending /\ b.flip = a.flip
  BY <1>0 DEF Actors, Rounds
<1>7. b = [a EXCEPT !.late = @ \ {t}]
  BY DEF late
<1> HIDE DEF b
<1>8. ASSUME NEW r \in Rounds PROVE Epochs(b, r) /\ (r # t.round => Deadline(b, r))
  <2>0. Epochs(a, r) /\ Deadline(a, r)
    BY <1>0 DEF InOrder, Rounds
  <2>1. b[r].epoch = a[r].epoch /\ b.epoch[r] = a.epoch[r] /\ b.flip.kind = a.flip.kind
    BY <1>6
  <2>2. Epochs(b, r)
    BY <1>4, <1>6, <2>0, <2>1 DEF Epochs
  <2>3. ASSUME r # t.round PROVE Deadline(b, r)
    BY <1>4, <1>6, <2>0, <2>1, <2>3 DEF Deadline
  <2> QED BY <2>2, <2>3
<1>9. InOrder(b, t.round) /\ Known(b)
  BY <1>0, <1>5, <1>6, <1>8 DEF InOrder, Known
<1>10. Sound(b, c, t.round)
  BY <1>6, <1>9, Kept
<1>11. ASSUME ~IsCurrent(b, t) PROVE Sound(b, c, "none")
  <2>1. t.epoch # a[t.round].epoch
    BY <1>1, <1>6, <1>11 DEF IsCurrent
  <2>2. Deadline(a, t.round)
    BY <1>0, <1>1 DEF InOrder, Rounds
  <2>3. Deadline(b, t.round)
    BY <1>1, <1>4, <1>6, <2>1, <2>2 DEF Deadline
  <2>4. InOrder(b, "none")
    BY <1>8, <2>3 DEF InOrder
  <2> QED BY <1>6, <1>9, <2>4, Kept
<1>12. t.epoch # 0 /\ (t.over => ~IsCurrent(b, t))
  <2>1. Epochs(a, t.round)
    BY <1>0, <1>1 DEF InOrder
  <2> QED BY <1>1, <1>6, <2>1 DEF Epochs, IsCurrent
<1>13. Owned(b)
  BY <1>6 DEF Owned, Busy
<1>14. Goes(b, Expire(b, t), c) /\ Owned(Expire(b, t))
  BY <1>1, <1>10, <1>11, <1>12, <1>13, ExpireSound
<1>15. t.over => Expire(b, t) = b
  BY <1>12 DEF Expire
<1> QED BY <1>6, <1>7, <1>14, <1>15 DEF late

(***************************************************************************)
(* The client takes a signal.                                              *)
(***************************************************************************)
\* What it does to the text is what the actor counts on.
LEMMA AppliedMoves ==
  ASSUME client \in ClientT, NEW m \in Signals, NEW g \in Texts, Moves(m, client.field, g)
  PROVE  /\ client.kind # "deaf" => Applied(m).field = g
         /\ m.kind \in Opening => IsSuffixOf(m.text, client.field)
<1> DEFINE f == client.field
<1>0. f \in Texts /\ m.text \in Texts
  BY DEF ClientT, Signals
<1>1. Len(f) \in Nat /\ Len(m.text) \in Nat /\ (f = <<>> <=> Len(f) = 0)
  BY <1>0 DEF Texts
<1>2. m.kind \in {"key", "erase", "delete", "burst", "commit", "require"}
  BY DEF Signals
<1>3. CASE m.kind \in {"key", "commit"}
  <2>1. Applied(m).field = f \o m.text
    BY <1>3 DEF Applied, ClientT
  <2>2. g = f \o m.text
    BY <1>3 DEF Moves
  <2> QED BY <1>3, <2>1, <2>2 DEF Opening
<1>4. CASE m.kind = "erase"
  <2>1. Applied(m).field = IF 1 > Len(f) THEN <<>> ELSE DropLast(f, 1)
    BY <1>4 DEF Applied, ClientT
  <2>2. g = IF f = <<>> THEN <<>> ELSE DropLast(f, 1)
    BY <1>4 DEF Moves
  <2>3. 1 > Len(f) <=> f = <<>>
    BY <1>1
  <2> QED BY <1>4, <2>1, <2>2, <2>3 DEF Opening
<1>5. CASE m.kind \in Opening
  <2>1. f = g \o m.text
    BY <1>5 DEF Moves
  <2>2. Ends(f, m.text)
    BY <2>1 DEF Ends
  <2>3. IsSuffixOf(m.text, f)
    BY <1>0, <2>2, SuffixEnds
  <2>4. ~(Len(m.text) > Len(f)) /\ DropLast(f, Len(m.text)) = g
    <3>1. Len(f) = Len(g) + Len(m.text) /\ Len(g) \in Nat
      BY <1>0, <2>1, JoinIsText DEF Texts
    <3>2. DropLast(f, Len(m.text)) = g
      BY <1>0, <2>1, TakeJoined
    <3> QED BY <1>1, <3>1, <3>2
  <2>5. client.kind # "deaf" =>
          Applied(m).field = IF Len(m.text) > Len(f) THEN <<>> ELSE DropLast(f, Len(m.text))
    BY <1>5 DEF Applied, ClientT, Opening
  <2> QED BY <2>3, <2>4, <2>5
<1>6. CASE m.kind = "require"
  BY <1>6 DEF Applied, ClientT, Moves, Opening
<1> QED BY <1>2, <1>3, <1>4, <1>5, <1>6 DEF Opening

LEMMA AppliedIs ==
  ASSUME client \in ClientT, NEW m \in Signals
  PROVE  /\ Applied(m) \in ClientT /\ Applied(m).kind = client.kind
         /\ Applied(m).gap =>
              (client.gap \/ m.kind \in Opening) /\ m.kind # "commit"
         /\ Applied(m).torn => client.torn \/ (client.gap /\ m.kind \notin {"commit", "require"})
         /\ Applied(m).harmed =>
              client.harmed \/ (m.kind \in Opening /\ ~IsSuffixOf(m.text, client.field))
<1> DEFINE f == client.field
           erases == m.kind \in {"erase", "delete", "burst"} /\ ~(m.kind = "delete" /\ client.kind = "deaf")
           n == IF m.kind = "erase" THEN 1 ELSE Len(m.text)
           text == CASE m.kind \in {"key", "commit"} -> f \o m.text
                     [] erases -> IF n > Len(f) THEN <<>> ELSE DropLast(f, n)
                     [] OTHER -> f
           opens == erases /\ m.kind # "erase"
           news == client.news \/ text # f
           gap == (client.gap \/ opens) /\ m.kind # "commit"
           torn == client.torn \/ (client.gap /\ m.kind \notin {"commit", "require"})
           harmed == client.harmed \/ (opens /\ ~IsSuffixOf(m.text, f))
<1>0. f \in Texts /\ m.text \in Texts /\ <<>> \in Texts /\ n \in Nat
  BY NoTypes DEF ClientT, Signals, Texts
<1>1. text \in Texts
  <2>1. f \o m.text \in Texts /\ DropLast(f, n) \in Texts
    BY <1>0, JoinIsText, DropIsText
  <2> QED BY <1>0, <2>1
<1>2. Applied(m) = [client EXCEPT !.field = text, !.news = news, !.gap = gap, !.torn = torn,
                                  !.harmed = harmed]
  BY DEF Applied
<1>3. news \in BOOLEAN /\ gap \in BOOLEAN /\ torn \in BOOLEAN /\ harmed \in BOOLEAN
  OBVIOUS
<1>4. /\ gap => (client.gap \/ m.kind \in Opening) /\ m.kind # "commit"
      /\ torn => client.torn \/ (client.gap /\ m.kind \notin {"commit", "require"})
      /\ harmed => client.harmed \/ (m.kind \in Opening /\ ~IsSuffixOf(m.text, client.field))
  BY DEF Opening
<1> HIDE DEF text, news, gap, torn, harmed
<1>5. Applied(m) \in ClientT
  BY <1>1, <1>2, <1>3 DEF ClientT
<1>6. /\ Applied(m).kind = client.kind /\ Applied(m).gap = gap /\ Applied(m).torn = torn
      /\ Applied(m).harmed = harmed
  BY <1>2 DEF ClientT
<1> QED BY <1>4, <1>5, <1>6

Alive(a) == Head(a.down).eng \in {0, a.eng}

\* What becomes of the client c by the signal at the head of the channel.
Becomes(a, c, d) ==
  /\ d.kind = c.kind
  /\ ~Alive(a) => d = c
  /\ d.gap /\ Alive(a) => (c.gap \/ Head(a.down).kind \in Opening) /\ Head(a.down).kind # "commit"
  /\ c.kind # "deaf" /\ Alive(a) =>
       \A g \in Texts : Moves(Head(a.down), c.field, g) => d.field = g

Taken(a, up) == [a EXCEPT !.down = Tail(a.down), !.up = up]

\* The signal leaves the channel.
LEMMA TakenSound ==
  ASSUME NEW a, NEW c \in ClientT, Sound(a, c, "none"), a.down # <<>>,
         NEW d \in ClientT, NEW up \in Seq(Calls), Becomes(a, c, d)
  PROVE  /\ Sound(Taken(a, up), d, "none") /\ Later(a, Taken(a, up))
         /\ Owned(a) => Owned(Taken(a, up))
         /\ ~a.crossed /\ ~a.doubled /\ c.gap => Head(a.down).kind \in {"commit", "require"}
         /\ Taken(a, up).crossed = a.crossed /\ Taken(a, up).raced = a.raced
         /\ Taken(a, up).doubled = a.doubled
<1> DEFINE m == Head(a.down)
           down == Tail(a.down)
           b == Taken(a, up)
<1>b. b = [a EXCEPT !.down = down, !.up = up]
  BY DEF Taken
<1>d. /\ d.kind = c.kind
      /\ ~Alive(a) => d = c
      /\ d.gap /\ Alive(a) => (c.gap \/ Head(a.down).kind \in Opening) /\ Head(a.down).kind # "commit"
      /\ c.kind # "deaf" /\ Alive(a) =>
           \A g \in Texts : Moves(Head(a.down), c.field, g) => d.field = g
  BY DEF Becomes
<1>0. a \in Actors /\ Known(a) /\ InOrder(a, "none") /\ a.down \in Seq(Signals) /\ a.eng \in Nat
  BY DEF Sound, Known, Actors
<1>1. /\ m \in Signals /\ down \in Seq(Signals) /\ m = a.down[1]
      /\ Len(a.down) \in Nat \ {0} /\ Len(down) = Len(a.down) - 1
      /\ \A i \in 1 .. Len(a.down) - 1 : down[i] = a.down[i + 1]
  BY <1>0, TailFacts
<1>f. d.field \in Texts /\ c.field \in Texts /\ c.gap \in BOOLEAN /\ d.gap \in BOOLEAN
  BY DEF ClientT
<1> HIDE DEF m, down, b
<1>2. b \in Actors
  BY <1>0, <1>1, <1>b, ZenonT(60) DEF Actors
<1>3. /\ \A r \in Rounds : b[r] = a[r]
      /\ b.epoch = a.epoch /\ b.armed = a.armed /\ b.late = a.late
      /\ b.eng = a.eng /\ b.down = down
      /\ b.crossed = a.crossed /\ b.raced = a.raced /\ b.doubled = a.doubled
      /\ b.buf = a.buf /\ b.dead = a.dead /\ b.burst = a.burst /\ b.payload = a.payload
      /\ b.combo = a.combo /\ b.ladder = a.ladder /\ b.pending = a.pending /\ b.flip = a.flip
  BY <1>0, <1>b DEF Actors, Rounds
<1>4. InOrder(b, "none") /\ KeepsOver(a, b) /\ Known(b)
  BY <1>0, <1>2, <1>3, OrderKept DEF Known
<1>5. Engines(b)
  <2> SUFFICES ASSUME ~b.crossed
               PROVE  /\ \A i \in DOMAIN b.down : b.down[i].kind = "require" \/ b.down[i].eng \in {0, b.eng}
                      /\ b.ladder # NoLadder => b.ladder.eng = b.eng
                      /\ Busy(b) => b.burst.eng = b.eng
    BY DEF Engines
  <2>1. /\ \A i \in DOMAIN a.down : a.down[i].kind = "require" \/ a.down[i].eng \in {0, a.eng}
        /\ a.ladder # NoLadder => a.ladder.eng = a.eng
        /\ Busy(a) => a.burst.eng = a.eng
    BY <1>3 DEF Sound, Engines
  <2>2. ASSUME NEW i \in DOMAIN b.down PROVE b.down[i].kind = "require" \/ b.down[i].eng \in {0, b.eng}
    <3>1. i \in 1 .. Len(a.down) - 1 /\ i + 1 \in DOMAIN a.down
      BY <1>0, <1>1, <1>3
    <3>2. b.down[i] = a.down[i + 1]
      BY <1>1, <1>3, <3>1
    <3> QED BY <1>3, <2>1, <3>1, <3>2
  <2> QED BY <1>3, <2>1, <2>2 DEF Busy
<1>6. Alone(b) /\ Learned(b)
  BY <1>3 DEF Sound, Alone, Learned, Busy
<1>7. HalfDone(b) = HalfDone(a) /\ Owed(b) = Owed(a) /\ (Busy(b) <=> Busy(a))
  BY <1>3 DEF HalfDone, Owed, Busy
\* A signal of an engine that is gone is at most a request.
<1>8. ~a.crossed /\ ~Alive(a) => m.kind = "require"
  <2>1. 1 \in DOMAIN a.down
    BY <1>0, <1>1
  <2> QED BY <1>1, <2>1 DEF Sound, Engines, Alive, m
<1>9. ~a.crossed /\ ~a.doubled =>
        /\ Gapless(b.down, d.gap, HalfDone(b))
        /\ c.gap => m.kind \in {"commit", "require"}
  <2> SUFFICES ASSUME ~a.crossed, ~a.doubled
               PROVE  /\ Gapless(b.down, d.gap, HalfDone(b))
                      /\ c.gap => m.kind \in {"commit", "require"}
    OBVIOUS
  <2>1. Gapless(a.down, c.gap, HalfDone(a)) /\ HalfDone(a) \in BOOLEAN
    BY HalfDoneIs DEF Sound
  <2>2. d.gap => (c.gap \/ Head(a.down).kind \in Opening) /\ Head(a.down).kind # "commit"
    BY <1>8, <1>d DEF m
  <2>3. /\ Gapless(Tail(a.down), d.gap, HalfDone(a))
        /\ c.gap => Head(a.down).kind \in {"commit", "require"}
    BY <1>0, <1>f, <2>1, <2>2, GapTail
  <2> QED BY <1>3, <1>7, <2>3 DEF m, down
<1>10. ASSUME Calm(b), d.kind # "deaf" PROVE Level(b, d.field)
  <2>1. Calm(a) /\ Level(a, c.field)
    BY <1>3, <1>10, <1>d DEF Calm, Sound
  <2>2. PICK w \in Texts : Leads(a.down, c.field, w) /\ Ends(w \o Owed(a), a.buf)
    BY <2>1 DEF Level
  <2>3. PICK g \in Texts : Moves(Head(a.down), c.field, g) /\ Leads(Tail(a.down), g, w)
    BY <1>0, <1>f, <2>2, LeadsTail
  <2>4. d.field = g
    <3>1. CASE Alive(a)
      BY <1>10, <1>d, <2>3, <3>1
    <3>2. CASE ~Alive(a)
      <4>1. m.kind = "require" /\ d = c
        BY <1>8, <1>d, <2>1, <3>2 DEF Calm
      <4> QED BY <2>3, <4>1 DEF Moves, m
    <3> QED BY <3>1, <3>2
  <2>5. Leads(b.down, d.field, w) /\ Ends(w \o Owed(b), b.buf)
    BY <1>3, <1>7, <2>2, <2>3, <2>4 DEF down
  <2> QED BY <1>3, <1>7, <2>1, <2>5 DEF Level
<1>11. Sound(b, d, "none") /\ Later(a, b)
  BY <1>3, <1>4, <1>5, <1>6, <1>9, <1>10 DEF Sound, Later
<1>12. Owned(a) => Owned(b)
  BY <1>3 DEF Owned, Busy
<1> QED BY <1>3, <1>9, <1>11, <1>12 DEF b, m

(***************************************************************************)
(* The inductive invariant, and what it gives.                             *)
(***************************************************************************)
IInv ==
  /\ client \in ClientT
  /\ left \in [keys : Nat, entries : Nat]
  /\ Sound(actor, client, "none")
  /\ Owned(actor)
  /\ ~actor.crossed /\ ~actor.doubled => ~client.torn
  /\ HarmHasCause

LEMMA InitSound ==
  ASSUME Init
  PROVE  IInv
<1>0. PICK text \in Starts, kind \in Clients :
        LET reports == kind \in {"pushing", "deaf"}
        IN  /\ client = [kind |-> kind, field |-> text, news |-> FALSE,
                         gap |-> FALSE, torn |-> FALSE, harmed |-> FALSE]
            /\ actor = [buf |-> text, mode |-> "EN", flip |-> NoFlip, combo |-> FALSE,
                        credit |-> 0, eng |-> 1, dead |-> FALSE,
                        surr |-> [known |-> reports, text |-> IF reports THEN text ELSE <<>>],
                        seen |-> IF reports THEN 1 ELSE 0,
                        pending |-> NoPending, ladder |-> NoLadder, after |-> NoAfter,
                        burst |-> NoBurst, payload |-> NoRange,
                        epoch |-> [r \in Rounds |-> 0], armed |-> [r \in Rounds |-> 0],
                        late |-> {}, down |-> <<>>, up |-> <<>>,
                        crossed |-> FALSE, raced |-> FALSE, doubled |-> FALSE]
  BY DEF Init
<1> DEFINE surr == [known |-> kind \in {"pushing", "deaf"},
                    text |-> IF kind \in {"pushing", "deaf"} THEN text ELSE <<>>]
           seen == IF kind \in {"pushing", "deaf"} THEN 1 ELSE 0
           none == [r \in Rounds |-> 0]
<1>1. text \in Texts /\ kind \in AllClients /\ <<>> \in Texts
  BY TextAssumption, KindsAssumption, NoTypes
<1>2. surr \in [known : BOOLEAN, text : Texts] /\ seen \in Nat
  BY <1>1
<1>3. none \in [Rounds -> Nat] /\ \A r \in Rounds : none[r] = 0
  OBVIOUS
<1>4. actor = [buf |-> text, mode |-> "EN", flip |-> NoFlip, combo |-> FALSE,
               credit |-> 0, eng |-> 1, dead |-> FALSE, surr |-> surr, seen |-> seen,
               pending |-> NoPending, ladder |-> NoLadder, after |-> NoAfter,
               burst |-> NoBurst, payload |-> NoRange, epoch |-> none, armed |-> none,
               late |-> {}, down |-> <<>>, up |-> <<>>,
               crossed |-> FALSE, raced |-> FALSE, doubled |-> FALSE]
  BY <1>0
<1> HIDE DEF surr, seen, none
<1>5. actor \in Actors
  BY <1>1, <1>2, <1>3, <1>4, NoTypes
     DEF Actors, Modes, PendingT, LadderT, AfterT, BurstT, FlipT
<1>6. /\ actor.buf = text /\ actor.flip = NoFlip /\ ~actor.combo /\ actor.eng = 1
      /\ actor.pending = NoPending /\ actor.ladder = NoLadder /\ actor.after = NoAfter
      /\ actor.burst = NoBurst /\ actor.payload = NoRange
      /\ actor.epoch = none /\ actor.armed = none /\ actor.late = {} /\ actor.down = <<>>
      /\ ~actor.crossed /\ ~actor.raced /\ ~actor.doubled
  BY <1>4
<1>7. client \in ClientT /\ client.field = text /\ ~client.gap /\ ~client.torn /\ ~client.harmed
  BY <1>0, <1>1 DEF ClientT
<1>8. left \in [keys : Nat, entries : Nat]
  BY BoundsAssumption DEF Init
<1>9. Known(actor)
  BY <1>5, <1>6 DEF Known
<1>10. \A r \in Rounds : actor[r].epoch = 0
  BY <1>6 DEF Rounds, NoPending, NoLadder, NoAfter, NoFlip
<1>11. InOrder(actor, "none")
  BY <1>3, <1>6, <1>10 DEF InOrder, Epochs, Deadline
<1>12. Engines(actor) /\ Alone(actor) /\ Learned(actor)
  BY <1>6 DEF Engines, Alone, Learned, Busy
<1>13. Gapless(actor.down, client.gap, HalfDone(actor))
  <2>1. 0 .. Len(<<>>) = {0}
    OBVIOUS
  <2> QED BY <1>6, <1>7, <2>1 DEF Gapless, OpensAt
<1>14. Level(actor, client.field)
  <2>1. Leads(<<>>, text, text)
    BY <1>1, LeadsNowhere
  <2>2. Owed(actor) = <<>> /\ text \o <<>> = text
    BY <1>1, <1>6, JoinEmpty DEF Owed, Busy
  <2>3. Ends(text, text)
    BY <1>1, JoinEmpty DEF Ends
  <2> QED BY <1>1, <1>6, <1>7, <2>1, <2>2, <2>3 DEF Level, Busy
<1> QED BY <1>6, <1>7, <1>8, <1>9, <1>11, <1>12, <1>13, <1>14
        DEF IInv, Sound, Owned, HarmHasCause

LEMMA StateIs ==
  ASSUME IInv
  PROVE  /\ actor \in Actors /\ client \in ClientT /\ Sound(actor, client, "none") /\ Owned(actor)
         /\ actor.up \in Seq(Calls) /\ actor.down \in Seq(Signals) /\ actor.mode \in Modes
         /\ left.keys \in Nat /\ left.entries \in Nat
BY DEF IInv, Sound, Known, Actors

\* A callback that is over stays so until it has had its turn, and its turn
\* changes nothing.
OverIsNothing ==
  \A t \in actor.late : t.over /\ t \notin actor'.late =>
    actor' = [actor EXCEPT !.late = @ \ {t}]

\* A step of the actor.
LEMMA StepKeeps ==
  ASSUME IInv, Goes(actor, actor', client), Owned(actor'), client' = client,
         left' \in [keys : Nat, entries : Nat]
  PROVE  IInv' /\ OverIsNothing
<1>1. IInv'
  BY DEF IInv, Goes, Later, HarmHasCause, Owned, Sound, Known, Busy
<1>2. OverIsNothing
  BY DEF OverIsNothing, Goes, Later, KeepsOver
<1> QED BY <1>1, <1>2

LEMMA CallSound ==
  ASSUME IInv, NEW call \in Calls, left' \in [keys : Nat, entries : Nat],
         actor' = [actor EXCEPT !.up = Append(@, call)], client' = client
  PROVE  IInv' /\ OverIsNothing
<1> DEFINE up == Append(actor.up, call)
<1>1. up \in Seq(Calls)
  BY StateIs
<1>2. actor' = [actor EXCEPT !.up = up]
  OBVIOUS
<1> HIDE DEF up
<1>3. /\ Goes(actor, actor', client) /\ SameWork(actor, actor')
      /\ actor'.combo = actor.combo
  <2> DEFINE b == [actor EXCEPT !.up = up]
  <2>1. Sound(actor, client, "none")
    BY StateIs
  <2>2. Goes(actor, b, client) /\ SameWork(actor, b) /\ b.combo = actor.combo
    BY <1>1, <2>1, UpSound
  <2> QED BY <1>2, <2>2
<1>4. Owned(actor')
  BY <1>3, StateIs, OwnedKept
<1> QED BY <1>3, <1>4, StepKeeps

LEMMA PressKeyKeeps ==
  ASSUME IInv, NEW k \in KeyKinds, PressKey(k)
  PROVE  IInv' /\ OverIsNothing
<1>1. Call("key", k) \in Calls
  BY KindsAssumption, CallTypes
<1>2. left' \in [keys : Nat, entries : Nat]
  BY DEF PressKey, IInv
<1> QED BY <1>1, <1>2, CallSound DEF PressKey

LEMMA TakeCallKeeps ==
  ASSUME IInv, TakeCall
  PROVE  IInv' /\ OverIsNothing
<1> DEFINE c == Head(actor.up)
           up == Tail(actor.up)
           a == [actor EXCEPT !.up = up]
<1>0. actor.up # <<>> /\ client' = client /\ left' = left
  BY DEF TakeCall
<1>1. c \in Calls /\ up \in Seq(Calls)
  BY <1>0, StateIs
<1>2. /\ c.kind = "key" => ~Busy(actor)
      /\ CASE c.kind = "key" -> \E wrong \in BOOLEAN : actor' = FeedKey(a, c.key, wrong)
           [] c.kind = "report" -> actor' = HandleReport(a, c.text)
           [] OTHER -> \E forgets \in BOOLEAN : actor' = HandleLifecycle(a, c.kind, forgets)
  BY DEF TakeCall
<1>3. c.text \in Texts /\ (c.kind = "key" => c.key \in AllKeys)
  BY <1>1 DEF Calls
<1> HIDE DEF c, up
<1>4. Goes(actor, a, client) /\ SameWork(actor, a) /\ a.combo = actor.combo
  BY <1>1, StateIs, UpSound
<1>5. Owned(a) /\ (Busy(a) <=> Busy(actor))
  BY <1>4, StateIs, OwnedKept DEF SameWork, Rest, Busy
<1> HIDE DEF a
<1>6. Sound(a, client, "none") /\ client \in ClientT
  BY <1>4, StateIs DEF Goes
<1>7. Goes(a, actor', client) /\ Owned(actor')
  <2>1. CASE c.kind = "key"
    BY <1>2, <1>3, <1>5, <1>6, <2>1, FeedSound
  <2>2. CASE c.kind = "report"
    <3>1. actor' = HandleReport(a, c.text)
      BY <1>2, <2>2
    <3> QED BY <1>3, <1>5, <1>6, <3>1, ReportSound
  <2>3. CASE c.kind \notin {"key", "report"}
    <3>1. PICK forgets \in BOOLEAN : actor' = HandleLifecycle(a, c.kind, forgets)
      BY <1>2, <2>3
    <3> QED BY <1>5, <1>6, <3>1, LifecycleSound
  <2> QED BY <2>1, <2>2, <2>3
<1>8. Goes(actor, actor', client)
  BY <1>4, <1>7, GoesOn
<1> QED BY <1>0, <1>7, <1>8, StepKeeps DEF IInv

LEMMA EnterKeeps ==
  ASSUME IInv, NEW e \in Entries, Enter(e)
  PROVE  IInv' /\ OverIsNothing
<1>1. client' = client /\ left' \in [keys : Nat, entries : Nat]
  BY DEF Enter, IInv
<1>2. e \in AllEntries
  BY KindsAssumption
<1>3. CASE e \in {"correct", "phrase"}
  <2>1. actor' = StartCorrection(actor) \/ actor' = StartPhraseCorrection(actor)
    BY <1>3 DEF Enter
  <2>2. Goes(actor, actor', client) /\ Owned(actor')
    BY <2>1, StateIs, CorrectSound
  <2> QED BY <1>1, <2>2, StepKeeps
<1>4. CASE e = "toggle"
  <2>1. actor' = FlipTo(actor, Opposite(actor.mode)) /\ Opposite(actor.mode) \in Modes
    BY <1>4, StateIs, OppositeMode DEF Enter
  <2>2. Goes(actor, actor', client) /\ Owned(actor')
    BY <2>1, StateIs, FlipSound, OwnedKept
  <2> QED BY <1>1, <2>2, StepKeeps
<1>5. CASE e \in {"focusout", "reset"}
  <2>1. actor' = [actor EXCEPT !.up = Append(@, Call(e, "none"))]
    BY <1>5 DEF Enter
  <2> QED BY <1>1, <1>5, <2>1, CallTypes, CallSound
<1> QED BY <1>2, <1>3, <1>4, <1>5 DEF AllEntries

LEMMA AutoConfirmKeeps ==
  ASSUME IInv, AutoConfirm
  PROVE  IInv' /\ OverIsNothing
<1> DEFINE a == [actor EXCEPT !.payload = NoRange]
<1>0. client' = client /\ left' = left /\ actor.payload # NoRange
  BY DEF AutoConfirm
<1>1. \/ actor' = a
      \/ WordRange(a) = actor.payload /\ actor' = StartRange(a, actor.payload, TRUE)
  BY DEF AutoConfirm
<1>2. /\ Goes(actor, a, client)
      /\ a.payload = NoRange /\ a.dead = actor.dead
      /\ a.ladder = actor.ladder /\ a.buf = actor.buf
      /\ a.pending = actor.pending /\ a.burst = actor.burst /\ a.combo = actor.combo
  BY NoTypes, StateIs, PayloadSound
<1>3. Owned(a)
  BY <1>2, StateIs DEF Owned, Busy
<1> HIDE DEF a
<1>4. Sound(a, client, "none") /\ a \in Actors /\ client \in ClientT
  BY <1>2, StateIs DEF Goes, Sound, Known
<1>5. CASE actor' = a
  BY <1>0, <1>2, <1>3, <1>5, StepKeeps DEF IInv
<1>6. CASE WordRange(a) = actor.payload /\ actor' = StartRange(a, actor.payload, TRUE)
  <2>1. Planned(a, client, WordRange(a))
    BY <1>4, WordRangeIs DEF Planned
  <2>2. a.ladder = NoLadder \/ (~a.dead /\ a.payload = NoRange)
    BY <1>0, <1>2, StateIs DEF Sound, Learned
  <2>3. Goes(a, actor', client) /\ Owned(actor')
    BY <1>4, <1>6, <2>1, <2>2, StartSound
  <2>4. Goes(actor, actor', client)
    BY <1>2, <2>3, GoesOn
  <2> QED BY <1>0, <2>3, <2>4, StepKeeps DEF IInv
<1> QED BY <1>1, <1>5, <1>6

LEMMA FireKeeps ==
  ASSUME IInv, NEW round \in Rounds, Fire(round)
  PROVE  IInv' /\ OverIsNothing
<1>1. Goes(actor, actor', client) /\ SameWork(actor, actor') /\ actor'.combo = actor.combo
  BY StateIs, FireSound DEF Fire
<1>2. Owned(actor')
  BY <1>1, StateIs, OwnedKept
<1> QED BY <1>1, <1>2, StepKeeps DEF Fire, IInv

LEMMA RunCallbackKeeps ==
  ASSUME IInv, NEW t \in actor.late, RunCallback(t)
  PROVE  IInv' /\ OverIsNothing
<1> DEFINE b == [actor EXCEPT !.late = @ \ {t}]
<1>0. client' = client /\ left' = left /\ actor' = Expire(b, t)
  BY DEF RunCallback
<1>1. /\ Goes(b, actor', client) /\ Owned(actor')
      /\ b.crossed = actor.crossed /\ b.raced = actor.raced /\ b.doubled = actor.doubled
      /\ b.late = actor.late \ {t}
      /\ t.over => actor' = b
  BY <1>0, StateIs, RunSound
<1>2. IInv'
  BY <1>0, <1>1 DEF IInv, Goes, Later, HarmHasCause
<1>3. OverIsNothing
  <2> SUFFICES ASSUME NEW u \in actor.late, u.over, u \notin actor'.late
               PROVE  actor' = [actor EXCEPT !.late = @ \ {u}]
    BY DEF OverIsNothing
  <2>1. u = t
    BY <1>1 DEF Goes, Later, KeepsOver
  <2> QED BY <1>1, <2>1
<1> QED BY <1>2, <1>3

LEMMA Level2BurstKeeps ==
  ASSUME IInv, Level2Burst
  PROVE  IInv' /\ OverIsNothing
<1> DEFINE b == Send(actor, "burst", Match(actor.burst.range), actor.burst.eng)
<1>0. client' = client /\ left' = left /\ Busy(actor) /\ ~actor.burst.sent
  BY DEF Level2Burst
<1>1. actor' = IF actor.burst.moved THEN SettleCombo([actor EXCEPT !.burst = NoBurst])
               ELSE IF actor.burst.terminal THEN [b EXCEPT !.burst.sent = TRUE]
               ELSE CommitBurst(b)
  BY DEF Level2Burst
<1>2. Goes(actor, actor', client) /\ Owned(actor')
  <2>1. CASE actor.burst.moved
    <3> DEFINE s == [actor EXCEPT !.burst = NoBurst]
    <3>1. actor' = SettleCombo(s)
      BY <1>1, <2>1
    <3>2. Goes(actor, s, client)
      BY <1>0, StateIs, StoppedSound
    <3> HIDE DEF s
    <3>3. Goes(s, actor', client) /\ actor'.combo = FALSE
      BY <3>1, <3>2, SettleSound DEF Goes
    <3> QED BY <3>2, <3>3, GoesOn DEF Owned
  <2>2. CASE ~actor.burst.moved
    <3>1. /\ Goes(actor, Burst(actor), client) /\ Busy(Burst(actor)) /\ Burst(actor).burst.sent
      BY <1>0, <2>2, StateIs, BurstSound
    <3>2. CASE actor.burst.terminal
      <4>1. actor' = Burst(actor)
        BY <1>1, <2>2, <3>2 DEF Burst
      <4> QED BY <3>1, <4>1 DEF Owned
    <3>3. CASE ~actor.burst.terminal
      <4>1. actor' = CommitBurst(Burst(actor))
        BY <1>1, <2>2, <3>3, StateIs, BurstAtOnce
      <4>2. Goes(Burst(actor), actor', client) /\ Owned(actor')
        BY <3>1, <4>1, StateIs, CommitBurstSound DEF Goes
      <4> QED BY <3>1, <4>2, GoesOn
    <3> QED BY <3>2, <3>3
  <2> QED BY <2>1, <2>2
<1> QED BY <1>0, <1>2, StepKeeps DEF IInv

LEMMA Level2CommitKeeps ==
  ASSUME IInv, Level2Commit
  PROVE  IInv' /\ OverIsNothing
<1>1. Goes(actor, actor', client) /\ Owned(actor')
  BY StateIs, CommitBurstSound DEF Level2Commit
<1> QED BY <1>1, StepKeeps DEF Level2Commit, IInv

LEMMA TakeSignalKeeps ==
  ASSUME IInv, TakeSignal
  PROVE  IInv' /\ OverIsNothing
<1> DEFINE m == Head(actor.down)
           live == m.eng \in {0, actor.eng}
           answers == live /\ m.kind = "require" /\ client.kind = "answering"
           up == IF answers THEN Append(actor.up, Report(client.field)) ELSE actor.up
<1>0. /\ actor.down # <<>> /\ left' = left
      /\ client' = IF live THEN Applied(m) ELSE client
      /\ actor' = Taken(actor, up)
  BY DEF TakeSignal, Taken
<1>1. m \in Signals /\ client \in ClientT
  BY <1>0, StateIs
<1>2. up \in Seq(Calls)
  BY <1>1, StateIs, CallTypes DEF ClientT
<1> HIDE DEF up
<1>3. /\ Applied(m) \in ClientT /\ Applied(m).kind = client.kind
      /\ Applied(m).gap => (client.gap \/ m.kind \in Opening) /\ m.kind # "commit"
      /\ Applied(m).torn => client.torn \/ (client.gap /\ m.kind \notin {"commit", "require"})
      /\ Applied(m).harmed =>
           client.harmed \/ (m.kind \in Opening /\ ~IsSuffixOf(m.text, client.field))
  BY <1>1, AppliedIs
<1>4. \A g \in Texts : Moves(m, client.field, g) =>
        /\ client.kind # "deaf" => Applied(m).field = g
        /\ m.kind \in Opening => IsSuffixOf(m.text, client.field)
  BY <1>1, AppliedMoves
<1>5. client' \in ClientT /\ client'.kind = client.kind
  BY <1>0, <1>1, <1>3
<1>6. Becomes(actor, client, client')
  <2>1. client'.gap /\ Alive(actor) => (client.gap \/ m.kind \in Opening) /\ m.kind # "commit"
    BY <1>0, <1>3 DEF Alive
  <2>2. client.kind # "deaf" /\ Alive(actor) =>
          \A g \in Texts : Moves(m, client.field, g) => client'.field = g
    BY <1>0, <1>4 DEF Alive
  <2>3. ~Alive(actor) => client' = client
    BY <1>0 DEF Alive
  <2> QED BY <1>5, <2>1, <2>2, <2>3 DEF Becomes
<1>c. Sound(actor, client, "none") /\ Owned(actor)
  BY StateIs
<1>9. /\ Sound(actor', client', "none") /\ Later(actor, actor') /\ (Owned(actor) => Owned(actor'))
      /\ ~actor.crossed /\ ~actor.doubled /\ client.gap =>
           Head(actor.down).kind \in {"commit", "require"}
      /\ actor'.crossed = actor.crossed /\ actor'.raced = actor.raced
      /\ actor'.doubled = actor.doubled
  BY <1>0, <1>1, <1>2, <1>5, <1>6, <1>c, TakenSound
<1>10. ~actor'.crossed /\ ~actor'.doubled => ~client'.torn
  BY <1>0, <1>3, <1>9 DEF IInv
<1>11. HarmHasCause'
  <2> SUFFICES ASSUME client'.harmed, ~actor'.raced, ~actor'.crossed, ~actor'.doubled,
                      client'.kind # "deaf"
               PROVE  FALSE
    BY DEF HarmHasCause
  <2>1. ~client.harmed /\ Level(actor, client.field)
    BY <1>5, <1>9, StateIs DEF IInv, HarmHasCause, Sound, Calm
  <2>2. m.kind \in Opening /\ ~IsSuffixOf(m.text, client.field)
    BY <1>0, <1>3, <2>1
  <2>3. PICK w \in Texts : Leads(actor.down, client.field, w)
    BY <2>1 DEF Level
  <2>4. client.field \in Texts
    BY <1>1 DEF ClientT
  <2>5. PICK g \in Texts : Moves(Head(actor.down), client.field, g)
    BY <1>0, <2>3, <2>4, StateIs, LeadsTail
  <2> QED BY <1>4, <2>2, <2>5
<1>12. OverIsNothing
  BY <1>9 DEF OverIsNothing, Later, KeepsOver
<1> QED BY <1>0, <1>5, <1>9, <1>10, <1>11, <1>12, StateIs DEF IInv

LEMMA PushReportKeeps ==
  ASSUME IInv, PushReport
  PROVE  IInv' /\ OverIsNothing
<1> DEFINE up == Append(actor.up, Report(client.field))
<1>0. left' = left /\ client' = [client EXCEPT !.news = FALSE] /\ actor' = [actor EXCEPT !.up = up]
  BY DEF PushReport
<1>1. up \in Seq(Calls)
  BY StateIs, CallTypes DEF ClientT
<1> HIDE DEF up
<1>2. /\ client' \in ClientT /\ client'.kind = client.kind /\ client'.field = client.field
      /\ client'.gap = client.gap /\ client'.torn = client.torn /\ client'.harmed = client.harmed
  BY <1>0, StateIs DEF ClientT
<1>3. Goes(actor, actor', client) /\ Owned(actor')
  BY <1>0, <1>1, StateIs, UpSound, OwnedKept
<1>4. Sound(actor', client', "none")
  BY <1>2, <1>3, SameClient DEF Goes
<1>5. IInv'
  BY <1>0, <1>2, <1>3, <1>4, StateIs DEF IInv, Goes, Later, HarmHasCause
<1>6. OverIsNothing
  BY <1>3 DEF OverIsNothing, Goes, Later, KeepsOver
<1> QED BY <1>5, <1>6

LEMMA NextKeeps ==
  ASSUME IInv, [Next]_vars
  PROVE  IInv' /\ OverIsNothing
<1>1. CASE UNCHANGED vars
  <2>1. actor' = actor /\ client' = client /\ left' = left
    BY <1>1 DEF vars
  <2>2. Goes(actor, actor', client) /\ Owned(actor')
    BY <2>1, StateIs, GoesNowhere
  <2> QED BY <2>1, <2>2, StepKeeps DEF IInv
<1>2. CASE Next
  BY <1>2, PressKeyKeeps, TakeCallKeeps, EnterKeeps, AutoConfirmKeeps, FireKeeps,
     RunCallbackKeeps, Level2BurstKeeps, Level2CommitKeeps, TakeSignalKeeps, PushReportKeeps
     DEF Next
<1> QED BY <1>1, <1>2

LEMMA Invariance == Spec => []IInv
<1>1. Init => IInv
  BY InitSound
<1>2. IInv /\ [Next]_vars => IInv'
  BY NextKeeps
<1> QED BY <1>1, <1>2, PTL DEF Spec

\* Whatever is deleted is replaced next, unless a flip has gone out over
\* something undelivered or two corrections delete at once: for every kind
\* of client and every bound.
THEOREM DeletedIsReplacedUnless == Spec => []LossHasCause
<1>1. ASSUME IInv PROVE LossHasCause
  <2> SUFFICES ASSUME ~actor.crossed, ~actor.doubled, AtRest PROVE ~client.gap
    BY <1>1 DEF LossHasCause, DeletedIsReplaced, IInv
  <2>1. Gapless(<<>>, client.gap, HalfDone(actor)) /\ ~HalfDone(actor)
    BY <1>1, StateIs DEF AtRest, Sound, HalfDone
  <2>2. Gapless(<<>>, client.gap, FALSE) /\ client.gap \in BOOLEAN
    BY <1>1, <2>1, StateIs DEF Gapless, ClientT
  <2> QED BY <2>2, GapOver
<1> QED BY <1>1, Invariance, PTL

\* What a correction erases is what it has planned, unless the text has
\* moved under an open round, a replacement has been lost to a flip, two
\* corrections delete at once, or the client ignores the deletion.
THEOREM ErasesThePlannedUnless == Spec => []HarmHasCause
<1>1. IInv => HarmHasCause
  BY DEF IInv
<1> QED BY <1>1, Invariance, PTL

\* Every round that is open will end, every combo is settled by a round, and
\* at rest the buffer is the end of the client's text.
THEOREM RoundsAreInOrder == Spec => []RoundsInv
<1>1. ASSUME IInv PROVE RoundsInv
  <2>0. Sound(actor, client, "none") /\ actor \in Actors /\ client \in ClientT
    BY <1>1, StateIs
  <2>1. TypeOK
    BY <1>1, <2>0 DEF TypeOK, IInv, ClientT
  <2>2. RoundHasDeadline
    BY <2>0 DEF RoundHasDeadline, Sound, InOrder, Deadline, Rounds
  <2>3. ComboHasOwner
    BY <1>1 DEF ComboHasOwner, IInv, Owned
  <2>4. Mirror
    <3> SUFFICES ASSUME AtRest, Calm(actor), client.kind # "deaf"
                 PROVE  IsSuffixOf(actor.buf, client.field)
      BY DEF Mirror, Calm
    <3>1. client.field \in Texts /\ actor.buf \in Texts
      BY <2>0 DEF ClientT, Actors
    <3>2. PICK w \in Texts : Leads(<<>>, client.field, w) /\ Ends(w \o Owed(actor), actor.buf)
      BY <2>0 DEF Sound, Level, AtRest
    <3>3. w = client.field /\ Owed(actor) = <<>>
      BY <3>1, <3>2, LeadsNowhere DEF Owed, AtRest
    <3>4. Ends(client.field, actor.buf)
      BY <3>1, <3>2, <3>3, JoinEmpty
    <3> QED BY <3>1, <3>4, SuffixEnds
  <2> QED BY <2>1, <2>2, <2>3, <2>4 DEF RoundsInv
<1> QED BY <1>1, Invariance, PTL

\* A deadline whose round is over does nothing when it gets the mutex.
THEOREM LateCallbacksAreHarmless == Spec => LateIsHarmless
<1>1. IInv /\ [Next]_vars => [OverIsNothing]_vars
  BY NextKeeps
<1>2. Spec => [][OverIsNothing]_vars
  <2> HIDE DEF OverIsNothing
  <2> QED BY <1>1, Invariance, PTL DEF Spec
<1> QED BY <1>2 DEF LateIsHarmless, OverIsNothing
=============================================================================
