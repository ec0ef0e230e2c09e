---------------------------- MODULE ContextProofs ----------------------------
(***************************************************************************)
(* What the actor keeps of the context it serves: the typed text and the   *)
(* terminal class.                                                         *)
(* For every set of runes, every pair of position tables and texts of any  *)
(* length: the buffer's coordinates are those of the tokens of its text,   *)
(* the buffer is the end of the field, a word correction rewrites the last *)
(* word with its whole stretch and nothing beyond, and a second correction *)
(* brings the text of one layout back.  For every set of windows and capacity of  *)
(* the memory: the class outlives what is not the death of its context,    *)
(* and an application that taught it is remembered in its turn.            *)
(***************************************************************************)
EXTENDS PhraseBuffer, ContextLife, FiniteSetTheorems, WellFoundedInduction, TLAPS

(***************************************************************************)
(* Runs of cells: the choices of the model are of something that exists.   *)
(***************************************************************************)
\* A set of numbers has a smallest: what the proofs here use for induction.
LEMMA SmallestNumber ==
  ASSUME NEW T, T \subseteq Nat, T # {}
  PROVE  \E x \in T : \A y \in T : x =< y
<1>1. IsWellFoundedOn(OpToRel(<,Nat), Nat)
  BY NatLessThanWellFounded
<1>2. PICK x \in T : \A y \in T : ~ (<<y, x>> \in OpToRel(<,Nat))
  BY <1>1, WFMin
<1>3. \A y \in T : ~(y < x)
  BY <1>2 DEF OpToRel
<1> QED BY <1>3

\* The positions B end a run: every position i has a run to its left.
LEMMA RunToTheLeft ==
  ASSUME NEW i \in Nat, NEW B
  PROVE  \E j \in 0 .. i : (\A q \in j + 1 .. i : q \notin B) /\ (j > 0 => j \in B)
<1> DEFINE T == {j \in 0 .. i : \A q \in j + 1 .. i : q \notin B}
<1>1. T \subseteq Nat /\ i \in T
  OBVIOUS
<1>2. PICK j \in T : \A k \in T : j =< k
  <2> HIDE DEF T
  <2> QED BY <1>1, SmallestNumber
<1>3. j > 0 => j \in B
  <2> SUFFICES ASSUME j > 0, j \notin B PROVE FALSE
    OBVIOUS
  <2>1. \A q \in (j - 1) + 1 .. i : q = j \/ q \in j + 1 .. i
    OBVIOUS
  <2>2. j - 1 \in T
    BY <2>1
  <2> QED BY <1>2, <2>2
<1> QED BY <1>3

\* And one to its right, up to the end of a text.
LEMMA RunToTheRight ==
  ASSUME NEW n \in Nat, NEW i \in 0 .. n, NEW B
  PROVE  \E j \in i .. n : (\A q \in i + 1 .. j : q \notin B) /\ (j < n => j + 1 \in B)
<1> DEFINE T == {k \in i + 1 .. n : k \in B}
<1>1. CASE T = {}
  BY <1>1
<1>2. CASE T # {}
  <2>1. T \subseteq Nat
    OBVIOUS
  <2>2. PICK k \in T : \A l \in T : k =< l
    <3> HIDE DEF T
    <3> QED BY <1>2, <2>1, SmallestNumber
  <2>3. k - 1 \in i .. n /\ (k - 1) + 1 = k
    OBVIOUS
  <2>4. \A q \in i + 1 .. k - 1 : q \notin B
    <3> SUFFICES ASSUME NEW q \in i + 1 .. k - 1, q \in B PROVE FALSE
      OBVIOUS
    <3>1. q \in T
      OBVIOUS
    <3> QED BY <2>2, <3>1
  <2> QED BY <2>3, <2>4
<1> QED BY <1>1, <1>2

LEMMA TokenRun ==
  ASSUME NEW s, NEW i \in Nat
  PROVE  /\ TokenRunFrom(s, i) \in 0 .. i
         /\ \A q \in TokenRunFrom(s, i) + 1 .. i : TokenCapable(s[q])
         /\ TokenRunFrom(s, i) > 0 => ~TokenCapable(s[TokenRunFrom(s, i)])
<1>1. \E j \in 0 .. i : /\ \A q \in j + 1 .. i : q \notin {p \in Nat : ~TokenCapable(s[p])}
                        /\ j > 0 => j \in {p \in Nat : ~TokenCapable(s[p])}
  BY RunToTheLeft
<1>2. \E j \in 0 .. i : /\ \A q \in j + 1 .. i : TokenCapable(s[q])
                        /\ j > 0 => ~TokenCapable(s[j])
  BY <1>1
<1> QED BY <1>2 DEF TokenRunFrom

LEMMA BoundaryRun ==
  ASSUME NEW s, NEW i \in Nat
  PROVE  /\ BoundaryRunFrom(s, i) \in 0 .. i
         /\ \A q \in BoundaryRunFrom(s, i) + 1 .. i : ~TokenCapable(s[q])
         /\ BoundaryRunFrom(s, i) > 0 => TokenCapable(s[BoundaryRunFrom(s, i)])
<1>1. \E j \in 0 .. i : /\ \A q \in j + 1 .. i : q \notin {p \in Nat : TokenCapable(s[p])}
                        /\ j > 0 => j \in {p \in Nat : TokenCapable(s[p])}
  BY RunToTheLeft
<1>2. \E j \in 0 .. i : /\ \A q \in j + 1 .. i : ~TokenCapable(s[q])
                        /\ j > 0 => TokenCapable(s[j])
  BY <1>1
<1> QED BY <1>2 DEF BoundaryRunFrom

(***************************************************************************)
(* The coordinates, of a text and as the buffer keeps them.                *)
(***************************************************************************)
Marks(s, cur, start, len) ==
  /\ cur \in 0 .. Len(s) /\ start \in 0 .. Len(s) /\ len \in 0 .. Len(s)
  /\ \A q \in cur + 1 .. Len(s) : TokenCapable(s[q])
  /\ cur > 0 => ~TokenCapable(s[cur])
  /\ start + len =< cur
  /\ \A q \in start + len + 1 .. cur : ~TokenCapable(s[q])
  /\ IF len = 0 THEN start = 0 ELSE IsToken(s, start, start + len)

\* recompute finds the coordinates of whatever text it is given.
LEMMA RecomputeMarks ==
  ASSUME NEW s \in Seq(Runes), Recompute(s)
  PROVE  Marks(s, curStart', lastStart', lastLen')
<1> DEFINE cur == TokenRunFrom(s, Len(s))
           end == BoundaryRunFrom(s, cur)
           last == TokenRunFrom(s, end)
<1>1. curStart' = cur /\ lastStart' = last /\ lastLen' = end - last
  BY DEF Recompute
<1>2. Len(s) \in Nat
  OBVIOUS
<1>3. /\ cur \in 0 .. Len(s)
      /\ \A q \in cur + 1 .. Len(s) : TokenCapable(s[q])
      /\ cur > 0 => ~TokenCapable(s[cur])
  BY <1>2, TokenRun
<1>4. /\ end \in 0 .. cur
      /\ \A q \in end + 1 .. cur : ~TokenCapable(s[q])
      /\ end > 0 => TokenCapable(s[end])
  <2> cur \in Nat
    BY <1>2, <1>3
  <2> HIDE DEF cur
  <2> QED BY BoundaryRun
<1>5. /\ last \in 0 .. end
      /\ \A q \in last + 1 .. end : TokenCapable(s[q])
      /\ last > 0 => ~TokenCapable(s[last])
  <2> end \in Nat
    BY <1>2, <1>3, <1>4
  <2> HIDE DEF end
  <2> QED BY TokenRun
<1> HIDE DEF cur, end, last
<1>6. CASE end = last
  <2>1. end = 0
    BY <1>4, <1>5, <1>6
  <2> QED BY <1>1, <1>2, <1>3, <1>4, <1>5, <1>6, <2>1 DEF Marks
<1>7. CASE last < end
  <2>1. end < Len(s) => ~TokenCapable(s[end + 1])
    <3>1. CASE end < cur
      BY <1>2, <1>3, <1>4, <3>1
    <3>2. CASE end = cur
      BY <1>3, <1>4, <1>5, <1>7, <3>2
    <3> QED BY <1>3, <1>4, <3>1, <3>2
  <2>2. IsToken(s, last, end)
    BY <1>5, <1>7, <2>1 DEF IsToken
  <2>3. last + (end - last) = end
    BY <1>2, <1>3, <1>4, <1>5
  <2> QED BY <1>1, <1>2, <1>3, <1>4, <1>5, <1>7, <2>2, <2>3 DEF Marks
<1> QED BY <1>5, <1>6, <1>7, <1>2, <1>3, <1>4

\* PushFeed keeps them step by step.
LEMMA PushMarks ==
  ASSUME NEW r \in Runes, runes \in Seq(Runes), Marks(runes, curStart, lastStart, lastLen),
         PushFeed(r)
  PROVE  Marks(runes', curStart', lastStart', lastLen')
<1> DEFINE n == Len(runes)
           end == lastStart + lastLen
<1>1. n \in Nat /\ Len(runes') = n + 1 /\ runes'[n + 1] = r
  BY DEF PushFeed
<1>2. \A q \in 1 .. n : runes'[q] = runes[q]
  BY DEF PushFeed
<1>3. /\ curStart \in 0 .. n /\ lastStart \in 0 .. n /\ lastLen \in 0 .. n
      /\ end =< curStart
      /\ lastLen = 0 => lastStart = 0
      /\ lastLen # 0 => IsToken(runes, lastStart, end)
  BY DEF Marks
<1>4. /\ \A q \in curStart + 1 .. n : TokenCapable(runes'[q])
      /\ curStart > 0 => ~TokenCapable(runes'[curStart])
      /\ \A q \in end + 1 .. curStart : ~TokenCapable(runes'[q])
  <2>1. /\ \A q \in curStart + 1 .. n : TokenCapable(runes[q])
        /\ curStart > 0 => ~TokenCapable(runes[curStart])
        /\ \A q \in end + 1 .. curStart : ~TokenCapable(runes[q])
    BY DEF Marks
  <2>2. /\ \A q \in curStart + 1 .. n : q \in 1 .. n
        /\ curStart > 0 => curStart \in 1 .. n
        /\ \A q \in end + 1 .. curStart : q \in 1 .. n
    BY <1>1, <1>3
  <2> HIDE DEF n, end
  <2> QED BY <1>2, <2>1, <2>2
<1>5. lastLen # 0 => end < curStart
  <2> SUFFICES ASSUME lastLen # 0, end = curStart PROVE FALSE
    BY <1>1, <1>3
  <2>1. TokenCapable(runes[end]) /\ end > 0
    BY <1>1, <1>3 DEF IsToken
  <2>2. curStart > 0 => ~TokenCapable(runes[curStart])
    BY DEF Marks
  <2> QED BY <2>1, <2>2
<1>7. lastLen # 0 => IsToken(runes', lastStart, end)
  <2> SUFFICES ASSUME lastLen # 0 PROVE IsToken(runes', lastStart, end)
    OBVIOUS
  <2>1. lastStart < end /\ end < n + 1
    BY <1>1, <1>3
  <2>2. \A q \in lastStart + 1 .. end : TokenCapable(runes'[q])
    BY <1>1, <1>2, <1>3 DEF IsToken
  <2>3. lastStart > 0 => ~TokenCapable(runes'[lastStart])
    BY <1>1, <1>2, <1>3 DEF IsToken
  <2>4. ~TokenCapable(runes'[end + 1])
    BY <1>1, <1>3, <1>4, <1>5
  <2> QED BY <2>1, <2>2, <2>3, <2>4 DEF IsToken
<1>8. CASE TokenCapable(r)
  <2>1. curStart' = curStart /\ lastStart' = lastStart /\ lastLen' = lastLen
    BY <1>8 DEF PushFeed
  <2>2. \A q \in curStart + 1 .. n + 1 : TokenCapable(runes'[q])
    BY <1>1, <1>3, <1>4, <1>8
  <2>3. /\ curStart \in 0 .. n + 1 /\ lastStart \in 0 .. n + 1 /\ lastLen \in 0 .. n + 1
        /\ end =< curStart
    BY <1>1, <1>3
  <2>4. IF lastLen = 0 THEN lastStart = 0 ELSE IsToken(runes', lastStart, end)
    BY <1>3, <1>7
  <2> HIDE DEF n, end
  <2> QED BY <1>1, <1>4, <2>1, <2>2, <2>3, <2>4 DEF Marks, end
<1>9. CASE ~TokenCapable(r) /\ n > curStart
  <2>1. curStart' = n + 1 /\ lastStart' = curStart /\ lastLen' = n - curStart
    BY <1>9 DEF PushFeed
  <2>2. curStart + (n - curStart) = n /\ n - curStart # 0
    BY <1>1, <1>3, <1>9
  <2>3. IsToken(runes', curStart, n)
    BY <1>1, <1>3, <1>4, <1>9 DEF IsToken
  <2>4. \A q \in n + 1 .. n + 1 : ~TokenCapable(runes'[q])
    BY <1>1, <1>9
  <2>5. /\ n + 1 \in 0 .. n + 1 /\ curStart \in 0 .. n + 1 /\ n - curStart \in 0 .. n + 1
        /\ n =< n + 1 /\ n + 1 > 0 /\ {} = (n + 1) + 1 .. n + 1
    BY <1>1, <1>3, <1>9
  <2>6. ~TokenCapable(runes'[n + 1])
    BY <1>1, <1>9
  <2> HIDE DEF n
  <2> QED BY <1>1, <2>1, <2>2, <2>3, <2>4, <2>5, <2>6 DEF Marks
<1>10. CASE ~TokenCapable(r) /\ n = curStart
  <2>1. curStart' = n + 1 /\ lastStart' = lastStart /\ lastLen' = lastLen
    BY <1>10 DEF PushFeed
  <2>2. \A q \in end + 1 .. n + 1 : ~TokenCapable(runes'[q])
    BY <1>1, <1>3, <1>4, <1>10
  <2> QED BY <1>1, <1>3, <1>7, <1>10, <2>1, <2>2 DEF Marks
<1> QED BY <1>1, <1>3, <1>8, <1>9, <1>10

(***************************************************************************)
(* Segments, conversions and replacements, cell by cell.                   *)
(***************************************************************************)
LEMMA SegmentCells ==
  ASSUME NEW s \in Seq(Runes), NEW i \in 0 .. Len(s), NEW j \in i .. Len(s)
  PROVE  /\ Segment(s, i, j) \in Seq(Runes)
         /\ Len(Segment(s, i, j)) = j - i
         /\ \A k \in 1 .. j - i : Segment(s, i, j)[k] = s[i + k]
<1>1. Len(s) \in Nat /\ i + 1 \in 1 .. Len(s) + 1 /\ j \in 0 .. Len(s)
  OBVIOUS
<1>2. \A q \in i + 1 .. j : s[q] \in Runes
  BY <1>1
<1>3. /\ SubSeq(s, i + 1, j) \in Seq(Runes)
      /\ Len(SubSeq(s, i + 1, j)) = j - i
  BY <1>1
<1>4. \A k \in 1 .. j - i : SubSeq(s, i + 1, j)[k] = s[(i + 1) + k - 1]
  BY <1>1
<1>5. \A k \in 1 .. j - i : (i + 1) + k - 1 = i + k
  BY <1>1
<1> QED BY <1>3, <1>4, <1>5 DEF Segment

LEMMA ThreeLengths ==
  ASSUME NEW a \in Seq(Runes), NEW b \in Seq(Runes), NEW c \in Seq(Runes)
  PROVE  a \o b \o c \in Seq(Runes) /\ Len(a \o b \o c) = (Len(a) + Len(b)) + Len(c)
<1>1. a \o b \in Seq(Runes) /\ Len(a \o b) = Len(a) + Len(b)
  OBVIOUS
<1>2. \A ab \in Seq(Runes) : ab \o c \in Seq(Runes) /\ Len(ab \o c) = Len(ab) + Len(c)
  OBVIOUS
<1> QED BY <1>1, <1>2

\* Which part of a text in three parts a cell is of.
LEMMA ThreeParts ==
  ASSUME NEW a \in Seq(Runes), NEW b \in Seq(Runes), NEW c \in Seq(Runes),
         NEW q \in 1 .. (Len(a) + Len(b)) + Len(c)
  PROVE  /\ q =< Len(a) => (a \o b \o c)[q] = a[q]
         /\ q > Len(a) /\ q =< Len(a) + Len(b) => (a \o b \o c)[q] = b[q - Len(a)]
         /\ q > Len(a) + Len(b) => (a \o b \o c)[q] = c[q - (Len(a) + Len(b))]
<1> DEFINE ab == a \o b
<1>1. ab \in Seq(Runes) /\ Len(ab) = Len(a) + Len(b)
  OBVIOUS
<1>2. /\ q =< Len(a) => ab[q] = a[q]
      /\ q > Len(a) /\ q =< Len(a) + Len(b) => ab[q] = b[q - Len(a)]
  OBVIOUS
<1> HIDE DEF ab
<1>3. /\ q =< Len(ab) => (ab \o c)[q] = ab[q]
      /\ q > Len(ab) => (ab \o c)[q] = c[q - Len(ab)]
  BY <1>1
<1> QED BY <1>1, <1>2, <1>3 DEF ab

LEMMA ConvertCells ==
  ASSUME NEW s \in Seq(Runes)
  PROVE  /\ Convert(s) \in Seq(Runes)
         /\ Len(Convert(s)) = Len(s)
         /\ \A k \in 1 .. Len(s) : Convert(s)[k] = Image(s, s[k])
<1>1. \A r \in Runes : Image(s, r) \in Runes
  BY TablesAssumption DEF Image
<1>2. Convert(s) = [k \in 1 .. Len(s) |-> Image(s, s[k])]
  BY DEF Convert
<1>3. \A k \in 1 .. Len(s) : Image(s, s[k]) \in Runes
  BY <1>1
<1> QED BY <1>2, <1>3

\* The buffer is the end of the field, cell by cell.
Aligned(r, f) ==
  /\ Len(r) =< Len(f)
  /\ \A k \in 1 .. Len(r) : f[(Len(f) - Len(r)) + k] = r[k]

LEMMA AlignedIsMirror ==
  ASSUME runes \in Seq(Runes), field \in Seq(Runes)
  PROVE  Aligned(runes, field) <=> Mirror
<1> SUFFICES ASSUME Len(runes) =< Len(field) PROVE Aligned(runes, field) <=> Mirror
  BY DEF Aligned, Mirror
<1> DEFINE d == Len(field) - Len(runes)
           t == Segment(field, d, Len(field))
<1>1. d \in 0 .. Len(field) /\ Len(field) \in d .. Len(field) /\ Len(field) - d = Len(runes)
  OBVIOUS
<1>2. /\ t \in Seq(Runes) /\ Len(t) = Len(runes)
      /\ \A k \in 1 .. Len(runes) : t[k] = field[d + k]
  <2> HIDE DEF d
  <2> QED BY <1>1, SegmentCells
<1>3. (t = runes) <=> \A k \in 1 .. Len(runes) : t[k] = runes[k]
  <2> HIDE DEF t
  <2> QED BY <1>2
<1> QED BY <1>2, <1>3 DEF Aligned, Mirror

\* What is replaced is one range of the buffer, in place, and the same range
\* of the field: the plan's deletions end where the range starts.
LEMMA ReplaceCells ==
  ASSUME runes \in Seq(Runes), field \in Seq(Runes), Aligned(runes, field),
         NEW i \in 0 .. Len(runes), NEW j \in i .. Len(runes), NEW surrounding \in BOOLEAN,
         Replace(i, j, surrounding)
  PROVE  /\ runes' \in Seq(Runes) /\ field' \in Seq(Runes)
         /\ Len(runes') = Len(runes) /\ Len(field') = Len(field)
         /\ Aligned(runes', field')
         /\ \A q \in 1 .. Len(runes) : q =< i \/ q > j => runes'[q] = runes[q]
         /\ \A q \in i + 1 .. j : runes'[q] = Image(Segment(runes, i, j), runes[q])
         /\ \A k \in 1 .. Len(field) - Len(runes) : field'[k] = field[k]
         /\ Recompute(runes')
<1> DEFINE n == Len(runes)
           m == Len(field)
           token == Segment(runes, i, j)
           tail == Segment(runes, j, n)
           head == Segment(runes, 0, i)
           left == Segment(field, 0, m - (n - i))
           new == Convert(token)
<1>1. n \in Nat /\ m \in Nat /\ n =< m /\ i \in 0 .. n /\ j \in i .. n
  BY DEF Aligned
<1>2. token \in Seq(Runes) /\ Len(token) = j - i /\ \A k \in 1 .. j - i : token[k] = runes[i + k]
  BY SegmentCells
<1>3. tail \in Seq(Runes) /\ Len(tail) = n - j /\ \A k \in 1 .. n - j : tail[k] = runes[j + k]
  <2>1. j \in 0 .. Len(runes) /\ n \in j .. Len(runes)
    BY <1>1
  <2> QED BY <2>1, SegmentCells
<1>4. head \in Seq(Runes) /\ Len(head) = i /\ \A k \in 1 .. i : head[k] = runes[k]
  <2>1. 0 \in 0 .. Len(runes) /\ i \in 0 .. Len(runes) /\ i - 0 = i /\ \A k \in 1 .. i : 0 + k = k
    BY <1>1
  <2> QED BY <2>1, SegmentCells
<1>5. m - (n - i) \in 0 .. m
  BY <1>1
<1>6. /\ left \in Seq(Runes) /\ Len(left) = m - (n - i)
      /\ \A k \in 1 .. m - (n - i) : left[k] = field[k]
  <2> DEFINE e == m - (n - i)
  <2>1. 0 \in 0 .. Len(field) /\ e \in 0 .. Len(field) /\ e - 0 = e /\ \A k \in 1 .. e : 0 + k = k
    BY <1>5, <1>1
  <2> HIDE DEF e
  <2>2. /\ Segment(field, 0, e) \in Seq(Runes) /\ Len(Segment(field, 0, e)) = e
        /\ \A k \in 1 .. e : Segment(field, 0, e)[k] = field[k]
    BY <2>1, SegmentCells
  <2> QED BY <2>2 DEF e
<1>7. /\ new \in Seq(Runes) /\ Len(new) = j - i
      /\ \A k \in 1 .. j - i : new[k] = Image(token, token[k])
  <2> HIDE DEF token
  <2> QED BY <1>2, ConvertCells
<1>8. /\ field' = left \o new \o tail
      /\ runes' = head \o new \o tail
      /\ Recompute(runes')
  <2>1. Deletes(token, tail) = n - i
    BY <1>1, <1>2, <1>3 DEF Deletes
  <2>2. m - Deletes(token, tail) = m - (n - i)
    BY <2>1
  <2> QED BY <2>2 DEF Replace, Spliced
<1> HIDE DEF token, tail, head, left, new
<1>9. runes' \in Seq(Runes) /\ field' \in Seq(Runes)
  BY <1>3, <1>4, <1>6, <1>7, <1>8
<1>10. Len(runes') = n /\ Len(field') = m
  <2>1. Len(runes') = (Len(head) + Len(new)) + Len(tail)
    <3>1. head \in Seq(Runes) /\ new \in Seq(Runes) /\ tail \in Seq(Runes)
      BY <1>3, <1>4, <1>7
    <3> QED BY <1>8, <3>1, ThreeLengths
  <2>2. Len(field') = (Len(left) + Len(new)) + Len(tail)
    <3>1. left \in Seq(Runes) /\ new \in Seq(Runes) /\ tail \in Seq(Runes)
      BY <1>3, <1>6, <1>7
    <3> QED BY <1>8, <3>1, ThreeLengths
  <2>3. (i + (j - i)) + (n - j) = n /\ ((m - (n - i)) + (j - i)) + (n - j) = m
    BY <1>1
  <2> QED BY <1>3, <1>4, <1>6, <1>7, <2>1, <2>2, <2>3
<1>11. \A q \in 1 .. n :
         /\ q =< i => runes'[q] = runes[q]
         /\ q > i /\ q =< j => runes'[q] = new[q - i]
         /\ q > j => runes'[q] = runes[q]
  <2> SUFFICES ASSUME NEW q \in 1 .. n
               PROVE  /\ q =< i => runes'[q] = runes[q]
                      /\ q > i /\ q =< j => runes'[q] = new[q - i]
                      /\ q > j => runes'[q] = runes[q]
    OBVIOUS
  <2>0. q \in 1 .. (Len(head) + Len(new)) + Len(tail) /\ Len(head) + Len(new) = j
    BY <1>1, <1>3, <1>4, <1>7
  <2>1. /\ q =< Len(head) => runes'[q] = head[q]
        /\ q > Len(head) /\ q =< Len(head) + Len(new) => runes'[q] = new[q - Len(head)]
        /\ q > Len(head) + Len(new) => runes'[q] = tail[q - (Len(head) + Len(new))]
    <3>1. head \in Seq(Runes) /\ new \in Seq(Runes) /\ tail \in Seq(Runes)
      BY <1>3, <1>4, <1>7
    <3> QED BY <1>8, <2>0, <3>1, ThreeParts
  <2>2. q > i /\ q =< j => runes'[q] = new[q - i]
    BY <1>4, <2>0, <2>1
  <2>3. q > j => runes'[q] = tail[q - j]
    BY <2>0, <2>1
  <2>4. q > j => q - j \in 1 .. n - j /\ j + (q - j) = q
    BY <1>1
  <2> QED BY <1>1, <1>3, <1>4, <2>1, <2>2, <2>3, <2>4
<1>12. \A k \in 1 .. n : field'[(m - n) + k] = runes'[k]
  <2> SUFFICES ASSUME NEW k \in 1 .. n PROVE field'[(m - n) + k] = runes'[k]
    OBVIOUS
  <2> DEFINE q == (m - n) + k
  <2>1. q \in 1 .. m /\ field[q] = runes[k]
    BY <1>1 DEF Aligned
  <2>0. /\ Len(left) + Len(new) = (m - (n - i)) + (j - i)
        /\ q \in 1 .. (Len(left) + Len(new)) + Len(tail)
    <3>1. ((m - (n - i)) + (j - i)) + (n - j) = m
      BY <1>1
    <3> HIDE DEF q, m, n
    <3> QED BY <1>3, <1>6, <1>7, <2>1, <3>1
  <2>p. /\ q =< Len(left) => field'[q] = left[q]
        /\ q > Len(left) /\ q =< Len(left) + Len(new) => field'[q] = new[q - Len(left)]
        /\ q > Len(left) + Len(new) => field'[q] = tail[q - (Len(left) + Len(new))]
    <3>1. left \in Seq(Runes) /\ new \in Seq(Runes) /\ tail \in Seq(Runes)
      BY <1>3, <1>6, <1>7
    <3> HIDE DEF q
    <3>2. LET t == left \o new \o tail
          IN  /\ q =< Len(left) => t[q] = left[q]
              /\ q > Len(left) /\ q =< Len(left) + Len(new) => t[q] = new[q - Len(left)]
              /\ q > Len(left) + Len(new) => t[q] = tail[q - (Len(left) + Len(new))]
      BY <2>0, <3>1, ThreeParts
    <3> QED BY <1>8, <3>2
  <2>2. CASE k =< i
    <3>1. q \in 1 .. m - (n - i)
      BY <1>1, <2>2
    <3>2. field'[q] = left[q]
      <4>1. q =< Len(left)
        BY <1>6, <3>1
      <4> HIDE DEF q
      <4> QED BY <2>p, <4>1
    <3> HIDE DEF q
    <3>3. field'[q] = field[q]
      BY <1>6, <3>1, <3>2
    <3> QED BY <1>11, <2>1, <2>2, <3>3 DEF q
  <2>3. CASE k > i /\ k =< j
    <3>1. field'[q] = new[q - (m - (n - i))]
      <4>1. q > Len(left) /\ q =< Len(left) + Len(new)
        BY <1>1, <1>6, <2>0, <2>3
      <4> HIDE DEF q
      <4>2. field'[q] = new[q - Len(left)]
        BY <2>p, <4>1
      <4> QED BY <1>6, <4>2
    <3>2. q - (m - (n - i)) = k - i
      BY <1>1
    <3> QED BY <1>11, <2>3, <3>1, <3>2
  <2>4. CASE k > j
    <3>1. field'[q] = tail[q - ((m - (n - i)) + (j - i))]
      <4>1. q > Len(left) + Len(new)
        BY <1>1, <2>0, <2>4
      <4> HIDE DEF q
      <4>2. field'[q] = tail[q - (Len(left) + Len(new))]
        BY <2>p, <4>1
      <4> QED BY <2>0, <4>2
    <3>2. q - ((m - (n - i)) + (j - i)) = k - j /\ k - j \in 1 .. n - j /\ j + (k - j) = k
      BY <1>1, <2>4
    <3>3. field'[q] = runes[k]
      BY <1>3, <3>1, <3>2
    <3> QED BY <1>11, <2>4, <3>3
  <2> QED BY <1>1, <2>2, <2>3, <2>4
<1>13. \A q \in i + 1 .. j : runes'[q] = Image(token, runes[q])
  <2> TAKE q \in i + 1 .. j
  <2>1. q \in 1 .. n /\ q > i /\ q =< j /\ q - i \in 1 .. j - i /\ i + (q - i) = q
    BY <1>1
  <2>2. token[q - i] = runes[q]
    BY <1>2, <2>1
  <2>3. new[q - i] = Image(token, token[q - i])
    BY <1>7, <2>1
  <2> QED BY <1>11, <2>1, <2>2, <2>3
<1>14. Aligned(runes', field')
  BY <1>1, <1>10, <1>12 DEF Aligned
<1>15. \A k \in 1 .. m - n : field'[k] = field[k]
  <2> TAKE k \in 1 .. m - n
  <2>1. k \in 1 .. m - (n - i) /\ k \in 1 .. (Len(left) + Len(new)) + Len(tail) /\ k =< Len(left)
    BY <1>1, <1>3, <1>6, <1>7
  <2>2. left \in Seq(Runes) /\ new \in Seq(Runes) /\ tail \in Seq(Runes)
    BY <1>3, <1>6, <1>7
  <2>3. field'[k] = left[k]
    BY <1>8, <2>1, <2>2, ThreeParts
  <2> QED BY <1>6, <2>1, <2>3
<1> QED BY <1>1, <1>8, <1>9, <1>10, <1>11, <1>13, <1>14, <1>15 DEF token

(***************************************************************************)
(* The buffer.                                                             *)
(***************************************************************************)
IInv ==
  /\ runes \in Seq(Runes) /\ field \in Seq(Runes)
  /\ Marks(runes, curStart, lastStart, lastLen)
  /\ Aligned(runes, field)

\* The active range lies in the buffer, and its stretch around it.
LEMMA ActiveRange ==
  ASSUME IInv
  PROVE  /\ ActiveStart \in 0 .. Len(runes) /\ ActiveEnd \in ActiveStart .. Len(runes)
         /\ StretchStart \in 0 .. ActiveStart
         /\ \A q \in StretchStart + 1 .. ActiveStart : TablePosition(runes[q])
         /\ StretchStart > 0 => ~TablePosition(runes[StretchStart])
         /\ StretchEnd \in ActiveEnd .. Len(runes)
         /\ \A q \in ActiveEnd + 1 .. StretchEnd : TablePosition(runes[q])
         /\ StretchEnd < Len(runes) => ~TablePosition(runes[StretchEnd + 1])
<1> DEFINE n == Len(runes)
           from == ActiveStart
           to == ActiveEnd
<1>1. n \in Nat /\ from \in 0 .. n /\ to \in from .. n
  <2>1. n \in Nat
    BY DEF IInv
  <2>2. /\ curStart \in 0 .. n /\ lastStart \in 0 .. n /\ lastLen \in 0 .. n
        /\ lastStart + lastLen =< curStart
    BY DEF IInv, Marks
  <2> QED BY <2>1, <2>2 DEF ActiveStart, ActiveEnd
<1>2. /\ StretchStart \in 0 .. from
      /\ \A q \in StretchStart + 1 .. from : TablePosition(runes[q])
      /\ StretchStart > 0 => ~TablePosition(runes[StretchStart])
  <2> DEFINE B == {p \in Nat : ~TablePosition(runes[p])}
  <2>1. from \in Nat
    BY <1>1
  <2>2. \E j \in 0 .. from : (\A q \in j + 1 .. from : q \notin B) /\ (j > 0 => j \in B)
    <3> HIDE DEF from, B
    <3> QED BY <2>1, RunToTheLeft
  <2>3. \E j \in 0 .. from : /\ \A q \in j + 1 .. from : TablePosition(runes[q])
                             /\ j > 0 => ~TablePosition(runes[j])
    BY <2>1, <2>2
  <2> QED BY <2>3 DEF StretchStart
<1>3. /\ StretchEnd \in to .. n
      /\ \A q \in to + 1 .. StretchEnd : TablePosition(runes[q])
      /\ StretchEnd < n => ~TablePosition(runes[StretchEnd + 1])
  <2> DEFINE B == {p \in Nat : ~TablePosition(runes[p])}
  <2>1. to \in 0 .. n
    BY <1>1
  <2>2. \E j \in to .. n : (\A q \in to + 1 .. j : q \notin B) /\ (j < n => j + 1 \in B)
    <3>1. n \in Nat
      BY <1>1
    <3> HIDE DEF to, B, n
    <3>2. \A C : \E j \in to .. n : (\A q \in to + 1 .. j : q \notin C) /\ (j < n => j + 1 \in C)
      BY <2>1, <3>1, RunToTheRight
    <3> QED BY <3>2
  <2>3. \E j \in to .. n : /\ \A q \in to + 1 .. j : TablePosition(runes[q])
                           /\ j < n => ~TablePosition(runes[j + 1])
    BY <1>1, <2>1, <2>2
  <2> QED BY <2>3 DEF StretchEnd
<1> QED BY <1>1, <1>2, <1>3

LEMMA Initially == Init => IInv
<1> SUFFICES ASSUME Init PROVE IInv
  OBVIOUS
<1>1. <<>> \in Seq(Runes) /\ Len(<<>>) = 0
  OBVIOUS
<1>2. Marks(<<>>, 0, 0, 0)
  BY <1>1 DEF Marks
<1>3. Aligned(<<>>, <<>>)
  BY <1>1 DEF Aligned
<1> QED BY <1>1, <1>2, <1>3 DEF Init, IInv

LEMMA PushKeeps ==
  ASSUME IInv, NEW r \in Runes, Push(r)
  PROVE  IInv'
<1>1. PushFeed(r)
  BY DEF Push
<1>2. runes' \in Seq(Runes) /\ field' \in Seq(Runes)
  BY <1>1 DEF IInv, PushFeed
<1>3. Marks(runes', curStart', lastStart', lastLen')
  BY <1>1, PushMarks DEF IInv
<1>4. Aligned(runes', field')
  <2> DEFINE n == Len(runes)
             m == Len(field)
  <2>1. /\ n \in Nat /\ m \in Nat /\ n =< m
        /\ \A k \in 1 .. n : field[(m - n) + k] = runes[k]
    BY DEF IInv, Aligned
  <2>2. /\ Len(runes') = n + 1 /\ runes'[n + 1] = r
        /\ \A k \in 1 .. n : runes'[k] = runes[k]
    BY <1>1 DEF IInv, PushFeed
  <2>3. /\ Len(field') = m + 1 /\ field'[m + 1] = r
        /\ \A k \in 1 .. m : field'[k] = field[k]
    BY <1>1 DEF IInv, PushFeed
  <2>4. (m + 1) - (n + 1) = m - n /\ (m - n) + (n + 1) = m + 1
    BY <2>1
  <2>5. \A k \in 1 .. n : (m - n) + k \in 1 .. m
    BY <2>1
  <2> HIDE DEF n, m
  <2>6. \A k \in 1 .. n + 1 : k \in 1 .. n \/ k = n + 1
    BY <2>1
  <2>7. \A k \in 1 .. n + 1 : field'[(m - n) + k] = runes'[k]
    BY <2>1, <2>2, <2>3, <2>4, <2>5, <2>6
  <2>8. n + 1 =< m + 1
    BY <2>1
  <2> QED BY <2>2, <2>3, <2>4, <2>7, <2>8 DEF Aligned
<1> QED BY <1>2, <1>3, <1>4 DEF IInv

\* Taking the last cell off a text.
LEMMA Shortened ==
  ASSUME NEW s \in Seq(Runes), s # <<>>
  PROVE  LET t == Segment(s, 0, Len(s) - 1) IN
         /\ t \in Seq(Runes) /\ Len(s) \in Nat \ {0} /\ Len(t) = Len(s) - 1
         /\ \A k \in 1 .. Len(s) - 1 : t[k] = s[k]
<1>1. Len(s) \in Nat \ {0}
  OBVIOUS
<1> DEFINE e == Len(s) - 1
<1>2. 0 \in 0 .. Len(s) /\ e \in 0 .. Len(s) /\ e - 0 = e /\ \A k \in 1 .. e : 0 + k = k
  BY <1>1
<1> HIDE DEF e
<1>3. /\ Segment(s, 0, e) \in Seq(Runes) /\ Len(Segment(s, 0, e)) = e
      /\ \A k \in 1 .. e : Segment(s, 0, e)[k] = s[k]
  BY <1>2, SegmentCells
<1> QED BY <1>1, <1>3 DEF e

LEMMA BackspaceKeeps ==
  ASSUME IInv, Backspace
  PROVE  IInv'
<1> DEFINE n == Len(runes)
           m == Len(field)
<1>1. /\ runes \in Seq(Runes) /\ field \in Seq(Runes) /\ field # <<>>
      /\ field' = Segment(field, 0, m - 1)
  BY DEF IInv, Backspace
<1>2. /\ n \in Nat /\ m \in Nat /\ n =< m
      /\ \A k \in 1 .. n : field[(m - n) + k] = runes[k]
  BY DEF IInv, Aligned
<1>3. /\ field' \in Seq(Runes) /\ m \in Nat \ {0} /\ Len(field') = m - 1
      /\ \A k \in 1 .. m - 1 : field'[k] = field[k]
  BY <1>1, Shortened
<1>4. CASE runes = <<>>
  <2>1. UNCHANGED <<runes, curStart, lastStart, lastLen>>
    BY <1>4 DEF Backspace
  <2>2. Aligned(runes', field')
    BY <1>3, <1>4, <2>1 DEF Aligned
  <2> QED BY <1>3, <2>1, <2>2 DEF IInv
<1>5. CASE runes # <<>>
  <2>1. runes' = Segment(runes, 0, n - 1) /\ Recompute(runes')
    BY <1>5 DEF Backspace
  <2>2. /\ runes' \in Seq(Runes) /\ n \in Nat \ {0} /\ Len(runes') = n - 1
        /\ \A k \in 1 .. n - 1 : runes'[k] = runes[k]
    BY <1>1, <1>5, <2>1, Shortened
  <2>3. Marks(runes', curStart', lastStart', lastLen')
    BY <2>1, <2>2, RecomputeMarks
  <2>4. (m - 1) - (n - 1) = m - n /\ \A k \in 1 .. n - 1 : (m - n) + k \in 1 .. m - 1
    BY <1>2, <2>2
  <2> HIDE DEF n, m
  <2>5. \A k \in 1 .. n - 1 : k \in 1 .. n
    BY <1>2
  <2>6. \A k \in 1 .. n - 1 : field'[(m - n) + k] = runes'[k]
    BY <1>2, <1>3, <2>2, <2>4, <2>5
  <2>7. n - 1 =< m - 1
    BY <1>2
  <2>8. Aligned(runes', field')
    BY <1>3, <2>2, <2>4, <2>6, <2>7 DEF Aligned
  <2> QED BY <1>3, <2>2, <2>3, <2>8 DEF IInv
<1> QED BY <1>4, <1>5

LEMMA ResetKeeps ==
  ASSUME IInv, HardReset
  PROVE  IInv'
<1>1. /\ runes' = <<>> /\ field' = field /\ curStart' = 0 /\ lastStart' = 0 /\ lastLen' = 0
      /\ field \in Seq(Runes)
  BY DEF IInv, HardReset
<1>2. <<>> \in Seq(Runes) /\ Len(<<>>) = 0 /\ Len(field) >= 0
  BY <1>1
<1>3. Marks(<<>>, 0, 0, 0)
  BY <1>2 DEF Marks
<1>4. Aligned(<<>>, field)
  BY <1>2 DEF Aligned
<1> QED BY <1>1, <1>2, <1>3, <1>4 DEF IInv

LEMMA ReplaceKeeps ==
  ASSUME IInv, NEW i \in 0 .. Len(runes), NEW j \in i .. Len(runes), NEW surrounding \in BOOLEAN,
         Replace(i, j, surrounding)
  PROVE  IInv'
<1>1. runes' \in Seq(Runes) /\ field' \in Seq(Runes) /\ Aligned(runes', field') /\ Recompute(runes')
  BY ReplaceCells DEF IInv
<1>2. Marks(runes', curStart', lastStart', lastLen')
  BY <1>1, RecomputeMarks
<1> QED BY <1>1, <1>2 DEF IInv

LEMMA Inductive == IInv /\ [Next]_vars => IInv'
<1> SUFFICES ASSUME IInv, [Next]_vars PROVE IInv'
  OBVIOUS
<1>1. CASE UNCHANGED vars
  BY <1>1 DEF IInv, vars
<1>2. ASSUME NEW r \in Runes, Push(r) PROVE IInv'
  BY <1>2, PushKeeps
<1>3. CASE Backspace
  BY <1>3, BackspaceKeeps
<1>4. CASE HardReset
  BY <1>4, ResetKeeps
<1>5. ASSUME NEW surrounding \in BOOLEAN, CorrectStretch(surrounding) PROVE IInv'
  <2>1. StretchStart \in 0 .. Len(runes) /\ StretchEnd \in StretchStart .. Len(runes)
    BY ActiveRange
  <2> QED BY <1>5, <2>1, ReplaceKeeps DEF CorrectStretch
<1>6. ASSUME NEW surrounding \in BOOLEAN, CorrectToken(surrounding) PROVE IInv'
  <2>1. ActiveStart \in 0 .. Len(runes) /\ ActiveEnd \in ActiveStart .. Len(runes)
    BY ActiveRange
  <2> QED BY <1>6, <2>1, ReplaceKeeps DEF CorrectToken
<1>7. ASSUME NEW surrounding \in BOOLEAN, CorrectPhrase(surrounding) PROVE IInv'
  <2>1. 0 \in 0 .. Len(runes) /\ Len(runes) \in 0 .. Len(runes)
    BY DEF IInv
  <2> QED BY <1>7, <2>1, ReplaceKeeps DEF CorrectPhrase
<1> QED BY <1>1, <1>2, <1>3, <1>4, <1>5, <1>6, <1>7 DEF Next

LEMMA InGoodOrder == IInv => BufferInv
<1> SUFFICES ASSUME IInv PROVE BufferInv
  OBVIOUS
<1>1. TypeOK /\ Coordinates
  BY DEF IInv, Marks, TypeOK, Coordinates
<1>2. Mirror
  BY AlignedIsMirror DEF IInv
<1> QED BY <1>1, <1>2 DEF BufferInv

\* buffer.go: whatever is typed, erased, reset and corrected, the token
\* coordinates kept by PushFeed are those recompute would find, and the buffer
\* is the end of the client's text.
THEOREM BufferIsTrue == Spec => []BufferInv
<1> QED BY Initially, Inductive, InGoodOrder, PTL DEF Spec

(***************************************************************************)
(* The word a double tap corrects.                                         *)
(***************************************************************************)
\* No letter is its own image.
LEMMA LettersChange ==
  ASSUME NEW s, Converts(s), NEW q \in DOMAIN s, s[q] \in Letters
  PROVE  Image(s, s[q]) # s[q]
<1> DEFINE r == s[q]
<1>1. CASE r \in Latin
  <2>1. r \in DOMAIN ENToRU /\ r \notin Cyrillic /\ r \notin DOMAIN RUToEN
    BY <1>1, RunesAssumption, PositionsAssumption DEF Converts
  <2>2. ENToRU[r] \in DOMAIN RUToEN
    BY <2>1, PositionsAssumption
  <2>3. Occur(s, Latin)
    BY <1>1 DEF Occur
  <2>4. Image(s, r) = ENToRU[r]
    BY <2>1, <2>3 DEF Image
  <2> QED BY <2>1, <2>2, <2>4
<1>2. CASE r \in Cyrillic
  <2>1. r \in DOMAIN RUToEN /\ r \notin DOMAIN ENToRU
    BY <1>2, PositionsAssumption DEF Converts
  <2>2. RUToEN[r] \in DOMAIN ENToRU
    BY <2>1, PositionsAssumption
  <2>3. Occur(s, Cyrillic)
    BY <1>2 DEF Occur
  <2>4. Image(s, r) = RUToEN[r]
    BY <1>2, <2>1, <2>3 DEF Image
  <2> QED BY <2>1, <2>2, <2>4
<1> QED BY <1>1, <1>2 DEF Letters

\* The active range is a token with nothing but boundary runes after it.
LEMMA ActiveIsToken ==
  ASSUME IInv, Tokened
  PROVE  /\ ActiveStart < ActiveEnd
         /\ \A q \in ActiveStart + 1 .. ActiveEnd : TokenCapable(runes[q])
         /\ ActiveStart > 0 => ~TokenCapable(runes[ActiveStart])
         /\ \A q \in ActiveEnd + 1 .. Len(runes) : ~TokenCapable(runes[q])
<1>1. /\ Len(runes) \in Nat /\ Marks(runes, curStart, lastStart, lastLen)
      /\ curStart < Len(runes) \/ lastLen > 0
  BY DEF IInv, Tokened, HasToken
<1>2. CASE curStart < Len(runes)
  BY <1>1, <1>2 DEF Marks, ActiveStart, ActiveEnd
<1>3. CASE ~(curStart < Len(runes))
  <2>1. curStart = Len(runes) /\ lastLen > 0 /\ lastLen \in Nat /\ lastStart \in Nat
    BY <1>1, <1>3 DEF Marks
  <2>2. ActiveStart = lastStart /\ ActiveEnd = lastStart + lastLen
    BY <1>3 DEF ActiveStart, ActiveEnd
  <2>3. IsToken(runes, lastStart, lastStart + lastLen)
    BY <1>1, <2>1 DEF Marks
  <2>4. \A q \in lastStart + lastLen + 1 .. Len(runes) : ~TokenCapable(runes[q])
    BY <1>1, <2>1 DEF Marks
  <2> QED BY <2>2, <2>3, <2>4 DEF IsToken
<1> QED BY <1>2, <1>3

\* It is the last token of the text.
LEMMA ActiveIsLast ==
  ASSUME IInv, Tokened, NEW q \in DOMAIN runes
  PROVE  InLastToken(q) <=> q \in ActiveStart + 1 .. ActiveEnd
<1> DEFINE a == ActiveStart
           e == ActiveEnd
           n == Len(runes)
<1>1. n \in Nat /\ DOMAIN runes = 1 .. n /\ a \in 0 .. n /\ e \in a .. n
  BY ActiveRange DEF IInv
<1>2. /\ a < e /\ \A g \in a + 1 .. e : TokenCapable(runes[g])
      /\ a > 0 => ~TokenCapable(runes[a])
      /\ \A g \in e + 1 .. n : ~TokenCapable(runes[g])
  BY ActiveIsToken
<1> HIDE DEF a, e, n
<1>3. CASE q \in a + 1 .. e
  <2>1. TokenCapable(runes[q])
    BY <1>2, <1>3
  <2>2. ASSUME NEW h \in 1 .. n, NEW g \in 1 .. n, q < h, h < g,
               ~TokenCapable(runes[h]), TokenCapable(runes[g])
        PROVE  FALSE
    <3>1. h > e
      <4> SUFFICES ASSUME ~(h > e) PROVE FALSE
        OBVIOUS
      <4>1. h \in a + 1 .. e
        BY <1>1, <1>3, <2>2
      <4> QED BY <1>2, <2>2, <4>1
    <3>2. g \in e + 1 .. n
      BY <1>1, <2>2, <3>1
    <3> QED BY <1>2, <2>2, <3>2
  <2>3. InLastToken(q)
    BY <1>1, <2>1, <2>2 DEF InLastToken
  <2> QED BY <1>3, <2>3 DEF a, e
<1>4. CASE q \notin a + 1 .. e
  <2>1. ~InLastToken(q)
    <3>1. CASE q > e
      <4>1. q \in e + 1 .. n
        BY <1>1, <3>1
      <4> QED BY <1>2, <4>1 DEF InLastToken
    <3>2. CASE q = a
      BY <1>1, <1>2, <3>2 DEF InLastToken
    <3>3. CASE q < a
      <4>1. /\ a \in 1 .. n /\ a + 1 \in 1 .. n /\ a < a + 1 /\ a + 1 \in a + 1 .. e
        BY <1>1, <1>2, <3>3
      <4>2. ~TokenCapable(runes[a]) /\ TokenCapable(runes[a + 1])
        BY <1>2, <4>1
      <4> QED BY <1>1, <3>3, <4>1, <4>2 DEF InLastToken
    <3>4. q > e \/ q = a \/ q < a
      BY <1>1, <1>4
    <3> QED BY <3>1, <3>2, <3>3, <3>4
  <2> QED BY <1>4, <2>1 DEF a, e
<1> QED BY <1>3, <1>4

\* And the walks find the whole of its stretch.
LEMMA StretchIsWhole ==
  ASSUME IInv, Tokened, NEW q \in DOMAIN runes
  PROVE  InStretch(q) <=> q \in StretchStart + 1 .. StretchEnd
<1> DEFINE a == ActiveStart
           e == ActiveEnd
           n == Len(runes)
           i == StretchStart
           j == StretchEnd
<1>1. /\ n \in Nat /\ DOMAIN runes = 1 .. n /\ a \in 0 .. n /\ e \in a .. n
      /\ i \in 0 .. a /\ j \in e .. n
  BY ActiveRange DEF IInv
<1>2. /\ \A g \in i + 1 .. a : TablePosition(runes[g])
      /\ i > 0 => ~TablePosition(runes[i])
      /\ \A g \in e + 1 .. j : TablePosition(runes[g])
      /\ j < n => ~TablePosition(runes[j + 1])
  BY ActiveRange
<1>3. a < e
  BY ActiveIsToken
<1>4. \A g \in 1 .. n : InLastToken(g) <=> g \in a + 1 .. e
  BY <1>1, ActiveIsLast
<1>5. q \in 1 .. n
  BY <1>1
<1> HIDE DEF a, e, n, i, j
<1>6. ASSUME InStretch(q) PROVE q \in i + 1 .. j
  <2>1. PICK w \in 1 .. n :
          /\ InLastToken(w)
          /\ \A g \in 1 .. n : Between(g, q, w) => TablePosition(runes[g]) \/ InLastToken(g)
    BY <1>1, <1>6 DEF InStretch
  <2>2. w \in a + 1 .. e
    BY <1>4, <2>1
  <2>3. ASSUME q =< i PROVE FALSE
    <3>1. i \in 1 .. n /\ i > 0 /\ Between(i, q, w) /\ i \notin a + 1 .. e
      BY <1>1, <1>5, <2>2, <2>3 DEF Between
    <3> QED BY <1>2, <1>4, <2>1, <3>1
  <2>4. ASSUME q > j PROVE FALSE
    <3>1. j + 1 \in 1 .. n /\ j < n /\ Between(j + 1, q, w) /\ j + 1 \notin a + 1 .. e
      BY <1>1, <1>5, <2>2, <2>4 DEF Between
    <3> QED BY <1>2, <1>4, <2>1, <3>1
  <2> QED BY <1>1, <1>5, <2>3, <2>4
<1>7. ASSUME q \in i + 1 .. j PROVE InStretch(q)
  <2>1. ASSUME NEW w \in a + 1 .. e,
               \A g \in 1 .. n : Between(g, q, w) => g \in i + 1 .. a \/ g \in a + 1 .. e \/ g \in e + 1 .. j
        PROVE  InStretch(q)
    <3>1. w \in 1 .. n /\ InLastToken(w)
      BY <1>1, <1>4
    <3>2. \A g \in 1 .. n : Between(g, q, w) => TablePosition(runes[g]) \/ InLastToken(g)
      BY <1>2, <1>4, <2>1
    <3> QED BY <1>1, <3>1, <3>2 DEF InStretch
  <2>2. CASE q =< a
    <3>1. /\ a + 1 \in a + 1 .. e
          /\ \A g \in 1 .. n : Between(g, q, a + 1) => g \in i + 1 .. a \/ g \in a + 1 .. e
      BY <1>1, <1>3, <1>5, <1>7, <2>2 DEF Between
    <3> QED BY <2>1, <3>1
  <2>3. CASE q \in a + 1 .. e
    <3>1. \A g \in 1 .. n : Between(g, q, q) => g \in a + 1 .. e
      BY <1>1, <1>5, <2>3 DEF Between
    <3> QED BY <2>1, <2>3, <3>1
  <2>4. CASE q > e
    <3>1. /\ e \in a + 1 .. e
          /\ \A g \in 1 .. n : Between(g, q, e) => g \in a + 1 .. e \/ g \in e + 1 .. j
      BY <1>1, <1>3, <1>5, <1>7, <2>4 DEF Between
    <3> QED BY <2>1, <3>1
  <2> QED BY <1>1, <1>5, <2>2, <2>3, <2>4
<1> QED BY <1>6, <1>7 DEF i, j

\* The property's formula for one step.
LEMMA StretchStep ==
  ASSUME IInv, NEW surrounding \in BOOLEAN, CorrectStretch(surrounding)
  PROVE  RewritesTheStretch
<1> DEFINE i == StretchStart
           j == StretchEnd
           token == Segment(runes, i, j)
<1>1. /\ Len(runes) \in Nat /\ DOMAIN runes = 1 .. Len(runes)
      /\ runes \in Seq(Runes) /\ field \in Seq(Runes) /\ Aligned(runes, field)
  BY DEF IInv
<1>2. i \in 0 .. Len(runes) /\ j \in i .. Len(runes)
  BY ActiveRange
<1>3. Tokened /\ Replace(i, j, surrounding)
  BY DEF CorrectStretch
<1>4. \A q \in DOMAIN runes : InStretch(q) <=> q \in i + 1 .. j
  BY <1>3, StretchIsWhole
<1> HIDE DEF i, j
<1>5. /\ Len(runes') = Len(runes) /\ Len(field') = Len(field)
      /\ \A q \in 1 .. Len(runes) : q =< i \/ q > j => runes'[q] = runes[q]
      /\ \A q \in i + 1 .. j : runes'[q] = Image(token, runes[q])
      /\ \A k \in 1 .. Len(field) - Len(runes) : field'[k] = field[k]
  BY <1>1, <1>2, <1>3, ReplaceCells
<1>6. Converts(token) /\ runes' = Spliced(runes, i, j, Convert(token))
  BY <1>3 DEF Replace
<1>7. token \in Seq(Runes) /\ Len(token) = j - i /\ \A k \in 1 .. j - i : token[k] = runes[i + k]
  BY <1>1, <1>2, SegmentCells
<1>8. ASSUME NEW q \in i + 1 .. j, runes[q] \in Letters
      PROVE  runes'[q] # runes[q]
  <2>1. q - i \in 1 .. j - i /\ i + (q - i) = q
    BY <1>1, <1>2
  <2>2. q - i \in DOMAIN token /\ token[q - i] = runes[q]
    <3> HIDE DEF token
    <3> QED BY <1>7, <2>1
  <2>3. Image(token, token[q - i]) # token[q - i]
    <3> HIDE DEF token
    <3> QED BY <1>6, <1>8, <2>2, LettersChange
  <2>4. runes'[q] = Image(token, runes[q])
    BY <1>5
  <2> HIDE DEF token
  <2> QED BY <2>2, <2>3, <2>4
<1>9. \A q \in DOMAIN runes : q \in i + 1 .. j \/ q =< i \/ q > j
  BY <1>1, <1>2
<1>10. i \in 0 .. Len(runes) /\ j \in 0 .. Len(runes)
  BY <1>1, <1>2
<1>11. \E x, y \in 0 .. Len(runes) :
         /\ \A q \in DOMAIN runes : InStretch(q) <=> q \in x + 1 .. y
         /\ runes' = Spliced(runes, x, y, Convert(Segment(runes, x, y)))
  BY <1>4, <1>6, <1>10
<1>12. \A q \in DOMAIN runes : InStretch(q) /\ runes[q] \in Letters => runes'[q] # runes[q]
  BY <1>4, <1>8
<1>13. \A q \in DOMAIN runes : ~InStretch(q) => runes'[q] = runes[q]
  BY <1>1, <1>4, <1>5, <1>9
<1> QED BY <1>5, <1>11, <1>12, <1>13 DEF RewritesTheStretch

\* stretch.go: whatever is typed and corrected before, a double tap rewrites
\* the stretch of the text's last token, all of it and no cell beyond.
THEOREM TheWholeWord == Spec => WordAndItsStretch
<1> DEFINE OneStep == \A surrounding \in BOOLEAN : CorrectStretch(surrounding) => RewritesTheStretch
<1>1. IInv => OneStep
  BY StretchStep
<1>2. IInv /\ [Next]_vars => [OneStep]_vars
  BY <1>1
<1>3. Spec => [][OneStep]_vars
  <2> HIDE DEF OneStep
  <2> QED BY Initially, Inductive, <1>2, PTL DEF Spec
<1> QED BY <1>3 DEF WordAndItsStretch

(***************************************************************************)
(* The second correction.                                                  *)
(***************************************************************************)
\* A text is its cells.
LEMMA SameCells ==
  ASSUME NEW s \in Seq(Runes), NEW t \in Seq(Runes), Len(s) = Len(t),
         \A k \in 1 .. Len(s) : s[k] = t[k]
  PROVE  s = t
  OBVIOUS

\* Converting a text of one layout table by table, there and back.
LEMMA ThereAndBack ==
  ASSUME NEW s \in Seq(Runes), OneLayout(s), KeepsALetter(s), Converts(s)
  PROVE  Converts(Convert(s)) /\ Convert(Convert(s)) = s
<1> DEFINE c == Convert(s)
           n == Len(s)
<1>1. n \in Nat /\ DOMAIN s = 1 .. n /\ DOMAIN c = 1 .. n
  BY ConvertCells
<1>2. /\ c \in Seq(Runes) /\ Len(c) = n
      /\ \A k \in 1 .. n : c[k] = Image(s, s[k])
  BY ConvertCells
<1>3. /\ Convert(c) \in Seq(Runes) /\ Len(Convert(c)) = n
      /\ \A k \in 1 .. n : Convert(c)[k] = Image(c, c[k])
  <2> HIDE DEF c
  <2> QED BY <1>2, ConvertCells
<1>4. PICK i \in 1 .. n : s[i] \in Letters /\ c[i] \in Letters
  BY <1>1 DEF KeepsALetter, Again
<1>5. \A k \in 1 .. n : /\ s[k] \in Latin => s[k] \in DOMAIN ENToRU
                        /\ s[k] \in Cyrillic => s[k] \in DOMAIN RUToEN
  BY <1>1 DEF Converts
<1> HIDE DEF c, n
<1>6. CASE /\ ~Occur(s, Cyrillic)
           /\ \A k \in DOMAIN s : TablePosition(s[k]) => s[k] \in DOMAIN ENToRU
  <2>1. \A k \in 1 .. n : s[k] \notin Cyrillic
    BY <1>1, <1>6 DEF Occur
  <2>2. \A k \in 1 .. n : c[k] = IF s[k] \in DOMAIN ENToRU THEN ENToRU[s[k]] ELSE s[k]
    BY <1>2, <1>6 DEF Image
  <2>3. \A k \in 1 .. n : c[k] \notin Latin
    BY <1>5, <2>2, PositionsAssumption
  <2>4. \A k \in 1 .. n : c[k] \in Cyrillic => c[k] \in DOMAIN RUToEN
    BY <2>1, <2>2, PositionsAssumption
  <2>5. Occur(c, Cyrillic) /\ ~Occur(c, Latin)
    BY <1>1, <1>4, <2>3 DEF Occur, Letters
  <2>6. Converts(c)
    BY <1>1, <1>4, <2>3, <2>4 DEF Converts, Occur
  <2>7. \A k \in 1 .. n : Convert(c)[k] = IF c[k] \in DOMAIN RUToEN THEN RUToEN[c[k]] ELSE c[k]
    BY <1>3, <2>5 DEF Image
  <2>8. \A k \in 1 .. n : Convert(c)[k] = s[k]
    BY <1>1, <1>6, <2>2, <2>7, PositionsAssumption DEF TablePosition
  <2> QED BY <1>3, <2>6, <2>8, SameCells DEF n, c
<1>7. CASE /\ ~Occur(s, Latin)
           /\ \A k \in DOMAIN s : TablePosition(s[k]) => s[k] \in DOMAIN RUToEN
  <2>1. \A k \in 1 .. n : s[k] \notin Latin
    BY <1>1, <1>7 DEF Occur
  <2>2. Occur(s, Cyrillic)
    BY <1>1, <1>4, <2>1 DEF Occur, Letters
  <2>3. \A k \in 1 .. n : c[k] = IF s[k] \in DOMAIN RUToEN THEN RUToEN[s[k]] ELSE s[k]
    BY <1>2, <1>7, <2>2 DEF Image
  <2>4. \A k \in 1 .. n : c[k] \notin Cyrillic
    BY <1>5, <2>3, PositionsAssumption
  <2>5. \A k \in 1 .. n : c[k] \in Latin => c[k] \in DOMAIN ENToRU
    BY <2>1, <2>3, PositionsAssumption
  <2>6. ~Occur(c, Cyrillic)
    BY <1>1, <2>4 DEF Occur
  <2>7. Converts(c)
    BY <1>1, <1>4, <2>4, <2>5 DEF Converts, Occur
  <2>8. \A k \in 1 .. n : Convert(c)[k] = IF c[k] \in DOMAIN ENToRU THEN ENToRU[c[k]] ELSE c[k]
    BY <1>3, <2>6 DEF Image
  <2>9. \A k \in 1 .. n : Convert(c)[k] = s[k]
    BY <1>1, <1>7, <2>3, <2>8, PositionsAssumption DEF TablePosition
  <2> QED BY <1>3, <2>7, <2>9, SameCells DEF n, c
<1> QED BY <1>6, <1>7 DEF OneLayout

LEMMA Toggles == IInv => Toggle
<1> SUFFICES ASSUME IInv PROVE Toggle
  OBVIOUS
<1>1. ASSUME Converts(runes), NEW i \in DOMAIN runes, runes[i] \in Letters
      PROVE  Convert(runes)[i] # runes[i]
  <2>1. Convert(runes)[i] = Image(runes, runes[i])
    BY DEF Convert
  <2> QED BY <1>1, <2>1, LettersChange
<1>2. ASSUME OneLayout(runes), KeepsALetter(runes)
      PROVE  Again(Again(runes)) = runes
  <2>1. CASE ~Converts(runes)
    BY <2>1 DEF Again
  <2>2. CASE Converts(runes)
    <3>1. Converts(Convert(runes)) /\ Convert(Convert(runes)) = runes
      BY <1>2, <2>2, ThereAndBack DEF IInv
    <3> QED BY <2>2, <3>1 DEF Again
  <2> QED BY <2>1, <2>2
<1> QED BY <1>1, <1>2 DEF Toggle

\* convert.go: conversion by key position changes every letter, and is a toggle
\* on the text of one layout.
THEOREM CorrectsBack == Spec => []Toggle
<1> QED BY Initially, Inductive, Toggles, PTL DEF Spec

(***************************************************************************)
(* The class.                                                              *)
(***************************************************************************)
Keys == Apps \cup {Peer[w] : w \in Windows}
Slots == [on: BOOLEAN, eng: (Windows \cup {None}) \X Nat, timer: BOOLEAN, calls: SUBSET {"now", "old"}]

\* The focus losses that the flips still owe.
Outs(s) == {i \in DOMAIN s : s[i] = "out"}

ClassTypes ==
  /\ focus \in Windows \cup {None} /\ kept \in Windows \cup {None}
  /\ seen \in Visible \cup {None}
  /\ emitter \in Windows \X Nat
  /\ dead \in BOOLEAN /\ round \in BOOLEAN /\ due \in BOOLEAN
  /\ flap \in Slots /\ aftermath \in Slots
  /\ spent \in [Inputs -> Nat]

CreditOK == own \in Seq({"out", "in"}) /\ credit = Cardinality(Outs(own))

\* A window whose timer runs or whose callback is due is on; the class that is
\* kept is not about to be wiped: only the loss of its focus armed the wipe, and
\* no engine was minted since, so that the return of the focus will cancel it.
FlapOK ==
  /\ flap.timer \/ "now" \in flap.calls => flap.on
  /\ "now" \in flap.calls => kept = None
  /\ flap.on /\ kept # None => focus = None /\ flap.eng = emitter
  /\ kept # None => dead

\* The echo in its time finds the aftermath open.
AftermathOK == due => aftermath.on /\ aftermath.timer /\ "now" \notin aftermath.calls

\* Who is classified opens no round.
RoundOK == round => ~dead

\* The memory in the order of teaching: a key was forgotten for as many others.
MemoryOK ==
  /\ memory \in Seq(Keys) /\ IsInjective(memory) /\ Len(memory) =< Cap
  /\ ToSet(memory) \subseteq DOMAIN younger
  /\ \A k \in DOMAIN younger : IsFiniteSet(younger[k])
  /\ \A i, j \in 1..Len(memory) : i < j => memory[j] \in younger[memory[i]]
  /\ \A k \in DOMAIN younger : k \in ToSet(memory) \/ Cardinality(younger[k]) >= Cap

ClassIInv == ClassTypes /\ CreditOK /\ FlapOK /\ AftermathOK /\ RoundOK /\ MemoryOK

\* Sets of positions and sequences without repetition.
LEMMA CountOfInjective ==
  ASSUME NEW S, NEW s \in Seq(S), IsInjective(s)
  PROVE  IsFiniteSet(ToSet(s)) /\ Cardinality(ToSet(s)) = Len(s)
<1>1. IsFiniteSet(1..Len(s)) /\ Cardinality(1..Len(s)) = Len(s)
  <2>1. Len(s) \in Nat
    OBVIOUS
  <2>2. Len(s) \in Int /\ 1 \in Int /\ (1 > Len(s) => Len(s) = 0)
    BY <2>1
  <2> QED BY <2>1, <2>2, FS_Interval
<1>2. s \in Surjection(1..Len(s), ToSet(s))
  BY DEF Surjection, ToSet
<1>3. s \in Injection(1..Len(s), ToSet(s))
  BY DEF Injection, ToSet
<1> QED BY <1>1, <1>2, <1>3, FS_Surjection

LEMMA OutsFinite ==
  ASSUME NEW s \in Seq({"out", "in"})
  PROVE  IsFiniteSet(Outs(s)) /\ Cardinality(Outs(s)) \in Nat
<1>1. IsFiniteSet(1..Len(s))
  BY FS_Interval
<1>2. Outs(s) \in SUBSET (1..Len(s))
  BY DEF Outs
<1>3. IsFiniteSet(Outs(s))
  BY <1>1, <1>2, FS_Subset
<1> QED BY <1>3, FS_CardinalityType

LEMMA OutsOfPair ==
  ASSUME NEW s \in Seq({"out", "in"})
  PROVE  /\ s \o <<"out", "in">> \in Seq({"out", "in"})
         /\ Cardinality(Outs(s \o <<"out", "in">>)) = Cardinality(Outs(s)) + 1
<1> DEFINE t == s \o <<"out", "in">>
<1>1. /\ t \in Seq({"out", "in"}) /\ Len(t) = Len(s) + 2
      /\ \A i \in 1..Len(s) : t[i] = s[i]
      /\ t[Len(s) + 1] = "out" /\ t[Len(s) + 2] = "in"
  OBVIOUS
<1> HIDE DEF t
<1>2. Outs(t) = Outs(s) \cup {Len(s) + 1}
  <2>1. \A i \in 1..Len(t) : i \in 1..Len(s) \/ i = Len(s) + 1 \/ i = Len(s) + 2
    BY <1>1
  <2>2. DOMAIN t = 1..Len(t) /\ DOMAIN s = 1..Len(s) /\ Len(s) \in Nat
    BY <1>1
  <2>3. ASSUME NEW i \in Outs(t) PROVE i \in Outs(s) \cup {Len(s) + 1}
    BY <1>1, <2>1, <2>2 DEF Outs
  <2>4. ASSUME NEW i \in Outs(s) \cup {Len(s) + 1} PROVE i \in Outs(t)
    BY <1>1, <2>2 DEF Outs
  <2> QED BY <2>3, <2>4
<1>3. Len(s) + 1 \notin Outs(s)
  BY DEF Outs
<1> QED BY <1>1, <1>2, <1>3, OutsFinite, FS_AddElement DEF t

LEMMA OutsOfTail ==
  ASSUME NEW s \in Seq({"out", "in"}), s # <<>>
  PROVE  /\ Tail(s) \in Seq({"out", "in"}) /\ Head(s) \in {"out", "in"}
         /\ Head(s) = "out" =>
              /\ Cardinality(Outs(s)) > 0
              /\ Cardinality(Outs(Tail(s))) = Cardinality(Outs(s)) - 1
         /\ Head(s) # "out" => Cardinality(Outs(Tail(s))) = Cardinality(Outs(s))
<1> DEFINE t == Tail(s)
<1>1. /\ t \in Seq({"out", "in"}) /\ Len(t) = Len(s) - 1 /\ Len(s) \in Nat \ {0}
      /\ \A i \in 1..Len(t) : t[i] = s[i + 1]
      /\ Head(s) = s[1] /\ s[1] \in {"out", "in"}
  OBVIOUS
<1>2. DOMAIN t = 1..Len(t) /\ DOMAIN s = 1..Len(s)
  BY <1>1
<1> HIDE DEF t
<1> DEFINE later == Outs(s) \ {1}
<1> DEFINE shift == [i \in Outs(t) |-> i + 1]
<1>3. shift \in Injection(Outs(t), later)
  <2>1. \A i \in Outs(t) : i \in Nat /\ i + 1 \in later
    BY <1>1, <1>2 DEF Outs
  <2> QED BY <2>1 DEF Injection, IsInjective
<1>4. shift \in Surjection(Outs(t), later)
  <2>1. shift \in [Outs(t) -> later]
    BY <1>3 DEF Injection
  <2>2. ASSUME NEW j \in later PROVE \E i \in Outs(t) : shift[i] = j
    <3>1. j \in 2..Len(s) /\ s[j] = "out"
      BY <1>1, <1>2 DEF Outs
    <3>2. j - 1 \in 1..Len(t) /\ t[j - 1] = "out"
      BY <1>1, <3>1
    <3>3. j - 1 \in Outs(t) /\ shift[j - 1] = j
      BY <1>2, <3>1, <3>2 DEF Outs
    <3> QED BY <3>3
  <2> QED BY <2>1, <2>2 DEF Surjection
<1> HIDE DEF shift
<1>5. Cardinality(later) = Cardinality(Outs(t))
  <2>1. IsFiniteSet(Outs(t))
    BY <1>1, OutsFinite
  <2> QED BY <1>3, <1>4, <2>1, FS_Surjection
<1>6. Cardinality(later) = IF 1 \in Outs(s) THEN Cardinality(Outs(s)) - 1 ELSE Cardinality(Outs(s))
  BY OutsFinite, FS_RemoveElement
<1>7. 1 \in Outs(s) <=> Head(s) = "out"
  BY <1>1, <1>2 DEF Outs
<1>8. 1 \in Outs(s) => Cardinality(Outs(s)) > 0
  <2>1. IsFiniteSet(Outs(s)) /\ Cardinality(Outs(s)) \in Nat
    BY OutsFinite
  <2>2. Cardinality(Outs(s)) = 0 => Outs(s) = {}
    BY <2>1, FS_EmptySet
  <2> QED BY <2>1, <2>2
<1> QED BY <1>1, <1>5, <1>6, <1>7, <1>8, OutsFinite DEF t

\* The windows.
LEMMA SlotMoves ==
  ASSUME NEW slot \in Slots, emitter \in Windows \X Nat
  PROVE  /\ Cancel(slot) \in Slots /\ Arm(slot) \in Slots /\ Fired(slot) \in Slots
         /\ ~Cancel(slot).on /\ ~Cancel(slot).timer /\ "now" \notin Cancel(slot).calls
         /\ Arm(slot).on /\ Arm(slot).timer /\ "now" \notin Arm(slot).calls
         /\ Arm(slot).eng = emitter
         /\ Fired(slot).on = slot.on /\ Fired(slot).eng = slot.eng /\ ~Fired(slot).timer
         /\ Closed \in Slots
<1>1. Closed \in Slots /\ ~Closed.on /\ ~Closed.timer
  BY DEF Closed, Slots, NoEngine
<1>2. Cancel(slot) \in Slots /\ ~Cancel(slot).on /\ ~Cancel(slot).timer /\ "now" \notin Cancel(slot).calls
  BY <1>1 DEF Cancel, Slots
<1>3. /\ Arm(slot) \in Slots /\ Arm(slot).on /\ Arm(slot).timer /\ "now" \notin Arm(slot).calls
      /\ Arm(slot).eng = emitter
  BY <1>2 DEF Arm, Slots
<1>4. /\ Fired(slot) \in Slots
      /\ Fired(slot).on = slot.on /\ Fired(slot).eng = slot.eng /\ ~Fired(slot).timer
  BY DEF Fired, Slots
<1> QED BY <1>1, <1>2, <1>3, <1>4

LEMMA SlotRan ==
  ASSUME NEW slot \in Slots, NEW call \in slot.calls
  PROVE  /\ Ran(slot, call) \in Slots
         /\ Ran(slot, call).calls = slot.calls \ {call}
         /\ call = "now" => ~Ran(slot, call).on /\ ~Ran(slot, call).timer
         /\ call # "now" => /\ Ran(slot, call).on = slot.on /\ Ran(slot, call).eng = slot.eng
                            /\ Ran(slot, call).timer = slot.timer
<1>1. Closed \in Slots /\ ~Closed.on /\ ~Closed.timer
  BY DEF Closed, Slots, NoEngine
<1>2. call \in {"now", "old"}
  BY DEF Slots
<1> QED BY <1>1, <1>2 DEF Ran, Slots

\* The keys.
LEMMA AppKeyIsKey ==
  ASSUME ClassTypes
  PROVE  AppKey \in Keys
<1>1. CASE seen # None
  BY <1>1, WindowsAssumption DEF AppKey, Keys, ClassTypes
<1>2. CASE seen = None
  <2>1. emitter[1] \in Windows
    BY DEF ClassTypes
  <2> QED BY <1>2, <2>1 DEF AppKey, Keys
<1> QED BY <1>1, <1>2

\* Who starts: nothing learned, nothing on its way.
LEMMA ClassStart == ClassInit => ClassIInv
<1> SUFFICES ASSUME ClassInit PROVE ClassIInv
  OBVIOUS
<1>1. Closed \in Slots /\ ~Closed.on /\ ~Closed.timer /\ Closed.calls = {}
  BY DEF Closed, Slots, NoEngine
<1>2. ClassTypes
  <2>1. PICK w \in Windows : focus = w /\ emitter = <<w, 0>>
    BY DEF ClassInit
  <2>2. emitter \in Windows \X Nat
    BY <2>1
  <2>3. spent \in [Inputs -> Nat]
    BY DEF ClassInit
  <2> QED BY <1>1, <2>1, <2>2, <2>3 DEF ClassInit, ClassTypes
<1>3. CreditOK
  <2>1. own = <<>> /\ credit = 0
    BY DEF ClassInit
  <2>2. Outs(own) = {} /\ own \in Seq({"out", "in"})
    BY <2>1 DEF Outs
  <2> QED BY <2>1, <2>2, FS_EmptySet DEF CreditOK
<1>4. FlapOK /\ AftermathOK /\ RoundOK
  BY <1>1 DEF ClassInit, FlapOK, AftermathOK, RoundOK
<1>5. MemoryOK
  <2>1. memory = <<>> /\ DOMAIN younger = {}
    BY DEF ClassInit
  <2>2. memory \in Seq(Keys) /\ Len(memory) = 0 /\ DOMAIN memory = {}
    BY <2>1
  <2> QED BY <2>1, <2>2, BoundsAssumption DEF MemoryOK, IsInjective, ToSet
<1> QED BY <1>2, <1>3, <1>4, <1>5 DEF ClassIInv

\* A lost round teaches its key last; where the memory is full, the key that
\* was taught first is forgotten, after as many others as the memory holds.
LEMMA TeachingKeepsMemory ==
  ASSUME MemoryOK, NEW k \in Keys, memory' = Remembered(k),
         younger' = IF k \in ToSet(memory) THEN younger
                    ELSE [q \in DOMAIN younger \cup {k} |->
                            IF q = k THEN {} ELSE younger[q] \cup {k}]
  PROVE  MemoryOK'
<1>1. CASE k \in ToSet(memory)
  <2>1. memory' = memory /\ younger' = younger
    BY <1>1 DEF Remembered
  <2> QED BY <2>1 DEF MemoryOK
<1>2. CASE k \notin ToSet(memory)
  <2> DEFINE longer == Append(memory, k)
             n == Len(memory)
  <2>0. n \in Nat /\ memory \in Seq(Keys) /\ n =< Cap /\ Cap \in Nat \ {0}
        /\ DOMAIN memory = 1..n /\ ToSet(memory) = {memory[i] : i \in 1..n}
    BY BoundsAssumption DEF MemoryOK, ToSet
  <2>1. /\ longer \in Seq(Keys) /\ Len(longer) = n + 1 /\ longer[n + 1] = k
        /\ \A i \in 1..n : longer[i] = memory[i]
    BY <2>0
  <2>2. \A i, j \in 1..(n + 1) : longer[i] = longer[j] => i = j
    <3> SUFFICES ASSUME NEW i \in 1..(n + 1), NEW j \in 1..(n + 1), longer[i] = longer[j]
                 PROVE  i = j
      OBVIOUS
    <3>1. \A m \in 1..n : memory[m] # k
      BY <1>2, <2>0
    <3>2. CASE i \in 1..n /\ j \in 1..n
      BY <2>0, <2>1, <3>2 DEF MemoryOK, IsInjective
    <3>3. CASE i = n + 1 \/ j = n + 1
      BY <2>0, <2>1, <3>1, <3>3
    <3> QED BY <2>0, <3>2, <3>3
  <2>3. /\ DOMAIN younger' = DOMAIN younger \cup {k} /\ younger'[k] = {}
        /\ \A q \in DOMAIN younger \ {k} : younger'[q] = younger[q] \cup {k}
    BY <1>2
  <2>4. \A q \in DOMAIN younger' : IsFiniteSet(younger'[q])
    BY <2>3, FS_EmptySet, FS_AddElement DEF MemoryOK
  <2>5. ASSUME NEW q \in DOMAIN younger, q # k, Cardinality(younger[q]) >= Cap
        PROVE  Cardinality(younger'[q]) >= Cap
    <3>1. IsFiniteSet(younger[q]) /\ younger'[q] = younger[q] \cup {k}
      BY <2>3, <2>5 DEF MemoryOK
    <3>2. Cardinality(younger[q]) \in Nat
      BY <3>1, FS_CardinalityType
    <3>3. Cardinality(younger'[q]) \in {Cardinality(younger[q]), Cardinality(younger[q]) + 1}
      BY <3>1, FS_AddElement
    <3> QED BY <2>0, <2>5, <3>2, <3>3
  <2>6. \A i, j \in 1..(n + 1) : i < j => longer[j] \in younger'[longer[i]]
    <3> SUFFICES ASSUME NEW i \in 1..(n + 1), NEW j \in 1..(n + 1), i < j
                 PROVE  longer[j] \in younger'[longer[i]]
      OBVIOUS
    <3>1. i \in 1..n /\ longer[i] = memory[i] /\ memory[i] \in ToSet(memory)
      BY <2>0, <2>1
    <3>2. memory[i] \in DOMAIN younger /\ memory[i] # k
      BY <1>2, <3>1 DEF MemoryOK
    <3>3. younger'[longer[i]] = younger[memory[i]] \cup {k}
      BY <2>3, <3>1, <3>2
    <3>4. CASE j = n + 1
      BY <2>1, <3>3, <3>4
    <3>5. CASE j # n + 1
      <4>1. j \in 1..n /\ longer[j] = memory[j]
        BY <2>0, <2>1, <3>5
      <4> QED BY <3>1, <3>3, <4>1 DEF MemoryOK
    <3> QED BY <3>4, <3>5
  <2>7. CASE ~(Len(longer) > Cap)
    <3>1. memory' = longer
      BY <1>2, <2>7 DEF Remembered
    <3>2. ToSet(longer) = ToSet(memory) \cup {k}
      <4>1. DOMAIN longer = 1..(n + 1) /\ \A i \in 1..(n + 1) : i \in 1..n \/ i = n + 1
        BY <2>0, <2>1
      <4>2. ToSet(longer) = {longer[i] : i \in 1..(n + 1)}
        BY <4>1 DEF ToSet
      <4> HIDE DEF longer
      <4>3. \A x \in ToSet(longer) : x \in ToSet(memory) \cup {k}
        BY <2>0, <2>1, <4>1, <4>2
      <4>4. \A x \in ToSet(memory) \cup {k} : x \in ToSet(longer)
        BY <2>0, <2>1, <4>1, <4>2
      <4> QED BY <4>3, <4>4
    <3> HIDE DEF longer
    <3>3. memory' \in Seq(Keys) /\ Len(memory') =< Cap /\ IsInjective(memory')
      BY <2>0, <2>1, <2>2, <2>7, <3>1 DEF IsInjective
    <3>4. ToSet(memory') \subseteq DOMAIN younger'
      BY <2>3, <3>1, <3>2 DEF MemoryOK
    <3>5. \A q \in DOMAIN younger' : q \in ToSet(memory') \/ Cardinality(younger'[q]) >= Cap
      BY <2>3, <2>5, <3>1, <3>2 DEF MemoryOK
    <3>6. \A i, j \in 1..Len(memory') : i < j => memory'[j] \in younger'[memory'[i]]
      BY <2>1, <2>6, <3>1
    <3> QED BY <2>4, <3>3, <3>4, <3>5, <3>6 DEF MemoryOK
  <2>8. CASE Len(longer) > Cap
    <3>1. memory' = Tail(longer)
      BY <1>2, <2>8 DEF Remembered
    <3>2. /\ memory' \in Seq(Keys) /\ Len(memory') = n /\ n = Cap
          /\ \A i \in 1..n : memory'[i] = longer[i + 1]
      <4>1. n = Cap /\ longer # <<>>
        BY <2>0, <2>1, <2>8
      <4> HIDE DEF longer
      <4> QED BY <2>0, <2>1, <3>1, <4>1
    <3> HIDE DEF longer
    <3>3. DOMAIN memory' = 1..n /\ \A i \in 1..n : i + 1 \in 1..(n + 1)
      BY <2>0, <3>2
    <3>4. IsInjective(memory')
      <4> SUFFICES ASSUME NEW i \in 1..n, NEW j \in 1..n, memory'[i] = memory'[j]
                   PROVE  i = j
        BY <3>3 DEF IsInjective
      <4>1. longer[i + 1] = longer[j + 1]
        BY <3>2
      <4>2. i + 1 = j + 1
        BY <2>2, <3>3, <4>1
      <4> QED BY <2>0, <4>2
    <3>5. \A i, j \in 1..n : i < j => memory'[j] \in younger'[memory'[i]]
      <4> SUFFICES ASSUME NEW i \in 1..n, NEW j \in 1..n, i < j
                   PROVE  memory'[j] \in younger'[memory'[i]]
        OBVIOUS
      <4>1. i + 1 < j + 1 /\ i + 1 \in 1..(n + 1) /\ j + 1 \in 1..(n + 1)
        BY <2>0
      <4> QED BY <2>6, <3>2, <4>1
    <3>6. ToSet(memory') = {longer[i] : i \in 2..(n + 1)}
      <4>1. ToSet(memory') = {longer[i + 1] : i \in 1..n}
        BY <3>2, <3>3 DEF ToSet
      <4>2. \A i \in 2..(n + 1) : i - 1 \in 1..n /\ (i - 1) + 1 = i
        BY <2>0
      <4>3. \A i \in 1..n : i + 1 \in 2..(n + 1)
        BY <2>0
      <4>4. \A x : x \in {longer[i + 1] : i \in 1..n} <=> x \in {longer[i] : i \in 2..(n + 1)}
        BY <4>2, <4>3
      <4> QED BY <4>1, <4>4
    <3>7. k \in ToSet(memory')
      <4>1. n + 1 \in 2..(n + 1)
        BY <2>0, <3>2
      <4> QED BY <2>1, <3>6, <4>1
    <3>8. ToSet(memory') \subseteq ToSet(memory) \cup {k}
      <4>1. \A i \in 2..(n + 1) : longer[i] \in ToSet(memory) \cup {k}
        BY <2>0, <2>1
      <4> QED BY <3>6, <4>1
    <3>9. ASSUME NEW q \in ToSet(memory), q \notin ToSet(memory')
          PROVE  Cardinality(younger'[q]) >= Cap
      <4>1. q = longer[1] /\ q # k
        <5>1. PICK i \in 1..n : q = memory[i]
          BY <2>0
        <5>2. q = longer[i] /\ i \notin 2..(n + 1)
          BY <2>1, <3>6, <3>9, <5>1
        <5>3. i = 1
          BY <2>0, <5>2
        <5> QED BY <1>2, <5>2, <5>3
      <4>2. ASSUME NEW x \in ToSet(memory') PROVE x \in younger'[q]
        <5>1. PICK i \in 2..(n + 1) : x = longer[i]
          BY <3>6
        <5>2. 1 < i /\ i \in 1..(n + 1) /\ 1 \in 1..(n + 1)
          BY <2>0
        <5> QED BY <2>6, <4>1, <5>1, <5>2
      <4>3. IsFiniteSet(younger'[q])
        BY <2>3, <2>4 DEF MemoryOK
      <4>4. /\ Cardinality(ToSet(memory')) =< Cardinality(younger'[q])
            /\ Cardinality(younger'[q]) \in Nat
        <5>1. ToSet(memory') \in SUBSET younger'[q]
          BY <4>2
        <5> QED BY <4>3, <5>1, FS_Subset, FS_CardinalityType
      <4>5. Cardinality(ToSet(memory')) = Cap
        BY <3>2, <3>4, CountOfInjective
      <4> QED BY <2>0, <4>4, <4>5
    <3>10. \A q \in DOMAIN younger' : q \in ToSet(memory') \/ Cardinality(younger'[q]) >= Cap
      <4> SUFFICES ASSUME NEW q \in DOMAIN younger', q \notin ToSet(memory')
                   PROVE  Cardinality(younger'[q]) >= Cap
        OBVIOUS
      <4>1. q # k /\ q \in DOMAIN younger
        BY <2>3, <3>7
      <4>2. q \in ToSet(memory) \/ Cardinality(younger[q]) >= Cap
        BY <4>1 DEF MemoryOK
      <4> QED BY <2>5, <3>9, <4>1, <4>2
    <3>11. ToSet(memory') \subseteq DOMAIN younger'
      BY <2>3, <3>8 DEF MemoryOK
    <3> QED BY <2>0, <2>4, <3>2, <3>4, <3>5, <3>10, <3>11 DEF MemoryOK
  <2> QED BY <2>7, <2>8
<1> QED BY <1>1, <1>2

LEMMA SpendTyped ==
  ASSUME ClassTypes, NEW what \in Inputs, Spend(what)
  PROVE  spent' \in [Inputs -> Nat]
BY DEF Spend, ClassTypes

LEMMA MemoryStays ==
  ASSUME MemoryOK, UNCHANGED <<memory, younger>>
  PROVE  MemoryOK'
BY DEF MemoryOK

LEMMA MintKeeps ==
  ASSUME ClassIInv, NEW w \in Windows, Mint(w)
  PROVE  ClassIInv'
<1> USE DEF ClassIInv
<1>1. /\ UNCHANGED <<focus, seen, own, dead, memory, round, credit, flap, aftermath, due, younger>>
      /\ emitter' = <<w, spent.mints + 1>>
      /\ kept' = IF flap.on THEN None ELSE kept
      /\ Spend("mints")
  BY DEF Mint
<1>2. ClassTypes'
  <2>1. "mints" \in Inputs /\ spent.mints \in Nat
    BY DEF ClassTypes, Inputs
  <2>2. emitter' \in Windows \X Nat
    BY <1>1, <2>1
  <2>3. spent' \in [Inputs -> Nat]
    BY <1>1, <2>1, SpendTyped
  <2> QED BY <1>1, <2>2, <2>3 DEF ClassTypes
<1>3. (FlapOK /\ AftermathOK /\ RoundOK)'
  BY <1>1 DEF FlapOK, AftermathOK, RoundOK
<1>4. CreditOK'
  BY <1>1 DEF CreditOK
<1>5. MemoryOK'
  BY <1>1, MemoryStays
<1> QED BY <1>2, <1>3, <1>4, <1>5

LEMMA ObserveKeeps ==
  ASSUME ClassIInv, Observe
  PROVE  ClassIInv'
<1> USE DEF ClassIInv
<1>1. /\ UNCHANGED <<focus, own, emitter, dead, memory, round, credit, flap, aftermath, kept, due, younger, spent>>
      /\ seen' \in Visible \cup {None}
  BY DEF Observe
<1>2. ClassTypes'
  BY <1>1 DEF ClassTypes
<1>3. (FlapOK /\ AftermathOK /\ RoundOK)'
  BY <1>1 DEF FlapOK, AftermathOK, RoundOK
<1>4. CreditOK'
  BY <1>1 DEF CreditOK
<1>5. MemoryOK'
  BY <1>1, MemoryStays
<1> QED BY <1>2, <1>3, <1>4, <1>5

\* The focus is lost for good only when no flip owes the loss: the wipe is
\* armed with the engine minted last, and the aftermath is over.
LEMMA FocusOutKeeps ==
  ASSUME ClassIInv, FocusOut
  PROVE  ClassIInv'
<1> USE DEF ClassIInv
<1>1. /\ UNCHANGED <<seen, own, emitter, dead, memory, kept, younger>>
      /\ own = <<>> /\ focus' = None /\ due' = FALSE /\ round' = FALSE
      /\ Spend("moves")
  BY DEF FocusOut, HandleFocusOut, FocusLost
<1>2. credit = 0
  <2>1. Outs(own) = {}
    BY <1>1 DEF Outs
  <2> QED BY <2>1, FS_EmptySet DEF CreditOK
<1>3. flap' = Arm(flap) /\ aftermath' = Cancel(aftermath) /\ credit' = credit
  BY <1>2 DEF FocusOut, HandleFocusOut, FocusLost
<1>4. /\ flap' \in Slots /\ aftermath' \in Slots
      /\ flap'.on /\ flap'.eng = emitter /\ "now" \notin flap'.calls
  BY <1>3, SlotMoves DEF ClassTypes
<1>5. ClassTypes'
  <2>1. "moves" \in Inputs
    BY DEF Inputs
  <2>2. spent' \in [Inputs -> Nat]
    BY <1>1, <2>1, SpendTyped
  <2> QED BY <1>1, <1>4, <2>2 DEF ClassTypes
<1>6. (FlapOK /\ AftermathOK /\ RoundOK)'
  BY <1>1, <1>4 DEF FlapOK, AftermathOK, RoundOK
<1>7. CreditOK'
  BY <1>1, <1>3 DEF CreditOK
<1>8. MemoryOK'
  BY <1>1, MemoryStays
<1> QED BY <1>5, <1>6, <1>7, <1>8

\* The window that comes back cancels the wipe if it is the one that armed it.
LEMMA FocusInKeeps ==
  ASSUME ClassIInv, NEW w \in Windows, FocusIn(w)
  PROVE  ClassIInv'
<1> USE DEF ClassIInv
<1>1. /\ UNCHANGED <<seen, own, emitter, dead, memory, round, credit, aftermath, due, younger, spent>>
      /\ focus' = w
      /\ kept' = IF w = kept THEN kept ELSE None
      /\ flap' = IF flap.on /\ flap.eng = emitter THEN Cancel(flap) ELSE flap
  BY DEF FocusIn, HandleFocusIn
<1>2. /\ Cancel(flap) \in Slots /\ ~Cancel(flap).on /\ ~Cancel(flap).timer
      /\ "now" \notin Cancel(flap).calls
  BY SlotMoves DEF ClassTypes
<1>3. ClassTypes'
  BY <1>1, <1>2 DEF ClassTypes
<1>4. FlapOK'
  BY <1>1, <1>2 DEF FlapOK
<1>5. (AftermathOK /\ RoundOK)'
  BY <1>1 DEF AftermathOK, RoundOK
<1>6. CreditOK'
  BY <1>1 DEF CreditOK
<1>7. MemoryOK'
  BY <1>1, MemoryStays
<1> QED BY <1>3, <1>4, <1>5, <1>6, <1>7

LEMMA FlipKeeps ==
  ASSUME ClassIInv, Flip
  PROVE  ClassIInv'
<1> USE DEF ClassIInv
<1>1. /\ UNCHANGED <<focus, seen, dead, memory, round, flap, kept, younger>>
      /\ focus # None /\ credit' = credit + 1 /\ due' = TRUE
      /\ own' = own \o <<"out", "in">>
      /\ emitter' = <<focus, Bounds["mints"] + spent.flips + 1>>
      /\ aftermath' = Arm(aftermath) /\ Spend("flips")
  BY DEF Flip
<1>2. /\ aftermath' \in Slots /\ aftermath'.on /\ aftermath'.timer
      /\ "now" \notin aftermath'.calls
  BY <1>1, SlotMoves DEF ClassTypes
<1>3. ClassTypes'
  <2>1. {"flips", "mints"} \subseteq Inputs /\ spent.flips \in Nat /\ Bounds["mints"] \in Nat
    BY BoundsAssumption DEF ClassTypes, Inputs
  <2>2. emitter' \in Windows \X Nat
    BY <1>1, <2>1 DEF ClassTypes
  <2>3. spent' \in [Inputs -> Nat]
    BY <1>1, <2>1, SpendTyped
  <2> QED BY <1>1, <1>2, <2>2, <2>3 DEF ClassTypes
<1>4. (FlapOK /\ AftermathOK /\ RoundOK)'
  BY <1>1, <1>2 DEF FlapOK, AftermathOK, RoundOK
<1>5. CreditOK'
  BY <1>1, OutsOfPair DEF CreditOK
<1>6. MemoryOK'
  BY <1>1, MemoryStays
<1> QED BY <1>3, <1>4, <1>5, <1>6

\* The focus pair of a flip: its loss has a credit, so it arms nothing.
LEMMA OwnPairKeeps ==
  ASSUME ClassIInv, OwnPair
  PROVE  ClassIInv'
<1> USE DEF ClassIInv
<1>1. /\ UNCHANGED <<focus, seen, emitter, dead, memory, kept, due, younger, spent>>
      /\ own # <<>> /\ own' = Tail(own)
  BY DEF OwnPair, HandleFocusOut, HandleFocusIn, FocusLost
<1>2. /\ Cancel(flap) \in Slots /\ ~Cancel(flap).on /\ ~Cancel(flap).timer
      /\ "now" \notin Cancel(flap).calls
  BY SlotMoves DEF ClassTypes
<1>3. own \in Seq({"out", "in"}) /\ credit = Cardinality(Outs(own))
  BY DEF CreditOK
<1>4. CASE Head(own) = "out"
  <2>1. credit > 0 /\ own' \in Seq({"out", "in"}) /\ Cardinality(Outs(own')) = credit - 1
    BY <1>1, <1>3, <1>4, OutsOfTail
  <2>2. flap' = Cancel(flap) /\ UNCHANGED aftermath /\ credit' = credit - 1 /\ round' = FALSE
    BY <1>4, <2>1 DEF OwnPair, HandleFocusOut, FocusLost
  <2>3. ClassTypes'
    BY <1>1, <1>2, <2>2 DEF ClassTypes
  <2>4. (FlapOK /\ AftermathOK /\ RoundOK)'
    BY <1>1, <1>2, <2>2 DEF FlapOK, AftermathOK, RoundOK
  <2>5. CreditOK'
    BY <2>1, <2>2 DEF CreditOK
  <2> QED BY <1>1, <2>3, <2>4, <2>5, MemoryStays
<1>5. CASE Head(own) # "out"
  <2>1. own' \in Seq({"out", "in"}) /\ Cardinality(Outs(own')) = credit
    BY <1>1, <1>3, <1>5, OutsOfTail
  <2>2. /\ flap' = IF flap.on /\ flap.eng = emitter THEN Cancel(flap) ELSE flap
        /\ UNCHANGED <<round, credit, aftermath>>
    BY <1>5 DEF OwnPair, HandleFocusIn
  <2>3. ClassTypes'
    BY <1>1, <1>2, <2>2 DEF ClassTypes
  <2>4. (FlapOK /\ AftermathOK /\ RoundOK)'
    BY <1>1, <1>2, <2>2 DEF FlapOK, AftermathOK, RoundOK
  <2>5. CreditOK'
    BY <2>1, <2>2 DEF CreditOK
  <2> QED BY <1>1, <2>3, <2>4, <2>5, MemoryStays
<1> QED BY <1>4, <1>5

\* A Reset wipes the class, unless it is the echo of a flip in its time.
LEMMA ResetKeepsClass ==
  ASSUME ClassIInv, EchoReset \/ ClientReset
  PROVE  ClassIInv'
<1> USE DEF ClassIInv
<1>1. /\ UNCHANGED <<focus, seen, own, emitter, memory, credit, younger>>
      /\ due' = FALSE /\ round' = FALSE /\ flap' = Cancel(flap)
  BY DEF EchoReset, ClientReset, HandleReset, ResetCame
<1>2. kept' = None \/ (kept' = kept /\ due)
  BY DEF EchoReset, ClientReset
<1>3. \/ aftermath.on /\ aftermath' = Cancel(aftermath) /\ dead' = dead
      \/ ~aftermath.on /\ dead' = FALSE /\ aftermath' = aftermath
  BY DEF EchoReset, ClientReset, HandleReset, ResetCame
<1>4. /\ flap' \in Slots /\ ~flap'.on /\ ~flap'.timer /\ "now" \notin flap'.calls
  BY <1>1, SlotMoves DEF ClassTypes
<1>5. aftermath' \in Slots
  BY <1>3, SlotMoves DEF ClassTypes
<1>6. spent' \in [Inputs -> Nat]
  <2>1. "resets" \in Inputs
    BY DEF Inputs
  <2>2. CASE EchoReset
    BY <2>2 DEF EchoReset, ClassTypes
  <2>3. CASE ClientReset
    BY <2>1, <2>3, SpendTyped DEF ClientReset
  <2> QED BY <2>2, <2>3
<1>7. ClassTypes'
  BY <1>1, <1>2, <1>3, <1>4, <1>5, <1>6 DEF ClassTypes
<1>8. (FlapOK /\ AftermathOK /\ RoundOK)'
  BY <1>1, <1>2, <1>3, <1>4 DEF FlapOK, AftermathOK, RoundOK
<1>9. CreditOK'
  BY <1>1 DEF CreditOK
<1> QED BY <1>1, <1>7, <1>8, <1>9, MemoryStays

LEMMA RoundKeeps ==
  ASSUME ClassIInv, OpenRound \/ AnswerCame
  PROVE  ClassIInv'
<1> USE DEF ClassIInv
<1>1. UNCHANGED <<focus, seen, own, emitter, dead, memory, credit, flap, aftermath, kept, due, younger>>
  BY DEF OpenRound, AnswerCame, env
<1>2. round' \in BOOLEAN /\ (round' => ~dead)
  BY DEF OpenRound, AnswerCame, Terminal
<1>3. spent' \in [Inputs -> Nat]
  <2>1. "rounds" \in Inputs
    BY DEF Inputs
  <2>2. CASE OpenRound
    BY <2>1, <2>2, SpendTyped DEF OpenRound
  <2>3. CASE AnswerCame
    BY <2>3 DEF AnswerCame, ClassTypes
  <2> QED BY <2>2, <2>3
<1>4. ClassTypes'
  BY <1>1, <1>2, <1>3 DEF ClassTypes
<1>5. (FlapOK /\ AftermathOK /\ RoundOK)'
  BY <1>1, <1>2 DEF FlapOK, AftermathOK, RoundOK
<1>6. CreditOK'
  BY <1>1 DEF CreditOK
<1> QED BY <1>1, <1>4, <1>5, <1>6, MemoryStays

\* The lost round teaches the class; a wipe that is armed stays armed.
LEMMA RoundLostKeeps ==
  ASSUME ClassIInv, RoundLost
  PROVE  ClassIInv'
<1> USE DEF ClassIInv
<1>1. /\ UNCHANGED <<focus, seen, own, emitter, credit, flap, aftermath, due, spent>>
      /\ round /\ round' = FALSE /\ dead' = TRUE
      /\ kept' = IF flap.on THEN None ELSE focus
  BY DEF RoundLost, SetVerifyDead, env
<1>2. ~dead
  BY <1>1 DEF RoundOK
<1>3. memory' = Remembered(AppKey)
  BY <1>2 DEF RoundLost, SetVerifyDead
<1>4. younger' = IF AppKey \in ToSet(memory) THEN younger
                 ELSE [q \in DOMAIN younger \cup {AppKey} |->
                         IF q = AppKey THEN {} ELSE younger[q] \cup {AppKey}]
  BY DEF RoundLost
<1>5. MemoryOK'
  BY <1>3, <1>4, AppKeyIsKey, TeachingKeepsMemory
<1>6. ClassTypes'
  BY <1>1 DEF ClassTypes
<1>7. (FlapOK /\ AftermathOK /\ RoundOK)'
  BY <1>1 DEF FlapOK, AftermathOK, RoundOK
<1>8. CreditOK'
  BY <1>1 DEF CreditOK
<1> QED BY <1>5, <1>6, <1>7, <1>8

LEMMA FlapFiresKeeps ==
  ASSUME ClassIInv, FlapFires
  PROVE  ClassIInv'
<1> USE DEF ClassIInv
<1>1. /\ UNCHANGED <<focus, seen, own, emitter, dead, memory, round, credit, aftermath, due, younger, spent>>
      /\ flap.timer /\ flap' = Fired(flap)
      /\ kept' = IF focus = None THEN None ELSE kept
  BY DEF FlapFires, env
<1>2. flap' \in Slots /\ flap'.on = flap.on /\ flap'.eng = flap.eng
  BY <1>1, SlotMoves DEF ClassTypes
<1>3. ClassTypes'
  BY <1>1, <1>2 DEF ClassTypes
<1>4. FlapOK'
  BY <1>1, <1>2 DEF FlapOK
<1>5. (AftermathOK /\ RoundOK)'
  BY <1>1 DEF AftermathOK, RoundOK
<1>6. CreditOK'
  BY <1>1 DEF CreditOK
<1> QED BY <1>1, <1>3, <1>4, <1>5, <1>6, MemoryStays

LEMMA WipeExpiryKeeps ==
  ASSUME ClassIInv, NEW call \in {"now", "old"}, WipeExpiry(call)
  PROVE  ClassIInv'
<1> USE DEF ClassIInv
<1>1. /\ UNCHANGED <<focus, seen, own, emitter, memory, round, credit, aftermath, kept, due, younger, spent>>
      /\ call \in flap.calls /\ flap' = Ran(flap, call)
      /\ dead' = IF call = "now" THEN FALSE ELSE dead
  BY DEF WipeExpiry, env
<1>2. /\ flap' \in Slots /\ flap'.calls = flap.calls \ {call}
      /\ call = "now" => ~flap'.on /\ ~flap'.timer
      /\ call # "now" => flap'.on = flap.on /\ flap'.eng = flap.eng /\ flap'.timer = flap.timer
  BY <1>1, SlotRan DEF ClassTypes
<1>3. ClassTypes'
  BY <1>1, <1>2 DEF ClassTypes
<1>4. FlapOK'
  BY <1>1, <1>2 DEF FlapOK
<1>5. (AftermathOK /\ RoundOK)'
  BY <1>1 DEF AftermathOK, RoundOK
<1>6. CreditOK'
  BY <1>1 DEF CreditOK
<1> QED BY <1>1, <1>3, <1>4, <1>5, <1>6, MemoryStays

LEMMA AftermathKeeps ==
  ASSUME ClassIInv, AftermathFires \/ \E call \in {"now", "old"} : AftermathExpiry(call)
  PROVE  ClassIInv'
<1> USE DEF ClassIInv
<1>1. UNCHANGED <<focus, seen, own, emitter, dead, memory, round, credit, flap, kept, younger, spent>>
  BY DEF AftermathFires, AftermathExpiry, env
<1>2. CASE AftermathFires
  <2>1. aftermath' \in Slots /\ due' = FALSE
    BY <1>2, SlotMoves DEF AftermathFires, ClassTypes
  <2>2. ClassTypes'
    BY <1>1, <2>1 DEF ClassTypes
  <2>3. (FlapOK /\ AftermathOK /\ RoundOK /\ CreditOK)'
    BY <1>1, <2>1 DEF FlapOK, AftermathOK, RoundOK, CreditOK
  <2> QED BY <1>1, <2>2, <2>3, MemoryStays
<1>3. ASSUME NEW call \in {"now", "old"}, AftermathExpiry(call) PROVE ClassIInv'
  <2>1. call \in aftermath.calls /\ aftermath' = Ran(aftermath, call) /\ due' = due
    BY <1>3 DEF AftermathExpiry
  <2>2. /\ aftermath' \in Slots /\ aftermath'.calls = aftermath.calls \ {call}
        /\ call # "now" => aftermath'.on = aftermath.on /\ aftermath'.timer = aftermath.timer
    BY <2>1, SlotRan DEF ClassTypes
  <2>3. ClassTypes'
    BY <1>1, <2>1, <2>2 DEF ClassTypes
  <2>4. AftermathOK'
    BY <2>1, <2>2 DEF AftermathOK
  <2>5. (FlapOK /\ RoundOK /\ CreditOK)'
    BY <1>1 DEF FlapOK, RoundOK, CreditOK
  <2> QED BY <1>1, <2>3, <2>4, <2>5, MemoryStays
<1> QED BY <1>2, <1>3

LEMMA ClassStep == ClassIInv /\ [ClassNext]_classVars => ClassIInv'
<1> SUFFICES ASSUME ClassIInv, [ClassNext]_classVars PROVE ClassIInv'
  OBVIOUS
<1>1. CASE UNCHANGED classVars
  <2>1. UNCHANGED <<focus, seen, own, emitter, dead, memory, round, credit, flap, aftermath, kept, due, younger, spent>>
    BY <1>1 DEF classVars
  <2>2. ClassTypes' /\ CreditOK'
    BY <2>1 DEF ClassIInv, ClassTypes, CreditOK
  <2>3. (FlapOK /\ AftermathOK /\ RoundOK)'
    BY <2>1 DEF ClassIInv, FlapOK, AftermathOK, RoundOK
  <2> QED BY <2>1, <2>2, <2>3, MemoryStays DEF ClassIInv
<1>2. ASSUME NEW w \in Windows, Mint(w) \/ FocusIn(w) PROVE ClassIInv'
  BY <1>2, MintKeeps, FocusInKeeps
<1>3. CASE Observe \/ FocusOut \/ Flip \/ OwnPair
  BY <1>3, ObserveKeeps, FocusOutKeeps, FlipKeeps, OwnPairKeeps
<1>4. CASE EchoReset \/ ClientReset \/ OpenRound \/ AnswerCame \/ RoundLost
  BY <1>4, ResetKeepsClass, RoundKeeps, RoundLostKeeps
<1>5. CASE FlapFires \/ AftermathFires
  BY <1>5, FlapFiresKeeps, AftermathKeeps
<1>6. ASSUME NEW call \in {"now", "old"}, WipeExpiry(call) \/ AftermathExpiry(call)
      PROVE  ClassIInv'
  BY <1>6, WipeExpiryKeeps, AftermathKeeps
<1> QED BY <1>1, <1>2, <1>3, <1>4, <1>5, <1>6 DEF ClassNext

\* The class in good order, for every set of windows and every capacity: it
\* survives what is not the death of its context, and an application that
\* taught it is not probed again before as many others were taught.
THEOREM ClassInOrder == ClassSpec => []ClassInv
<1>1. ClassIInv => ClassInv
  <2> SUFFICES ASSUME ClassIInv PROVE ClassInv
    OBVIOUS
  <2>1. ClassTypeOK
    BY DEF ClassIInv, ClassTypes, CreditOK, MemoryOK, ClassTypeOK, Outs
  <2>2. KeptWhileHere
    BY DEF ClassIInv, FlapOK, KeptWhileHere
  <2>3. FirstPress
    BY DEF ClassIInv, MemoryOK, FirstPress, Terminal
  <2> QED BY <2>1, <2>2, <2>3 DEF ClassInv
<1>2. ClassSpec => ClassInit /\ [][ClassNext]_classVars
  BY DEF ClassSpec
<1> QED BY <1>1, <1>2, ClassStart, ClassStep, PTL
=============================================================================
