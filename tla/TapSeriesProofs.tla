--------------------------- MODULE TapSeriesProofs ----------------------------
(***************************************************************************)
(* Type correctness of TapSeries; that a live series always has a timer or *)
(* a callback that will decide it, as long as no edit lengthens the        *)
(* window; and, of TapSeriesLog, that the machine counts exactly the taps  *)
(* the owner struck and decides only on a quiet key: for every set of keys *)
(* and windows, and a log of any length.                                   *)
(***************************************************************************)
EXTENDS TapSeriesLog, FiniteSetTheorems, SequenceTheorems, TLAPS

USE DEF MaxTaps, NoTimer

\* Updating one field keeps a machine a machine.
LEMMA SetTaps == \A f \in FSM : \A n \in 0 .. MaxTaps : [f EXCEPT !.taps = n] \in FSM
BY DEF FSM
\* So does the hold,
LEMMA SetHeld == \A f \in FSM : \A b \in BOOLEAN : [f EXCEPT !.held = b] \in FSM
BY DEF FSM
\* the mark of a spoiled hold,
LEMMA SetSawKey == \A f \in FSM : \A b \in BOOLEAN : [f EXCEPT !.sawKey = b] \in FSM
BY DEF FSM
\* the moment of the last tap,
LEMMA SetLastTap == \A f \in FSM : \A t \in Nat : [f EXCEPT !.lastTap = t] \in FSM
BY DEF FSM
\* the key,
LEMMA SetKey == \A f \in FSM : \A k \in TapKeys : [f EXCEPT !.key = k] \in FSM
BY DEF FSM
\* and the window.
LEMMA SetWindow == \A f \in FSM : \A w \in Windows : [f EXCEPT !.window = w] \in FSM
BY DEF FSM

\* Disarming keeps the machine's type and everything but the series.
LEMMA DisarmedMachine ==
  ASSUME NEW f \in FSM
  PROVE  /\ Disarmed(f) \in FSM /\ Disarmed(f).taps = 0
         /\ Disarmed(f).lastTap = f.lastTap
         /\ Disarmed(f).window = f.window /\ Disarmed(f).key = f.key
<1> DEFINE g == [f EXCEPT !.taps = 0]
           h == [g EXCEPT !.held = FALSE]
<1>0. 0 \in 0 .. MaxTaps
  OBVIOUS
<1>1. g \in FSM
  BY <1>0, SetTaps
<1>2. h \in FSM
  <2> HIDE DEF g
  <2> QED BY <1>1, SetHeld
<1>3. Disarmed(f) = [h EXCEPT !.sawKey = FALSE]
  BY DEF Disarmed, FSM
<1>4. Disarmed(f) \in FSM
  <2> HIDE DEF h
  <2> QED BY <1>2, <1>3, SetSawKey
<1> QED BY <1>4 DEF Disarmed, FSM

\* A press keeps the type, the last tap and the window, and adds no tap.
LEMMA PressedMachine ==
  ASSUME NEW f \in FSM, NEW k \in Keys
  PROVE  /\ KeyPress(f, k) \in FSM
         /\ KeyPress(f, k).lastTap = f.lastTap
         /\ KeyPress(f, k).window = f.window
         /\ KeyPress(f, k).taps \in {0, f.taps}
<1>1. CASE k = f.key
  <2> DEFINE g == [f EXCEPT !.held = TRUE]
  <2>1. g \in FSM
    BY SetHeld
  <2>2. KeyPress(f, k) = [g EXCEPT !.sawKey = FALSE]
    BY <1>1 DEF KeyPress, FSM
  <2>3. KeyPress(f, k) \in FSM
    <3> HIDE DEF g
    <3> QED BY <2>1, <2>2, SetSawKey
  <2> QED BY <1>1, <2>3 DEF KeyPress, FSM
<1>2. CASE k # f.key /\ f.held
  BY <1>2, SetSawKey DEF KeyPress, FSM
<1>3. CASE k # f.key /\ ~f.held
  BY <1>3, SetTaps DEF KeyPress, FSM
<1> QED BY <1>1, <1>2, <1>3 DEF FSM

\* A release keeps the type and the window and counts no tap in the future;
\* the release of another key adds no tap.
LEMMA ReleasedMachine ==
  ASSUME NEW f \in FSM, NEW k \in Keys, NEW t \in Nat, f.lastTap =< t
  PROVE  /\ KeyRelease(f, k, t) \in FSM
         /\ KeyRelease(f, k, t).lastTap =< t
         /\ KeyRelease(f, k, t).window = f.window
         /\ k # f.key => /\ KeyRelease(f, k, t).lastTap = f.lastTap
                         /\ KeyRelease(f, k, t).taps \in {0, f.taps}
<1>1. Counted(f, t) \in 0 .. MaxTaps
  BY WindowsAssumption DEF Counted, FSM
<1>2. CASE k = f.key
  <2>1. CASE ~f.held
    BY <1>2, <2>1 DEF KeyRelease, ReleaseTap, FSM
  <2>2. CASE f.held /\ f.sawKey
    <3> DEFINE g == [f EXCEPT !.held = FALSE]
               h == [g EXCEPT !.sawKey = FALSE]
    <3>1. g \in FSM
      BY SetHeld
    <3>2. h \in FSM
      <4> HIDE DEF g
      <4> QED BY <3>1, SetSawKey
    <3>3. KeyRelease(f, k, t) = [h EXCEPT !.taps = 0]
      BY <1>2, <2>2 DEF KeyRelease, ReleaseTap, FSM
    <3>4. KeyRelease(f, k, t) \in FSM
      <4> HIDE DEF h
      <4>1. 0 \in 0 .. MaxTaps
        OBVIOUS
      <4> QED BY <3>2, <3>3, <4>1, SetTaps
    <3>5. h.lastTap = f.lastTap /\ h.window = f.window
      BY DEF FSM
    <3>6. KeyRelease(f, k, t).lastTap = f.lastTap /\ KeyRelease(f, k, t).window = f.window
      <4> HIDE DEF h
      <4> QED BY <3>2, <3>3, <3>5 DEF FSM
    <3> QED BY <1>2, <3>4, <3>6
  <2>3. CASE f.held /\ ~f.sawKey
    <3> DEFINE n == Counted(f, t)
               g == [f EXCEPT !.held = FALSE]
               h == [g EXCEPT !.taps = n]
    <3>1. g \in FSM
      BY SetHeld
    <3>2. h \in FSM
      <4> HIDE DEF g
      <4> QED BY <1>1, <3>1, SetTaps
    <3>3. KeyRelease(f, k, t) = [h EXCEPT !.lastTap = t]
      <4> HIDE DEF n
      <4>1. KeyRelease(f, k, t) = [f EXCEPT !.held = FALSE, !.taps = n, !.lastTap = t]
        BY <1>2, <2>3 DEF KeyRelease, ReleaseTap, n
      <4> QED BY <4>1 DEF FSM
    <3>4. KeyRelease(f, k, t) \in FSM
      <4> HIDE DEF h
      <4> QED BY <3>2, <3>3, SetLastTap
    <3>5. KeyRelease(f, k, t).lastTap = t /\ KeyRelease(f, k, t).window = f.window
      <4> HIDE DEF n
      <4> QED BY <3>3 DEF FSM
    <3> QED BY <1>2, <3>4, <3>5
  <2> QED BY <1>2, <2>1, <2>2, <2>3 DEF FSM
<1>3. CASE k # f.key /\ f.held
  BY <1>3 DEF KeyRelease, FSM
<1>4. CASE k # f.key /\ ~f.held
  BY <1>4, SetTaps DEF KeyRelease, FSM
<1> QED BY <1>2, <1>3, <1>4 DEF FSM

\* An expiry keeps the type, the last tap and the window; a series it leaves
\* alone is one it does not decide.
LEMMA ExpiredMachine ==
  ASSUME NEW f \in FSM, NEW t \in Nat
  PROVE  /\ Expired(f, t) \in FSM
         /\ Expired(f, t).lastTap = f.lastTap /\ Expired(f, t).window = f.window
         /\ Expired(f, t).taps > 0 => f.taps > 0 /\ ~Decides(f, t)
BY SetTaps DEF Expired, Decides, FSM

\* Folding the document keeps the type; it either keeps the series under the
\* document's window or ends it.
LEMMA FoldedTypes ==
  ASSUME TypeOK
  PROVE  /\ Folded \in FSM
         /\ Folded.lastTap = fsm.lastTap
         /\ Folded.window = doc.window
         /\ Folded.key = doc.key
         /\ Folded.taps \in {0, fsm.taps}
<1> DEFINE g == [fsm EXCEPT !.window = doc.window]
           h == [g EXCEPT !.key = doc.key]
<1>1. g \in FSM
  BY SetWindow DEF TypeOK, Document
<1>2. /\ g.lastTap = fsm.lastTap /\ g.window = doc.window
      /\ g.key = fsm.key /\ g.taps = fsm.taps
  BY DEF TypeOK, FSM
<1>3. Folded = IF doc.key = g.key THEN g ELSE Disarmed(h)
  BY DEF Folded, SetTapKey
<1> HIDE DEF g
<1>4. h \in FSM /\ h.lastTap = g.lastTap /\ h.window = g.window /\ h.key = doc.key
  BY <1>1, SetKey DEF TypeOK, Document, FSM
<1> HIDE DEF h
<1> QED BY <1>1, <1>2, <1>3, <1>4, DisarmedMachine

-----------------------------------------------------------------------------
\* The initial states are well typed.
LEMMA TypeInit == Init => TypeOK
BY DEF Init, TypeOK, Document, FSM

\* A step keeps them well typed.
LEMMA TypeStep == TypeOK /\ [Next]_vars => TypeOK'
<1> SUFFICES ASSUME TypeOK, [Next]_vars
             PROVE  TypeOK'
  OBVIOUS
<1> USE DEF TypeOK
<1>0. doc.window \in Nat /\ Folded \in FSM /\ Folded.lastTap =< now
  BY FoldedTypes, WindowsAssumption DEF Document
<1>1. ASSUME NEW k \in Keys, NEW gesture \in BOOLEAN, Press(k, gesture)
      PROVE  TypeOK'
  <2> DEFINE f == KeyPress(Folded, k)
  <2>1. f \in FSM /\ f.lastTap =< now
    BY <1>0, PressedMachine
  <2>2. Disarmed(f) \in FSM /\ Disarmed(f).lastTap =< now
    BY <2>1, DisarmedMachine
  <2>3. fsm' = IF gesture THEN Disarmed(f) ELSE f
    BY <1>1 DEF Press
  <2> HIDE DEF f
  <2> QED BY <1>1, <2>1, <2>2, <2>3 DEF Press
<1>2. ASSUME NEW k \in Keys, Release(k)
      PROVE  TypeOK'
  <2>1. fsm' \in FSM /\ fsm'.lastTap =< now
    BY <1>0, <1>2, ReleasedMachine DEF Release
  <2>2. now + doc.window \in Nat
    BY <1>0
  <2>3. timer' \in Nat \cup {NoTimer} /\ running' \subseteq Nat
    BY <1>2, <2>2 DEF Release, ArmTimer
  <2> QED BY <1>2, <2>1, <2>3 DEF Release
<1>3. CASE ContextDeath
  BY <1>3, DisarmedMachine DEF ContextDeath, StopTimer
<1>4. ASSUME NEW d \in Document, EditDocument(d)
      PROVE  TypeOK'
  BY <1>4 DEF EditDocument
<1>5. CASE Fold
  BY <1>0, <1>5 DEF Fold
<1>6. ASSUME NEW d \in running, Fire(d)
      PROVE  TypeOK'
  BY <1>6 DEF Fire
<1>7. ASSUME NEW t \in calls, ExpiryAt(t)
      PROVE  TypeOK'
  <2>0. t \in Nat
    BY <1>7
  <2>1. fsm' \in FSM /\ fsm'.lastTap =< now
    BY <1>0, <1>7, <2>0, ExpiredMachine DEF ExpiryAt
  <2> QED BY <1>7, <2>1 DEF ExpiryAt
<1>8. CASE Tick
  BY <1>8 DEF Tick, FSM
<1>9. CASE UNCHANGED vars
  BY <1>9 DEF vars
<1> QED BY <1>1, <1>2, <1>3, <1>4, <1>5, <1>6, <1>7, <1>8, <1>9 DEF Next

\* Every reachable state is well typed (TypeOK).
THEOREM TypeCorrect == Spec => []TypeOK
BY TypeInit, TypeStep, PTL DEF Spec

-----------------------------------------------------------------------------
\* The document never asks for a longer window than the machine runs under.
DocumentShorter == doc.window =< fsm.window

IInv == TypeOK /\ DocumentShorter /\ SeriesHasTimer

\* When edits only shorten the window, every counted tap has a timer that
\* will decide it, whatever the keys and the windows (SeriesHasTimer).
THEOREM SeriesIsCovered == ~MayLengthen /\ Spec => []SeriesHasTimer
<1> SUFFICES ASSUME ~MayLengthen
             PROVE  Spec => []SeriesHasTimer
  OBVIOUS
<1>1. Init => IInv
  <2> SUFFICES ASSUME Init
               PROVE  IInv
    OBVIOUS
  <2>1. TypeOK
    BY DEF Init, TypeOK, Document, FSM
  <2>2. fsm.taps = 0 /\ fsm.window = doc.window /\ doc.window \in Nat
    BY WindowsAssumption DEF Init, Document
  <2> QED BY <2>1, <2>2 DEF IInv, DocumentShorter, SeriesHasTimer
<1>2. IInv /\ TypeOK' /\ [Next]_vars => IInv'
  <2> SUFFICES ASSUME IInv, TypeOK', [Next]_vars
               PROVE  DocumentShorter' /\ SeriesHasTimer'
    BY DEF IInv
  <2> USE DEF IInv, DocumentShorter
  <2>0. /\ doc.window \in Nat /\ fsm.window \in Nat /\ fsm.lastTap \in Nat /\ now \in Nat
        /\ fsm.lastTap =< now /\ running \subseteq Nat /\ calls \subseteq Nat
        /\ doc'.window \in Nat /\ fsm'.window \in Nat /\ fsm'.lastTap \in Nat
    <3>1. doc \in Document /\ fsm \in FSM /\ doc' \in Document /\ fsm' \in FSM
      BY DEF TypeOK
    <3>2. calls \subseteq Nat
      BY DEF TypeOK
    <3> QED BY <3>1, <3>2, WindowsAssumption DEF TypeOK, Document, FSM
  <2>f. /\ Folded \in FSM /\ Folded.lastTap = fsm.lastTap /\ Folded.window = doc.window
        /\ Folded.taps \in {0, fsm.taps}
    BY FoldedTypes
  \* A step that only folds, or spends the series, keeps every cover.
  <2>k. ASSUME fsm'.lastTap = fsm.lastTap, fsm'.window =< fsm.window,
               fsm'.taps > 0 => fsm.taps > 0,
               running \subseteq running', calls \subseteq calls'
        PROVE  SeriesHasTimer'
    BY <2>k, <2>0 DEF SeriesHasTimer
  <2>1. ASSUME NEW k \in Keys, NEW gesture \in BOOLEAN, Press(k, gesture)
        PROVE  DocumentShorter' /\ SeriesHasTimer'
    <3> DEFINE f == KeyPress(Folded, k)
    <3>1. /\ f.lastTap = fsm.lastTap /\ f.window = doc.window /\ f.taps \in {0, fsm.taps} /\ f \in FSM
      BY <2>f, PressedMachine
    <3>2. fsm' = IF gesture THEN Disarmed(f) ELSE f
      BY <2>1 DEF Press
    <3> HIDE DEF f
    <3>3. fsm'.lastTap = fsm.lastTap /\ fsm'.window = doc.window /\ fsm'.taps \in {0, fsm.taps}
      BY <3>1, <3>2, DisarmedMachine
    <3> QED BY <2>0, <2>1, <2>k, <3>3 DEF Press
  <2>2. ASSUME NEW k \in Keys, Release(k)
        PROVE  DocumentShorter' /\ SeriesHasTimer'
    <3>1. fsm'.window = doc.window /\ Folded.key = doc.key
      BY <2>0, <2>2, <2>f, FoldedTypes, ReleasedMachine DEF Release
    <3>2. CASE k = doc.key
      <4>1. now + doc.window \in running'
        BY <2>2, <3>2 DEF Release, ArmTimer
      <4>2. fsm'.lastTap =< now
        BY <2>2 DEF Release, TypeOK
      <4> QED BY <2>0, <2>2, <3>1, <4>1, <4>2 DEF SeriesHasTimer, Release
    <3>3. CASE k # doc.key
      <4>1. fsm'.lastTap = fsm.lastTap /\ fsm'.taps \in {0, fsm.taps}
        BY <2>0, <2>2, <2>f, <3>1, <3>3, ReleasedMachine DEF Release
      <4> QED BY <2>0, <2>2, <2>k, <3>1, <3>3, <4>1 DEF Release
    <3> QED BY <3>2, <3>3
  <2>3. CASE ContextDeath
    BY <2>3, <2>0, DisarmedMachine DEF ContextDeath, SeriesHasTimer, TypeOK
  <2>4. ASSUME NEW d \in Document, EditDocument(d)
        PROVE  DocumentShorter' /\ SeriesHasTimer'
    <3>1. doc'.window =< doc.window
      BY <2>0, <2>4 DEF EditDocument
    <3> QED BY <2>0, <2>4, <2>k, <3>1 DEF EditDocument
  <2>5. CASE Fold
    BY <2>0, <2>f, <2>5, <2>k DEF Fold
  <2>6. ASSUME NEW d \in running, Fire(d)
        PROVE  DocumentShorter' /\ SeriesHasTimer'
    BY <2>0, <2>6 DEF Fire, SeriesHasTimer
  <2>7. ASSUME NEW t \in calls, ExpiryAt(t)
        PROVE  DocumentShorter' /\ SeriesHasTimer'
    <3>1. /\ fsm'.lastTap = fsm.lastTap /\ fsm'.window = doc.window
          /\ fsm'.taps > 0 => fsm.taps > 0 /\ ~(t >= fsm.lastTap + doc.window)
      <4>1. t \in Nat
        BY <2>0, <2>7
      <4>2. Expired(Folded, t).taps > 0 =>
              Folded.taps > 0 /\ ~Decides(Folded, t) /\ Folded.taps = fsm.taps
        BY <2>f, <4>1, ExpiredMachine
      <4>3. Expired(Folded, t).lastTap = fsm.lastTap /\ Expired(Folded, t).window = doc.window
        BY <2>f, <4>1, ExpiredMachine
      <4>4. Folded.taps > 0 /\ ~Decides(Folded, t) => ~(t - fsm.lastTap >= doc.window)
        BY <2>f DEF Decides
      <4> QED BY <2>0, <2>7, <4>1, <4>2, <4>3, <4>4 DEF ExpiryAt
    <3> QED BY <2>0, <2>7, <3>1 DEF ExpiryAt, SeriesHasTimer
  <2>8. CASE Tick
    BY <2>8, <2>k, <2>0 DEF Tick
  <2>9. CASE UNCHANGED vars
    BY <2>9, <2>k, <2>0 DEF vars
  <2> QED BY <2>1, <2>2, <2>3, <2>4, <2>5, <2>6, <2>7, <2>8, <2>9 DEF Next
<1>3. IInv => SeriesHasTimer
  BY DEF IInv
<1> QED BY <1>1, <1>2, <1>3, TypeCorrect, PTL DEF Spec

-----------------------------------------------------------------------------
(***************************************************************************)
(* The vocabulary of TapSeriesLog, said of a sequence of strokes.          *)
(***************************************************************************)
Strokes == [what : {"down", "up", "other", "otherUp", "cut", "decide"}, at : Nat, window : Nat]

\* The tap key is down, and cleanly down, after the first i - 1 strokes.
HeldBefore(s, i) ==
  \E p \in 1 .. i - 1 :
    s[p].what = "down" /\ \A q \in p + 1 .. i - 1 : s[q].what \notin {"up", "cut"}
CleanBefore(s, i) ==
  \E p \in 1 .. i - 1 :
    /\ s[p].what = "down"
    /\ \A q \in p + 1 .. i - 1 : s[q].what \notin {"down", "up", "other", "cut"}

TapIn(s, i) == s[i].what = "up" /\ CleanBefore(s, i)

EndsIn(s, i) ==
  \/ s[i].what \in {"cut", "decide"}
  \/ s[i].what \in {"other", "otherUp"} /\ ~HeldBefore(s, i)
  \/ s[i].what = "up" /\ HeldBefore(s, i) /\ ~TapIn(s, i)

ContinuesIn(s, j) ==
  \A i \in 1 .. j - 1 :
    TapIn(s, i) /\ (\A q \in i + 1 .. j - 1 : ~TapIn(s, q)) => s[j].at - s[i].at =< s[j].window

SeriesIn(s) ==
  {i \in 1 .. Len(s) :
     /\ TapIn(s, i)
     /\ \A q \in i + 1 .. Len(s) : ~EndsIn(s, q)
     /\ \A j \in i + 1 .. Len(s) : TapIn(s, j) => ContinuesIn(s, j)}

\* The log says the same of itself.
LEMMA InTheLog ==
  ASSUME log \in Seq(Strokes)
  PROVE  /\ Series = SeriesIn(log)
         /\ \A i \in DOMAIN log : Tap(i) <=> TapIn(log, i)
<1>0. Len(log) \in Nat /\ DOMAIN log = 1 .. Len(log)
  OBVIOUS
<1>1. ASSUME NEW W, NEW i, NEW j
      PROVE  W \cap Between(i, j) = {} <=> \A q \in i + 1 .. j - 1 : log[q].what \notin W
  BY DEF Between
<1>2. \A i : HeldAt(i) <=> HeldBefore(log, i)
  BY <1>1 DEF HeldAt, HeldBefore
<1>3. \A i : Tap(i) <=> TapIn(log, i)
  BY <1>1 DEF Tap, TapIn, CleanBefore
<1>4. \A i : Ends(i) <=> EndsIn(log, i)
  BY <1>2, <1>3 DEF Ends, EndsIn
<1>5. \A j : Continues(j) <=> ContinuesIn(log, j)
  BY <1>3 DEF Continues, ContinuesIn
<1> QED BY <1>0, <1>3, <1>4, <1>5 DEF Series, SeriesIn

\* One more stroke at the end of a sequence.
LEMMA OneMore ==
  ASSUME NEW s \in Seq(Strokes), NEW x \in Strokes,
         NEW u, u = s \o <<x>>,
         NEW n, n = Len(s) + 1
  PROVE  /\ u \in Seq(Strokes) /\ Len(u) = n /\ u[n] = x /\ n \in Nat
         /\ \A i \in 1 .. Len(s) : u[i] = s[i]
BY DEF Strokes

\* What it does to the vocabulary.
LEMMA StrokeOn ==
  ASSUME NEW s \in Seq(Strokes), NEW x \in Strokes,
         NEW u, u = s \o <<x>>,
         NEW n, n = Len(s) + 1
  PROVE  /\ HeldBefore(u, n + 1) <=> \/ x.what = "down"
                                     \/ HeldBefore(s, n) /\ x.what \notin {"up", "cut"}
         /\ CleanBefore(u, n + 1) <=>
              \/ x.what = "down"
              \/ CleanBefore(s, n) /\ x.what \notin {"down", "up", "other", "cut"}
         /\ TapIn(u, n) <=> x.what = "up" /\ CleanBefore(s, n)
         /\ \A i \in 1 .. Len(s) : TapIn(u, i) <=> TapIn(s, i)
         /\ EndsIn(u, n) <=> \/ x.what \in {"cut", "decide"}
                             \/ x.what \in {"other", "otherUp"} /\ ~HeldBefore(s, n)
                             \/ x.what = "up" /\ HeldBefore(s, n) /\ ~CleanBefore(s, n)
<1>0. /\ u \in Seq(Strokes) /\ Len(u) = n /\ u[n] = x /\ Len(s) \in Nat /\ n \in Nat
      /\ \A i \in 1 .. n - 1 : u[i] = s[i]
  BY OneMore
<1>1. \A i \in 1 .. n : HeldBefore(u, i) <=> HeldBefore(s, i)
  <2> SUFFICES ASSUME NEW i \in 1 .. n
               PROVE  HeldBefore(u, i) <=> HeldBefore(s, i)
    OBVIOUS
  <2>1. \A p \in 1 .. i - 1 : u[p] = s[p] /\ \A q \in p + 1 .. i - 1 : u[q] = s[q]
    BY <1>0
  <2> QED BY <2>1 DEF HeldBefore
<1>2. \A i \in 1 .. n : CleanBefore(u, i) <=> CleanBefore(s, i)
  <2> SUFFICES ASSUME NEW i \in 1 .. n
               PROVE  CleanBefore(u, i) <=> CleanBefore(s, i)
    OBVIOUS
  <2>1. \A p \in 1 .. i - 1 : u[p] = s[p] /\ \A q \in p + 1 .. i - 1 : u[q] = s[q]
    BY <1>0
  <2> QED BY <2>1 DEF CleanBefore
<1>3. \A i \in 1 .. Len(s) : TapIn(u, i) <=> TapIn(s, i)
  BY <1>0, <1>2 DEF TapIn
<1>4. TapIn(u, n) <=> x.what = "up" /\ CleanBefore(s, n)
  BY <1>0, <1>2 DEF TapIn
<1>5. EndsIn(u, n) <=> \/ x.what \in {"cut", "decide"}
                       \/ x.what \in {"other", "otherUp"} /\ ~HeldBefore(s, n)
                       \/ x.what = "up" /\ HeldBefore(s, n) /\ ~CleanBefore(s, n)
  BY <1>0, <1>1, <1>4 DEF EndsIn
<1>6. HeldBefore(u, n + 1) <=> \/ x.what = "down"
                               \/ HeldBefore(s, n) /\ x.what \notin {"up", "cut"}
  <2>1. ASSUME HeldBefore(u, n + 1), x.what # "down"
        PROVE  HeldBefore(s, n) /\ x.what \notin {"up", "cut"}
    <3>1. PICK p \in 1 .. n : /\ u[p].what = "down"
                              /\ \A q \in p + 1 .. n : u[q].what \notin {"up", "cut"}
      BY <2>1, <1>0 DEF HeldBefore
    <3>2. p \in 1 .. n - 1
      BY <1>0, <2>1, <3>1
    <3> QED BY <1>0, <3>1, <3>2 DEF HeldBefore
  <2>2. ASSUME x.what = "down"
        PROVE  HeldBefore(u, n + 1)
    <3>1. n \in 1 .. (n + 1) - 1 /\ u[n].what = "down" /\ n + 1 .. (n + 1) - 1 = {}
      BY <1>0, <2>2
    <3> QED BY <3>1 DEF HeldBefore
  <2>3. ASSUME HeldBefore(s, n), x.what \notin {"up", "cut"}
        PROVE  HeldBefore(u, n + 1)
    <3>1. PICK p \in 1 .. n - 1 : /\ s[p].what = "down"
                                  /\ \A q \in p + 1 .. n - 1 : s[q].what \notin {"up", "cut"}
      BY <2>3 DEF HeldBefore
    <3>2. \A q \in p + 1 .. n : u[q].what \notin {"up", "cut"}
      BY <1>0, <2>3, <3>1
    <3> QED BY <1>0, <3>1, <3>2 DEF HeldBefore
  <2> QED BY <2>1, <2>2, <2>3
<1>7. CleanBefore(u, n + 1) <=>
        \/ x.what = "down"
        \/ CleanBefore(s, n) /\ x.what \notin {"down", "up", "other", "cut"}
  <2> DEFINE W == {"down", "up", "other", "cut"}
  <2>1. ASSUME CleanBefore(u, n + 1), x.what # "down"
        PROVE  CleanBefore(s, n) /\ x.what \notin W
    <3>1. PICK p \in 1 .. n : u[p].what = "down" /\ \A q \in p + 1 .. n : u[q].what \notin W
      BY <2>1, <1>0 DEF CleanBefore
    <3>2. p \in 1 .. n - 1
      BY <1>0, <2>1, <3>1
    <3> QED BY <1>0, <3>1, <3>2 DEF CleanBefore
  <2>2. ASSUME x.what = "down"
        PROVE  CleanBefore(u, n + 1)
    <3>1. n \in 1 .. (n + 1) - 1 /\ u[n].what = "down" /\ n + 1 .. (n + 1) - 1 = {}
      BY <1>0, <2>2
    <3> QED BY <3>1 DEF CleanBefore
  <2>3. ASSUME CleanBefore(s, n), x.what \notin W
        PROVE  CleanBefore(u, n + 1)
    <3>1. PICK p \in 1 .. n - 1 : s[p].what = "down" /\ \A q \in p + 1 .. n - 1 : s[q].what \notin W
      BY <2>3 DEF CleanBefore
    <3>2. \A q \in p + 1 .. n : u[q].what \notin W
      BY <1>0, <2>3, <3>1
    <3> QED BY <1>0, <3>1, <3>2 DEF CleanBefore
  <2> QED BY <2>1, <2>2, <2>3
<1> QED BY <1>3, <1>4, <1>5, <1>6, <1>7

\* The live series after one more stroke.
LEMMA SeriesOn ==
  ASSUME NEW s \in Seq(Strokes), NEW x \in Strokes,
         NEW u, u = s \o <<x>>,
         NEW n, n = Len(s) + 1
  PROVE  SeriesIn(u) = (IF EndsIn(u, n) \/ (TapIn(u, n) /\ ~ContinuesIn(u, n))
                        THEN {} ELSE SeriesIn(s))
                       \cup (IF TapIn(u, n) THEN {n} ELSE {})
<1>0. /\ u \in Seq(Strokes) /\ Len(u) = n /\ u[n] = x /\ Len(s) \in Nat /\ n \in Nat
      /\ \A i \in 1 .. n - 1 : u[i] = s[i]
  BY OneMore
<1>1. \A i \in 1 .. n : HeldBefore(u, i) <=> HeldBefore(s, i)
  <2> SUFFICES ASSUME NEW i \in 1 .. n
               PROVE  HeldBefore(u, i) <=> HeldBefore(s, i)
    OBVIOUS
  <2>1. \A p \in 1 .. i - 1 : u[p] = s[p] /\ \A q \in p + 1 .. i - 1 : u[q] = s[q]
    BY <1>0
  <2> QED BY <2>1 DEF HeldBefore
<1>2. \A i \in 1 .. Len(s) : TapIn(u, i) <=> TapIn(s, i)
  BY StrokeOn, Zenon
<1>3. \A i \in 1 .. Len(s) : EndsIn(u, i) <=> EndsIn(s, i)
  BY <1>0, <1>1, <1>2 DEF EndsIn
<1>4. \A j \in 1 .. Len(s) : ContinuesIn(u, j) <=> ContinuesIn(s, j)
  <2> SUFFICES ASSUME NEW j \in 1 .. Len(s)
               PROVE  ContinuesIn(u, j) <=> ContinuesIn(s, j)
    OBVIOUS
  <2>1. /\ u[j] = s[j]
        /\ \A i \in 1 .. j - 1 : i \in 1 .. Len(s) /\ u[i] = s[i] /\ (TapIn(u, i) <=> TapIn(s, i))
    BY <1>0, <1>2
  <2>2. \A i \in 1 .. j - 1 : \A q \in i + 1 .. j - 1 : q \in 1 .. j - 1
    BY <1>0
  <2> QED BY <2>1, <2>2 DEF ContinuesIn
<1>5. \A i \in 1 .. Len(s) :
         i \in SeriesIn(u) <=>
           i \in SeriesIn(s) /\ ~EndsIn(u, n) /\ (TapIn(u, n) => ContinuesIn(u, n))
  <2> SUFFICES ASSUME NEW i \in 1 .. Len(s)
               PROVE  i \in SeriesIn(u) <=>
                        i \in SeriesIn(s) /\ ~EndsIn(u, n) /\ (TapIn(u, n) => ContinuesIn(u, n))
    OBVIOUS
  <2>1. i + 1 .. Len(u) = (i + 1 .. Len(s)) \cup {n} /\ i \in 1 .. Len(u)
    BY <1>0
  <2>2. \A q \in i + 1 .. Len(s) : q \in 1 .. Len(s)
    BY <1>0
  <2>3. (\A q \in i + 1 .. Len(u) : ~EndsIn(u, q))
          <=> (\A q \in i + 1 .. Len(s) : ~EndsIn(s, q)) /\ ~EndsIn(u, n)
    BY <2>1, <2>2, <1>3
  <2>4. (\A j \in i + 1 .. Len(u) : TapIn(u, j) => ContinuesIn(u, j))
          <=> /\ \A j \in i + 1 .. Len(s) : TapIn(s, j) => ContinuesIn(s, j)
              /\ TapIn(u, n) => ContinuesIn(u, n)
    BY <2>1, <2>2, <1>2, <1>4
  <2> QED BY <2>1, <2>3, <2>4, <1>2 DEF SeriesIn
<1>6. n \in SeriesIn(u) <=> TapIn(u, n)
  <2>1. n + 1 .. Len(u) = {} /\ n \in 1 .. Len(u)
    BY <1>0
  <2> QED BY <2>1 DEF SeriesIn
<1>7. SeriesIn(u) \subseteq (1 .. Len(s)) \cup {n} /\ SeriesIn(s) \subseteq 1 .. Len(s)
  BY <1>0 DEF SeriesIn
<1>8. SeriesIn(u) = (IF EndsIn(u, n) \/ (TapIn(u, n) /\ ~ContinuesIn(u, n))
                      THEN {} ELSE SeriesIn(s))
                     \cup (IF TapIn(u, n) THEN {n} ELSE {})
  BY <1>5, <1>6, <1>7
<1> QED BY <1>8

-----------------------------------------------------------------------------
Saturated(c) == IF c < MaxTaps THEN c ELSE MaxTaps

\* The machine holds the key exactly when the strokes do.
HoldsAsStruck(s, f) ==
  /\ f.held <=> HeldBefore(s, Len(s) + 1)
  /\ f.held /\ ~f.sawKey <=> CleanBefore(s, Len(s) + 1)

\* The machine remembers the moment of the last tap, and no tap is later.
RemembersTheLast(s, f) ==
  /\ \/ \A i \in 1 .. Len(s) : ~TapIn(s, i)
     \/ \E i \in 1 .. Len(s) : /\ TapIn(s, i) /\ s[i].at = f.lastTap
                               /\ \A q \in i + 1 .. Len(s) : ~TapIn(s, q)
  /\ \A i \in 1 .. Len(s) : TapIn(s, i) => s[i].at =< f.lastTap

\* The machine counts the live series.
CountsThem(s, f) ==
  IsFiniteSet(SeriesIn(s)) /\ f.taps = Saturated(Cardinality(SeriesIn(s)))

Follows(s, f) == HoldsAsStruck(s, f) /\ RemembersTheLast(s, f) /\ CountsThem(s, f)

\* A stroke that is not a tap: the last tap stays, and the count goes to
\* zero exactly when the stroke ends the series.
LEMMA NoTapFollows ==
  ASSUME NEW s \in Seq(Strokes), NEW x \in Strokes, NEW f \in FSM, NEW g \in FSM,
         Follows(s, f),
         NEW u, u = s \o <<x>>, NEW n, n = Len(s) + 1,
         ~TapIn(u, n),
         HoldsAsStruck(u, g),
         g.lastTap = f.lastTap,
         g.taps = IF EndsIn(u, n) THEN 0 ELSE f.taps
  PROVE  Follows(u, g)
<1>0. /\ u \in Seq(Strokes) /\ Len(u) = n /\ Len(s) \in Nat /\ n \in Nat
      /\ \A i \in 1 .. Len(s) : u[i] = s[i] /\ (TapIn(u, i) <=> TapIn(s, i))
  <2>1. u \in Seq(Strokes) /\ Len(u) = n /\ u[n] = x /\ n \in Nat
    BY OneMore
  <2>2. \A i \in 1 .. Len(s) : u[i] = s[i]
    BY OneMore
  <2>3. \A i \in 1 .. Len(s) : TapIn(u, i) <=> TapIn(s, i)
    BY StrokeOn, Zenon
  <2> QED BY <2>1, <2>2, <2>3
<1>1. RemembersTheLast(u, g)
  <2>1. \A i \in 1 .. n : TapIn(u, i) <=> i \in 1 .. Len(s) /\ TapIn(s, i)
    BY <1>0
  <2>2. \A i \in 1 .. n : TapIn(u, i) => u[i].at =< g.lastTap
    BY <2>1, <1>0 DEF Follows, RemembersTheLast
  <2>3. CASE \A i \in 1 .. Len(s) : ~TapIn(s, i)
    BY <2>1, <2>2, <2>3, <1>0 DEF RemembersTheLast
  <2>4. ASSUME NEW i \in 1 .. Len(s), TapIn(s, i), s[i].at = f.lastTap,
               \A q \in i + 1 .. Len(s) : ~TapIn(s, q)
        PROVE  RemembersTheLast(u, g)
    <3>1. \A q \in i + 1 .. n : ~TapIn(u, q)
      BY <2>1, <2>4, <1>0
    <3>2. i \in 1 .. n /\ TapIn(u, i) /\ u[i].at = g.lastTap
      BY <2>1, <2>4, <1>0
    <3> QED BY <2>2, <3>1, <3>2, <1>0 DEF RemembersTheLast
  <2> QED BY <2>3, <2>4 DEF Follows, RemembersTheLast
<1>2. SeriesIn(u) = IF EndsIn(u, n) THEN {} ELSE SeriesIn(s)
  <2>1. SeriesIn(u) = (IF EndsIn(u, n) \/ (TapIn(u, n) /\ ~ContinuesIn(u, n))
                       THEN {} ELSE SeriesIn(s))
                      \cup (IF TapIn(u, n) THEN {n} ELSE {})
    BY SeriesOn
  <2> QED BY <2>1
<1>3. CountsThem(u, g)
  <2>1. CASE EndsIn(u, n)
    <3>1. SeriesIn(u) = {} /\ g.taps = 0
      BY <1>2, <2>1
    <3>2. IsFiniteSet(SeriesIn(u)) /\ Cardinality(SeriesIn(u)) = 0
      BY <3>1, FS_EmptySet
    <3> QED BY <3>1, <3>2 DEF CountsThem, Saturated
  <2>2. CASE ~EndsIn(u, n)
    BY <1>2, <2>2 DEF CountsThem, Follows
  <2> QED BY <2>1, <2>2
<1> QED BY <1>1, <1>3 DEF Follows

\* A tap: within the window of the tap before it, it joins the series; after
\* a wider gap it starts a new one.
LEMMA TapFollows ==
  ASSUME NEW s \in Seq(Strokes), NEW x \in Strokes, NEW f \in FSM, NEW g \in FSM,
         Follows(s, f),
         NEW u, u = s \o <<x>>, NEW n, n = Len(s) + 1,
         TapIn(u, n), x.what = "up", f.lastTap =< x.at, x.window = f.window,
         HoldsAsStruck(u, g),
         g.lastTap = x.at,
         g.taps = Counted(f, x.at)
  PROVE  Follows(u, g)
<1>0. /\ u \in Seq(Strokes) /\ Len(u) = n /\ Len(s) \in Nat /\ n \in Nat /\ u[n] = x
      /\ \A i \in 1 .. Len(s) : u[i] = s[i] /\ (TapIn(u, i) <=> TapIn(s, i))
  <2>1. u \in Seq(Strokes) /\ Len(u) = n /\ u[n] = x /\ n \in Nat
    BY OneMore
  <2>2. \A i \in 1 .. Len(s) : u[i] = s[i]
    BY OneMore
  <2>3. \A i \in 1 .. Len(s) : TapIn(u, i) <=> TapIn(s, i)
    BY StrokeOn, Zenon
  <2> QED BY <2>1, <2>2, <2>3
<1>t. /\ f.lastTap \in Nat /\ x.at \in Nat /\ f.window \in Nat /\ f.taps \in 0 .. MaxTaps
      /\ \A i \in 1 .. Len(s) : s[i].at \in Nat
  <2>1. \A i \in 1 .. Len(s) : s[i] \in Strokes
    BY <1>0
  <2> QED BY <2>1, WindowsAssumption DEF FSM, Strokes
<1>1. RemembersTheLast(u, g)
  <2>1. \A i \in 1 .. n : TapIn(u, i) => u[i].at =< g.lastTap
    <3>1. \A i \in 1 .. Len(s) : TapIn(u, i) => u[i].at =< g.lastTap
      BY <1>0, <1>t DEF Follows, RemembersTheLast
    <3> QED BY <3>1, <1>0, <1>t
  <2>2. n \in 1 .. n /\ TapIn(u, n) /\ u[n].at = g.lastTap /\ n + 1 .. n = {}
    BY <1>0
  <2> QED BY <2>1, <2>2, <1>0 DEF RemembersTheLast
<1>2. ~EndsIn(u, n)
  BY <1>0 DEF EndsIn
<1>3. SeriesIn(u) = (IF ContinuesIn(u, n) THEN SeriesIn(s) ELSE {}) \cup {n}
  <2>1. SeriesIn(u) = (IF EndsIn(u, n) \/ (TapIn(u, n) /\ ~ContinuesIn(u, n))
                       THEN {} ELSE SeriesIn(s))
                      \cup (IF TapIn(u, n) THEN {n} ELSE {})
    BY SeriesOn
  <2> QED BY <2>1, <1>2
<1>4. n \notin SeriesIn(s) /\ IsFiniteSet(SeriesIn(s))
      /\ f.taps = Saturated(Cardinality(SeriesIn(s))) /\ Cardinality(SeriesIn(s)) \in Nat
  <2>1. IsFiniteSet(SeriesIn(s)) /\ f.taps = Saturated(Cardinality(SeriesIn(s)))
    BY DEF Follows, CountsThem
  <2> QED BY <2>1, <1>0, FS_CardinalityType DEF SeriesIn
<1>5. f.taps > 0 => (ContinuesIn(u, n) <=> x.at - f.lastTap =< f.window)
  <2> SUFFICES ASSUME f.taps > 0
               PROVE  ContinuesIn(u, n) <=> x.at - f.lastTap =< f.window
    OBVIOUS
  <2>1. \E i \in 1 .. Len(s) : TapIn(s, i)
    <3>1. SeriesIn(s) # {}
      BY <1>4, FS_EmptySet DEF Saturated
    <3> QED BY <3>1 DEF SeriesIn
  <2>2. PICK i \in 1 .. Len(s) : /\ TapIn(s, i) /\ s[i].at = f.lastTap
                                 /\ \A q \in i + 1 .. Len(s) : ~TapIn(s, q)
    BY <2>1 DEF Follows, RemembersTheLast
  <2>3. \A k \in 1 .. n - 1 : TapIn(u, k) /\ (\A q \in k + 1 .. n - 1 : ~TapIn(u, q)) <=> k = i
    <3>1. n - 1 = Len(s)
      BY <1>0
    <3>2. TapIn(u, i) /\ \A q \in i + 1 .. Len(s) : ~TapIn(u, q)
      BY <2>2, <1>0
    <3>3. ASSUME NEW k \in 1 .. Len(s), TapIn(u, k), \A q \in k + 1 .. Len(s) : ~TapIn(u, q)
          PROVE  k = i
      BY <3>2, <3>3, <1>0
    <3> QED BY <3>1, <3>2, <3>3
  <2>4. ContinuesIn(u, n) <=> u[n].at - u[i].at =< u[n].window
    BY <2>3, <1>0 DEF ContinuesIn
  <2> QED BY <2>2, <2>4, <1>0
<1>6. CASE f.taps > 0 /\ x.at - f.lastTap > f.window
  <2>1. SeriesIn(u) = {n}
    BY <1>3, <1>5, <1>6, <1>t
  <2>2. IsFiniteSet(SeriesIn(u)) /\ Cardinality(SeriesIn(u)) = 1
    BY <2>1, FS_Singleton
  <2>3. g.taps = 1
    BY <1>6 DEF Counted
  <2>4. CountsThem(u, g)
    BY <2>2, <2>3 DEF CountsThem, Saturated
  <2> QED BY <1>1, <2>4 DEF Follows
<1>7. CASE ~(f.taps > 0 /\ x.at - f.lastTap > f.window)
  <2>1. SeriesIn(u) = SeriesIn(s) \cup {n}
    <3>1. CASE f.taps > 0
      BY <3>1, <1>3, <1>5, <1>7, <1>t
    <3>2. CASE f.taps = 0
      <4>1. SeriesIn(s) = {}
        BY <3>2, <1>4, FS_EmptySet DEF Saturated
      <4> QED BY <4>1, <1>3
    <3> QED BY <3>1, <3>2, <1>t
  <2>2. IsFiniteSet(SeriesIn(u)) /\ Cardinality(SeriesIn(u)) = Cardinality(SeriesIn(s)) + 1
    <3> DEFINE S == SeriesIn(s)
    <3>1. IsFiniteSet(S) /\ n \notin S
      BY <1>4
    <3> HIDE DEF S
    <3>2. IsFiniteSet(S \cup {n}) /\ Cardinality(S \cup {n}) = Cardinality(S) + 1
      BY <3>1, FS_AddElement
    <3> QED BY <2>1, <3>2 DEF S
  <2>3. g.taps = IF f.taps < MaxTaps THEN f.taps + 1 ELSE f.taps
    BY <1>7 DEF Counted
  <2>4. CountsThem(u, g)
    BY <2>2, <2>3, <1>4 DEF CountsThem, Saturated
  <2> QED BY <1>1, <2>4 DEF Follows
<1> QED BY <1>6, <1>7
-----------------------------------------------------------------------------
\* A cut of the log is a disarmed machine.
LEMMA CutFollows ==
  ASSUME NEW s \in Seq(Strokes), NEW f \in FSM, NEW g \in FSM, Follows(s, f),
         NEW x \in Strokes, x.what = "cut",
         ~g.held, g.taps = 0, g.lastTap = f.lastTap
  PROVE  s \o <<x>> \in Seq(Strokes) /\ Follows(s \o <<x>>, g)
<1> DEFINE u == s \o <<x>>
           n == Len(s) + 1
<1>1. u \in Seq(Strokes) /\ Len(u) = n /\ n \in Nat
  BY OneMore
<1>2. ~HeldBefore(u, n + 1) /\ ~CleanBefore(u, n + 1) /\ EndsIn(u, n) /\ ~TapIn(u, n)
  BY StrokeOn, ZenonT(60)
<1> HIDE DEF u, n
<1>3. HoldsAsStruck(u, g)
  BY <1>1, <1>2 DEF HoldsAsStruck
<1>4. Follows(u, g)
  BY <1>2, <1>3, NoTapFollows DEF u, n
<1> QED BY <1>1, <1>4 DEF u

\* A press is followed: the tap key arms the machine, another key spoils the
\* hold or ends the series.
LEMMA PressFollows ==
  ASSUME NEW s \in Seq(Strokes), NEW f \in FSM, Follows(s, f), NEW k \in Keys,
         NEW x \in Strokes, x.what = IF k = f.key THEN "down" ELSE "other"
  PROVE  s \o <<x>> \in Seq(Strokes) /\ Follows(s \o <<x>>, KeyPress(f, k))
<1> DEFINE u == s \o <<x>>
           n == Len(s) + 1
           g == KeyPress(f, k)
<1>0. g \in FSM /\ g.lastTap = f.lastTap
  BY PressedMachine
<1>1. u \in Seq(Strokes) /\ Len(u) = n /\ n \in Nat
  BY OneMore
<1>2. /\ HeldBefore(u, n + 1) <=> x.what = "down" \/ HeldBefore(s, n)
      /\ CleanBefore(u, n + 1) <=> x.what = "down"
      /\ EndsIn(u, n) <=> x.what = "other" /\ ~HeldBefore(s, n)
      /\ ~TapIn(u, n)
  <2>1. x.what \in {"down", "other"}
    OBVIOUS
  <2> QED BY <2>1, StrokeOn, ZenonT(60)
<1>3. f.held <=> HeldBefore(s, n)
  BY DEF Follows, HoldsAsStruck
<1>4. CASE k = f.key
  <2>1. g.held = TRUE /\ g.sawKey = FALSE /\ g.taps = f.taps
    BY <1>4 DEF KeyPress, FSM
  <2> HIDE DEF u, n, g
  <2>2. HoldsAsStruck(u, g)
    BY <1>1, <1>2, <1>4, <2>1 DEF HoldsAsStruck
  <2>3. ~EndsIn(u, n)
    BY <1>2, <1>4
  <2> QED BY <1>0, <1>1, <1>2, <2>1, <2>2, <2>3, NoTapFollows DEF u, n, g
<1>5. CASE k # f.key /\ f.held
  <2>1. g.held = TRUE /\ g.sawKey = TRUE /\ g.taps = f.taps
    BY <1>5 DEF KeyPress, FSM
  <2> HIDE DEF u, n, g
  <2>2. HoldsAsStruck(u, g)
    BY <1>1, <1>2, <1>3, <1>5, <2>1 DEF HoldsAsStruck
  <2>3. ~EndsIn(u, n)
    BY <1>2, <1>3, <1>5
  <2> QED BY <1>0, <1>1, <1>2, <2>1, <2>2, <2>3, NoTapFollows DEF u, n, g
<1>6. CASE k # f.key /\ ~f.held
  <2>1. g.held = FALSE /\ g.taps = 0
    BY <1>6 DEF KeyPress, FSM
  <2> HIDE DEF u, n, g
  <2>2. HoldsAsStruck(u, g)
    BY <1>1, <1>2, <1>3, <1>6, <2>1 DEF HoldsAsStruck
  <2>3. EndsIn(u, n)
    BY <1>2, <1>3, <1>6
  <2> QED BY <1>0, <1>1, <1>2, <2>1, <2>2, <2>3, NoTapFollows DEF u, n, g
<1> QED BY <1>4, <1>5, <1>6 DEF FSM

\* A release is followed: a clean one of the tap key is a tap.
LEMMA ReleaseFollows ==
  ASSUME NEW s \in Seq(Strokes), NEW f \in FSM, Follows(s, f), NEW k \in Keys,
         NEW x \in Strokes, x.what = IF k = f.key THEN "up" ELSE "otherUp",
         x.window = f.window, f.lastTap =< x.at
  PROVE  s \o <<x>> \in Seq(Strokes) /\ Follows(s \o <<x>>, KeyRelease(f, k, x.at))
<1> DEFINE u == s \o <<x>>
           n == Len(s) + 1
           t == x.at
           g == KeyRelease(f, k, t)
<1>0. g \in FSM /\ t \in Nat /\ f.lastTap \in Nat
  <2>1. t \in Nat
    BY DEF Strokes
  <2> QED BY <2>1, ReleasedMachine DEF FSM
<1>1. u \in Seq(Strokes) /\ Len(u) = n /\ n \in Nat
  BY OneMore
<1>2. /\ HeldBefore(u, n + 1) <=> x.what = "otherUp" /\ HeldBefore(s, n)
      /\ CleanBefore(u, n + 1) <=> x.what = "otherUp" /\ CleanBefore(s, n)
      /\ EndsIn(u, n) <=> \/ x.what = "otherUp" /\ ~HeldBefore(s, n)
                          \/ x.what = "up" /\ HeldBefore(s, n) /\ ~CleanBefore(s, n)
      /\ TapIn(u, n) <=> x.what = "up" /\ CleanBefore(s, n)
  <2>1. x.what \in {"up", "otherUp"}
    OBVIOUS
  <2> QED BY <2>1, StrokeOn, ZenonT(60)
<1>3. (f.held <=> HeldBefore(s, n)) /\ (f.held /\ ~f.sawKey <=> CleanBefore(s, n))
  BY DEF Follows, HoldsAsStruck
<1>4. CASE k = f.key /\ ~f.held
  <2>1. g = f
    BY <1>4 DEF KeyRelease, ReleaseTap
  <2> HIDE DEF u, n, g
  <2>2. HoldsAsStruck(u, g) /\ ~EndsIn(u, n) /\ ~TapIn(u, n)
    BY <1>1, <1>2, <1>3, <1>4, <2>1 DEF HoldsAsStruck
  <2> QED BY <1>0, <1>1, <2>1, <2>2, NoTapFollows DEF u, n, g
<1>5. CASE k = f.key /\ f.held /\ f.sawKey
  <2>1. g.held = FALSE /\ g.taps = 0 /\ g.lastTap = f.lastTap
    BY <1>5 DEF KeyRelease, ReleaseTap, FSM
  <2> HIDE DEF u, n, g
  <2>2. HoldsAsStruck(u, g) /\ EndsIn(u, n) /\ ~TapIn(u, n)
    BY <1>1, <1>2, <1>3, <1>5, <2>1 DEF HoldsAsStruck
  <2> QED BY <1>0, <1>1, <2>1, <2>2, NoTapFollows DEF u, n, g
<1>6. CASE k = f.key /\ f.held /\ ~f.sawKey
  <2>1. g.held = FALSE /\ g.taps = Counted(f, t) /\ g.lastTap = t
    <3> DEFINE c == Counted(f, t)
    <3>1. g = [f EXCEPT !.held = FALSE, !.taps = c, !.lastTap = t]
      BY <1>6 DEF KeyRelease, ReleaseTap
    <3> HIDE DEF c, t
    <3> QED BY <3>1 DEF FSM, c
  <2> HIDE DEF u, n, g
  <2>2. HoldsAsStruck(u, g) /\ TapIn(u, n)
    BY <1>1, <1>2, <1>3, <1>6, <2>1 DEF HoldsAsStruck
  <2> QED BY <1>0, <1>1, <1>6, <2>1, <2>2, TapFollows DEF u, n, g
<1>7. CASE k # f.key /\ f.held
  <2>1. g = f
    BY <1>7 DEF KeyRelease
  <2> HIDE DEF u, n, g
  <2>2. HoldsAsStruck(u, g) /\ ~EndsIn(u, n) /\ ~TapIn(u, n)
    BY <1>1, <1>2, <1>3, <1>7, <2>1 DEF HoldsAsStruck
  <2> QED BY <1>0, <1>1, <2>1, <2>2, NoTapFollows DEF u, n, g
<1>8. CASE k # f.key /\ ~f.held
  <2>1. g.held = FALSE /\ g.taps = 0 /\ g.lastTap = f.lastTap
    BY <1>8 DEF KeyRelease, FSM
  <2> HIDE DEF u, n, g
  <2>2. HoldsAsStruck(u, g) /\ EndsIn(u, n) /\ ~TapIn(u, n)
    BY <1>1, <1>2, <1>3, <1>8, <2>1 DEF HoldsAsStruck
  <2> QED BY <1>0, <1>1, <2>1, <2>2, NoTapFollows DEF u, n, g
<1> QED BY <1>4, <1>5, <1>6, <1>7, <1>8 DEF FSM

\* A decision is followed: it ends the series and leaves the keys as they are.
LEMMA DecisionFollows ==
  ASSUME NEW s \in Seq(Strokes), NEW f \in FSM, Follows(s, f),
         NEW t \in Nat, Decides(f, t),
         NEW x \in Strokes, x.what = "decide"
  PROVE  s \o <<x>> \in Seq(Strokes) /\ Follows(s \o <<x>>, Expired(f, t))
<1> DEFINE u == s \o <<x>>
           n == Len(s) + 1
           g == Expired(f, t)
<1>0. g \in FSM /\ g.lastTap = f.lastTap /\ g.taps = 0
      /\ g.held = f.held /\ g.sawKey = f.sawKey
  <2>1. g \in FSM
    BY ExpiredMachine
  <2> QED BY <2>1 DEF Expired, FSM
<1>1. u \in Seq(Strokes) /\ Len(u) = n /\ n \in Nat
  BY OneMore
<1>2. /\ HeldBefore(u, n + 1) <=> HeldBefore(s, n)
      /\ CleanBefore(u, n + 1) <=> CleanBefore(s, n)
      /\ EndsIn(u, n) /\ ~TapIn(u, n)
  BY StrokeOn
<1> HIDE DEF u, n, g
<1>3. HoldsAsStruck(u, g)
  BY <1>0, <1>1, <1>2 DEF HoldsAsStruck, Follows, n
<1>4. Follows(u, g)
  BY <1>0, <1>2, <1>3, NoTapFollows DEF u, n
<1> QED BY <1>1, <1>4 DEF u, g

-----------------------------------------------------------------------------
\* A fold of the document is followed: it changes the tap key, and then both
\* sides end the series, or it changes neither the series nor the keys held.
LEMMA FoldFollows ==
  ASSUME TypeOK, log \in Seq(Strokes), Follows(log, fsm)
  PROVE  /\ KeyCut \in Seq(Strokes) /\ log \o KeyCut \in Seq(Strokes)
         /\ Follows(log \o KeyCut, Folded)
<1>0. Folded \in FSM /\ Folded.lastTap = fsm.lastTap
  BY FoldedTypes
<1>1. /\ doc.key = fsm.key => /\ Folded.held = fsm.held /\ Folded.sawKey = fsm.sawKey
                              /\ Folded.taps = fsm.taps
      /\ doc.key # fsm.key => ~Folded.held /\ Folded.taps = 0
  <2>1. fsm \in FSM
    BY DEF TypeOK
  <2> QED BY <2>1 DEF Folded, SetTapKey, Disarmed, FSM
<1>2. CASE doc.key = fsm.key
  <2>1. KeyCut = <<>> /\ log \o KeyCut = log
    BY <1>2 DEF KeyCut
  <2>2. Follows(log, Folded)
    BY <1>0, <1>1, <1>2 DEF Follows, HoldsAsStruck, RemembersTheLast, CountsThem
  <2> QED BY <2>1, <2>2
<1>3. CASE doc.key # fsm.key
  <2>1. KeyCut = <<Stroke("cut")>>
    BY <1>3 DEF KeyCut
  <2>2. Stroke("cut") \in Strokes /\ Stroke("cut").what = "cut"
    BY WindowsAssumption DEF Stroke, Strokes, TypeOK, Document
  <2>3. fsm \in FSM
    BY DEF TypeOK
  <2>4. log \o KeyCut \in Seq(Strokes) /\ Follows(log \o KeyCut, Folded)
    BY <1>0, <1>1, <1>3, <2>1, <2>2, <2>3, CutFollows
  <2> QED BY <2>1, <2>2, <2>4
<1> QED BY <1>2, <1>3

-----------------------------------------------------------------------------
\* The machine follows the strokes, and each side has its type.
LogInv == TypeOK /\ log \in Seq(Strokes) /\ Follows(log, fsm)

\* A step of the log is a step of the recogniser.
LEMMA LogStep == [LogNext]_logVars => [Next]_vars
BY DEF LogNext, LogPress, LogRelease, LogContextDeath, LogFold, LogExpiry,
       Next, logVars, vars

\* With an empty log there is nothing to follow.
LEMMA LogInvInit == LogInit => LogInv
<1> SUFFICES ASSUME LogInit
             PROVE  LogInv
  OBVIOUS
<1>1. TypeOK /\ log \in Seq(Strokes) /\ Len(log) = 0 /\ 1 .. Len(log) = {}
  BY TypeInit DEF LogInit
<1>2. fsm.taps = 0 /\ ~fsm.held
  BY DEF LogInit, Init
<1>3. HoldsAsStruck(log, fsm)
  BY <1>1, <1>2 DEF HoldsAsStruck, HeldBefore, CleanBefore
<1>4. RemembersTheLast(log, fsm)
  BY <1>1 DEF RemembersTheLast
<1>5. CountsThem(log, fsm)
  <2>1. SeriesIn(log) = {}
    BY <1>1 DEF SeriesIn
  <2>2. IsFiniteSet(SeriesIn(log)) /\ Cardinality(SeriesIn(log)) = 0
    BY <2>1, FS_EmptySet
  <2> QED BY <1>2, <2>2 DEF CountsThem, Saturated
<1> QED BY <1>1, <1>3, <1>4, <1>5 DEF LogInv, Follows

\* Every step appends at most three strokes, and the machine follows each.
LEMMA LogInvStep == LogInv /\ [LogNext]_logVars => LogInv'
<1> SUFFICES ASSUME LogInv, [LogNext]_logVars
             PROVE  LogInv'
  OBVIOUS
<1>0. TypeOK /\ log \in Seq(Strokes) /\ Follows(log, fsm) /\ TypeOK'
  BY LogStep, TypeStep DEF LogInv
<1>f. /\ KeyCut \in Seq(Strokes) /\ log \o KeyCut \in Seq(Strokes)
      /\ Follows(log \o KeyCut, Folded)
  BY <1>0, FoldFollows
<1>g. /\ Folded \in FSM /\ Folded.lastTap = fsm.lastTap /\ Folded.lastTap =< now
      /\ Folded.window = doc.window /\ Folded.key = doc.key
  BY <1>0, FoldedTypes DEF TypeOK
<1>s. \A w \in {"down", "up", "other", "otherUp", "cut", "decide"} :
        Stroke(w) \in Strokes /\ Stroke(w).what = w /\ Stroke(w).at = now
        /\ Stroke(w).window = doc.window
  <2>1. now \in Nat /\ doc.window \in Nat
    BY <1>0, WindowsAssumption DEF TypeOK, Document
  <2> QED BY <2>1 DEF Stroke, Strokes
\* One stroke, or two, after the fold.
<1>a. \A x \in Strokes : log \o (KeyCut \o <<x>>) = (log \o KeyCut) \o <<x>>
  <2> SUFFICES ASSUME NEW x \in Strokes
               PROVE  log \o (KeyCut \o <<x>>) = (log \o KeyCut) \o <<x>>
    OBVIOUS
  <2>1. <<x>> \in Seq(Strokes)
    OBVIOUS
  <2> QED BY <1>0, <1>f, <2>1, ConcatAssociative
<1>b. \A x \in Strokes : KeyCut \o <<x>> \in Seq(Strokes)
  BY <1>f
<1>1. ASSUME NEW k \in Keys, NEW gesture \in BOOLEAN, LogPress(k, gesture)
      PROVE  LogInv'
  <2> DEFINE x == Stroke(IF k = doc.key THEN "down" ELSE "other")
             f == KeyPress(Folded, k)
             s == (log \o KeyCut) \o <<x>>
  <2>1. x \in Strokes /\ x.what = IF k = doc.key THEN "down" ELSE "other"
    BY <1>s
  <2>2. fsm' = IF gesture THEN Disarmed(f) ELSE f
    BY <1>1 DEF LogPress, Press
  <2>3. log' = log \o ((KeyCut \o <<x>>)
                       \o (IF gesture THEN <<Stroke("cut")>> ELSE <<>>))
    BY <1>1 DEF LogPress, Note
  <2> HIDE DEF x
  <2>4. s \in Seq(Strokes) /\ Follows(s, f) /\ f \in FSM
    <3>1. s \in Seq(Strokes) /\ Follows(s, f)
      BY <1>f, <1>g, <2>1, PressFollows
    <3> QED BY <3>1, <1>g, PressedMachine
  <2>5. CASE ~gesture
    <3>1. log' = s
      <4>1. (KeyCut \o <<x>>) \o <<>> = KeyCut \o <<x>>
        BY <1>b, <2>1, ConcatEmptySeq
      <4> QED BY <2>1, <2>3, <2>5, <4>1, <1>a
    <3> QED BY <1>0, <2>2, <2>4, <2>5, <3>1 DEF LogInv
  <2>6. CASE gesture
    <3> DEFINE c == Stroke("cut")
    <3>1. c \in Strokes /\ c.what = "cut"
      BY <1>s
    <3> HIDE DEF c
    <3>2. log' = s \o <<c>>
      <4>1. <<c>> \in Seq(Strokes)
        BY <3>1
      <4>2. log \o ((KeyCut \o <<x>>) \o <<c>>) = (log \o (KeyCut \o <<x>>)) \o <<c>>
        BY <1>0, <1>b, <2>1, <4>1, ConcatAssociative
      <4> QED BY <2>1, <2>3, <2>6, <4>2, <1>a DEF c
    <3>3. /\ Disarmed(f) \in FSM /\ ~Disarmed(f).held /\ Disarmed(f).taps = 0
          /\ Disarmed(f).lastTap = f.lastTap
      <4>1. Disarmed(f) \in FSM
        BY <2>4, DisarmedMachine
      <4> HIDE DEF f
      <4> QED BY <2>4, <4>1 DEF Disarmed, FSM
    <3> HIDE DEF s, f
    <3>4. log' \in Seq(Strokes) /\ Follows(log', Disarmed(f))
      BY <2>4, <3>1, <3>2, <3>3, CutFollows
    <3> QED BY <1>0, <2>2, <2>6, <3>4 DEF LogInv
  <2> QED BY <2>5, <2>6
<1>2. ASSUME NEW k \in Keys, LogRelease(k)
      PROVE  LogInv'
  <2> DEFINE x == Stroke(IF k = doc.key THEN "up" ELSE "otherUp")
  <2>1. /\ x \in Strokes /\ x.what = IF k = doc.key THEN "up" ELSE "otherUp"
        /\ x.at = now /\ x.window = doc.window
    BY <1>s
  <2>2. fsm' = KeyRelease(Folded, k, x.at) /\ log' = log \o (KeyCut \o <<x>>)
    BY <1>2, <2>1 DEF LogRelease, Release, Note
  <2> HIDE DEF x
  <2>3. log' = (log \o KeyCut) \o <<x>>
    BY <2>1, <2>2, <1>a
  <2>4. log' \in Seq(Strokes) /\ Follows(log', fsm')
    BY <1>f, <1>g, <2>1, <2>2, <2>3, ReleaseFollows
  <2> QED BY <1>0, <2>4 DEF LogInv
<1>3. CASE LogContextDeath
  <2> DEFINE x == Stroke("cut")
  <2>1. x \in Strokes /\ x.what = "cut"
    BY <1>s
  <2>2. log' = log \o <<x>> /\ fsm' = Disarmed(fsm)
    BY <1>3 DEF LogContextDeath, ContextDeath, Note
  <2>3. fsm \in FSM /\ fsm' \in FSM /\ ~fsm'.held /\ fsm'.taps = 0 /\ fsm'.lastTap = fsm.lastTap
    <3>1. fsm \in FSM /\ fsm' \in FSM
      BY <1>0 DEF TypeOK
    <3> QED BY <2>2, <3>1 DEF Disarmed, FSM
  <2> HIDE DEF x
  <2>4. log' \in Seq(Strokes) /\ Follows(log', fsm')
    BY <1>0, <2>1, <2>2, <2>3, CutFollows
  <2> QED BY <1>0, <2>4 DEF LogInv
<1>4. CASE LogFold
  BY <1>0, <1>f, <1>4 DEF LogFold, Fold, Note, LogInv
<1>5. ASSUME NEW t \in calls, LogExpiry(t)
      PROVE  LogInv'
  <2>0. t \in Nat
    BY <1>0 DEF TypeOK
  <2>1. fsm' = Expired(Folded, t)
    BY <1>5 DEF LogExpiry, ExpiryAt
  <2>2. CASE Decides(Folded, t)
    <3> DEFINE x == Stroke("decide")
    <3>1. x \in Strokes /\ x.what = "decide"
      BY <1>s
    <3>2. log' = log \o (KeyCut \o <<x>>)
      BY <1>5, <2>2 DEF LogExpiry, Note
    <3> HIDE DEF x
    <3>3. log' = (log \o KeyCut) \o <<x>>
      BY <3>1, <3>2, <1>a
    <3>4. log' \in Seq(Strokes) /\ Follows(log', fsm')
      BY <1>f, <1>g, <2>0, <2>1, <2>2, <3>1, <3>3, DecisionFollows
    <3> QED BY <1>0, <3>4 DEF LogInv
  <2>3. CASE ~Decides(Folded, t)
    <3>1. log' = log \o KeyCut
      <4>1. KeyCut \o <<>> = KeyCut
        BY <1>f, ConcatEmptySeq
      <4> QED BY <1>5, <2>3, <4>1 DEF LogExpiry, Note
    <3>2. fsm' = Folded
      BY <2>1, <2>3 DEF Expired
    <3> QED BY <1>0, <1>f, <3>1, <3>2 DEF LogInv
  <2> QED BY <2>2, <2>3
<1>6. ASSUME UNCHANGED <<log, fsm>>
      PROVE  LogInv'
  BY <1>0, <1>6 DEF LogInv
<1> QED
  BY <1>1, <1>2, <1>3, <1>4, <1>5, <1>6
     DEF LogNext, logVars, EditDocument, Fire, Tick

\* The machine counts exactly the taps of the live series the owner struck,
\* whatever the keys, the windows, the edits of the document and the bounds
\* (CountsTheSeries).
THEOREM CountsEveryTap == LogSpec => []CountsTheSeries
<1>1. LogInv => CountsTheSeries
  <2> SUFFICES ASSUME LogInv
               PROVE  CountsTheSeries
    OBVIOUS
  <2>1. Series = SeriesIn(log)
    BY InTheLog DEF LogInv
  <2> QED BY <2>1 DEF LogInv, Follows, CountsThem, Saturated, CountsTheSeries
<1> QED BY <1>1, LogInvInit, LogInvStep, PTL DEF LogSpec

\* A decision falls on a key that was quiet for a whole window before the
\* callback read the clock (DecisionIsQuiet).
THEOREM DecidesOnAQuietKey == LogSpec => DecisionIsQuiet
<1> DEFINE Quiet ==
      Len(log') > Len(log) /\ log'[Len(log')].what = "decide" =>
        \A t \in calls :
          LogExpiry(t) => \A i \in DOMAIN log : Tap(i) => log[i].at =< t - doc.window
<1>1. LogInv /\ [LogNext]_logVars => [Quiet]_logVars
  <2> SUFFICES ASSUME LogInv, Len(log') > Len(log), log'[Len(log')].what = "decide",
                      NEW t \in calls, LogExpiry(t),
                      NEW i \in DOMAIN log, Tap(i)
               PROVE  log[i].at =< t - doc.window
    OBVIOUS
  <2>1. /\ TypeOK /\ log \in Seq(Strokes) /\ i \in 1 .. Len(log)
        /\ TapIn(log, i) /\ log[i].at =< fsm.lastTap
    <3>1. TypeOK /\ log \in Seq(Strokes) /\ RemembersTheLast(log, fsm)
      BY DEF LogInv, Follows
    <3>2. i \in 1 .. Len(log) /\ TapIn(log, i)
      BY <3>1, InTheLog
    <3> QED BY <3>1, <3>2 DEF RemembersTheLast
  <2>2. /\ t \in Nat /\ doc.window \in Nat /\ fsm.lastTap \in Nat /\ log[i].at \in Nat
        /\ Folded.lastTap = fsm.lastTap /\ Folded.window = doc.window
    <3>1. log[i] \in Strokes
      BY <2>1
    <3>2. doc \in Document /\ fsm \in FSM /\ t \in Nat
      BY <2>1 DEF TypeOK
    <3>3. Folded.lastTap = fsm.lastTap /\ Folded.window = doc.window
      BY <2>1, FoldedTypes
    <3> QED BY <3>1, <3>2, <3>3, WindowsAssumption DEF Document, FSM, Strokes
  <2>3. CASE Decides(Folded, t)
    BY <2>1, <2>2, <2>3 DEF Decides
  <2>4. CASE ~Decides(Folded, t)
    <3>1. log' = log \o (KeyCut \o <<>>)
      BY <2>4 DEF LogExpiry, Note
    <3>2. CASE doc.key = fsm.key
      BY <2>1, <3>1, <3>2 DEF KeyCut
    <3>3. CASE doc.key # fsm.key
      <4> DEFINE c == Stroke("cut")
      <4>1. c \in Strokes /\ c.what = "cut"
        BY <2>1, WindowsAssumption DEF Stroke, Strokes, TypeOK, Document
      <4>2. KeyCut = <<c>>
        BY <3>3 DEF KeyCut
      <4> HIDE DEF c
      <4>3. log' = log \o <<c>>
        BY <3>1, <4>1, <4>2
      <4>4. Len(log') = Len(log) + 1 /\ log'[Len(log) + 1] = c
        BY <2>1, <4>1, <4>3
      <4> QED BY <4>1, <4>4
    <3> QED BY <3>2, <3>3
  <2> QED BY <2>3, <2>4
<1> QED BY <1>1, LogInvInit, LogInvStep, PTL DEF LogSpec, DecisionIsQuiet
=============================================================================
