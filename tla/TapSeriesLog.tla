---------------------------- MODULE TapSeriesLog -----------------------------
(***************************************************************************)
(* What the documentation of the tap series promises, said of the keys the *)
(* owner struck: TapSeries with a log of the strokes, and the number of    *)
(* taps and the moment of a decision defined from the log alone.           *)
(***************************************************************************)
EXTENDS TapSeries, Sequences

CONSTANTS
  MaxLog,   \* bound of the log's length
  MaxOther  \* bound of the strokes in it that are not of the tap key

VARIABLE log     \* the strokes so far: what, when, under which window

logVars == <<now, doc, fsm, timer, running, calls, log>>

Stroke(what) == [what |-> what, at |-> now, window |-> doc.window]

\* A fold that replaces the tap key ends the series of the old key.
KeyCut == IF doc.key # fsm.key THEN <<Stroke("cut")>> ELSE <<>>

Others(s) == {i \in DOMAIN s : s[i].what \notin {"down", "up"}}

Note(strokes) == log' = log \o strokes

\* The bounds stop the owner and the desktop, never a callback.
Bounded == Len(log') =< MaxLog /\ Cardinality(Others(log')) =< MaxOther

LogPress(k, gesture) ==
  /\ Press(k, gesture)
  /\ Note(KeyCut \o <<Stroke(IF k = doc.key THEN "down" ELSE "other")>>
                 \o (IF gesture THEN <<Stroke("cut")>> ELSE <<>>))

LogRelease(k) ==
  /\ Release(k)
  /\ Note(KeyCut \o <<Stroke(IF k = doc.key THEN "up" ELSE "otherUp")>>)

LogContextDeath == ContextDeath /\ Note(<<Stroke("cut")>>)

LogFold == Fold /\ Note(KeyCut)

\* The observer sees a decision when the series is spent by a callback.
LogExpiry(t) ==
  /\ ExpiryAt(t)
  /\ Note(KeyCut \o (IF Decides(Folded, t) THEN <<Stroke("decide")>> ELSE <<>>))

LogInit == Init /\ log = <<>>

LogNext ==
  \/ \E k \in Keys, gesture \in BOOLEAN : LogPress(k, gesture) /\ Bounded
  \/ \E k \in Keys : LogRelease(k) /\ Bounded
  \/ LogContextDeath /\ Bounded
  \/ LogFold /\ Bounded
  \/ \E t \in calls : LogExpiry(t)
  \/ (\E d \in Document : EditDocument(d)) /\ UNCHANGED log
  \/ (\E d \in running : Fire(d)) /\ UNCHANGED log
  \/ Tick /\ UNCHANGED log

\* The fairness of TapSeries.
LogSpec ==
  /\ LogInit /\ [][LogNext]_logVars
  /\ WF_logVars(Tick /\ UNCHANGED log)
  /\ WF_logVars((\E d \in running : Fire(d)) /\ UNCHANGED log)
  /\ WF_logVars(\E t \in calls : LogExpiry(t))

-----------------------------------------------------------------------------
Between(i, j) == {log[q].what : q \in i + 1 .. j - 1}

\* The tap key is down when stroke i is struck.
HeldAt(i) ==
  \E p \in 1 .. i - 1 : log[p].what = "down" /\ {"up", "cut"} \cap Between(p, i) = {}

\* Stroke i ends a clean tap: since the last press of the tap key no other
\* key went down, and the context lived.
Tap(i) ==
  /\ log[i].what = "up"
  /\ \E p \in 1 .. i - 1 :
       /\ log[p].what = "down"
       /\ {"down", "up", "other", "cut"} \cap Between(p, i) = {}

\* Stroke i ends the series before it.
Ends(i) ==
  \/ log[i].what \in {"cut", "decide"}
  \/ log[i].what \in {"other", "otherUp"} /\ ~HeldAt(i)
  \/ log[i].what = "up" /\ HeldAt(i) /\ ~Tap(i)

\* Tap j came within the window of the tap before it.
Continues(j) ==
  \A i \in 1 .. j - 1 :
    Tap(i) /\ (\A q \in i + 1 .. j - 1 : ~Tap(q)) => log[j].at - log[i].at =< log[j].window

\* The taps of the live series, from the log alone.
Series ==
  {i \in DOMAIN log :
     /\ Tap(i)
     /\ \A q \in i + 1 .. Len(log) : ~Ends(q)
     /\ \A j \in i + 1 .. Len(log) : Tap(j) => Continues(j)}

\* The machine counts exactly the taps of the live series the owner struck,
\* saturated at three: holds used as modifiers, unmatched releases, gaps,
\* gestures, context deaths and key changes included (fsm.go Feed).
CountsTheSeries ==
  fsm.taps = (IF Cardinality(Series) < MaxTaps THEN Cardinality(Series) ELSE MaxTaps)

\* A decision falls on a quiet key: no tap ended within a window before the
\* callback read the clock, nor between that reading and the mutex, though a
\* tap may well have been handled while the callback waited (actor.go Expiry
\* reads the clock before ExpiryAt locks).
DecisionIsQuiet ==
  [][Len(log') > Len(log) /\ log'[Len(log')].what = "decide" =>
       \A t \in calls :
         LogExpiry(t) => \A i \in DOMAIN log : Tap(i) => log[i].at =< t - doc.window]_logVars
=============================================================================
