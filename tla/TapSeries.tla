------------------------------ MODULE TapSeries ------------------------------
(***************************************************************************)
(* The tap-series recogniser: the FSM of internal/hotkey and the deadline  *)
(* timer the session actor keeps for it.  A clean press and release of the *)
(* tap key is a tap; taps no further apart than the window form a series,  *)
(* and one window after its last tap the series is decided (1 switches the *)
(* layout, 2 corrects a word, 3 a phrase).                                 *)
(*                                                                         *)
(* Time is a natural number.  A runtime timer is its deadline (two arms    *)
(* never share an instant in the code, whose clock is in nanoseconds); the *)
(* callback of a fired timer reads the clock first and takes the actor's   *)
(* mutex later, so it is kept as the time it read until it gets the mutex. *)
(***************************************************************************)
EXTENDS Integers, FiniteSets

CONSTANTS
  TapKeys,      \* the keys a document may name as hotkeys.tap_key
  ComboKey,     \* the word-layout combo or the mode-switch chord key
  OtherKey,     \* any other key
  Windows,      \* the values a document may give timeouts.tap_window_ms
  MayLengthen,  \* whether an edit of the document may lengthen the window
  MaxTime,      \* bound of the clock
  Horizon       \* no input after this time, so that the clock outlasts it

MaxTaps == 3

ASSUME WindowsAssumption == Windows \subseteq Nat \ {0} /\ Windows # {}
ASSUME KeysAssumption ==
  /\ TapKeys # {}
  /\ {ComboKey, OtherKey} \cap TapKeys = {}
ASSUME BoundsAssumption == MaxTime \in Nat /\ Horizon \in Nat /\ MayLengthen \in BOOLEAN

Keys == TapKeys \cup {ComboKey, OtherKey}

VARIABLES
  now,      \* the actor's logical clock
  doc,      \* the served configuration: tap window and tap key
  fsm,      \* hotkey.FSM
  timer,    \* a.timer: the deadline of the timer it points at, or NoTimer
  running,  \* deadlines of the runtime timers that have not fired
  calls     \* clock readings of fired callbacks that wait for the mutex

vars == <<now, doc, fsm, timer, running, calls>>

NoTimer == -1

Document == [window : Windows, key : TapKeys]
FSM == [window : Windows, key : TapKeys, taps : 0 .. MaxTaps,
        held : BOOLEAN, sawKey : BOOLEAN, lastTap : Nat]

(***************************************************************************)
(* The machine, one operator per method.                                   *)
(***************************************************************************)
Disarmed(f) == [f EXCEPT !.taps = 0, !.held = FALSE, !.sawKey = FALSE]

SetTapKey(f, k) == IF k = f.key THEN f ELSE Disarmed([f EXCEPT !.key = k])

\* Mutant: another key does not end a series between two taps.
KeyPress_Keeps(f, k) ==
  CASE k = f.key -> [f EXCEPT !.held = TRUE, !.sawKey = FALSE]
    [] k # f.key -> [f EXCEPT !.sawKey = TRUE]

KeyPress(f, k) ==
  CASE k = f.key -> [f EXCEPT !.held = TRUE, !.sawKey = FALSE]
    [] k # f.key /\ f.held -> [f EXCEPT !.sawKey = TRUE]
    [] k # f.key /\ ~f.held -> [f EXCEPT !.taps = 0]

\* The count a clean tap at time t leaves: a gap wider than the window
\* starts a new series, and the count saturates.
Counted(f, t) ==
  LET base == IF f.taps > 0 /\ t - f.lastTap > f.window THEN 0 ELSE f.taps
  IN  IF base < MaxTaps THEN base + 1 ELSE base

ReleaseTap(f, t) ==
  CASE ~f.held -> f
    [] f.held /\ f.sawKey -> [f EXCEPT !.held = FALSE, !.sawKey = FALSE, !.taps = 0]
    [] f.held /\ ~f.sawKey -> [f EXCEPT !.held = FALSE, !.taps = Counted(f, t), !.lastTap = t]

KeyRelease(f, k, t) ==
  CASE k = f.key -> ReleaseTap(f, t)
    [] k # f.key /\ f.held -> f
    [] k # f.key /\ ~f.held -> [f EXCEPT !.taps = 0]

\* Mutants: the last instant of the window is too early; any instant will do.
Decides_Late(f, t) == f.taps # 0 /\ t - f.lastTap > f.window
Decides_Early(f, t) == f.taps # 0

\* Whether a callback that read the clock at t decides the series.
Decides(f, t) == f.taps # 0 /\ t - f.lastTap >= f.window

Expired(f, t) == IF Decides(f, t) THEN [f EXCEPT !.taps = 0] ELSE f

\* applySnapshot: every handler first folds the served document.
Folded == SetTapKey([fsm EXCEPT !.window = doc.window], doc.key)

-----------------------------------------------------------------------------
Init ==
  /\ now = 0
  /\ doc \in Document
  /\ fsm = [window |-> doc.window, key |-> doc.key, taps |-> 0,
            held |-> FALSE, sawKey |-> FALSE, lastTap |-> 0]
  /\ timer = NoTimer
  /\ running = {}
  /\ calls = {}

\* An event reaches the actor only while the clock is inside the horizon.
Input == now =< Horizon

\* Mutant: a later tap of the series does not move the deadline.
ArmTimer_Once(w) ==
  IF timer # NoTimer THEN UNCHANGED <<timer, running>>
  ELSE timer' = now + w /\ running' = running \cup {now + w}

ArmTimer(w) ==
  /\ timer' = now + w
  /\ running' = (running \ {timer}) \cup {now + w}

StopTimer ==
  /\ timer' = NoTimer
  /\ running' = running \ {timer}

\* A key press; the press of the combo or of the chord under its modifiers
\* (gesture) resets the machine after feeding it.
Press(k, gesture) ==
  /\ Input
  /\ gesture => k = ComboKey
  /\ LET f == KeyPress(Folded, k)
     IN  fsm' = IF gesture THEN Disarmed(f) ELSE f
  /\ UNCHANGED <<now, doc, timer, running, calls>>

\* A key release; only a release of the tap key moves the deadline.
Release(k) ==
  /\ Input
  /\ fsm' = KeyRelease(Folded, k, now)
  /\ IF k = doc.key THEN ArmTimer(doc.window) ELSE UNCHANGED <<timer, running>>
  /\ UNCHANGED <<now, doc, calls>>

\* FocusOut or Reset of the input context; it does not fold the document.
ContextDeath ==
  /\ Input
  /\ fsm' = Disarmed(fsm)
  /\ StopTimer
  /\ UNCHANGED <<now, doc, calls>>

\* The watcher serves another document.
EditDocument(d) ==
  /\ Input
  /\ d # doc
  /\ d.window > doc.window => MayLengthen
  /\ doc' = d
  /\ UNCHANGED <<now, fsm, timer, running, calls>>

\* The fold of a handler that feeds the machine nothing (an answer, a menu toggle).
Fold ==
  /\ Input
  /\ fsm' = Folded
  /\ UNCHANGED <<now, doc, timer, running, calls>>

\* A runtime timer fires: its goroutine reads the clock and waits for the mutex.
Fire(d) ==
  /\ d \in running
  /\ d =< now
  /\ running' = running \ {d}
  /\ calls' = calls \cup {now}
  /\ UNCHANGED <<now, doc, fsm, timer>>

\* The callback that read the clock at t has the mutex.
ExpiryAt(t) ==
  /\ t \in calls
  /\ calls' = calls \ {t}
  /\ fsm' = Expired(Folded, t)
  /\ timer' = NoTimer
  /\ UNCHANGED <<now, doc, running>>

Tick ==
  /\ now < MaxTime
  /\ now' = now + 1
  /\ UNCHANGED <<doc, fsm, timer, running, calls>>

Next ==
  \/ \E k \in Keys, gesture \in BOOLEAN : Press(k, gesture)
  \/ \E k \in Keys : Release(k)
  \/ ContextDeath
  \/ \E d \in Document : EditDocument(d)
  \/ Fold
  \/ \E d \in running : Fire(d)
  \/ \E t \in calls : ExpiryAt(t)
  \/ Tick

\* The runtime fires due timers and the mutex is granted in the end; time passes.
Fairness ==
  /\ WF_vars(Tick)
  /\ WF_vars(\E d \in running : Fire(d))
  /\ WF_vars(\E t \in calls : ExpiryAt(t))

Spec == Init /\ [][Next]_vars /\ Fairness

-----------------------------------------------------------------------------
\* Types; the last tap lies in the past and so do the callbacks' readings.
TypeOK ==
  /\ now \in Nat
  /\ doc \in Document
  /\ fsm \in FSM
  /\ fsm.lastTap =< now
  /\ timer \in Nat \cup {NoTimer}
  /\ running \subseteq Nat
  /\ calls \subseteq 0 .. now

\* A live series always has a timer, or a callback on its way to the mutex,
\* late enough to decide it: no interleaving of taps, stale callbacks and
\* stopped timers leaves a counted tap that nothing will ever decide
\* (fsm.go expired against actor.go armTimer and ExpiryAt).
SeriesHasTimer ==
  fsm.taps > 0 =>
    \/ \E d \in running : d >= fsm.lastTap + fsm.window
    \/ \E t \in calls : t >= fsm.lastTap + fsm.window

\* Every series ends: it is decided or something cancels it, whatever taps,
\* edits and lagging callbacks come between (actor.go armTimer, ExpiryAt).
SeriesEnds == fsm.taps > 0 ~> fsm.taps = 0
=============================================================================
