-------------------------------- MODULE A11y --------------------------------
(***************************************************************************)
(* The accessibility reconciler: Apply pins the desired state under a      *)
(* short lock and spawns a series; the series run one at a time on their   *)
(* own lock, in any order, and hold no state lock while they read and set  *)
(* the desktop's key.                                                      *)
(***************************************************************************)
EXTENDS Naturals

VARIABLES
  desired,      \* the state the last Apply pinned
  lastApplied,  \* the state the series last converged to
  waiting,      \* for each state, the series spawned for it and not yet started
  series        \* the series that holds the lock: its state and its step

a11yVars == <<desired, lastApplied, waiting, series>>

NoSeries == [for |-> FALSE, at |-> "none"]
SeriesSteps == {"none", "gate", "read", "set", "record"}

A11yTypeOK ==
  /\ desired \in BOOLEAN /\ lastApplied \in BOOLEAN
  /\ waiting \in [BOOLEAN -> Nat]
  /\ series \in [for: BOOLEAN, at: SeriesSteps]

A11yInit ==
  /\ desired = FALSE /\ lastApplied = FALSE
  /\ waiting = [b \in BOOLEAN |-> 0]
  /\ series = NoSeries

\* The config fold's call: it never waits for a series.
Apply(active) ==
  /\ UNCHANGED <<lastApplied, series>>
  /\ IF active = desired
       THEN UNCHANGED <<desired, waiting>>
       ELSE desired' = active /\ waiting' = [waiting EXCEPT ![active] = @ + 1]

StartSeries(active) ==
  /\ series.at = "none" /\ waiting[active] > 0
  /\ waiting' = [waiting EXCEPT ![active] = @ - 1]
  /\ series' = [for |-> active, at |-> "gate"]
  /\ UNCHANGED <<desired, lastApplied>>

\* Mutant: a deactivation is skipped and not recorded.
Gate_Skips ==
  /\ series.at = "gate"
  /\ UNCHANGED <<desired, waiting, lastApplied>>
  /\ series' = IF series.for /\ desired /\ ~lastApplied THEN [series EXCEPT !.at = "read"] ELSE NoSeries

\* A superseded or repeated series does nothing; a deactivation touches no
\* desktop setting.
Gate ==
  /\ series.at = "gate"
  /\ UNCHANGED <<desired, waiting>>
  /\ IF series.for # desired \/ series.for = lastApplied
       THEN series' = NoSeries /\ UNCHANGED lastApplied
       ELSE IF series.for THEN series' = [series EXCEPT !.at = "read"] /\ UNCHANGED lastApplied
       ELSE series' = NoSeries /\ lastApplied' = FALSE

\* The desktop's key is read; a key that is on already is not written, a
\* failed read is followed by the write.
ReadKey ==
  /\ series.at = "read"
  /\ \E t \in {"set", "record"} : series' = [series EXCEPT !.at = t]
  /\ UNCHANGED <<desired, lastApplied, waiting>>

\* A failed write, like the session belt's, only spends a warning.
SetKey ==
  /\ series.at = "set"
  /\ series' = [series EXCEPT !.at = "record"]
  /\ UNCHANGED <<desired, lastApplied, waiting>>

\* A change that landed during the episode is left to its own series.
Record ==
  /\ series.at = "record"
  /\ series' = NoSeries
  /\ lastApplied' = IF series.for = desired THEN series.for ELSE lastApplied
  /\ UNCHANGED <<desired, waiting>>

SeriesNext == Gate \/ ReadKey \/ SetKey \/ Record
A11yStep == (\E active \in BOOLEAN : StartSeries(active)) \/ SeriesNext
A11yNext == A11yStep \/ \E active \in BOOLEAN : Apply(active)

A11ySpec == A11yInit /\ [][A11yNext]_a11yVars

(***************************************************************************)
(* Properties.                                                             *)
(***************************************************************************)
\* Whatever order the series run in, a desired state the desktop has not
\* converged to has a series that will run for it: one still waiting, or the
\* running one past no point where it would give up.
ConvergenceOwed ==
  desired # lastApplied => waiting[desired] > 0 \/ (series.at # "none" /\ series.for = desired)
=============================================================================
