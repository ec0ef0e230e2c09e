--------------------------- MODULE ConfigPipeline ---------------------------
(***************************************************************************)
(* The way of an edit from the configuration file into the daemon: the     *)
(* watcher's poll by fingerprint, the forced reload of goswitchctl and of  *)
(* the menu, the menu's toggles that rewrite the file (the menu's calls    *)
(* run concurrently), the fold into the actor at every event, the menu's   *)
(* check marks and the accessibility reconciler behind the fold.           *)
(***************************************************************************)
EXTENDS A11y, FiniteSets

CONSTANTS
  Clicks,     \* the keys whose menu items the owner clicks, once each
  EditDocs,   \* the documents the owner's editor may save
  StartDoc,   \* the document at the start
  MaxOutside  \* bound: the owner's edits and forced reloads together

\* A document's keys: two switches, one listed pattern, the accessibility.
Toggles == {"autocorrect", "sound"}
Keys == Toggles \cup {"pattern", "a11y"}
Values == [Keys -> BOOLEAN]
Defaults == [k \in Keys |-> k \in {"sound", "a11y"}]
\* An unparsable file and an absent one hold no document; an invalid one is
\* refused by the strict parse, and the click's writer may edit it.
Broken == [kind |-> "broken", val |-> Defaults]
Absent == [kind |-> "absent", val |-> Defaults]
Good(v) == [kind |-> "good", val |-> v]
Invalid(v) == [kind |-> "invalid", val |-> v]
Documents == {Broken, Absent} \cup {Good(v) : v \in Values} \cup {Invalid(v) : v \in Values}

ASSUME ClicksAssumption == Clicks \subseteq Toggles \cup {"pattern"}
ASSUME DocsAssumption == EditDocs \subseteq Documents /\ StartDoc \in {Absent} \cup {Good(v) : v \in Values}
ASSUME BoundAssumption == MaxOutside \in Nat

Procs == Clicks \cup {"start", "poll", "reload"}

VARIABLES
  file,      \* the document and its fingerprint (each write makes a new one)
  seen,      \* the fingerprint the poll compares with; 0 for none
  current,   \* the values served
  rejected,  \* the last parse failed
  lock,      \* who holds reloadMu
  pc, local, \* each process's step, and what it has read
  applied,   \* the values in force in the actor
  menu,      \* the check marks
  sink,      \* whether the accessibility sink is installed
  clicked, outside

\* What the model remembers: the fingerprint the last parse answered for, and
\* whether the owner saved the file between a parse and its fingerprint.
VARIABLES answered, missed

fileVars == <<file, clicked, outside, missed>>
watchVars == <<seen, current, rejected, lock, answered>>
foldVars == <<applied, menu, sink>>
vars == <<fileVars, watchVars, foldVars, pc, local, a11yVars>>

Versions == 0..(1 + MaxOutside + Cardinality(Clicks))
Holders == Procs \cup {"none"}
NoLocal == [doc |-> Absent, stamp |-> 0, on |-> FALSE]

TypeOK ==
  /\ file \in [doc: Documents, version: Versions]
  /\ seen \in Versions /\ current \in Values /\ rejected \in BOOLEAN
  /\ lock \in Holders
  /\ pc \in [Procs -> {"idle", "stat", "lock", "remember", "refresh", "load", "write",
                       "push", "fold"}]
  /\ local \in [Procs -> [doc: Documents, stamp: Versions, on: BOOLEAN]]
  /\ applied \in Values /\ menu \in [Toggles -> BOOLEAN] /\ sink \in BOOLEAN
  /\ clicked \subseteq Clicks /\ outside \in 0..MaxOutside
  /\ answered \in Versions /\ missed \in BOOLEAN
  /\ A11yTypeOK

Fingerprint == IF file.doc.kind = "absent" THEN 0 ELSE file.version
OnMenu(v) == [k \in Toggles |-> v[k]]

\* The watcher's construction loads the document and then takes the
\* fingerprint; the actor starts on the loaded values, folded once.
Init ==
  /\ file = [doc |-> StartDoc, version |-> 1]
  /\ seen = 0 /\ current = StartDoc.val /\ rejected = FALSE /\ lock = "start"
  /\ pc = [p \in Procs |-> IF p = "start" THEN "refresh" ELSE "idle"]
  /\ local = [p \in Procs |-> NoLocal]
  /\ applied = current /\ menu = OnMenu(applied) /\ sink = FALSE
  /\ clicked = {} /\ outside = 0
  /\ answered = Fingerprint /\ missed = FALSE
  /\ A11yInit

At(p, s, t) == pc[p] = s /\ pc' = [pc EXCEPT ![p] = t]

(***************************************************************************)
(* The reload core, under reloadMu.                                        *)
(***************************************************************************)
\* A rejected document leaves the last good one in service; an absent one is
\* the defaults.
Reparse ==
  /\ answered' = Fingerprint
  /\ missed' = FALSE
  /\ IF file.doc.kind \in {"broken", "invalid"}
       THEN rejected' = TRUE /\ UNCHANGED current
       ELSE rejected' = FALSE /\ current' = file.doc.val

\* The lock is held from the parse to the fingerprint.
Parse(p) ==
  /\ lock = "none" /\ lock' = p
  /\ At(p, "lock", IF p = "poll" THEN "remember" ELSE "refresh")
  /\ Reparse
  /\ UNCHANGED <<file, clicked, outside, seen, foldVars, local, a11yVars>>

\* Reload's fingerprint is taken after its parse.
RefreshSeen(p) ==
  /\ At(p, "refresh", IF p \in Clicks THEN "fold" ELSE "idle")
  /\ seen' = IF Fingerprint = 0 THEN seen ELSE Fingerprint
  /\ lock' = "none"
  /\ UNCHANGED <<fileVars, current, rejected, answered, foldVars, local, a11yVars>>

(***************************************************************************)
(* The poll.                                                               *)
(***************************************************************************)
PollReadSeen ==
  /\ pc["start"] = "idle"
  /\ At("poll", "idle", "stat")
  /\ local' = [local EXCEPT !["poll"].stamp = seen]
  /\ UNCHANGED <<fileVars, watchVars, foldVars, a11yVars>>

\* An absent file and an equal fingerprint end the tick.
PollStat ==
  /\ \/ /\ Fingerprint \in {0, local["poll"].stamp}
        /\ At("poll", "stat", "idle") /\ local' = [local EXCEPT !["poll"] = NoLocal]
     \/ /\ Fingerprint \notin {0, local["poll"].stamp}
        /\ At("poll", "stat", "lock")
        /\ local' = [local EXCEPT !["poll"].stamp = Fingerprint]
  /\ UNCHANGED <<fileVars, watchVars, foldVars, a11yVars>>

\* Mutant: the early return keeps the lock.
PollLock_Keeps ==
  \/ /\ seen = local["poll"].stamp
     /\ lock = "none" /\ lock' = "poll" /\ At("poll", "lock", "idle")
     /\ local' = [local EXCEPT !["poll"] = NoLocal]
     /\ UNCHANGED <<fileVars, seen, current, rejected, answered, foldVars, a11yVars>>
  \/ /\ seen # local["poll"].stamp
     /\ Parse("poll")

\* A reload may have answered for the change while the poll waited.
PollLock ==
  \/ /\ seen = local["poll"].stamp
     /\ lock = "none" /\ At("poll", "lock", "idle")
     /\ local' = [local EXCEPT !["poll"] = NoLocal]
     /\ UNCHANGED <<fileVars, watchVars, foldVars, a11yVars>>
  \/ /\ seen # local["poll"].stamp
     /\ Parse("poll")

\* Mutant: the fingerprint is taken again after the parse.
PollRemember_Restats ==
  /\ At("poll", "remember", "idle")
  /\ seen' = Fingerprint
  /\ local' = [local EXCEPT !["poll"] = NoLocal]
  /\ lock' = "none"
  /\ UNCHANGED <<fileVars, current, rejected, answered, foldVars, a11yVars>>
PollRemember ==
  /\ At("poll", "remember", "idle")
  /\ seen' = local["poll"].stamp
  /\ local' = [local EXCEPT !["poll"] = NoLocal]
  /\ lock' = "none"
  /\ UNCHANGED <<fileVars, current, rejected, answered, foldVars, a11yVars>>

\* goswitchctl reload and the menu item.
ForceReload ==
  /\ outside < MaxOutside /\ outside' = outside + 1
  /\ At("reload", "idle", "lock")
  /\ UNCHANGED <<file, clicked, missed, watchVars, foldVars, local, a11yVars>>

(***************************************************************************)
(* The fold, at every event of the actor.                                  *)
(***************************************************************************)
\* A change of the accessibility reaches the reconciler.
PushA11y(v) ==
  IF sink /\ v["a11y"] # applied["a11y"] THEN Apply(v["a11y"]) ELSE UNCHANGED a11yVars

\* Mutant: the marks stay with the click.
Fold_NoMenu == applied' = current /\ UNCHANGED menu /\ PushA11y(current)

Fold == applied' = current /\ menu' = OnMenu(current) /\ PushA11y(current)

Event ==
  /\ pc["start"] = "idle"
  /\ Fold
  /\ UNCHANGED <<fileVars, watchVars, sink, pc, local>>

\* The late installation of the sink serves the folded state at once.
SetA11ySink ==
  /\ pc["start"] = "idle" /\ ~sink
  /\ sink' = TRUE
  /\ IF applied["a11y"] THEN Apply(TRUE) ELSE UNCHANGED a11yVars
  /\ UNCHANGED <<fileVars, watchVars, applied, menu, pc, local>>

(***************************************************************************)
(* A click: read the applied value, read the file, rename the edited one   *)
(* over it, set the check mark, reload, fold.                              *)
(***************************************************************************)
Click(c) ==
  /\ pc["start"] = "idle"
  /\ c \notin clicked /\ clicked' = clicked \cup {c}
  /\ IF c = "pattern" /\ applied[c]
       THEN UNCHANGED <<pc, local>>
       ELSE At(c, "idle", "load") /\ local' = [local EXCEPT ![c].on = ~applied[c]]
  /\ UNCHANGED <<file, outside, missed, watchVars, foldVars, a11yVars>>

LoadDocument(c) ==
  /\ At(c, "load", "write")
  /\ local' = [local EXCEPT ![c].doc = file.doc]
  /\ UNCHANGED <<fileVars, watchVars, foldVars, a11yVars>>

\* An unparsable document, or a failing write, leaves everything as it is.
WriteFails(c) ==
  /\ At(c, "write", "idle")
  /\ local' = [local EXCEPT ![c] = NoLocal]
  /\ UNCHANGED <<fileVars, watchVars, foldVars, a11yVars>>

\* An absent file becomes the defaults, with autocorrect off, and the switch;
\* a listed pattern is not written again.  The edit may replace the very
\* section that made a document invalid; if not, a switch is written all the
\* same, a pattern is not.
Edited(doc, c, on) ==
  LET v == [doc.val EXCEPT ![c] = on]
  IN  {Good(v)} \cup (IF doc.kind = "invalid" /\ c \in Toggles THEN {Invalid(v)} ELSE {})
Listed(doc, c) == c = "pattern" /\ doc.val[c] /\ doc.kind # "absent"
WriteDocument(c) ==
  /\ local[c].doc.kind # "broken"
  /\ At(c, "write", IF c \in Toggles THEN "push" ELSE "lock")
  /\ IF Listed(local[c].doc, c) THEN UNCHANGED file
     ELSE \E doc \in Edited(local[c].doc, c, local[c].on) :
            file' = [doc |-> doc, version |-> file.version + 1]
  /\ local' = [local EXCEPT ![c].doc = Absent]
  /\ UNCHANGED <<clicked, outside, missed, watchVars, foldVars, a11yVars>>

PushMenu(c) ==
  /\ At(c, "push", "lock")
  /\ menu' = [menu EXCEPT ![c] = local[c].on]
  /\ local' = [local EXCEPT ![c] = NoLocal]
  /\ UNCHANGED <<fileVars, watchVars, applied, sink, a11yVars>>

FoldApplied(c) ==
  /\ At(c, "fold", "idle")
  /\ Fold
  /\ UNCHANGED <<fileVars, watchVars, sink, local>>

(***************************************************************************)
(* The owner saves the file.                                               *)
(***************************************************************************)
Edit(d) ==
  /\ outside < MaxOutside /\ d # file.doc
  /\ outside' = outside + 1
  /\ file' = [doc |-> d, version |-> file.version + 1]
  /\ missed' = (missed \/ \E p \in Procs : pc[p] = "refresh")
  /\ UNCHANGED <<clicked, watchVars, foldVars, pc, local, a11yVars>>

PollStep == PollReadSeen \/ PollStat \/ PollLock \/ PollRemember
ReloadStep(p) == Parse(p) \/ RefreshSeen(p)
ClickStep(c) ==
  LoadDocument(c) \/ WriteFails(c) \/ WriteDocument(c) \/ PushMenu(c) \/ ReloadStep(c) \/ FoldApplied(c)
Reconcile == A11yStep /\ UNCHANGED <<fileVars, watchVars, foldVars, pc, local>>

Next ==
  \/ RefreshSeen("start") \/ PollStep \/ ForceReload \/ ReloadStep("reload")
  \/ \E c \in Clicks : Click(c) \/ ClickStep(c)
  \/ Event \/ SetA11ySink \/ Reconcile
  \/ \E d \in EditDocs : Edit(d)

\* The ticker ticks, a process that runs goes on, a spawned series starts.
Fairness ==
  /\ WF_vars(RefreshSeen("start"))
  /\ WF_vars(PollStep)
  /\ WF_vars(ReloadStep("reload"))
  /\ \A c \in Clicks : WF_vars(ClickStep(c))
  /\ WF_vars(Reconcile)

Spec == Init /\ [][Next]_vars
FairSpec == Spec /\ Fairness

(***************************************************************************)
(* Properties.                                                             *)
(***************************************************************************)
\* A fingerprint the poll will not look behind is one whose document was
\* parsed, or is a click's own write that its reload is about to parse, or
\* what the owner saved between a parse and its fingerprint.
OnItsWay == \E c \in Clicks : pc[c] \in {"push", "lock"}
Unanswered == lock = "none" /\ seen = file.version /\ answered # file.version /\ ~OnItsWay
SeenIsAnswered == Unanswered => missed

\* The check marks show the values in force, except between a click's push
\* and its fold.
MenuTellsApplied ==
  \A k \in Toggles :
    menu[k] # applied[k] => k \in Clicks /\ pc[k] \in {"lock", "refresh", "fold"}

\* What the actor was told is what the reconciler works towards.
DesiredIsApplied == desired = (sink /\ applied["a11y"])

\* Once the owner stops, the daemon answers for the file's last contents
\* (serves them, or rejects them and says so) without a reload; the one
\* save it may never see is the one between a parse and its fingerprint.
Served == file.doc.kind = "absent" \/ answered = file.version \/ missed
EventuallyServed == <>[]Served

\* And the desktop follows: no change of the accessibility is left behind.
EventuallyReconciled == <>[](lastApplied = desired)

\* The comment at the field says that the fingerprint is the served one's.
NoEditMissed == ~Unanswered

\* The writer's header says that one scalar changes.
OneScalarChanges ==
  [][\A c \in Clicks : WriteDocument(c) /\ file.doc.kind = "good" =>
       \A k \in Keys \ {c} : file'.doc.val[k] = file.doc.val[k]]_vars

\* Both: the last edit is served and the desktop follows it.
Settles == EventuallyServed /\ EventuallyReconciled
=============================================================================
