-------------------------------- MODULE Tray --------------------------------
(***************************************************************************)
(* The tray item on the session bus: its registration with the desktop's   *)
(* watcher and the supervisor that keeps it registered, the icon and the   *)
(* menu rows it serves, the signals by which the shell learns of a change, *)
(* and the shell, which may start late, restart, evict the item or fail an *)
(* answer.  A signal is sent where it is emitted and the bus keeps the      *)
(* order of one sender's messages, so the shell has heard it by then; an   *)
(* answer is computed under the menu's mutex and sent after the unlock, so *)
(* it is a step of its own and a signal may overtake it.  The connection   *)
(* lives as long as the daemon: no emit fails.                             *)
(***************************************************************************)
EXTENDS Naturals

CONSTANTS
  Apps,        \* the states of the focused application that occur
  MaxChanges,  \* bounds: the changes of what the tray shows,
  MaxShell,    \*   what the shell does by itself,
  MaxFaults    \*   and the calls to the watcher that fail

ASSUME AppsAssumption == "unknown" \in Apps /\ Apps \subseteq {"unknown", "active", "covered", "full"}
ASSUME BoundsAssumption == MaxChanges \in Nat /\ MaxShell \in Nat /\ MaxFaults \in Nat

Modes == {"en", "ru"}

VARIABLES
  mode,      \* the actor's
  item,      \* the icon served, and whether the item believes itself registered
  snapshot,  \* the menu's: the mode, autocorrect, the focused application, the chord
  sup,       \* the supervisor: its step, its lost flag, whether it is attached and hears owners
  owner,     \* the owner changes it has not handled
  shell,     \* the watcher's name and registry, the copies of icon and rows, open questions,
             \*   answers to come, and the fields of the rows a delta of which overtook them
  spent      \* the bounds' counters

trayVars == <<mode, item, snapshot, sup, owner, shell, spent>>

Snapshot == [mode: Modes, ac: BOOLEAN, app: Apps, chord: BOOLEAN]

(***************************************************************************)
(* The rows, computed from the snapshot when they are asked for.           *)
(***************************************************************************)
Row(label, on, enabled) == [label |-> label, on |-> on, enabled |-> enabled]
BlocklistProps(app) ==
  [unknown |-> Row("plain", FALSE, FALSE), active |-> Row("named", FALSE, TRUE),
   covered |-> Row("named", TRUE, TRUE), full |-> Row("filled", FALSE, FALSE)][app]
RootKids(m) == Modes \cup {"status", "ac", "block"} \cup (IF m.chord THEN {"chord"} ELSE {})
RowOf(m, r) ==
  CASE r \in Modes -> Row(r, m.mode = r, TRUE)
    [] r = "ac" -> Row("ac", m.ac, TRUE)
    [] r = "block" -> BlocklistProps(m.app)
    [] r = "status" -> Row(m.mode, FALSE, FALSE)
    [] r = "chord" -> Row("chord", FALSE, FALSE)
Rows(m) == [r \in RootKids(m) |-> RowOf(m, r)]

NoRows == [r \in {} |-> Row("", FALSE, FALSE)]
Nothing == [icon |-> "none", rows |-> NoRows]
AbsentShell == [up |-> FALSE, holds |-> FALSE, icon |-> "none", menu |-> NoRows,
                asked |-> {}, coming |-> Nothing, overtaken |-> {}]
SignalledFields ==
  {<<"en", "on">>, <<"ru", "on">>, <<"status", "label">>, <<"ac", "on">>,
   <<"block", "label">>, <<"block", "on">>}

SupSteps == {"probe", "register", "revive", "install", "idle", "read"}
TrayTypeOK ==
  /\ mode \in Modes /\ snapshot \in Snapshot
  /\ item \in [pix: Modes, registered: BOOLEAN]
  /\ sup \in [at: SupSteps, lost: BOOLEAN, attached: BOOLEAN, matched: BOOLEAN]
  /\ owner \in 0..(MaxShell + 1)
  /\ {shell.up, shell.holds} \subseteq BOOLEAN /\ (shell.holds => shell.up)
  /\ shell.icon \in Modes \cup {"none"} /\ shell.asked \subseteq {"icon", "rows"}
  /\ {DOMAIN shell.menu, DOMAIN shell.coming.rows} \subseteq {{}} \cup {RootKids(m) : m \in Snapshot}
  /\ shell.coming.icon \in Modes \cup {"none"} /\ shell.overtaken \subseteq SignalledFields
  /\ ~shell.holds => shell.asked = {} /\ shell.coming = Nothing
  /\ spent.changes \in 0..MaxChanges /\ spent.shell \in 0..MaxShell /\ spent.faults \in 0..MaxFaults

\* The actor shows the Latin layout at first; attach begins.
TrayInit ==
  /\ mode = "en"
  /\ item = [pix |-> "en", registered |-> FALSE]
  /\ snapshot = [mode |-> "en", ac |-> FALSE, app |-> "unknown", chord |-> TRUE]
  /\ sup = [at |-> "probe", lost |-> FALSE, attached |-> FALSE, matched |-> FALSE]
  /\ owner = 0
  /\ \E up \in BOOLEAN : shell = [AbsentShell EXCEPT !.up = up]
  /\ spent = [changes |-> 0, shell |-> 0, faults |-> 0]

(***************************************************************************)
(* Signals: a delta carries the fields' values at the emission, the others *)
(* make the shell ask.  One that does not hold the item hears nothing.     *)
(***************************************************************************)
Patched(copy, m, fields) ==
  [r \in DOMAIN copy |->
     [f \in DOMAIN copy[r] |-> IF <<r, f>> \in fields THEN RowOf(m, r)[f] ELSE copy[r][f]]]
Told(m, fields) ==
  [shell EXCEPT !.menu = Patched(@, m, fields),
                !.overtaken = IF shell.coming.rows = NoRows THEN @ \ fields ELSE @ \cup fields]
Asks(s, questions) == IF s.holds THEN [s EXCEPT !.asked = @ \cup questions] ELSE s
NewIcon(s, registered) == IF registered THEN Asks(s, {"icon"}) ELSE s
LayoutUpdated(s) == Asks(s, {"rows"})

\* Mutant: the status row is forgotten.
ModeFields_NoStatus == {<<"en", "on">>, <<"ru", "on">>}

ModeFields == {<<"en", "on">>, <<"ru", "on">>, <<"status", "label">>}

Change == spent.changes < MaxChanges /\ spent' = [spent EXCEPT !.changes = @ + 1]
Attached == sup.attached

\* A flip of the layout tells the icon and then the menu; an item that is
\* not registered keeps its icon fresh and stays silent.
ModeChanged ==
  /\ Change
  /\ \E m \in Modes \ {mode} :
       /\ mode' = m
       /\ IF Attached
            THEN /\ item' = [item EXCEPT !.pix = m]
                 /\ snapshot' = [snapshot EXCEPT !.mode = m]
                 /\ shell' = NewIcon(Told(snapshot', ModeFields), item.registered)
            ELSE UNCHANGED <<item, snapshot, shell>>
  /\ UNCHANGED <<sup, owner>>

SetAutocorrectEnabled ==
  /\ Change /\ Attached
  /\ snapshot' = [snapshot EXCEPT !.ac = ~@]
  /\ shell' = Told(snapshot', {<<"ac", "on">>})
  /\ UNCHANGED <<mode, item, sup, owner>>

\* The label and the mark are signalled.
SetBlocklistApp ==
  /\ Change /\ Attached
  /\ \E a \in Apps \ {snapshot.app} : snapshot' = [snapshot EXCEPT !.app = a]
  /\ shell' = Told(snapshot', {<<"block", "label">>, <<"block", "on">>})
  /\ UNCHANGED <<mode, item, sup, owner>>

\* A binding that enters or leaves changes the set of rows.
SetKeys ==
  /\ Change /\ Attached
  /\ snapshot' = [snapshot EXCEPT !.chord = ~@]
  /\ shell' = LayoutUpdated(shell)
  /\ UNCHANGED <<mode, item, sup, owner>>

(***************************************************************************)
(* The supervisor, one step per answer of the watcher.                     *)
(***************************************************************************)
Fault == spent.faults < MaxFaults /\ spent' = [spent EXCEPT !.faults = @ + 1]
NoFault == UNCHANGED spent

MarkLost(next) ==
  /\ sup' = [sup EXCEPT !.at = next, !.lost = TRUE]
  /\ item' = IF sup.lost THEN item ELSE [item EXCEPT !.registered = FALSE]

\* A health beat: the probe of the watcher's name.
Beat ==
  /\ sup.at = "idle"
  /\ \/ shell.up /\ NoFault /\ sup' = [sup EXCEPT !.at = "read"] /\ UNCHANGED item
     \/ ~shell.up /\ NoFault /\ MarkLost("idle")
     \/ Fault /\ MarkLost("idle")
  /\ UNCHANGED <<mode, snapshot, owner, shell>>

\* Mutant: the eviction is noticed and left to an owner change.
ReadRegistry_NoAttach ==
  /\ sup.at = "read"
  /\ \/ shell.holds /\ NoFault /\ sup' = [sup EXCEPT !.at = "idle", !.lost = FALSE] /\ UNCHANGED item
     \/ ~shell.holds /\ NoFault /\ MarkLost("idle")
     \/ Fault /\ MarkLost("idle")
  /\ UNCHANGED <<mode, snapshot, owner, shell>>

\* The registry: an evicted item is attached again, a present one ends the
\* loss.
ReadRegistry ==
  /\ sup.at = "read"
  /\ \/ shell.holds /\ NoFault /\ sup' = [sup EXCEPT !.at = "idle", !.lost = FALSE] /\ UNCHANGED item
     \/ shell.up /\ ~shell.holds /\ NoFault /\ MarkLost("probe")
     \/ ~shell.up /\ NoFault /\ MarkLost("idle")
     \/ Fault /\ MarkLost("idle")
  /\ UNCHANGED <<mode, snapshot, owner, shell>>

OwnerChanged ==
  /\ sup.at = "idle" /\ owner > 0
  /\ owner' = owner - 1
  /\ sup' = [sup EXCEPT !.at = "probe"]
  /\ UNCHANGED <<mode, item, snapshot, shell, spent>>

\* A registration that fails is silent: the next event or beat retries.
GiveUp == sup' = [sup EXCEPT !.at = IF sup.attached THEN "idle" ELSE "install"]

Probe ==
  /\ sup.at = "probe"
  /\ \/ shell.up /\ NoFault /\ sup' = [sup EXCEPT !.at = "register"]
     \/ ~shell.up /\ NoFault /\ GiveUp
     \/ Fault /\ GiveUp
  /\ UNCHANGED <<mode, item, snapshot, owner, shell>>

\* The objects are exported before the call: the shell asks for them at once.
Register ==
  /\ sup.at = "register"
  /\ \/ /\ shell.up /\ NoFault
        /\ shell' = [shell EXCEPT !.holds = TRUE, !.asked = {"icon", "rows"}]
        /\ sup' = [sup EXCEPT !.at = "revive"]
     \/ ~shell.up /\ NoFault /\ GiveUp /\ UNCHANGED shell
     \/ Fault /\ GiveUp /\ UNCHANGED shell
  /\ UNCHANGED <<mode, item, snapshot, owner>>

\* Mutant: only a recorded loss is revived.
Revive_IfLost ==
  /\ sup.at = "revive"
  /\ item' = IF sup.lost THEN [item EXCEPT !.registered = TRUE] ELSE item
  /\ IF sup.attached
       THEN sup' = [sup EXCEPT !.at = "idle", !.lost = FALSE] /\ shell' = NewIcon(shell, item'.registered)
       ELSE sup' = [sup EXCEPT !.at = "install"] /\ UNCHANGED shell
  /\ UNCHANGED <<mode, snapshot, owner, spent>>

Revive ==
  /\ sup.at = "revive"
  /\ item' = [item EXCEPT !.registered = TRUE]
  /\ IF sup.attached
       THEN sup' = [sup EXCEPT !.at = "idle", !.lost = FALSE] /\ shell' = NewIcon(shell, TRUE)
       ELSE sup' = [sup EXCEPT !.at = "install"] /\ UNCHANGED shell
  /\ UNCHANGED <<mode, snapshot, owner, spent>>

\* The end of the attachment: the actor shows its mode, the supervisor runs
\* and hears the owner changes if the bus lets it.
Install ==
  /\ sup.at = "install"
  /\ \E heard \in BOOLEAN :
       sup' = [sup EXCEPT !.at = "idle", !.attached = TRUE, !.matched = heard]
  /\ item' = [item EXCEPT !.pix = mode]
  /\ snapshot' = [snapshot EXCEPT !.mode = mode]
  /\ shell' = NewIcon(Told(snapshot', IF mode = snapshot.mode THEN {} ELSE ModeFields), item.registered)
  /\ UNCHANGED <<mode, owner, spent>>

(***************************************************************************)
(* The shell.                                                              *)
(***************************************************************************)
Move == spent.shell < MaxShell /\ spent' = [spent EXCEPT !.shell = @ + 1]

ShellStarts ==
  /\ Move /\ ~shell.up
  /\ shell' = [shell EXCEPT !.up = TRUE]
  /\ owner' = IF sup.matched THEN owner + 1 ELSE owner
  /\ UNCHANGED <<mode, item, snapshot, sup>>

ShellDies ==
  /\ Move /\ shell.up
  /\ shell' = AbsentShell
  /\ UNCHANGED <<mode, item, snapshot, sup, owner>>

Evicts ==
  /\ Move /\ shell.holds
  /\ shell' = [AbsentShell EXCEPT !.up = TRUE]
  /\ UNCHANGED <<mode, item, snapshot, sup, owner>>

\* The daemon computes an answer from what it serves at that moment; the
\* shell's next question of a kind waits for the answer to the former.
Serve ==
  /\ \/ /\ "icon" \in shell.asked /\ shell.coming.icon = "none"
        /\ shell' = [shell EXCEPT !.asked = @ \ {"icon"}, !.coming.icon = item.pix]
     \/ /\ "rows" \in shell.asked /\ shell.coming.rows = NoRows
        /\ shell' = [shell EXCEPT !.asked = @ \ {"rows"}, !.coming.rows = Rows(snapshot),
                                  !.overtaken = {}]
  /\ UNCHANGED <<mode, item, snapshot, sup, owner, spent>>

\* And the answer arrives, after whatever was emitted since.
Deliver ==
  /\ \/ /\ shell.coming.icon # "none"
        /\ shell' = [shell EXCEPT !.icon = shell.coming.icon, !.coming.icon = "none"]
     \/ /\ shell.coming.rows # NoRows
        /\ shell' = [shell EXCEPT !.menu = shell.coming.rows, !.coming.rows = NoRows]
  /\ UNCHANGED <<mode, item, snapshot, sup, owner, spent>>

Supervise == Beat \/ ReadRegistry \/ OwnerChanged \/ Probe \/ Register \/ Revive \/ Install
TrayNext ==
  \/ ModeChanged \/ SetAutocorrectEnabled \/ SetBlocklistApp \/ SetKeys
  \/ Supervise
  \/ ShellStarts \/ ShellDies \/ Evicts \/ Serve \/ Deliver

\* The ticker ticks and the bus delivers.
TraySpec == TrayInit /\ [][TrayNext]_trayVars
TrayFairSpec == TraySpec /\ WF_trayVars(Supervise) /\ WF_trayVars(Serve) /\ WF_trayVars(Deliver)

(***************************************************************************)
(* Properties.                                                             *)
(***************************************************************************)
Answered == shell.asked = {} /\ shell.coming = Nothing
Quiet == sup.at = "idle" /\ Answered

\* Whatever restarts, evictions and lost periods went before, a registered
\* item's icon is the actor's mode once the bus is quiet.
IconIsShown == Quiet /\ shell.holds /\ item.registered => shell.icon = mode

\* An item the watcher holds is silent only after a beat that could not
\* reach the watcher: an eviction or a restart always revives it.
SilentByFaultOnly ==
  sup.at = "idle" /\ shell.holds /\ ~item.registered => spent.faults > 0

Shown(r, f) == shell.menu[r][f] = RowOf(snapshot, r)[f] \/ <<r, f>> = <<"block", "enabled">>
SameRow(r) ==
  \A f \in {"label", "on", "enabled"} : Shown(r, f) \/ <<r, f>> \in shell.overtaken

\* With every question answered the rows the shell shows are the rows served,
\* but for a field whose delta overtook the last answer on its way, and for
\* the sensitivity of the block list's row, which no signal carries.
MenuIsShown ==
  Answered /\ shell.holds =>
    DOMAIN shell.menu = RootKids(snapshot) /\ \A r \in RootKids(snapshot) : SameRow(r)

\* What AboutToShow's answer rests on, that nothing is ever pending for the
\* renderer: the rows are those served without the first of the exceptions.
\* Not so: a delta emitted between an answer's computation and its arrival
\* is overwritten by it.
MenuIsCurrent ==
  Answered /\ shell.holds =>
    \A r \in RootKids(snapshot), f \in {"label", "on", "enabled"} : Shown(r, f)

\* A running shell gets the item back.
ItemReturns == <>[](shell.up => shell.holds)

\* And the icon follows the layout.
IconFollows == <>[](shell.up => shell.icon = mode)

\* The item in good order at rest: types, the actor's mode in the icon, and
\* no silence without a beat that failed.
TrayInv == TrayTypeOK /\ IconIsShown /\ SilentByFaultOnly
=============================================================================
