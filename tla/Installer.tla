------------------------------ MODULE Installer ------------------------------
(***************************************************************************)
(* goswitchctl install, uninstall and selfcheck: a saga over the desktop's *)
(* settings, the ibus registry, the user unit and the backup file, one     *)
(* step per file operation or subprocess.  A command may end at any step   *)
(* (a failed or timed out subprocess, the CLI's budget, Ctrl-C, a power    *)
(* cut) and leaves what it has done; the owner edits the list of sources   *)
(* at any time and may run any command afterwards.  One command runs at a  *)
(* time.                                                                   *)
(***************************************************************************)
EXTENDS Naturals, Sequences, FiniteSets

CONSTANTS
  Others,       \* entries goswitch does not wrap (another layout or engine)
  Unsupported,  \* entries of a kind it does not understand
  UserLists,    \* the lists the owner may set
  MaxCommands, MaxEdits  \* bounds

Layouts == {"us", "ru"}
Engines == {"goswitch-en", "goswitch-ru"}
Entries == Layouts \cup Engines \cup Others \cup Unsupported

ASSUME EntriesAssumption == (Others \cup Unsupported) \cap (Layouts \cup Engines) = {}
ASSUME ListsAssumption == UserLists \subseteq Seq(Entries)
ASSUME BoundsAssumption == MaxCommands \in Nat /\ MaxEdits \in Nat

VARIABLES
  live,       \* org.gnome.desktop.input-sources sources
  chords,     \* the switch chords: the owner's own or the distribution's
  a11y,       \* toolkit-accessibility
  kept,       \* install-state.json
  xml, unit,  \* the component and unit files
  cache,      \* whether the registry cache lists the component
  view,       \* whether the running ibus-daemon's registry does
  restarting, \* ibus restart is under way
  daemon,     \* goswitchd: off, up, or registered with ibus
  step,       \* the step the running command is at
  got,        \* what it has read: the values to back up, or the list to write
  commands, edits

desktop == <<live, chords, a11y>>
files == <<xml, unit>>
ibus == <<cache, view, restarting, daemon>>

\* What the model remembers about the owner and the races.
VARIABLES
  mine,     \* the list the owner set last or was given back, the key they had
  taken,    \* goswitch wrote the live list
  stale,    \* the owner edited the list since the values of kept were read
  raced,    \* the owner edited it between a command's read and write
  reset,    \* an uninstallation that found no backup put the fallback there
  unstopped \* some uninstallation could not stop the daemon

memory == <<mine, taken, stale, raced, reset, unstopped>>
vars == <<desktop, kept, files, ibus, step, got, commands, edits, memory>>

NoFile == [sources |-> << >>, chords |-> "", a11y |-> ""]
Records == [sources: Seq(Entries), chords: {"own", "distro", ""}, a11y: {"true", "false", ""}]
Owners == [sources: Seq(Entries), a11y: {"true", "false"}]

InstallSteps == {"read", "backup", "component", "register", "unit", "restart", "list",
                 "start", "wait", "wrap", "set", "activate"}
UninstallSteps == {"stop", "removeUnit", "removeXml", "reload", "uncache", "unrestart",
                   "giveBack", "chords", "a11y", "forget", "purge"}
CheckSteps == {"probe", "audit", "heal"}
Steps == {"idle"} \cup InstallSteps \cup UninstallSteps \cup CheckSteps

ListsOK ==
  /\ live \in Seq(Entries) /\ chords \in {"own", "distro"} /\ a11y \in {"true", "false"}
  /\ kept \in Records /\ got \in Records /\ mine \in Owners
FlagsOK ==
  /\ xml \in BOOLEAN /\ unit \in BOOLEAN /\ cache \in BOOLEAN /\ view \in BOOLEAN
  /\ restarting \in BOOLEAN /\ taken \in BOOLEAN /\ stale \in BOOLEAN
  /\ raced \in BOOLEAN /\ reset \in BOOLEAN /\ unstopped \in BOOLEAN
ProgressOK ==
  /\ daemon \in {"off", "up", "registered"} /\ step \in Steps
  /\ commands \in 0..MaxCommands /\ edits \in 0..MaxEdits
TypeOK == ListsOK /\ FlagsOK /\ ProgressOK

(***************************************************************************)
(* The list algebra: one parser and one arbiter for install and selfcheck. *)
(***************************************************************************)
EntriesOf(l) == {l[i] : i \in DOMAIN l}
CarriesWrappable(l) == EntriesOf(l) \cap Layouts # {}
Owned(l) == l # << >> /\ EntriesOf(l) \subseteq Engines

EngineOf(x) == IF x = "us" THEN "goswitch-en" ELSE IF x = "ru" THEN "goswitch-ru" ELSE x

\* The first occurrence of each engine tuple stays in place.
Deduped(l) ==
  IF EntriesOf(l) = {l[1]} THEN <<l[1]>>
  ELSE <<l[1], CHOOSE e \in EntriesOf(l) : e # l[1]>>

CanWrap(l) == CarriesWrappable(l) /\ EntriesOf(l) \subseteq Layouts \cup Engines
\* Mutant: every entry keeps its place, an engine may come twice.
WrapSourcesUndeduped(l) == IF CanWrap(l) THEN [i \in DOMAIN l |-> EngineOf(l[i])] ELSE << >>
WrapSources(l) ==
  IF CanWrap(l) THEN Deduped([i \in DOMAIN l |-> EngineOf(l[i])]) ELSE << >>

\* The live list, or the kept one when the desktop is goswitch's already.
ResolveWrapInput(l, file) ==
  IF CarriesWrappable(l) THEN l ELSE IF Owned(l) THEN file.sources ELSE << >>

Init ==
  /\ chords = "own"
  /\ a11y \in {"true", "false"}
  /\ step = "idle" /\ got = NoFile /\ commands = 0 /\ edits = 0
  /\ restarting = FALSE
  /\ stale = FALSE /\ raced = FALSE /\ reset = FALSE /\ unstopped = FALSE
  /\ \/ /\ live \in UserLists                       \* nothing installed
        /\ kept = NoFile /\ taken = FALSE
        /\ mine = [sources |-> live, a11y |-> a11y]
        /\ xml = FALSE /\ unit = FALSE /\ cache = FALSE /\ view = FALSE /\ daemon = "off"
     \/ \E l \in {u \in UserLists : CanWrap(u)} :   \* an earlier version is
          /\ live = WrapSources(l) /\ taken = TRUE
          /\ kept = [sources |-> l, chords |-> "", a11y |-> ""]
          /\ mine = [sources |-> l, a11y |-> a11y]
          /\ xml = TRUE /\ unit = TRUE /\ cache = TRUE /\ view = TRUE /\ daemon = "registered"

(***************************************************************************)
(* The steps of the commands.                                              *)
(***************************************************************************)
Command(s) ==
  /\ step = "idle" /\ commands < MaxCommands
  /\ commands' = commands + 1
  /\ step' = s
  /\ UNCHANGED <<desktop, kept, files, ibus, got, edits, memory>>
Install == Command("read")
Uninstall == Command("stop")
Selfcheck == Command("probe")

At(s, t) == step = s /\ step' = t /\ UNCHANGED <<commands, edits>>

\* The command ends where it is.
Abort ==
  /\ step # "idle"
  /\ step' = "idle"
  /\ UNCHANGED <<desktop, kept, files, ibus, got, commands, edits, memory>>

\* The refusal gate and the reads of the backup; the read of the
\* accessibility key may fail without failing the command.
ReadState ==
  /\ At("read", "backup")
  /\ CanWrap(ResolveWrapInput(live, kept))
  /\ \E v \in {a11y, ""} : got' = [sources |-> live, chords |-> chords, a11y |-> v]
  /\ stale' = IF kept = NoFile THEN FALSE ELSE stale
  /\ UNCHANGED <<desktop, kept, files, ibus, mine, taken, raced, reset, unstopped>>

\* Mutant: an install over an install saves again.
SaveStateAgain ==
  /\ At("backup", "component")
  /\ kept' = got
  /\ UNCHANGED <<desktop, files, ibus, got, memory>>

\* The first backup is never overwritten.
SaveState ==
  /\ At("backup", "component")
  /\ kept' = IF kept = NoFile THEN got ELSE kept
  /\ UNCHANGED <<desktop, files, ibus, got, memory>>

WriteComponent ==
  /\ At("component", "register")
  /\ xml' = TRUE
  /\ UNCHANGED <<desktop, kept, unit, ibus, got, memory>>

\* ibus write-cache scans the component directories.
RegisterCache ==
  /\ At("register", "unit")
  /\ cache' = xml
  /\ UNCHANGED <<desktop, kept, files, view, restarting, daemon, got, memory>>

WriteUnit ==
  /\ At("unit", "restart")
  /\ unit' = TRUE
  /\ UNCHANGED <<desktop, kept, xml, ibus, got, memory>>

RestartIbus ==
  /\ At("restart", "list") \/ At("unrestart", "giveBack")
  /\ restarting' = TRUE
  /\ UNCHANGED <<desktop, kept, files, cache, view, daemon, got, memory>>

WaitListEngine ==
  /\ At("list", "start")
  /\ view
  /\ UNCHANGED <<desktop, kept, files, ibus, got, memory>>

StartUnit ==
  /\ At("start", "wait")
  /\ unit
  /\ daemon' = "up"
  /\ UNCHANGED <<desktop, kept, files, cache, view, restarting, got, memory>>

WaitRegistration ==
  /\ At("wait", "wrap")
  /\ daemon = "registered"
  /\ UNCHANGED <<desktop, kept, files, ibus, got, memory>>

\* The value to write, computed from a second read of the live list.
ComputeTakeover ==
  /\ At("wrap", "set")
  /\ CanWrap(ResolveWrapInput(live, kept))
  /\ got' = [got EXCEPT !.sources = WrapSources(ResolveWrapInput(live, kept))]
  /\ UNCHANGED <<desktop, kept, files, ibus, memory>>

\* A list that is in force already is not written again.
TakeoverSources ==
  /\ At("set", "activate")
  /\ live' = got.sources
  /\ taken' = (taken \/ live # got.sources)
  /\ UNCHANGED <<chords, a11y, kept, files, ibus, got, mine, stale, raced, reset, unstopped>>

ActivateEngine ==
  /\ At("activate", "idle")
  /\ UNCHANGED <<desktop, kept, files, ibus, got, memory>>

\* The errors of stop and disable are dropped.
StopUnit ==
  /\ At("stop", "removeUnit")
  /\ \/ daemon' = "off" /\ UNCHANGED unstopped
     \/ daemon # "off" /\ unstopped' = TRUE /\ UNCHANGED daemon
  /\ UNCHANGED <<desktop, kept, files, cache, view, restarting, got, mine, taken, stale, raced, reset>>

RemoveUnit ==
  /\ At("removeUnit", "removeXml")
  /\ unit' = FALSE
  /\ UNCHANGED <<desktop, kept, xml, ibus, got, memory>>

\* Mutant: the state file goes with the other two.
RemoveComponentAndState ==
  /\ At("removeXml", "reload")
  /\ xml' = FALSE
  /\ kept' = NoFile
  /\ UNCHANGED <<desktop, unit, ibus, got, memory>>

RemoveComponent ==
  /\ At("removeXml", "reload")
  /\ xml' = FALSE
  /\ UNCHANGED <<desktop, kept, unit, ibus, got, memory>>

ReloadManager ==
  /\ At("reload", "uncache")
  /\ UNCHANGED <<desktop, kept, files, ibus, got, memory>>

\* Mutant: the registry cache is left as it is.
WriteCacheNever == At("uncache", "unrestart") /\ UNCHANGED <<desktop, kept, files, ibus, got, memory>>

WriteCache ==
  /\ At("uncache", "unrestart")
  /\ cache' = xml
  /\ UNCHANGED <<desktop, kept, files, view, restarting, daemon, got, memory>>

FallbackSources == <<"us">>
RestoredList(file) == IF file = NoFile THEN FallbackSources ELSE file.sources

RestoreSources ==
  /\ At("giveBack", "chords")
  /\ live' = RestoredList(kept)
  /\ mine' = [mine EXCEPT !.sources = IF kept = NoFile THEN FallbackSources ELSE kept.sources]
  /\ taken' = FALSE
  /\ reset' = (kept = NoFile)
  /\ UNCHANGED <<chords, a11y, kept, files, ibus, got, stale, raced, unstopped>>

RestoreSwitchBinding ==
  /\ At("chords", "a11y")
  /\ chords' = IF kept.chords = "" THEN "distro" ELSE kept.chords
  /\ UNCHANGED <<live, a11y, kept, files, ibus, got, memory>>

\* Only a saved boolean literal is written, and a failing write is dropped.
RestoreToolkitAccessibility ==
  /\ At("a11y", "forget")
  /\ a11y' = IF kept.a11y = "" THEN a11y ELSE kept.a11y
  /\ mine' = [mine EXCEPT !.a11y = a11y']
  /\ UNCHANGED <<live, chords, kept, files, ibus, got, taken, stale, raced, reset, unstopped>>

RemoveState ==
  /\ At("forget", "purge") \/ At("forget", "idle")
  /\ kept' = NoFile
  /\ UNCHANGED <<desktop, files, ibus, got, memory>>

PurgeDirs ==
  /\ At("purge", "idle")
  /\ kept' = NoFile
  /\ UNCHANGED <<desktop, files, ibus, got, memory>>

(***************************************************************************)
(* The selfcheck: four probes, one cache repair, and the audit that heals  *)
(* a half-owned list.                                                      *)
(***************************************************************************)
Probe ==
  /\ At("probe", "audit")
  /\ daemon = "registered" /\ view
  /\ UNCHANGED <<desktop, kept, files, ibus, got, memory>>

\* A repaired cache is seen only after the next restart of ibus.
ProbeRepairs ==
  /\ At("probe", "idle")
  /\ daemon # "off" /\ ~view
  /\ cache' = xml
  /\ UNCHANGED <<desktop, kept, files, view, restarting, daemon, got, memory>>

Audit ==
  /\ \/ At("audit", "idle") /\ Owned(live) /\ UNCHANGED got
     \/ /\ At("audit", "heal")
        /\ EntriesOf(live) \cap Engines # {} /\ CanWrap(live)
        /\ got' = [got EXCEPT !.sources = WrapSources(live)]
  /\ UNCHANGED <<desktop, kept, files, ibus, memory>>

Heal ==
  /\ At("heal", "idle")
  /\ live' = got.sources
  /\ taken' = TRUE
  /\ UNCHANGED <<chords, a11y, kept, files, ibus, got, mine, stale, raced, reset, unstopped>>

(***************************************************************************)
(* Meanwhile: ibus comes back, the daemon registers and turns the          *)
(* accessibility key on, the owner edits the list.                         *)
(***************************************************************************)
IbusStarts ==
  /\ restarting
  /\ restarting' = FALSE
  /\ view' = cache
  /\ daemon' = IF daemon = "registered" THEN "up" ELSE daemon
  /\ UNCHANGED <<desktop, kept, files, cache, step, got, commands, edits, memory>>

DaemonRegisters ==
  /\ daemon = "up" /\ ~restarting
  /\ daemon' = "registered"
  /\ UNCHANGED <<desktop, kept, files, cache, view, restarting, step, got, commands, edits, memory>>

DaemonEnablesA11y ==
  /\ daemon # "off" /\ a11y = "false"
  /\ a11y' = "true"
  /\ UNCHANGED <<live, chords, kept, files, ibus, step, got, commands, edits, memory>>

UserEdits(l) ==
  /\ edits < MaxEdits /\ l # live
  /\ edits' = edits + 1
  /\ live' = l
  /\ mine' = [mine EXCEPT !.sources = l]
  /\ taken' = FALSE
  /\ stale' = TRUE
  /\ raced' = (step \in {"set", "heal"})
  /\ reset' = FALSE
  /\ UNCHANGED <<chords, a11y, kept, files, ibus, step, got, commands, unstopped>>

CommandStep ==
  \/ ReadState \/ SaveState \/ WriteComponent \/ RegisterCache \/ WriteUnit
  \/ RestartIbus \/ WaitListEngine \/ StartUnit \/ WaitRegistration
  \/ ComputeTakeover \/ TakeoverSources \/ ActivateEngine
  \/ StopUnit \/ RemoveUnit \/ RemoveComponent \/ ReloadManager \/ WriteCache
  \/ RestoreSources \/ RestoreSwitchBinding \/ RestoreToolkitAccessibility
  \/ RemoveState \/ PurgeDirs
  \/ Probe \/ ProbeRepairs \/ Audit \/ Heal

Next ==
  \/ Install \/ Uninstall \/ Selfcheck \/ CommandStep \/ Abort
  \/ IbusStarts \/ DaemonRegisters \/ DaemonEnablesA11y
  \/ \E l \in UserLists : UserEdits(l)

Spec == Init /\ [][Next]_vars

(***************************************************************************)
(* Properties.                                                             *)
(***************************************************************************)

\* A list goswitch has written is covered by a backup that holds a keyboard
\* layout, whichever steps the commands got to: an uninstallation can always
\* bring a list with a keyboard back.  The exception: a daemon no stop could
\* end, whose half-owned list a selfcheck heals when the backup is gone.
TakenIsBackedUp == taken => CarriesWrappable(kept.sources) \/ unstopped

\* goswitch writes only lists its own selfcheck calls green: owned entirely,
\* no engine twice, and one engine for each layout the owner had, no more.
EnginesFor(l) == {EngineOf(x) : x \in EntriesOf(l)}
TakenIsTheOwners ==
  taken /\ ~raced =>
    /\ Owned(live)
    /\ Len(live) = Cardinality(EntriesOf(live))
    /\ EntriesOf(live) \in {EnginesFor(mine.sources), EnginesFor(kept.sources)}

\* Uninstalling gives back what the owner had.  The exceptions are the ones
\* the code has: there is no backup (or none of that key), the owner edited
\* the list after it was made, a daemon that could not be stopped had turned
\* the accessibility key on.
GivesBack == [][
  /\ RestoreSources => live' = mine.sources \/ stale \/ reset \/ kept = NoFile
  /\ RestoreSwitchBinding => chords' = chords \/ kept.chords = ""
  /\ RestoreToolkitAccessibility => a11y' = mine.a11y \/ kept.a11y = "" \/ unstopped]_vars

\* An uninstallation that gets to the end leaves nothing of goswitch behind:
\* no list, no file, no entry in the registry ibus reads at its next start.
LeavesNothing == [][
  RemoveState => ~taken /\ ~xml /\ ~unit /\ ~cache /\ (view => restarting)]_vars

\* The detailed saga implements the abstract promise: the list is borrowed.
Borrowed == INSTANCE BorrowedSources
  WITH mine <- mine.sources, kept <- kept.sources, adrift <- unstopped
BorrowSpec == Borrowed!BorrowSpec

\* A second uninstallation over removed artifacts is a no-op (a test and the
\* doc of Uninstall say so).
UninstallIsIdempotent == [][
  RestoreSources /\ kept = NoFile /\ ~xml /\ ~unit /\ ~taken => live' = live]_vars

\* What an uninstallation does to the desktop: it gives back what it took and
\* leaves nothing of its own.
Uninstalls == GivesBack /\ LeavesNothing
=============================================================================
