--------------------------- MODULE InstallerProofs ---------------------------
(***************************************************************************)
(* For every set of layouts the owner may have and any number of commands  *)
(* and edits: the types, the backup behind every list goswitch wrote, and  *)
(* the abstract promise of the borrowed list.                              *)
(***************************************************************************)
EXTENDS Installer, FiniteSetTheorems, TLAPS

(***************************************************************************)
(* The list algebra.                                                       *)
(***************************************************************************)
\* The wrapped list is a list of entries: the dedupe finds the other engine.
LEMMA WrapType == ASSUME NEW l \in Seq(Entries) PROVE WrapSources(l) \in Seq(Entries)
<1>1. CASE ~CanWrap(l)
  <2>1. << >> \in Seq(Entries) OBVIOUS
  <2> QED BY <1>1, <2>1 DEF WrapSources
<1>2. CASE CanWrap(l)
  <2> DEFINE w == [i \in DOMAIN l |-> EngineOf(l[i])]
  <2>1. \A i \in DOMAIN l : EngineOf(l[i]) \in Entries
    BY DEF EngineOf, Entries, Engines
  <2>2. w \in Seq(Entries) /\ Len(w) = Len(l)
    BY <2>1
  <2>3. l # << >> BY <1>2 DEF CanWrap, CarriesWrappable, EntriesOf
  <2>4. w # << >> /\ w[1] \in Entries BY <2>2, <2>3
  <2>5. w[1] \in EntriesOf(w) /\ EntriesOf(w) \subseteq Entries BY <2>2, <2>4 DEF EntriesOf
  <2> HIDE DEF w
  <2>6. ASSUME EntriesOf(w) # {w[1]} PROVE (CHOOSE e \in EntriesOf(w) : e # w[1]) \in Entries
    <3>1. \E e \in EntriesOf(w) : e # w[1] BY <2>5, <2>6
    <3> QED BY <3>1, <2>5
  <2>7. Deduped(w) \in Seq(Entries) BY <2>4, <2>6 DEF Deduped
  <2> QED BY <1>2, <2>7 DEF WrapSources, w
<1> QED BY <1>1, <1>2

\* No backup file, no list to wrap instead of an owned one.
LEMMA NothingKept ==
  ASSUME NEW l, CanWrap(ResolveWrapInput(l, NoFile)) PROVE CarriesWrappable(l)
BY DEF CanWrap, ResolveWrapInput, CarriesWrappable, EntriesOf, NoFile

\* A list with a keyboard layout is not empty, and the empty record has none.
LEMMA WrappableIsSome ==
  /\ \A l : CarriesWrappable(l) => l # << >>
  /\ ~CarriesWrappable(NoFile.sources)
BY DEF CarriesWrappable, EntriesOf, NoFile

(***************************************************************************)
(* The types.                                                              *)
(***************************************************************************)
LEMMA RecordFields ==
  ASSUME NEW r \in Records
  PROVE  /\ r.sources \in Seq(Entries)
         /\ r.chords \in {"own", "distro", ""}
         /\ r.a11y \in {"true", "false", ""}
         /\ \A l \in Seq(Entries) : [r EXCEPT !.sources = l] \in Records
BY DEF Records

LEMMA NoFileType == NoFile \in Records
<1>1. << >> \in Seq(Entries) OBVIOUS
<1> QED BY <1>1 DEF Records, NoFile

LEMMA MineFields ==
  ASSUME NEW r \in Owners
  PROVE  /\ \A l \in Seq(Entries) : [r EXCEPT !.sources = l] \in Owners
         /\ \A v \in {"true", "false"} : [r EXCEPT !.a11y = v] \in Owners
BY DEF Owners

LEMMA FallbackType == FallbackSources \in Seq(Entries)
BY DEF FallbackSources, Entries, Layouts

LEMMA StepNames ==
  /\ {"idle", "read", "backup", "component", "register", "unit"} \subseteq Steps
  /\ {"restart", "list", "start", "wait", "wrap", "set", "activate"} \subseteq Steps
  /\ {"stop", "removeUnit", "removeXml", "reload", "uncache", "unrestart"} \subseteq Steps
  /\ {"giveBack", "chords", "a11y", "forget", "purge"} \subseteq Steps
  /\ {"probe", "audit", "heal"} \subseteq Steps
BY DEF Steps, InstallSteps, UninstallSteps, CheckSteps

LEMMA InitType == Init => TypeOK
<1> SUFFICES ASSUME Init PROVE TypeOK OBVIOUS
<1>1. ProgressOK
  <2>1. daemon \in {"off", "up", "registered"} BY Zenon DEF Init
  <2>2. 0 \in 0..MaxCommands /\ 0 \in 0..MaxEdits BY BoundsAssumption
  <2> QED BY <2>1, <2>2, StepNames, Zenon DEF Init, ProgressOK
<1>8. FlagsOK
  BY Zenon DEF Init, FlagsOK
<1>2. \A l \in Seq(Entries), v \in {"true", "false"} : [sources |-> l, a11y |-> v] \in Owners
  BY DEF Owners
<1>3. \A l \in Seq(Entries) : [sources |-> l, chords |-> "", a11y |-> ""] \in Records
  BY DEF Records
<1>4. chords \in {"own", "distro"} /\ a11y \in {"true", "false"} /\ got \in Records
  BY NoFileType DEF Init
<1>5. ASSUME live \in UserLists, kept = NoFile, mine = [sources |-> live, a11y |-> a11y]
      PROVE  ListsOK
  BY <1>2, <1>4, <1>5, NoFileType, ListsAssumption DEF ListsOK
<1>6. ASSUME NEW l \in UserLists, live = WrapSources(l),
             kept = [sources |-> l, chords |-> "", a11y |-> ""],
             mine = [sources |-> l, a11y |-> a11y]
      PROVE  ListsOK
  BY <1>2, <1>3, <1>4, <1>6, WrapType, ListsAssumption DEF ListsOK
<1>7. ListsOK BY <1>5, <1>6 DEF Init
<1> QED BY <1>1, <1>8, <1>7 DEF TypeOK

\* The flags.
LEMMA NextFlags == FlagsOK /\ [Next]_vars => FlagsOK'
<1> SUFFICES ASSUME FlagsOK, [Next]_vars PROVE FlagsOK' OBVIOUS
<1> USE DEF FlagsOK, At, desktop, files, ibus, memory
<1>1. ASSUME NEW s \in {"read", "stop", "probe"}, Command(s) PROVE FlagsOK'
  BY <1>1, Zenon DEF Command
<1>2. CASE Abort \/ ReadState \/ SaveState
  BY <1>2, ZenonT(60) DEF Abort, ReadState, SaveState
<1>3. CASE WriteComponent \/ RegisterCache \/ WriteUnit \/ RestartIbus
  BY <1>3, ZenonT(60) DEF WriteComponent, RegisterCache, WriteUnit, RestartIbus
<1>4. CASE WaitListEngine \/ StartUnit \/ WaitRegistration \/ ActivateEngine
  BY <1>4, ZenonT(60) DEF WaitListEngine, StartUnit, WaitRegistration, ActivateEngine
<1>5. CASE ComputeTakeover \/ TakeoverSources
  <2>1. TakeoverSources => taken' \in BOOLEAN BY Zenon DEF TakeoverSources
  <2>2. CASE ComputeTakeover BY <2>2, Zenon DEF ComputeTakeover
  <2>3. CASE TakeoverSources BY <2>1, <2>3, Zenon DEF TakeoverSources
  <2> QED BY <1>5, <2>2, <2>3
<1>6. CASE StopUnit \/ RemoveUnit \/ RemoveComponent \/ ReloadManager \/ WriteCache
  BY <1>6, ZenonT(60) DEF StopUnit, RemoveUnit, RemoveComponent, ReloadManager, WriteCache
<1>7. CASE RestoreSources \/ RestoreSwitchBinding \/ RestoreToolkitAccessibility
  BY <1>7, ZenonT(60) DEF RestoreSources, RestoreSwitchBinding, RestoreToolkitAccessibility
<1>8. CASE RemoveState \/ PurgeDirs
  BY <1>8, ZenonT(60) DEF RemoveState, PurgeDirs
<1>9. CASE Probe \/ ProbeRepairs \/ Audit \/ Heal
  BY <1>9, ZenonT(60) DEF Probe, ProbeRepairs, Audit, Heal
<1>10. CASE IbusStarts \/ DaemonRegisters \/ DaemonEnablesA11y
  BY <1>10, ZenonT(60) DEF IbusStarts, DaemonRegisters, DaemonEnablesA11y
<1>11. ASSUME NEW l \in UserLists, UserEdits(l) PROVE FlagsOK'
  <2>1. (step \in {"set", "heal"}) \in BOOLEAN OBVIOUS
  <2>2. raced' \in BOOLEAN BY <1>11, <2>1, Zenon DEF UserEdits
  <2> QED BY <1>11, <2>2, Zenon DEF UserEdits
<1>12. CASE UNCHANGED vars BY <1>12, Zenon DEF vars
<1> QED
  BY <1>1, <1>2, <1>3, <1>4, <1>5, <1>6, <1>7, <1>8, <1>9, <1>10, <1>11, <1>12
     DEF Next, CommandStep, Install, Uninstall, Selfcheck

\* The daemon, the step and the counters.
LEMMA NextProgress == ProgressOK /\ [Next]_vars => ProgressOK'
<1> SUFFICES ASSUME ProgressOK, [Next]_vars PROVE ProgressOK' OBVIOUS
<1> USE DEF ProgressOK, At, desktop, files, ibus, memory
<1>1. ASSUME NEW s \in {"read", "stop", "probe"}, Command(s) PROVE ProgressOK'
  BY <1>1, StepNames, BoundsAssumption DEF Command
<1>2. CASE Abort \/ ReadState \/ SaveState
  BY <1>2, StepNames, BoundsAssumption DEF Abort, ReadState, SaveState
<1>3. CASE WriteComponent \/ RegisterCache \/ WriteUnit \/ RestartIbus
  BY <1>3, StepNames, BoundsAssumption DEF WriteComponent, RegisterCache, WriteUnit, RestartIbus
<1>4. CASE WaitListEngine \/ StartUnit \/ WaitRegistration \/ ActivateEngine
  BY <1>4, StepNames, BoundsAssumption DEF WaitListEngine, StartUnit, WaitRegistration, ActivateEngine
<1>5. CASE ComputeTakeover \/ TakeoverSources
  BY <1>5, StepNames, BoundsAssumption DEF ComputeTakeover, TakeoverSources
<1>6. CASE StopUnit \/ RemoveUnit \/ RemoveComponent \/ ReloadManager \/ WriteCache
  BY <1>6, StepNames, BoundsAssumption DEF StopUnit, RemoveUnit, RemoveComponent, ReloadManager, WriteCache
<1>7. CASE RestoreSources \/ RestoreSwitchBinding \/ RestoreToolkitAccessibility
  BY <1>7, StepNames, BoundsAssumption DEF RestoreSources, RestoreSwitchBinding, RestoreToolkitAccessibility
<1>8. CASE RemoveState \/ PurgeDirs
  BY <1>8, StepNames, BoundsAssumption DEF RemoveState, PurgeDirs
<1>9. CASE Probe \/ ProbeRepairs \/ Audit \/ Heal
  BY <1>9, StepNames, BoundsAssumption DEF Probe, ProbeRepairs, Audit, Heal
<1>10. CASE IbusStarts \/ DaemonRegisters \/ DaemonEnablesA11y
  BY <1>10, StepNames, BoundsAssumption DEF IbusStarts, DaemonRegisters, DaemonEnablesA11y
<1>11. ASSUME NEW l \in UserLists, UserEdits(l) PROVE ProgressOK'
  BY <1>11, StepNames, BoundsAssumption DEF UserEdits
<1>12. CASE UNCHANGED vars BY <1>12, StepNames, BoundsAssumption DEF vars
<1> QED
  BY <1>1, <1>2, <1>3, <1>4, <1>5, <1>6, <1>7, <1>8, <1>9, <1>10, <1>11, <1>12
     DEF Next, CommandStep, Install, Uninstall, Selfcheck

\* The lists and the records.
LEMMA NextLists == ListsOK /\ [Next]_vars => ListsOK'
<1> SUFFICES ASSUME ListsOK, [Next]_vars PROVE ListsOK' OBVIOUS
<1> USE DEF ListsOK, At, desktop, files, ibus, memory
<1>1. ASSUME NEW s, Command(s) PROVE ListsOK'
  BY <1>1 DEF Command
<1>2. CASE Abort BY <1>2 DEF Abort
<1>3. CASE ReadState
  <2>1. \A v \in {a11y, ""} : [sources |-> live, chords |-> chords, a11y |-> v] \in Records
    BY DEF Records
  <2> QED BY <1>3, <2>1 DEF ReadState
<1>4. CASE SaveState BY <1>4 DEF SaveState
<1>5. CASE WriteComponent \/ RegisterCache \/ WriteUnit \/ RestartIbus \/ WaitListEngine
           \/ StartUnit \/ WaitRegistration \/ ActivateEngine
  BY <1>5 DEF WriteComponent, RegisterCache, WriteUnit, RestartIbus, WaitListEngine,
              StartUnit, WaitRegistration, ActivateEngine
<1>6. CASE ComputeTakeover
  <2>1. ResolveWrapInput(live, kept) \in Seq(Entries)
    <3>1. << >> \in Seq(Entries) OBVIOUS
    <3> QED BY <3>1, RecordFields DEF ResolveWrapInput
  <2>2. got' \in Records BY <1>6, <2>1, WrapType, RecordFields DEF ComputeTakeover
  <2> QED BY <1>6, <2>2 DEF ComputeTakeover
<1>7. CASE TakeoverSources BY <1>7, RecordFields DEF TakeoverSources
<1>8. CASE StopUnit \/ RemoveUnit \/ RemoveComponent \/ ReloadManager \/ WriteCache
  BY <1>8 DEF StopUnit, RemoveUnit, RemoveComponent, ReloadManager, WriteCache
<1>9. CASE RestoreSources
  <2>1. RestoredList(kept) \in Seq(Entries)
    BY RecordFields, FallbackType DEF RestoredList
  <2>2. mine' \in Owners
    BY <1>9, RecordFields, FallbackType, MineFields DEF RestoreSources
  <2> QED BY <1>9, <2>1, <2>2 DEF RestoreSources
<1>10. CASE RestoreSwitchBinding BY <1>10, RecordFields DEF RestoreSwitchBinding
<1>11. CASE RestoreToolkitAccessibility
  <2>1. a11y' \in {"true", "false"}
    BY <1>11, RecordFields DEF RestoreToolkitAccessibility
  <2>2. mine' \in Owners
    BY <1>11, <2>1, MineFields DEF RestoreToolkitAccessibility
  <2> QED BY <1>11, <2>1, <2>2 DEF RestoreToolkitAccessibility
<1>12. CASE RemoveState \/ PurgeDirs BY <1>12, NoFileType DEF RemoveState, PurgeDirs
<1>13. CASE Probe \/ ProbeRepairs BY <1>13 DEF Probe, ProbeRepairs
<1>14. CASE Audit
  <2>1. got' \in Records BY <1>14, WrapType, RecordFields DEF Audit
  <2> QED BY <1>14, <2>1 DEF Audit
<1>15. CASE Heal BY <1>15, RecordFields DEF Heal
<1>16. CASE IbusStarts \/ DaemonRegisters \/ DaemonEnablesA11y
  BY <1>16 DEF IbusStarts, DaemonRegisters, DaemonEnablesA11y
<1>17. ASSUME NEW l \in UserLists, UserEdits(l) PROVE ListsOK'
  <2>1. mine' \in Owners
    BY <1>17, MineFields, ListsAssumption DEF UserEdits
  <2> QED BY <1>17, <2>1, ListsAssumption DEF UserEdits
<1>18. CASE UNCHANGED vars BY <1>18 DEF vars
<1> QED
  BY <1>1, <1>2, <1>3, <1>4, <1>5, <1>6, <1>7, <1>8, <1>9, <1>10, <1>11, <1>12, <1>13, <1>14,
     <1>15, <1>16, <1>17, <1>18 DEF Next, CommandStep, Install, Uninstall, Selfcheck

\* The state of every run of the installer keeps its types.
THEOREM TypeCorrect == Spec => []TypeOK
<1>1. TypeOK /\ [Next]_vars => TypeOK'
  BY NextFlags, NextProgress, NextLists DEF TypeOK
<1> QED BY InitType, <1>1, PTL DEF Spec

(***************************************************************************)
(* The backup.  A backup always holds a keyboard layout, because the gate  *)
(* of ReadState and the saving are one run's; every step after the saving  *)
(* finds it; once the list was given back no step takes it again before    *)
(* the backup goes; and a daemon that runs (so that a selfcheck gets to    *)
(* the healing) either has its backup or was one no stop could end.        *)
(***************************************************************************)
AfterSaving == InstallSteps \ {"read", "backup"}
AfterGivingBack == {"chords", "a11y", "forget", "purge"}
AfterStopping == UninstallSteps \ {"stop"}

BackupHasLayout == kept = NoFile \/ CarriesWrappable(kept.sources)
ReadHasLayout == step = "backup" /\ kept = NoFile => CarriesWrappable(got.sources)
SavedFirst == step \in AfterSaving => kept # NoFile
GivenBack == step \in AfterGivingBack => ~taken
StoppedFirst == step \in AfterStopping => daemon = "off" \/ unstopped
DaemonHasBackup == daemon # "off" => kept # NoFile \/ unstopped
HealHasBackup == step \in {"audit", "heal"} => kept # NoFile \/ unstopped
SagaInv ==
  /\ TakenIsBackedUp /\ BackupHasLayout /\ ReadHasLayout /\ SavedFirst
  /\ GivenBack /\ StoppedFirst /\ DaemonHasBackup /\ HealHasBackup

LEMMA InitSaga == Init => SagaInv
<1> SUFFICES ASSUME Init PROVE SagaInv OBVIOUS
<1> USE DEF SagaInv, TakenIsBackedUp, BackupHasLayout, ReadHasLayout, SavedFirst, GivenBack,
            StoppedFirst, DaemonHasBackup, HealHasBackup, AfterSaving, AfterGivingBack,
            AfterStopping, InstallSteps, UninstallSteps
<1>1. ASSUME kept = NoFile, taken = FALSE, daemon = "off" PROVE SagaInv
  BY <1>1 DEF Init
<1>2. ASSUME NEW l \in UserLists, CanWrap(l), kept = [sources |-> l, chords |-> "", a11y |-> ""]
      PROVE  SagaInv
  <2>1. CarriesWrappable(kept.sources) BY <1>2 DEF CanWrap
  <2>2. kept # NoFile BY <2>1, WrappableIsSome
  <2> QED BY <2>1, <2>2 DEF Init
<1> QED BY <1>1, <1>2 DEF Init

LEMMA NextSaga == SagaInv /\ [Next]_vars => SagaInv'
<1> SUFFICES ASSUME SagaInv, [Next]_vars PROVE SagaInv' OBVIOUS
<1> USE DEF SagaInv, TakenIsBackedUp, BackupHasLayout, ReadHasLayout, SavedFirst, GivenBack,
            StoppedFirst, DaemonHasBackup, HealHasBackup, AfterSaving, AfterGivingBack,
            AfterStopping, InstallSteps, UninstallSteps, At, desktop, files, ibus, memory
<1>1. ASSUME NEW s \in {"read", "stop", "probe"}, Command(s) PROVE SagaInv'
  BY <1>1 DEF Command
<1>2. CASE Abort BY <1>2 DEF Abort
<1>3. CASE ReadState
  \* The gate: with no backup the live list itself must wrap.
  <2>1. kept = NoFile => CarriesWrappable(live)
    BY <1>3, NothingKept DEF ReadState
  <2>2. got'.sources = live
    <3>1. PICK v \in {a11y, ""} : got' = [sources |-> live, chords |-> chords, a11y |-> v]
      BY <1>3 DEF ReadState
    <3> QED BY <3>1
  <2> QED BY <1>3, <2>1, <2>2 DEF ReadState
<1>4. CASE SaveState
  <2>1. CarriesWrappable(kept'.sources) /\ kept' # NoFile
    BY <1>4, WrappableIsSome DEF SaveState
  <2> QED BY <1>4, <2>1 DEF SaveState
<1>5. CASE WriteComponent \/ RegisterCache \/ WriteUnit \/ RestartIbus \/ WaitListEngine
           \/ StartUnit \/ WaitRegistration \/ ActivateEngine
  <2>1. CASE WriteComponent \/ RegisterCache \/ WriteUnit
    BY <2>1 DEF WriteComponent, RegisterCache, WriteUnit
  <2>2. CASE RestartIbus \/ WaitListEngine BY <2>2 DEF RestartIbus, WaitListEngine
  <2>3. CASE StartUnit BY <2>3 DEF StartUnit
  <2>4. CASE WaitRegistration \/ ActivateEngine BY <2>4 DEF WaitRegistration, ActivateEngine
  <2> QED BY <1>5, <2>1, <2>2, <2>3, <2>4
<1>6. CASE ComputeTakeover BY <1>6 DEF ComputeTakeover
<1>7. CASE TakeoverSources BY <1>7, WrappableIsSome DEF TakeoverSources
<1>8. CASE StopUnit BY <1>8 DEF StopUnit
<1>9. CASE RemoveUnit \/ RemoveComponent \/ ReloadManager \/ WriteCache
  BY <1>9 DEF RemoveUnit, RemoveComponent, ReloadManager, WriteCache
<1>10. CASE RestoreSources \/ RestoreSwitchBinding \/ RestoreToolkitAccessibility
  <2>1. CASE RestoreSources
    <3>1. /\ step = "giveBack" /\ step' = "chords" /\ taken' = FALSE
          /\ UNCHANGED <<kept, daemon, unstopped>>
      BY <2>1 DEF RestoreSources
    <3> QED BY <3>1
  <2>2. CASE RestoreSwitchBinding BY <2>2 DEF RestoreSwitchBinding
  <2>3. CASE RestoreToolkitAccessibility
    <3>1. /\ step = "a11y" /\ step' = "forget"
          /\ UNCHANGED <<kept, daemon, taken, unstopped>>
      BY <2>3 DEF RestoreToolkitAccessibility
    <3> QED BY <3>1
  <2> QED BY <1>10, <2>1, <2>2, <2>3
<1>11. CASE RemoveState \/ PurgeDirs
  BY <1>11 DEF RemoveState, PurgeDirs
<1>12. CASE Probe \/ ProbeRepairs \/ Audit BY <1>12 DEF Probe, ProbeRepairs, Audit
<1>13. CASE Heal BY <1>13, WrappableIsSome DEF Heal
<1>14. CASE IbusStarts \/ DaemonRegisters \/ DaemonEnablesA11y
  BY <1>14 DEF IbusStarts, DaemonRegisters, DaemonEnablesA11y
<1>15. ASSUME NEW l \in UserLists, UserEdits(l) PROVE SagaInv'
  BY <1>15 DEF UserEdits
<1>16. CASE UNCHANGED vars BY <1>16 DEF vars
<1> QED
  BY <1>1, <1>2, <1>3, <1>4, <1>5, <1>6, <1>7, <1>8, <1>9, <1>10, <1>11, <1>12, <1>13, <1>14,
     <1>15, <1>16 DEF Next, CommandStep, Install, Uninstall, Selfcheck

\* Whatever a command was cut off at, a list goswitch wrote has a backup that
\* holds a keyboard layout (unless some daemon could not be stopped).
THEOREM BackedUp == Spec => []TakenIsBackedUp
<1>1. SagaInv => TakenIsBackedUp BY DEF SagaInv
<1> QED BY InitSaga, NextSaga, <1>1, PTL DEF Spec

(***************************************************************************)
(* The refinement.                                                         *)
(***************************************************************************)
LEMMA InitBorrowed == Init => Borrowed!BInit
BY InitSaga, WrappableIsSome DEF Init, SagaInv, TakenIsBackedUp, Borrowed!BInit

\* Every step of the saga is a step of the borrowing, or none of it.
LEMMA StepBorrowed == TypeOK /\ SagaInv /\ [Next]_vars => [Borrowed!BNext]_(Borrowed!bvars)
<1> SUFFICES ASSUME TypeOK, SagaInv, [Next]_vars
             PROVE  Borrowed!BNext \/ UNCHANGED Borrowed!bvars
  OBVIOUS
<1> USE DEF Borrowed!bvars, Borrowed!BNext, At, desktop, files, ibus, memory
<1>1. CASE \/ \E s \in {"read", "stop", "probe"} : Command(s)
           \/ Abort \/ ReadState \/ IbusStarts \/ DaemonRegisters \/ DaemonEnablesA11y
           \/ UNCHANGED vars
  BY <1>1 DEF Command, Abort, ReadState, IbusStarts, DaemonRegisters, DaemonEnablesA11y, vars
<1>2. CASE SaveState
  <2>1. CASE kept # NoFile BY <1>2, <2>1 DEF SaveState
  <2>2. CASE kept = NoFile /\ taken
    BY <1>2, <2>2, WrappableIsSome DEF SaveState, SagaInv, TakenIsBackedUp
  <2>3. CASE kept = NoFile /\ ~taken
    <3>1. kept.sources = << >> BY <2>3 DEF NoFile
    <3>2. kept'.sources # << >>
      BY <1>2, <2>3, WrappableIsSome DEF SaveState, SagaInv, ReadHasLayout
    <3> QED BY <1>2, <2>3, <3>1, <3>2 DEF SaveState, Borrowed!Keep
  <2> QED BY <2>1, <2>2, <2>3
<1>3. CASE WriteComponent \/ RegisterCache \/ WriteUnit \/ RestartIbus \/ WaitListEngine
           \/ StartUnit \/ WaitRegistration \/ ActivateEngine \/ ComputeTakeover
  BY <1>3 DEF WriteComponent, RegisterCache, WriteUnit, RestartIbus, WaitListEngine, StartUnit,
              WaitRegistration, ActivateEngine, ComputeTakeover
<1>4. CASE TakeoverSources
  <2>1. kept.sources # << >>
    BY <1>4, WrappableIsSome
       DEF TakeoverSources, SagaInv, BackupHasLayout, SavedFirst, AfterSaving, InstallSteps
  <2>2. taken \in BOOLEAN BY DEF TypeOK, FlagsOK
  <2>3. CASE taken'
    BY <1>4, <2>1, <2>3 DEF TakeoverSources, Borrowed!Take
  <2>4. CASE ~taken'
    <3>1. live' = live BY <1>4, <2>4 DEF TakeoverSources
    <3>2. taken' = taken BY <1>4, <2>2, <2>4, Zenon DEF TakeoverSources
    <3> QED BY <1>4, <3>1, <3>2 DEF TakeoverSources
  <2> QED BY <2>3, <2>4
<1>5. CASE StopUnit \/ RemoveUnit \/ RemoveComponent \/ ReloadManager \/ WriteCache
  BY <1>5 DEF StopUnit, RemoveUnit, RemoveComponent, ReloadManager, WriteCache
<1>6. CASE RestoreSources
  BY <1>6, WrappableIsSome
     DEF RestoreSources, RestoredList, SagaInv, BackupHasLayout, Borrowed!GiveBack,
         Borrowed!OwnerEdits
<1>7. CASE RestoreSwitchBinding \/ RestoreToolkitAccessibility
  <2>1. mine'.sources = mine.sources
    <3>1. ASSUME NEW r \in Owners, NEW v PROVE [r EXCEPT !.a11y = v].sources = r.sources
      BY DEF Owners
    <3>2. mine \in Owners BY DEF TypeOK, ListsOK
    <3>3. CASE RestoreSwitchBinding BY <3>3 DEF RestoreSwitchBinding
    <3>4. CASE RestoreToolkitAccessibility
      <4>1. mine' = [mine EXCEPT !.a11y = a11y'] BY <3>4 DEF RestoreToolkitAccessibility
      <4> QED BY <3>1, <3>2, <4>1
    <3> QED BY <1>7, <3>3, <3>4
  <2> QED BY <1>7, <2>1 DEF RestoreSwitchBinding, RestoreToolkitAccessibility
<1>8. CASE RemoveState \/ PurgeDirs
  <2>1. ~taken
    BY <1>8 DEF RemoveState, PurgeDirs, SagaInv, GivenBack, AfterGivingBack
  <2>2. kept'.sources = << >> /\ live' = live /\ mine' = mine /\ taken' = taken
    <3>1. kept' = NoFile BY <1>8 DEF RemoveState, PurgeDirs
    <3>2. NoFile.sources = << >> BY DEF NoFile
    <3> QED BY <1>8, <3>1, <3>2, Zenon DEF RemoveState, PurgeDirs
  <2>3. mine'.sources = mine.sources BY <2>2, Zenon
  <2>4. Borrowed!Forget BY <2>1, <2>2, <2>3, Zenon DEF Borrowed!Forget
  <2> QED BY <2>4, Zenon
<1>9. CASE Probe \/ ProbeRepairs \/ Audit
  BY <1>9 DEF Probe, ProbeRepairs, Audit
<1>10. CASE Heal
  BY <1>10, WrappableIsSome DEF Heal, SagaInv, HealHasBackup, BackupHasLayout, Borrowed!Take
<1>11. ASSUME NEW l \in UserLists, UserEdits(l) PROVE Borrowed!OwnerEdits
  BY <1>11 DEF UserEdits, Borrowed!OwnerEdits
<1> QED
  BY <1>1, <1>2, <1>3, <1>4, <1>5, <1>6, <1>7, <1>8, <1>9, <1>10, <1>11
     DEF Next, CommandStep, Install, Uninstall, Selfcheck

\* The installer implements the borrowing, whatever it is interrupted by.
THEOREM Borrows == Spec => BorrowSpec
<1>1. Spec => []SagaInv BY InitSaga, NextSaga, PTL DEF Spec
<1> QED BY InitBorrowed, StepBorrowed, TypeCorrect, <1>1, PTL DEF Spec, BorrowSpec, Borrowed!BorrowSpec

(***************************************************************************)
(* Whose list it is.  A list goswitch wrote or is about to write is one of *)
(* engines, each once; it has the engines of the list the owner has or of  *)
(* the kept one, unless the owner edited between the read and the write;   *)
(* and a list goswitch did not write is the owner's.                       *)
(***************************************************************************)
Green(l) == Owned(l) /\ Len(l) = Cardinality(EntriesOf(l))
TheirEngines == {EnginesFor(mine.sources), EnginesFor(kept.sources)}
TakenIsGreen == taken => Green(live)
ToWriteIsGreen == step \in {"set", "heal"} => Green(got.sources)
ToWriteIsTheirs == step \in {"set", "heal"} /\ ~raced => EntriesOf(got.sources) \in TheirEngines
TakenIsTheirs == taken /\ ~raced => EntriesOf(live) \in TheirEngines
NotTakenIsMine == ~taken => live = mine.sources
OwnInv == TakenIsGreen /\ ToWriteIsGreen /\ ToWriteIsTheirs /\ TakenIsTheirs /\ NotTakenIsMine

(***************************************************************************)
(* What an uninstallation gives back.  The backup is of the list and the   *)
(* keys the owner has, until the owner edits; before it is written the     *)
(* values read for it are.                                                 *)
(***************************************************************************)
KeptIsMine == kept # NoFile /\ ~stale => kept.sources = mine.sources
ReadIsMine == step = "backup" /\ kept = NoFile /\ ~stale => got.sources = mine.sources
ChordsKept ==
  /\ kept.chords \in {"", chords}
  /\ step = "backup" => got.chords \in {"", chords}
KeyKept ==
  ~unstopped =>
    /\ kept.a11y \in {"", mine.a11y}
    /\ kept = NoFile \/ step \in {"forget", "purge"} => a11y = mine.a11y
    /\ step = "backup" /\ kept = NoFile => got.a11y \in {"", mine.a11y}
BackInv == KeptIsMine /\ ReadIsMine /\ ChordsKept /\ KeyKept

(***************************************************************************)
(* What it leaves: each removal lasts to the end of the command.           *)
(***************************************************************************)
AfterRestarting == {"giveBack", "chords", "a11y", "forget"}
AfterUncaching == {"unrestart"} \cup AfterRestarting
AfterRemoving == {"reload", "uncache"} \cup AfterUncaching
UnitGone == step \in {"removeXml"} \cup AfterRemoving => ~unit
ComponentGone == step \in AfterRemoving => ~xml
CacheGone == step \in AfterUncaching => ~cache
ViewGone == step \in AfterRestarting => (view => restarting)
GoneInv == UnitGone /\ ComponentGone /\ CacheGone /\ ViewGone

LEMMA OneEntry == ASSUME NEW a PROVE EntriesOf(<<a>>) = {a} /\ Len(<<a>>) = Cardinality({a})
<1>1. EntriesOf(<<a>>) = {a} BY DEF EntriesOf
<1>2. Len(<<a>>) = 1 OBVIOUS
<1>3. Cardinality({a}) = 1 BY FS_Singleton
<1> QED BY <1>1, <1>2, <1>3

LEMMA TwoEntries ==
  ASSUME NEW a, NEW b, a # b
  PROVE  EntriesOf(<<a, b>>) = {a, b} /\ Len(<<a, b>>) = Cardinality({a, b})
<1>1. DOMAIN <<a, b>> = {1, 2} /\ <<a, b>>[1] = a /\ <<a, b>>[2] = b /\ Len(<<a, b>>) = 2
  OBVIOUS
<1>2. EntriesOf(<<a, b>>) = {a, b} BY <1>1, Zenon DEF EntriesOf
<1>3. Cardinality({a, b}) = 2
  <2>1. IsFiniteSet({a}) /\ Cardinality({a}) = 1 BY FS_Singleton
  <2>2. b \notin {a} /\ {a} \cup {b} = {a, b} OBVIOUS
  <2>3. Cardinality({a} \cup {b}) = Cardinality({a}) + 1 BY <2>1, <2>2, FS_AddElement
  <2> QED BY <2>1, <2>2, <2>3
<1> QED BY <1>1, <1>2, <1>3

\* The wrapped list is green, and its engines are those of the list.
LEMMA WrapIsGreen ==
  ASSUME NEW l \in Seq(Entries), CanWrap(l)
  PROVE  Green(WrapSources(l)) /\ EntriesOf(WrapSources(l)) = EnginesFor(l)
<1> DEFINE w == [i \in DOMAIN l |-> EngineOf(l[i])]
<1>1. EntriesOf(w) = EnginesFor(l) BY Zenon DEF EntriesOf, EnginesFor
<1>2. EntriesOf(w) \subseteq Engines
  <2>1. \A i \in DOMAIN l : l[i] \in Layouts \cup Engines BY DEF CanWrap, EntriesOf
  <2>2. \A x \in Layouts \cup Engines : EngineOf(x) \in Engines
    BY DEF EngineOf, Layouts, Engines
  <2> QED BY <2>1, <2>2, Zenon DEF EntriesOf
<1>3. w[1] \in EntriesOf(w)
  <2>1. l # << >> BY DEF CanWrap, CarriesWrappable, EntriesOf
  <2>2. 1 \in DOMAIN l BY <2>1
  <2> QED BY <2>2, Zenon DEF EntriesOf
<1>4. WrapSources(l) = Deduped(w) BY Zenon DEF WrapSources
<1> HIDE DEF w
<1>5. CASE EntriesOf(w) = {w[1]}
  <2>1. Deduped(w) = <<w[1]>> BY <1>5, Zenon DEF Deduped
  <2>2. <<w[1]>> # << >> OBVIOUS
  <2> QED BY <1>1, <1>2, <1>4, <1>5, <2>1, <2>2, OneEntry, Zenon DEF Green, Owned
<1>6. CASE EntriesOf(w) # {w[1]}
  <2>1. PICK e \in EntriesOf(w) : e # w[1] /\ Deduped(w) = <<w[1], e>>
    <3>1. \E e \in EntriesOf(w) : e # w[1] BY <1>3, <1>6
    <3>2. /\ (CHOOSE e \in EntriesOf(w) : e # w[1]) \in EntriesOf(w)
          /\ (CHOOSE e \in EntriesOf(w) : e # w[1]) # w[1]
      BY <3>1
    <3>3. Deduped(w) = <<w[1], CHOOSE e \in EntriesOf(w) : e # w[1]>>
      BY <1>6, Zenon DEF Deduped
    <3> QED BY <3>2, <3>3
  <2>2. EntriesOf(w) = {w[1], e} BY <1>2, <1>3, <2>1 DEF Engines
  <2>3. EntriesOf(<<w[1], e>>) = {w[1], e} /\ Len(<<w[1], e>>) = Cardinality({w[1], e})
    BY <2>1, TwoEntries
  <2>4. <<w[1], e>> # << >> OBVIOUS
  <2> QED BY <1>1, <1>2, <1>4, <2>1, <2>2, <2>3, <2>4, Zenon DEF Green, Owned
<1> QED BY <1>5, <1>6

\* Engines stand for themselves, and a list of them has no layout.
LEMMA OwnedIsItself ==
  ASSUME NEW l \in Seq(Entries), Owned(l)
  PROVE  EnginesFor(l) = EntriesOf(l) /\ ~CarriesWrappable(l) /\ EntriesOf(l) # EnginesFor(NoFile.sources)
<1>1. \A x \in Engines : EngineOf(x) = x BY DEF EngineOf, Engines
<1>2. EntriesOf(l) \subseteq Engines BY DEF Owned
<1>3. EnginesFor(l) = EntriesOf(l) BY <1>1, <1>2 DEF EnginesFor
<1>4. ~CarriesWrappable(l) BY <1>2 DEF CarriesWrappable, Layouts, Engines
<1>5. EnginesFor(NoFile.sources) = {} BY DEF EnginesFor, EntriesOf, NoFile
<1>6. l[1] \in EntriesOf(l) BY DEF Owned, EntriesOf
<1> QED BY <1>3, <1>4, <1>5, <1>6

LEMMA OwnInitially == Init => OwnInv
<1> SUFFICES ASSUME Init PROVE OwnInv OBVIOUS
<1> USE DEF OwnInv, TakenIsGreen, ToWriteIsGreen, ToWriteIsTheirs, TakenIsTheirs, NotTakenIsMine
<1>1. step = "idle" BY DEF Init
<1>2. ASSUME taken = FALSE, mine = [sources |-> live, a11y |-> a11y] PROVE OwnInv
  BY <1>1, <1>2
<1>3. ASSUME NEW l \in UserLists, CanWrap(l), live = WrapSources(l), taken = TRUE,
             mine = [sources |-> l, a11y |-> a11y]
      PROVE  OwnInv
  <2>1. Green(live) /\ EntriesOf(live) = EnginesFor(mine.sources)
    BY <1>3, ListsAssumption, WrapIsGreen
  <2> QED BY <1>1, <1>3, <2>1 DEF TheirEngines
<1> QED BY <1>2, <1>3 DEF Init

LEMMA OwnKept == TypeOK /\ SagaInv /\ OwnInv /\ [Next]_vars => OwnInv'
<1> SUFFICES ASSUME TypeOK, SagaInv, OwnInv, [Next]_vars PROVE OwnInv' OBVIOUS
<1> USE DEF OwnInv, TakenIsGreen, ToWriteIsGreen, ToWriteIsTheirs, TakenIsTheirs, NotTakenIsMine,
            TheirEngines, At, desktop, files, ibus, memory
<1>0. /\ live \in Seq(Entries) /\ kept \in Records /\ got \in Records /\ mine \in Owners
      /\ kept.sources \in Seq(Entries)
  BY RecordFields DEF TypeOK, ListsOK
<1>1. ASSUME UNCHANGED <<live, kept, got, mine, taken, raced>>,
             step' \notin {"set", "heal"} \/ UNCHANGED step
      PROVE  OwnInv'
  BY <1>1
<1>2. ASSUME NEW s \in {"read", "stop", "probe"}, Command(s) PROVE OwnInv'
  BY <1>1, <1>2 DEF Command
<1>3. CASE Abort \/ WriteComponent \/ RegisterCache \/ WriteUnit
  BY <1>1, <1>3 DEF Abort, WriteComponent, RegisterCache, WriteUnit
<1>4. CASE RestartIbus \/ WaitListEngine \/ StartUnit \/ WaitRegistration \/ ActivateEngine
  BY <1>1, <1>4 DEF RestartIbus, WaitListEngine, StartUnit, WaitRegistration, ActivateEngine
<1>5. CASE StopUnit \/ RemoveUnit \/ RemoveComponent \/ ReloadManager \/ WriteCache
  BY <1>1, <1>5 DEF StopUnit, RemoveUnit, RemoveComponent, ReloadManager, WriteCache
<1>6. CASE IbusStarts \/ DaemonRegisters \/ DaemonEnablesA11y
  BY <1>1, <1>6 DEF IbusStarts, DaemonRegisters, DaemonEnablesA11y
<1>7. CASE Probe \/ ProbeRepairs
  BY <1>1, <1>7 DEF Probe, ProbeRepairs
<1>8. CASE ReadState
  <2>1. UNCHANGED <<live, kept, mine, taken, raced>> /\ step' = "backup" BY <1>8 DEF ReadState
  <2> QED BY <2>1
<1>9. CASE SaveState
  <2>1. UNCHANGED <<live, mine, taken, raced>> /\ step' = "component" BY <1>9 DEF SaveState
  <2>2. ASSUME taken, ~raced PROVE EntriesOf(live) \in TheirEngines'
    <3>1. CASE kept # NoFile BY <1>9, <2>1, <2>2, <3>1 DEF SaveState
    <3>2. CASE kept = NoFile
      <4>1. EntriesOf(live) = EnginesFor(mine.sources)
        BY <1>0, <2>2, <3>2, OwnedIsItself DEF Green
      <4> QED BY <2>1, <4>1
    <3> QED BY <3>1, <3>2
  <2> QED BY <2>1, <2>2
<1>10. CASE ComputeTakeover
  <2> DEFINE input == ResolveWrapInput(live, kept)
  <2>1. UNCHANGED <<live, kept, mine, taken, raced>> /\ CanWrap(input)
    BY <1>10 DEF ComputeTakeover
  <2>2. got'.sources = WrapSources(input)
    BY <1>0, <1>10 DEF ComputeTakeover, Records
  <2>3. input \in {live, kept.sources} /\ (input # kept.sources => CarriesWrappable(live))
    <3>1. ~CanWrap(<< >>) BY DEF CanWrap, CarriesWrappable, EntriesOf
    <3> QED BY <2>1, <3>1 DEF ResolveWrapInput
  <2>4. Green(got'.sources) /\ EntriesOf(got'.sources) = EnginesFor(input)
    BY <1>0, <2>1, <2>2, <2>3, WrapIsGreen
  <2>5. input \in {mine.sources, kept.sources}
    BY <1>0, <2>3, OwnedIsItself DEF Green
  <2> QED BY <2>1, <2>4, <2>5
<1>11. CASE TakeoverSources
  <2>1. /\ live' = got.sources /\ taken' = (taken \/ live # got.sources) /\ step = "set"
        /\ UNCHANGED <<kept, got, mine, raced>> /\ step' = "activate"
    BY <1>11 DEF TakeoverSources
  <2>2. ~taken' => ~taken /\ live' = live BY <2>1, Zenon
  <2> QED BY <2>1, <2>2
<1>12. CASE RestoreSources
  <2>1. mine'.sources = RestoredList(kept)
    BY <1>0, <1>12 DEF RestoreSources, RestoredList, Owners
  <2> QED BY <1>12, <2>1 DEF RestoreSources
<1>13. CASE RestoreSwitchBinding \/ RestoreToolkitAccessibility
  <2>1. mine'.sources = mine.sources
    BY <1>0, <1>13 DEF RestoreSwitchBinding, RestoreToolkitAccessibility, Owners
  <2>2. UNCHANGED <<live, kept, got, taken, raced>> /\ step' \in {"a11y", "forget"}
    BY <1>13 DEF RestoreSwitchBinding, RestoreToolkitAccessibility
  <2> QED BY <2>1, <2>2
<1>14. CASE RemoveState \/ PurgeDirs
  <2>1. ~taken BY <1>14 DEF RemoveState, PurgeDirs, SagaInv, GivenBack, AfterGivingBack
  <2>2. UNCHANGED <<live, mine, taken>> /\ step' \in {"purge", "idle"}
    BY <1>14 DEF RemoveState, PurgeDirs
  <2> QED BY <2>1, <2>2
<1>15. CASE Audit
  <2>1. CASE At("audit", "idle") /\ UNCHANGED got BY <1>1, <1>15, <2>1 DEF Audit
  <2>2. CASE At("audit", "heal") /\ CanWrap(live) /\ got' = [got EXCEPT !.sources = WrapSources(live)]
    <3>1. UNCHANGED <<live, kept, mine, taken, raced>> BY <1>15 DEF Audit
    <3>2. got'.sources = WrapSources(live) BY <1>0, <2>2 DEF Records
    <3>3. Green(got'.sources) /\ EntriesOf(got'.sources) = EnginesFor(live)
      BY <1>0, <2>2, <3>2, WrapIsGreen
    <3>4. ~raced => EnginesFor(live) \in TheirEngines BY <1>0, OwnedIsItself DEF Green
    <3> QED BY <3>1, <3>3, <3>4
  <2> QED BY <1>15, <2>1, <2>2 DEF Audit
<1>16. CASE Heal
  BY <1>16 DEF Heal
<1>17. ASSUME NEW l \in UserLists, UserEdits(l) PROVE OwnInv'
  <2>1. mine'.sources = l BY <1>0, <1>17 DEF UserEdits, Owners
  <2> QED BY <1>17, <2>1 DEF UserEdits
<1>18. CASE UNCHANGED vars BY <1>1, <1>18 DEF vars
<1> QED
  BY <1>2, <1>3, <1>4, <1>5, <1>6, <1>7, <1>8, <1>9, <1>10, <1>11, <1>12, <1>13, <1>14,
     <1>15, <1>16, <1>17, <1>18 DEF Next, CommandStep, Install, Uninstall, Selfcheck

\* Whatever list the owner has and however often a command is cut off, the
\* list in force once taken is one a selfcheck calls green, of the owner's
\* layouts or of the backup's, unless an edit fell into a command's write.
THEOREM TakesOnlyTheOwners == Spec => []TakenIsTheOwners
<1>1. OwnInv => TakenIsTheOwners
  BY DEF OwnInv, TakenIsGreen, TakenIsTheirs, Green, TheirEngines, TakenIsTheOwners
<1>2. Spec => [](TypeOK /\ SagaInv) BY TypeCorrect, InitSaga, NextSaga, PTL DEF Spec
<1> QED BY OwnInitially, OwnKept, <1>1, <1>2, PTL DEF Spec

LEMMA BackInitially == Init => BackInv
<1> SUFFICES ASSUME Init PROVE BackInv OBVIOUS
<1> USE DEF BackInv, KeptIsMine, ReadIsMine, ChordsKept, KeyKept
<1>1. step = "idle" BY DEF Init
<1>2. ASSUME kept = NoFile, mine = [sources |-> live, a11y |-> a11y] PROVE BackInv
  BY <1>1, <1>2 DEF NoFile
<1>3. ASSUME NEW l \in UserLists, CanWrap(l), kept = [sources |-> l, chords |-> "", a11y |-> ""],
             mine = [sources |-> l, a11y |-> a11y]
      PROVE  BackInv
  <2>1. CarriesWrappable(kept.sources) BY <1>3 DEF CanWrap
  <2>2. kept # NoFile BY <2>1, WrappableIsSome
  <2> QED BY <1>1, <1>3, <2>2
<1> QED BY <1>2, <1>3 DEF Init

LEMMA BackKept == TypeOK /\ SagaInv /\ OwnInv /\ BackInv /\ [Next]_vars => BackInv'
<1> SUFFICES ASSUME TypeOK, SagaInv, OwnInv, BackInv, [Next]_vars PROVE BackInv' OBVIOUS
<1> USE DEF BackInv, KeptIsMine, ReadIsMine, ChordsKept, KeyKept,
            At, desktop, files, ibus, memory
<1>0. kept \in Records /\ got \in Records /\ mine \in Owners /\ chords \in {"own", "distro"}
  BY DEF TypeOK, ListsOK
<1>1. ASSUME UNCHANGED <<kept, got, mine, stale, chords, a11y, unstopped>>,
             step' \notin {"backup", "forget", "purge"} \/ UNCHANGED step
      PROVE  BackInv'
  BY <1>1
<1>2. ASSUME NEW s \in {"read", "stop", "probe"}, Command(s) PROVE BackInv'
  BY <1>1, <1>2 DEF Command
<1>3. CASE Abort \/ WriteComponent \/ RegisterCache \/ WriteUnit
  BY <1>1, <1>3 DEF Abort, WriteComponent, RegisterCache, WriteUnit
<1>4. CASE RestartIbus \/ WaitListEngine \/ StartUnit \/ WaitRegistration \/ ActivateEngine
  BY <1>1, <1>4 DEF RestartIbus, WaitListEngine, StartUnit, WaitRegistration, ActivateEngine
<1>5. CASE RemoveUnit \/ RemoveComponent \/ ReloadManager \/ WriteCache \/ TakeoverSources
  BY <1>1, <1>5 DEF RemoveUnit, RemoveComponent, ReloadManager, WriteCache, TakeoverSources
<1>6. CASE IbusStarts \/ DaemonRegisters \/ Probe \/ ProbeRepairs \/ Heal
  BY <1>1, <1>6 DEF IbusStarts, DaemonRegisters, Probe, ProbeRepairs, Heal
<1>7. CASE StopUnit
  <2>1. UNCHANGED <<kept, got, mine, stale, chords, a11y>> /\ (unstopped' \/ UNCHANGED unstopped)
        /\ step' = "removeUnit"
    BY <1>7 DEF StopUnit
  <2> QED BY <2>1
<1>8. CASE DaemonEnablesA11y
  <2>1. UNCHANGED <<kept, got, mine, stale, chords, step, unstopped>> /\ daemon # "off"
    BY <1>8 DEF DaemonEnablesA11y
  <2>2. kept = NoFile \/ step \in {"forget", "purge"} => unstopped
    BY <2>1 DEF SagaInv, DaemonHasBackup, StoppedFirst, AfterStopping, UninstallSteps
  <2> QED BY <2>1, <2>2
<1>9. CASE ReadState
  <2>1. PICK v \in {a11y, ""} : got' = [sources |-> live, chords |-> chords, a11y |-> v]
    BY <1>9 DEF ReadState
  <2>2. UNCHANGED <<kept, mine, chords, a11y, unstopped>> /\ step' = "backup"
        /\ stale' = (IF kept = NoFile THEN FALSE ELSE stale)
    BY <1>9 DEF ReadState
  \* With no backup the gate let a list with a layout through: the owner's.
  <2>3. kept = NoFile => live = mine.sources
    <3>1. kept = NoFile => CarriesWrappable(live) BY <1>9, NothingKept DEF ReadState
    <3>2. taken => ~CarriesWrappable(live)
      BY OwnedIsItself DEF OwnInv, TakenIsGreen, Green, TypeOK, ListsOK
    <3> QED BY <3>1, <3>2 DEF OwnInv, NotTakenIsMine
  <2>4. KeptIsMine' /\ ReadIsMine' BY <2>1, <2>2, <2>3
  <2>5. ChordsKept' /\ KeyKept' BY <2>1, <2>2
  <2> QED BY <2>4, <2>5
<1>10. CASE SaveState
  <2>1. UNCHANGED <<got, mine, stale, chords, a11y, unstopped>> /\ step' = "component"
        /\ step = "backup"
    BY <1>10 DEF SaveState
  <2>2. CASE kept # NoFile
    <3>1. kept' = kept BY <1>10, <2>2 DEF SaveState
    <3> QED BY <2>1, <3>1
  <2>3. CASE kept = NoFile
    <3>1. kept' = got /\ kept' # NoFile
      BY <1>10, <2>1, <2>3, WrappableIsSome DEF SaveState, SagaInv, ReadHasLayout
    <3> QED BY <2>1, <2>3, <3>1
  <2> QED BY <2>2, <2>3
<1>11. CASE ComputeTakeover \/ Audit
  <2>1. UNCHANGED <<kept, mine, stale, chords, a11y, unstopped>> /\ step' \in {"set", "idle", "heal"}
    BY <1>11 DEF ComputeTakeover, Audit
  <2> QED BY <2>1
<1>12. CASE RestoreSources
  <2>1. UNCHANGED <<kept, got, stale, chords, a11y, unstopped>> /\ step' = "chords"
    BY <1>12 DEF RestoreSources
  <2>2. mine'.a11y = mine.a11y /\ (kept # NoFile => mine'.sources = kept.sources)
    BY <1>0, <1>12 DEF RestoreSources, Owners
  <2> QED BY <2>1, <2>2
<1>13. CASE RestoreSwitchBinding
  <2>1. UNCHANGED <<kept, got, mine, stale, a11y, unstopped>> /\ step' = "a11y"
    BY <1>13 DEF RestoreSwitchBinding
  <2>2. ChordsKept' BY <1>13, <2>1 DEF RestoreSwitchBinding
  <2> QED BY <2>1, <2>2
<1>14. CASE RestoreToolkitAccessibility
  <2>1. UNCHANGED <<kept, got, stale, chords, unstopped>> /\ step' = "forget"
        /\ a11y' = (IF kept.a11y = "" THEN a11y ELSE kept.a11y)
    BY <1>14 DEF RestoreToolkitAccessibility
  <2>2. mine'.a11y = a11y' /\ mine'.sources = mine.sources
    BY <1>0, <1>14 DEF RestoreToolkitAccessibility, Owners
  <2> QED BY <2>1, <2>2
<1>15. CASE RemoveState \/ PurgeDirs
  <2>1. UNCHANGED <<got, mine, stale, chords, a11y, unstopped>> /\ kept' = NoFile
        /\ step \in {"forget", "purge"} /\ step' \in {"purge", "idle"}
    BY <1>15 DEF RemoveState, PurgeDirs
  <2> QED BY <2>1 DEF NoFile
<1>16. ASSUME NEW l \in UserLists, UserEdits(l) PROVE BackInv'
  <2>1. UNCHANGED <<kept, got, chords, a11y, unstopped, step>> /\ stale'
    BY <1>16 DEF UserEdits
  <2>2. mine'.a11y = mine.a11y BY <1>0, <1>16 DEF UserEdits, Owners
  <2> QED BY <2>1, <2>2
<1>17. CASE UNCHANGED vars BY <1>1, <1>17 DEF vars
<1> QED
  BY <1>2, <1>3, <1>4, <1>5, <1>6, <1>7, <1>8, <1>9, <1>10, <1>11, <1>12, <1>13, <1>14,
     <1>15, <1>16, <1>17 DEF Next, CommandStep, Install, Uninstall, Selfcheck

LEMMA GoneInitially == Init => GoneInv
BY DEF Init, GoneInv, UnitGone, ComponentGone, CacheGone, ViewGone,
       AfterRemoving, AfterUncaching, AfterRestarting

LEMMA GoneKept == GoneInv /\ [Next]_vars => GoneInv'
<1> SUFFICES ASSUME GoneInv, [Next]_vars PROVE GoneInv' OBVIOUS
<1> USE DEF GoneInv, UnitGone, ComponentGone, CacheGone, ViewGone, AfterRemoving, AfterUncaching,
            AfterRestarting, At, desktop, files, ibus, memory
<1>1. ASSUME NEW s \in {"read", "stop", "probe"}, Command(s) PROVE GoneInv'
  BY <1>1 DEF Command
<1>2. CASE Abort \/ ReadState \/ SaveState
  BY <1>2 DEF Abort, ReadState, SaveState
<1>3. CASE WriteComponent \/ RegisterCache \/ WriteUnit
  BY <1>3 DEF WriteComponent, RegisterCache, WriteUnit
<1>4. CASE RestartIbus
  BY <1>4 DEF RestartIbus
<1>5. CASE WaitListEngine \/ StartUnit \/ WaitRegistration \/ ActivateEngine
  BY <1>5 DEF WaitListEngine, StartUnit, WaitRegistration, ActivateEngine
<1>6. CASE ComputeTakeover \/ TakeoverSources
  BY <1>6 DEF ComputeTakeover, TakeoverSources
<1>7. CASE StopUnit \/ RemoveUnit BY <1>7 DEF StopUnit, RemoveUnit
<1>8. CASE RemoveComponent \/ ReloadManager BY <1>8 DEF RemoveComponent, ReloadManager
<1>9. CASE WriteCache BY <1>9 DEF WriteCache
<1>10. CASE RestoreSources \/ RestoreSwitchBinding \/ RestoreToolkitAccessibility
  <2>1. UNCHANGED <<files, ibus>> /\ step \in {"giveBack", "chords", "a11y"}
    BY <1>10 DEF RestoreSources, RestoreSwitchBinding, RestoreToolkitAccessibility
  <2> QED BY <2>1
<1>11. CASE RemoveState \/ PurgeDirs BY <1>11 DEF RemoveState, PurgeDirs
<1>12. CASE Probe \/ ProbeRepairs \/ Audit \/ Heal BY <1>12 DEF Probe, ProbeRepairs, Audit, Heal
<1>13. CASE IbusStarts BY <1>13 DEF IbusStarts
<1>14. CASE DaemonRegisters \/ DaemonEnablesA11y BY <1>14 DEF DaemonRegisters, DaemonEnablesA11y
<1>15. ASSUME NEW l \in UserLists, UserEdits(l) PROVE GoneInv' BY <1>15 DEF UserEdits
<1>16. CASE UNCHANGED vars BY <1>16 DEF vars
<1> QED
  BY <1>1, <1>2, <1>3, <1>4, <1>5, <1>6, <1>7, <1>8, <1>9, <1>10, <1>11, <1>12, <1>13, <1>14,
     <1>15, <1>16 DEF Next, CommandStep, Install, Uninstall, Selfcheck

\* An uninstallation gives back the list, the chords and the key the owner
\* had, but for the exceptions GivesBack names, and one that gets to its end
\* leaves nothing of goswitch, whatever commands were cut off before.
THEOREM GivesBackAndLeavesNothing == Spec => Uninstalls
<1> DEFINE Inv == TypeOK /\ SagaInv /\ OwnInv /\ BackInv /\ GoneInv
<1>1. Spec => []Inv
  <2>1. Spec => [](TypeOK /\ SagaInv) BY TypeCorrect, InitSaga, NextSaga, PTL DEF Spec
  <2>2. Spec => []OwnInv BY OwnInitially, OwnKept, <2>1, PTL DEF Spec
  <2>3. Spec => []BackInv BY BackInitially, BackKept, <2>1, <2>2, PTL DEF Spec
  <2>4. Spec => []GoneInv BY GoneInitially, GoneKept, PTL DEF Spec
  <2> QED BY <2>1, <2>2, <2>3, <2>4, PTL
<1>2. Inv /\ [Next]_vars =>
        [/\ RestoreSources => live' = mine.sources \/ stale \/ reset \/ kept = NoFile
         /\ RestoreSwitchBinding => chords' = chords \/ kept.chords = ""
         /\ RestoreToolkitAccessibility => a11y' = mine.a11y \/ kept.a11y = "" \/ unstopped]_vars
  <2> SUFFICES ASSUME BackInv
               PROVE  /\ RestoreSources => live' = mine.sources \/ stale \/ reset \/ kept = NoFile
                      /\ RestoreSwitchBinding => chords' = chords \/ kept.chords = ""
                      /\ RestoreToolkitAccessibility =>
                           a11y' = mine.a11y \/ kept.a11y = "" \/ unstopped
    OBVIOUS
  <2>1. RestoreSources => live' = mine.sources \/ stale \/ kept = NoFile
    BY DEF RestoreSources, RestoredList, BackInv, KeptIsMine
  <2>2. RestoreSwitchBinding => chords' = chords \/ kept.chords = ""
    BY DEF RestoreSwitchBinding, BackInv, ChordsKept
  <2>3. RestoreToolkitAccessibility => a11y' = mine.a11y \/ kept.a11y = "" \/ unstopped
    BY DEF RestoreToolkitAccessibility, BackInv, KeyKept
  <2> QED BY <2>1, <2>2, <2>3
<1>3. Inv /\ [Next]_vars =>
        [RemoveState => ~taken /\ ~xml /\ ~unit /\ ~cache /\ (view => restarting)]_vars
  <2> SUFFICES ASSUME SagaInv, GoneInv, step = "forget"
               PROVE  ~taken /\ ~xml /\ ~unit /\ ~cache /\ (view => restarting)
    BY DEF RemoveState, At
  <2>1. ~taken BY DEF SagaInv, GivenBack, AfterGivingBack
  <2> QED BY <2>1 DEF GoneInv, UnitGone, ComponentGone, CacheGone, ViewGone,
                      AfterRemoving, AfterUncaching, AfterRestarting
<1> QED BY <1>1, <1>2, <1>3, PTL DEF Spec, Uninstalls, GivesBack, LeavesNothing
=============================================================================
