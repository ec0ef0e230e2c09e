-------------------------- MODULE ConfigTrayProofs ---------------------------
(***************************************************************************)
(* What the desktop's shell and the owner's edits may not break.           *)
(* The tray item, for every number of changes, restarts, evictions and     *)
(* failing calls: its icon and its rows are those of the daemon, and no    *)
(* restart or eviction leaves it silent.  The configuration's pipeline,    *)
(* for every set of clicks, every documents of the owner's and every       *)
(* bound: what the reconciler owes it will do, the check marks and the     *)
(* desired accessibility follow the fold, and the poll overlooks no        *)
(* document but the one saved between a parse and its fingerprint.         *)
(***************************************************************************)
EXTENDS ConfigPipeline, Tray, TLAPS

(***************************************************************************)
(* The tray.                                                               *)
(***************************************************************************)
Fields == {"label", "on", "enabled"}

\* The shell and its answers to come, as records.
IsShell(s) ==
  /\ s = [up |-> s.up, holds |-> s.holds, icon |-> s.icon, menu |-> s.menu,
          asked |-> s.asked, coming |-> s.coming, overtaken |-> s.overtaken]
  /\ s.coming = [icon |-> s.coming.icon, rows |-> s.coming.rows]

\* Types, and no more owner changes than the shell made.
ItemOK ==
  /\ mode \in Modes
  /\ item \in [pix: Modes, registered: BOOLEAN]
  /\ sup \in [at: SupSteps, lost: BOOLEAN, attached: BOOLEAN, matched: BOOLEAN]
  /\ IsShell(shell)
  /\ shell.up \in BOOLEAN /\ shell.holds \in BOOLEAN /\ (shell.holds => shell.up)
  /\ shell.icon \in Modes \cup {"none"} /\ shell.coming.icon \in Modes \cup {"none"}
  /\ shell.asked \subseteq {"icon", "rows"}
  /\ ~shell.holds => shell.asked = {} /\ shell.coming = Nothing
  /\ spent \in [changes: 0..MaxChanges, shell: 0..MaxShell, faults: 0..MaxFaults]
  /\ owner \in Nat /\ owner <= spent.shell

\* The supervisor rests only after the attachment, and from then on the icon
\* served is the actor's mode.
ServiceOK ==
  /\ sup.at \in {"idle", "read"} => sup.attached
  /\ sup.attached => item.pix = mode

\* What the shell will show once the answers on their way have come.
IconToCome == IF shell.coming.icon = "none" THEN shell.icon ELSE shell.coming.icon
RowsToCome == IF shell.coming.rows = NoRows THEN shell.menu ELSE shell.coming.rows

\* A shell that holds the item and asks for no icon gets the icon served; until
\* the attachment is over that icon does not change, and after it an item that
\* is not registered may change it in silence.
IconOK ==
  shell.holds /\ "icon" \notin shell.asked /\ (item.registered \/ ~sup.attached) =>
    IconToCome = item.pix

\* A held item that is not registered is about to be revived.
RevivalOK ==
  shell.holds /\ ~item.registered /\ spent.faults = 0 => sup.at = "revive"

\* The rows to come are complete where none is asked for, and faithful but in
\* the fields that a delta overtook.
Faithful(r) ==
  \A f \in Fields : \/ RowsToCome[r][f] = RowOf(snapshot, r)[f]
                    \/ <<r, f>> = <<"block", "enabled">>
                    \/ <<r, f>> \in shell.overtaken
RowsOK ==
  shell.holds /\ "rows" \notin shell.asked =>
    DOMAIN RowsToCome = RootKids(snapshot) /\ \A r \in RootKids(snapshot) : Faithful(r)

\* Every copy of the rows, whether shown or on its way, is a copy of rows.
CopyOK(copy) ==
  /\ DOMAIN copy \in {{}} \cup {RootKids(m) : m \in Snapshot}
  /\ \A r \in DOMAIN copy : DOMAIN copy[r] = Fields

MenuOK ==
  /\ snapshot \in Snapshot
  /\ CopyOK(shell.menu) /\ CopyOK(shell.coming.rows)
  /\ shell.overtaken \subseteq SignalledFields
  /\ RowsOK

TrayIInv == ItemOK /\ ServiceOK /\ IconOK /\ RevivalOK /\ MenuOK

(* The rows: which of their fields a change of the snapshot touches.          *)
LEMMA RowParts ==
  ASSUME NEW label, NEW on, NEW enabled
  PROVE  /\ DOMAIN Row(label, on, enabled) = Fields
         /\ Row(label, on, enabled)["label"] = label
         /\ Row(label, on, enabled)["on"] = on
         /\ Row(label, on, enabled)["enabled"] = enabled
BY DEF Row, Fields

LEMMA RowOfEach ==
  ASSUME NEW m
  PROVE  /\ RowOf(m, "en") = Row("en", m.mode = "en", TRUE)
         /\ RowOf(m, "ru") = Row("ru", m.mode = "ru", TRUE)
         /\ RowOf(m, "ac") = Row("ac", m.ac, TRUE)
         /\ RowOf(m, "block") = BlocklistProps(m.app)
         /\ RowOf(m, "status") = Row(m.mode, FALSE, FALSE)
         /\ RowOf(m, "chord") = Row("chord", FALSE, FALSE)
BY DEF RowOf, Modes

LEMMA KidNames ==
  ASSUME NEW m, NEW r \in RootKids(m)
  PROVE  r \in {"en", "ru", "status", "ac", "block", "chord"}
BY DEF RootKids, Modes

LEMMA RowsHaveFields ==
  ASSUME NEW m \in Snapshot, NEW r \in RootKids(m)
  PROVE  DOMAIN RowOf(m, r) = Fields
<1>1. m.app \in {"unknown", "active", "covered", "full"}
  BY AppsAssumption DEF Snapshot
<1>2. DOMAIN BlocklistProps(m.app) = Fields
  BY <1>1 DEF BlocklistProps, Row, Fields
<1>3. \A n \in {"en", "ru", "status", "ac", "block", "chord"} : DOMAIN RowOf(m, n) = Fields
  <2>1. DOMAIN RowOf(m, "en") = Fields /\ DOMAIN RowOf(m, "ru") = Fields
    BY RowOfEach DEF Row, Fields
  <2>2. DOMAIN RowOf(m, "status") = Fields /\ DOMAIN RowOf(m, "ac") = Fields
    BY RowOfEach DEF Row, Fields
  <2>3. DOMAIN RowOf(m, "block") = Fields /\ DOMAIN RowOf(m, "chord") = Fields
    BY <1>2, RowOfEach DEF Row, Fields
  <2> QED BY <2>1, <2>2, <2>3
<1> QED BY <1>3, KidNames

\* The fields that depend on nothing.
LEMMA FixedFields ==
  ASSUME NEW m
  PROVE  /\ RowOf(m, "en")["label"] = "en" /\ RowOf(m, "en")["enabled"] = TRUE
         /\ RowOf(m, "ru")["label"] = "ru" /\ RowOf(m, "ru")["enabled"] = TRUE
         /\ RowOf(m, "status")["on"] = FALSE /\ RowOf(m, "status")["enabled"] = FALSE
         /\ RowOf(m, "ac")["label"] = "ac" /\ RowOf(m, "ac")["enabled"] = TRUE
<1>1. RowOf(m, "en")["label"] = "en"
  BY RowOfEach DEF Row
<1>2. RowOf(m, "en")["enabled"] = TRUE
  BY RowOfEach DEF Row
<1>3. RowOf(m, "ru")["label"] = "ru"
  BY RowOfEach DEF Row
<1>4. RowOf(m, "ru")["enabled"] = TRUE
  BY RowOfEach DEF Row
<1>5. RowOf(m, "status")["on"] = FALSE
  BY RowOfEach DEF Row
<1>6. RowOf(m, "status")["enabled"] = FALSE
  BY RowOfEach DEF Row
<1>7. RowOf(m, "ac")["label"] = "ac"
  BY RowOfEach DEF Row
<1>8. RowOf(m, "ac")["enabled"] = TRUE
  BY RowOfEach DEF Row
<1> QED BY <1>1, <1>2, <1>3, <1>4, <1>5, <1>6, <1>7, <1>8, Zenon

\* The rows and fields that depend on the mode, and on autocorrect.
LEMMA ModeRows ==
  ASSUME NEW m, NEW n, m.ac = n.ac, m.app = n.app
  PROVE  /\ \A r \in {"en", "ru"} : /\ RowOf(m, r)["label"] = RowOf(n, r)["label"]
                                    /\ RowOf(m, r)["enabled"] = RowOf(n, r)["enabled"]
         /\ RowOf(m, "status")["on"] = RowOf(n, "status")["on"]
         /\ RowOf(m, "status")["enabled"] = RowOf(n, "status")["enabled"]
         /\ \A r \in {"ac", "block", "chord"} : RowOf(m, r) = RowOf(n, r)
<1>1. /\ RowOf(m, "ac") = RowOf(n, "ac") /\ RowOf(m, "block") = RowOf(n, "block")
      /\ RowOf(m, "chord") = RowOf(n, "chord")
  BY RowOfEach
<1> QED BY <1>1, FixedFields, Zenon

LEMMA AutocorrectRows ==
  ASSUME NEW m, NEW n, m.mode = n.mode, m.app = n.app
  PROVE  /\ RowOf(m, "ac")["label"] = RowOf(n, "ac")["label"]
         /\ RowOf(m, "ac")["enabled"] = RowOf(n, "ac")["enabled"]
         /\ \A r \in {"en", "ru", "status", "block", "chord"} : RowOf(m, r) = RowOf(n, r)
<1>1. RowOf(m, "en") = RowOf(n, "en") /\ RowOf(m, "ru") = RowOf(n, "ru")
  BY RowOfEach, Zenon
<1>2. /\ RowOf(m, "status") = RowOf(n, "status") /\ RowOf(m, "block") = RowOf(n, "block")
      /\ RowOf(m, "chord") = RowOf(n, "chord")
  BY RowOfEach
<1> QED BY <1>1, <1>2, FixedFields, Zenon

LEMMA AppRows ==
  ASSUME NEW m, NEW n, m.mode = n.mode, m.ac = n.ac
  PROVE  \A r \in {"en", "ru", "status", "ac", "chord"} : RowOf(m, r) = RowOf(n, r)
<1>1. RowOf(m, "en") = RowOf(n, "en") /\ RowOf(m, "ru") = RowOf(n, "ru")
  BY RowOfEach
<1>2. /\ RowOf(m, "status") = RowOf(n, "status") /\ RowOf(m, "ac") = RowOf(n, "ac")
      /\ RowOf(m, "chord") = RowOf(n, "chord")
  BY RowOfEach
<1> QED BY <1>1, <1>2

\* What a change of the snapshot leaves of the rows as it was.
Unsignalled(m, n, fields) ==
  /\ n \in Snapshot /\ RootKids(n) = RootKids(m)
  /\ \A r \in RootKids(m), f \in Fields :
       \/ RowOf(n, r)[f] = RowOf(m, r)[f]
       \/ <<r, f>> \in fields
       \/ <<r, f>> = <<"block", "enabled">>

LEMMA ModeTouches ==
  ASSUME NEW m \in Snapshot, NEW x \in Modes
  PROVE  Unsignalled(m, [m EXCEPT !.mode = x], ModeFields)
<1> DEFINE n == [m EXCEPT !.mode = x]
<1>1. n \in Snapshot /\ n.ac = m.ac /\ n.app = m.app /\ n.chord = m.chord
  BY DEF Snapshot
<1> HIDE DEF n
<1>2. RootKids(n) = RootKids(m)
  BY <1>1 DEF RootKids
<1>3. ASSUME NEW r \in RootKids(m), NEW f \in Fields
      PROVE  RowOf(n, r)[f] = RowOf(m, r)[f] \/ <<r, f>> \in ModeFields
  BY <1>1, KidNames, ModeRows DEF Fields, ModeFields
<1> QED BY <1>1, <1>2, <1>3 DEF Unsignalled, n

LEMMA AutocorrectTouches ==
  ASSUME NEW m \in Snapshot
  PROVE  Unsignalled(m, [m EXCEPT !.ac = ~@], {<<"ac", "on">>})
<1> DEFINE n == [m EXCEPT !.ac = ~@]
<1>1. n \in Snapshot /\ n.mode = m.mode /\ n.app = m.app /\ n.chord = m.chord
  BY DEF Snapshot
<1> HIDE DEF n
<1>2. RootKids(n) = RootKids(m)
  BY <1>1 DEF RootKids
<1>3. ASSUME NEW r \in RootKids(m), NEW f \in Fields
      PROVE  RowOf(n, r)[f] = RowOf(m, r)[f] \/ <<r, f>> \in {<<"ac", "on">>}
  BY <1>1, KidNames, AutocorrectRows DEF Fields
<1> QED BY <1>1, <1>2, <1>3 DEF Unsignalled, n

LEMMA AppTouches ==
  ASSUME NEW m \in Snapshot, NEW a \in Apps
  PROVE  Unsignalled(m, [m EXCEPT !.app = a], {<<"block", "label">>, <<"block", "on">>})
<1> DEFINE n == [m EXCEPT !.app = a]
<1>1. n \in Snapshot /\ n.mode = m.mode /\ n.ac = m.ac /\ n.chord = m.chord
  BY DEF Snapshot
<1> HIDE DEF n
<1>2. RootKids(n) = RootKids(m)
  BY <1>1 DEF RootKids
<1>3. ASSUME NEW r \in RootKids(m), NEW f \in Fields
      PROVE  \/ RowOf(n, r)[f] = RowOf(m, r)[f]
             \/ <<r, f>> \in {<<"block", "label">>, <<"block", "on">>}
             \/ <<r, f>> = <<"block", "enabled">>
  BY <1>1, KidNames, AppRows DEF Fields
<1> QED BY <1>1, <1>2, <1>3 DEF Unsignalled, n

\* What a delta leaves overtaken.
Overtakes(fields) ==
  IF shell.coming.rows = NoRows THEN shell.overtaken \ fields ELSE shell.overtaken \cup fields

\* A delta with the fields that changed keeps the rows to come faithful: it
\* patches the copy there is, and what it finds on its way it overtakes.
LEMMA DeltaKeepsRows ==
  ASSUME NEW fields \in SUBSET SignalledFields, MenuOK,
         Unsignalled(snapshot, snapshot', fields),
         shell'.menu = Patched(shell.menu, snapshot', fields),
         shell'.coming = shell.coming,
         shell'.overtaken = Overtakes(fields),
         shell'.holds = shell.holds, "rows" \in shell'.asked <=> "rows" \in shell.asked
  PROVE  MenuOK'
<1>1. DOMAIN shell'.menu = DOMAIN shell.menu
  BY DEF Patched
<1>2. ASSUME NEW r \in DOMAIN shell.menu
      PROVE  /\ DOMAIN shell'.menu[r] = Fields
             /\ \A f \in Fields : shell'.menu[r][f] =
                  IF <<r, f>> \in fields THEN RowOf(snapshot', r)[f] ELSE shell.menu[r][f]
  BY <1>2 DEF Patched, MenuOK, CopyOK
<1>3. RowsOK'
  <2> SUFFICES ASSUME shell.holds, "rows" \notin shell.asked
               PROVE  /\ DOMAIN RowsToCome' = RootKids(snapshot')
                      /\ \A r \in RootKids(snapshot') : Faithful(r)'
    BY DEF RowsOK
  <2>1. DOMAIN RowsToCome = RootKids(snapshot) /\ \A r \in RootKids(snapshot) : Faithful(r)
    BY DEF MenuOK, RowsOK
  <2>2. RootKids(snapshot') = RootKids(snapshot)
    BY DEF Unsignalled
  <2>3. ASSUME NEW r \in RootKids(snapshot), NEW f \in Fields
        PROVE  /\ \/ RowsToCome[r][f] = RowOf(snapshot, r)[f]
                  \/ <<r, f>> = <<"block", "enabled">>
                  \/ <<r, f>> \in shell.overtaken
               /\ \/ RowOf(snapshot', r)[f] = RowOf(snapshot, r)[f]
                  \/ <<r, f>> \in fields
                  \/ <<r, f>> = <<"block", "enabled">>
    BY <2>1 DEF Faithful, Unsignalled
  <2>4. CASE shell.coming.rows = NoRows
    <3>1. RowsToCome = shell.menu /\ RowsToCome' = shell'.menu
      BY <2>4 DEF RowsToCome
    <3>2. ASSUME NEW r \in RootKids(snapshot), NEW f \in Fields
          PROVE  \/ RowsToCome'[r][f] = RowOf(snapshot', r)[f]
                 \/ <<r, f>> = <<"block", "enabled">>
                 \/ <<r, f>> \in shell'.overtaken
      <4>1. shell'.menu[r][f] =
              IF <<r, f>> \in fields THEN RowOf(snapshot', r)[f] ELSE shell.menu[r][f]
        BY <1>2, <2>1, <3>1
      <4>2. CASE <<r, f>> \in fields
        BY <3>1, <4>1, <4>2
      <4>3. CASE <<r, f>> \notin fields
        BY <2>3, <2>4, <3>1, <4>1, <4>3 DEF Overtakes
      <4> QED BY <4>2, <4>3
    <3> QED BY <1>1, <2>1, <2>2, <3>1, <3>2 DEF Faithful
  <2>5. CASE shell.coming.rows # NoRows
    <3>1. RowsToCome' = RowsToCome
      BY <2>5 DEF RowsToCome
    <3>2. ASSUME NEW r \in RootKids(snapshot), NEW f \in Fields
          PROVE  \/ RowsToCome'[r][f] = RowOf(snapshot', r)[f]
                 \/ <<r, f>> = <<"block", "enabled">>
                 \/ <<r, f>> \in shell'.overtaken
      BY <2>3, <2>5, <3>1 DEF Overtakes
    <3> QED BY <2>1, <2>2, <3>1, <3>2 DEF Faithful
  <2> QED BY <2>4, <2>5
<1>4. snapshot' \in Snapshot /\ CopyOK(shell.menu)' /\ CopyOK(shell.coming.rows)'
  BY <1>1, <1>2 DEF Unsignalled, MenuOK, CopyOK
<1>5. shell'.overtaken \subseteq SignalledFields
  BY DEF MenuOK, Overtakes
<1> QED BY <1>3, <1>4, <1>5 DEF MenuOK

\* Rows to come that stay are as faithful as they were.
LEMMA SameRows ==
  ASSUME MenuOK, snapshot' = snapshot, shell'.menu = shell.menu,
         shell'.coming.rows = shell.coming.rows, shell'.overtaken = shell.overtaken,
         shell'.holds => shell.holds,
         shell'.holds /\ "rows" \notin shell'.asked => "rows" \notin shell.asked
  PROVE  MenuOK'
<1>1. RowsToCome' = RowsToCome
  BY DEF RowsToCome
<1>2. \A r : Faithful(r)' <=> Faithful(r)
  BY <1>1 DEF Faithful
<1>3. RowsOK'
  BY <1>1, <1>2 DEF MenuOK, RowsOK
<1> QED BY <1>3 DEF MenuOK, CopyOK

\* Copies of a shell that asks for the rows, or does not hold the item.
LEMMA RowsAsked ==
  ASSUME MenuOK, snapshot' \in Snapshot,
         shell'.menu = shell.menu \/ shell'.menu = NoRows,
         shell'.coming.rows = shell.coming.rows \/ shell'.coming.rows = NoRows,
         shell'.overtaken = shell.overtaken \/ shell'.overtaken = {},
         shell'.holds => "rows" \in shell'.asked
  PROVE  MenuOK'
<1>1. RowsOK'
  BY DEF RowsOK
<1>2. CopyOK(NoRows)
  BY DEF NoRows, CopyOK
<1> QED BY <1>1, <1>2 DEF MenuOK, CopyOK

\* What the signals do to the shell.
LEMMA AsksEffect ==
  ASSUME NEW s, NEW questions, IsShell(s)
  PROVE  LET t == Asks(s, questions)
         IN  /\ IsShell(t)
             /\ t.up = s.up /\ t.holds = s.holds /\ t.icon = s.icon /\ t.menu = s.menu
             /\ t.coming = s.coming /\ t.overtaken = s.overtaken
             /\ t.asked = IF s.holds THEN s.asked \cup questions ELSE s.asked
BY DEF Asks, IsShell

LEMMA NewIconEffect ==
  ASSUME NEW s, NEW registered, IsShell(s)
  PROVE  LET t == NewIcon(s, registered)
         IN  /\ IsShell(t)
             /\ t.up = s.up /\ t.holds = s.holds /\ t.icon = s.icon /\ t.menu = s.menu
             /\ t.coming = s.coming /\ t.overtaken = s.overtaken
             /\ t.asked = IF registered /\ s.holds THEN s.asked \cup {"icon"} ELSE s.asked
BY AsksEffect DEF NewIcon

LEMMA ToldEffect ==
  ASSUME ItemOK, NEW m, NEW fields
  PROVE  Told(m, fields) =
           [up |-> shell.up, holds |-> shell.holds, icon |-> shell.icon,
            menu |-> Patched(shell.menu, m, fields), asked |-> shell.asked,
            coming |-> shell.coming, overtaken |-> Overtakes(fields)]
<1> DEFINE rows == Patched(shell.menu, m, fields)
<1>1. Told(m, fields) = [shell EXCEPT !.menu = rows, !.overtaken = Overtakes(fields)]
  BY DEF Told, Overtakes
<1>2. IsShell(shell)
  BY DEF ItemOK
<1> HIDE DEF rows
<1>3. Told(m, fields) =
        [up |-> shell.up, holds |-> shell.holds, icon |-> shell.icon, menu |-> rows,
         asked |-> shell.asked, coming |-> shell.coming, overtaken |-> Overtakes(fields)]
  BY <1>1, <1>2 DEF IsShell
<1> QED BY <1>3 DEF rows

LEMMA TrayStart == TrayInit => TrayIInv
<1> SUFFICES ASSUME TrayInit PROVE TrayIInv
  OBVIOUS
<1>1. PICK up \in BOOLEAN : shell = [AbsentShell EXCEPT !.up = up]
  BY DEF TrayInit
<1>2. shell = [up |-> up, holds |-> FALSE, icon |-> "none", menu |-> NoRows,
               asked |-> {}, coming |-> Nothing, overtaken |-> {}]
  BY <1>1 DEF AbsentShell
<1>3. ItemOK
  <2>1. /\ mode \in Modes /\ item \in [pix: Modes, registered: BOOLEAN]
        /\ sup \in [at: SupSteps, lost: BOOLEAN, attached: BOOLEAN, matched: BOOLEAN]
    BY DEF TrayInit, Modes, SupSteps
  <2>2. /\ spent \in [changes: 0..MaxChanges, shell: 0..MaxShell, faults: 0..MaxFaults]
        /\ owner \in Nat /\ owner <= spent.shell
    BY BoundsAssumption DEF TrayInit
  <2>3. /\ IsShell(shell) /\ shell.coming = Nothing /\ Nothing.icon = "none"
        /\ shell.up \in BOOLEAN /\ shell.holds = FALSE /\ shell.icon = "none" /\ shell.asked = {}
    BY <1>2 DEF IsShell, Nothing
  <2> QED BY <2>1, <2>2, <2>3 DEF ItemOK
<1>4. ServiceOK /\ IconOK /\ RevivalOK
  BY <1>2 DEF TrayInit, ServiceOK, IconOK, RevivalOK
<1>5. MenuOK
  <2>1. snapshot \in Snapshot
    BY AppsAssumption DEF TrayInit, Snapshot, Modes
  <2>2. CopyOK(NoRows) /\ Nothing.rows = NoRows
    BY DEF NoRows, CopyOK, Nothing
  <2> QED BY <1>2, <2>1, <2>2 DEF MenuOK, RowsOK
<1> QED BY <1>3, <1>4, <1>5 DEF TrayIInv

\* What the bounds' counters allow.
LEMMA ChangeSpends ==
  ASSUME ItemOK, Change
  PROVE  /\ spent' \in [changes: 0..MaxChanges, shell: 0..MaxShell, faults: 0..MaxFaults]
         /\ spent'.shell = spent.shell /\ spent'.faults = spent.faults
BY BoundsAssumption DEF ItemOK, Change

LEMMA FaultSpends ==
  ASSUME ItemOK, Fault \/ NoFault
  PROVE  /\ spent' \in [changes: 0..MaxChanges, shell: 0..MaxShell, faults: 0..MaxFaults]
         /\ spent'.shell = spent.shell /\ spent'.faults >= spent.faults
         /\ Fault => spent'.faults > 0
         /\ NoFault => spent'.faults = spent.faults
BY BoundsAssumption DEF ItemOK, Fault, NoFault

LEMMA MoveSpends ==
  ASSUME ItemOK, Move
  PROVE  /\ spent' \in [changes: 0..MaxChanges, shell: 0..MaxShell, faults: 0..MaxFaults]
         /\ spent'.shell = spent.shell + 1 /\ spent'.faults = spent.faults
BY BoundsAssumption DEF ItemOK, Move

LEMMA ModeChangedKeeps == TrayIInv /\ ModeChanged => TrayIInv'
<1> SUFFICES ASSUME TrayIInv, ModeChanged PROVE TrayIInv'
  OBVIOUS
<1> USE DEF TrayIInv
<1>1. PICK m \in Modes \ {mode} :
        /\ mode' = m
        /\ IF Attached
             THEN /\ item' = [item EXCEPT !.pix = m]
                  /\ snapshot' = [snapshot EXCEPT !.mode = m]
                  /\ shell' = NewIcon(Told(snapshot', ModeFields), item.registered)
             ELSE UNCHANGED <<item, snapshot, shell>>
  BY DEF ModeChanged
<1>2. UNCHANGED <<sup, owner>>
  BY DEF ModeChanged
<1>3. /\ spent' \in [changes: 0..MaxChanges, shell: 0..MaxShell, faults: 0..MaxFaults]
      /\ spent'.shell = spent.shell /\ spent'.faults = spent.faults
  BY ChangeSpends DEF ModeChanged
<1>4. CASE ~Attached
  <2>1. mode' \in Modes /\ UNCHANGED <<item, snapshot, shell, sup, owner>> /\ ~sup.attached
    BY <1>1, <1>2, <1>4 DEF Attached
  <2>2. ItemOK'
    BY <1>3, <2>1 DEF ItemOK
  <2>3. (ServiceOK /\ IconOK /\ RevivalOK)'
    BY <1>3, <2>1 DEF ServiceOK, IconOK, IconToCome, RevivalOK
  <2>4. MenuOK'
    BY <2>1, SameRows
  <2> QED BY <2>2, <2>3, <2>4
<1>5. CASE Attached
  <2>1. /\ IsShell(shell')
        /\ shell'.up = shell.up /\ shell'.holds = shell.holds /\ shell'.icon = shell.icon
        /\ shell'.menu = Patched(shell.menu, snapshot', ModeFields) /\ shell'.coming = shell.coming
        /\ shell'.overtaken = Overtakes(ModeFields)
        /\ shell'.asked = IF item.registered /\ shell.holds THEN shell.asked \cup {"icon"} ELSE shell.asked
    <3> DEFINE t == Told(snapshot', ModeFields)
    <3>1. IsShell(shell) /\ shell' = NewIcon(t, item.registered)
      BY <1>1, <1>5 DEF ItemOK
    <3>2. t = [up |-> shell.up, holds |-> shell.holds, icon |-> shell.icon,
               menu |-> Patched(shell.menu, snapshot', ModeFields), asked |-> shell.asked,
               coming |-> shell.coming, overtaken |-> Overtakes(ModeFields)]
      BY ToldEffect
    <3> HIDE DEF t
    <3>3. /\ IsShell(t) /\ t.up = shell.up /\ t.holds = shell.holds /\ t.icon = shell.icon
          /\ t.menu = Patched(shell.menu, snapshot', ModeFields) /\ t.coming = shell.coming
          /\ t.overtaken = Overtakes(ModeFields) /\ t.asked = shell.asked
      BY <3>1, <3>2 DEF IsShell
    <3> DEFINE u == NewIcon(t, item.registered)
    <3>4. /\ IsShell(u) /\ u.up = t.up /\ u.holds = t.holds /\ u.icon = t.icon
          /\ u.menu = t.menu /\ u.coming = t.coming /\ u.overtaken = t.overtaken
          /\ u.asked = IF item.registered /\ t.holds THEN t.asked \cup {"icon"} ELSE t.asked
      BY <3>3, NewIconEffect
    <3> HIDE DEF u
    <3> QED BY <3>1, <3>3, <3>4 DEF u
  <2>2. item' \in [pix: Modes, registered: BOOLEAN] /\ item'.pix = mode'
        /\ item'.registered = item.registered /\ mode' \in Modes
    BY <1>1, <1>5 DEF ItemOK
  <2>3. ItemOK'
    BY <1>2, <1>3, <2>1, <2>2 DEF ItemOK
  <2>4. (ServiceOK /\ IconOK /\ RevivalOK)'
    BY <1>2, <1>3, <1>5, <2>1, <2>2 DEF ServiceOK, IconOK, IconToCome, RevivalOK, ItemOK, Attached
  <2>5. MenuOK'
    <3>1. Unsignalled(snapshot, snapshot', ModeFields)
      BY <1>1, <1>5, ModeTouches DEF MenuOK
    <3>2. ModeFields \in SUBSET SignalledFields
      BY DEF ModeFields, SignalledFields
    <3> QED BY <2>1, <3>1, <3>2, DeltaKeepsRows
  <2> QED BY <2>3, <2>4, <2>5
<1> QED BY <1>4, <1>5

LEMMA SetAutocorrectEnabledKeeps == TrayIInv /\ SetAutocorrectEnabled => TrayIInv'
<1> SUFFICES ASSUME TrayIInv, SetAutocorrectEnabled PROVE TrayIInv'
  OBVIOUS
<1> USE DEF TrayIInv
<1>1. Unsignalled(snapshot, snapshot', {<<"ac", "on">>})
  BY AutocorrectTouches DEF SetAutocorrectEnabled, MenuOK
<1>2. /\ IsShell(shell')
      /\ shell'.up = shell.up /\ shell'.holds = shell.holds /\ shell'.icon = shell.icon
      /\ shell'.menu = Patched(shell.menu, snapshot', {<<"ac", "on">>})
      /\ shell'.asked = shell.asked /\ shell'.coming = shell.coming
      /\ shell'.overtaken = Overtakes({<<"ac", "on">>})
  <2>1. shell' = Told(snapshot', {<<"ac", "on">>}) /\ IsShell(shell)
    BY DEF SetAutocorrectEnabled, ItemOK
  <2> QED BY <2>1, ToldEffect DEF IsShell
<1>3. UNCHANGED <<mode, item, sup, owner>>
  BY DEF SetAutocorrectEnabled
<1>4. /\ spent' \in [changes: 0..MaxChanges, shell: 0..MaxShell, faults: 0..MaxFaults]
      /\ spent'.shell = spent.shell /\ spent'.faults = spent.faults
  BY ChangeSpends DEF SetAutocorrectEnabled
<1>5. ItemOK'
  BY <1>2, <1>3, <1>4 DEF ItemOK
<1>6. (ServiceOK /\ IconOK /\ RevivalOK)'
  BY <1>2, <1>3, <1>4 DEF ServiceOK, IconOK, IconToCome, RevivalOK
<1>7. MenuOK'
  <2>1. {<<"ac", "on">>} \in SUBSET SignalledFields
    BY DEF SignalledFields
  <2> QED BY <1>1, <1>2, <2>1, DeltaKeepsRows
<1> QED BY <1>5, <1>6, <1>7

LEMMA SetBlocklistAppKeeps == TrayIInv /\ SetBlocklistApp => TrayIInv'
<1> SUFFICES ASSUME TrayIInv, SetBlocklistApp PROVE TrayIInv'
  OBVIOUS
<1> USE DEF TrayIInv
<1>1. Unsignalled(snapshot, snapshot', {<<"block", "label">>, <<"block", "on">>})
  BY AppTouches DEF SetBlocklistApp, MenuOK
<1>2. /\ IsShell(shell')
      /\ shell'.up = shell.up /\ shell'.holds = shell.holds /\ shell'.icon = shell.icon
      /\ shell'.menu = Patched(shell.menu, snapshot', {<<"block", "label">>, <<"block", "on">>})
      /\ shell'.asked = shell.asked /\ shell'.coming = shell.coming
      /\ shell'.overtaken = Overtakes({<<"block", "label">>, <<"block", "on">>})
  <2>1. shell' = Told(snapshot', {<<"block", "label">>, <<"block", "on">>}) /\ IsShell(shell)
    BY DEF SetBlocklistApp, ItemOK
  <2> QED BY <2>1, ToldEffect DEF IsShell
<1>3. UNCHANGED <<mode, item, sup, owner>>
  BY DEF SetBlocklistApp
<1>4. /\ spent' \in [changes: 0..MaxChanges, shell: 0..MaxShell, faults: 0..MaxFaults]
      /\ spent'.shell = spent.shell /\ spent'.faults = spent.faults
  BY ChangeSpends DEF SetBlocklistApp
<1>5. ItemOK'
  BY <1>2, <1>3, <1>4 DEF ItemOK
<1>6. (ServiceOK /\ IconOK /\ RevivalOK)'
  BY <1>2, <1>3, <1>4 DEF ServiceOK, IconOK, IconToCome, RevivalOK
<1>7. MenuOK'
  <2>1. {<<"block", "label">>, <<"block", "on">>} \in SUBSET SignalledFields
    BY DEF SignalledFields
  <2> QED BY <1>1, <1>2, <2>1, DeltaKeepsRows
<1> QED BY <1>5, <1>6, <1>7

LEMMA SetKeysKeeps == TrayIInv /\ SetKeys => TrayIInv'
<1> SUFFICES ASSUME TrayIInv, SetKeys PROVE TrayIInv'
  OBVIOUS
<1> USE DEF TrayIInv
<1>1. /\ IsShell(shell')
      /\ shell'.up = shell.up /\ shell'.holds = shell.holds /\ shell'.icon = shell.icon
      /\ shell'.menu = shell.menu /\ shell'.coming = shell.coming
      /\ shell'.overtaken = shell.overtaken
      /\ shell'.asked = IF shell.holds THEN shell.asked \cup {"rows"} ELSE shell.asked
  <2>1. shell' = Asks(shell, {"rows"})
    BY DEF SetKeys, LayoutUpdated
  <2>2. IsShell(shell)
    BY DEF ItemOK
  <2> QED BY <2>1, <2>2, AsksEffect
<1>2. UNCHANGED <<mode, item, sup, owner>>
  BY DEF SetKeys
<1>3. /\ spent' \in [changes: 0..MaxChanges, shell: 0..MaxShell, faults: 0..MaxFaults]
      /\ spent'.shell = spent.shell /\ spent'.faults = spent.faults
  BY ChangeSpends DEF SetKeys
<1>4. ItemOK'
  BY <1>1, <1>2, <1>3 DEF ItemOK
<1>5. (ServiceOK /\ IconOK /\ RevivalOK)'
  BY <1>1, <1>2, <1>3 DEF ServiceOK, IconOK, IconToCome, RevivalOK
<1>6. MenuOK'
  <2>1. snapshot' \in Snapshot
    BY DEF SetKeys, MenuOK, Snapshot
  <2> QED BY <1>1, <1>2, <2>1, RowsAsked
<1> QED BY <1>4, <1>5, <1>6

\* The supervisor's steps that leave the shell alone.
LEMMA WatchingKeeps ==
  ASSUME TrayIInv, Beat \/ ReadRegistry \/ OwnerChanged \/ Probe
  PROVE  TrayIInv'
<1> USE DEF TrayIInv
<1>1. /\ UNCHANGED <<mode, snapshot, shell>>
      /\ owner' \in Nat /\ owner' <= owner
  BY DEF Beat, ReadRegistry, OwnerChanged, Probe, ItemOK
<1>2. Fault \/ NoFault
  BY DEF Beat, ReadRegistry, OwnerChanged, Probe, Fault, NoFault
<1>3. /\ spent' \in [changes: 0..MaxChanges, shell: 0..MaxShell, faults: 0..MaxFaults]
      /\ spent'.shell = spent.shell /\ spent'.faults >= spent.faults
  BY <1>2, FaultSpends
<1>4. /\ item' \in [pix: Modes, registered: BOOLEAN] /\ item'.pix = item.pix
      /\ item'.registered => item.registered
  <2>1. item' = item \/ item' = [item EXCEPT !.registered = FALSE]
    BY DEF Beat, ReadRegistry, OwnerChanged, Probe, MarkLost
  <2>2. item \in [pix: Modes, registered: BOOLEAN]
    BY DEF ItemOK
  <2> QED BY <2>1, <2>2
<1>5. /\ sup' \in [at: SupSteps, lost: BOOLEAN, attached: BOOLEAN, matched: BOOLEAN]
      /\ sup'.attached = sup.attached
  <2>1. \/ sup' = [sup EXCEPT !.at = "read"] \/ sup' = [sup EXCEPT !.at = "probe"]
        \/ sup' = [sup EXCEPT !.at = "register"]
        \/ sup' = [sup EXCEPT !.at = "idle"] \/ sup' = [sup EXCEPT !.at = "install"]
        \/ sup' = [sup EXCEPT !.at = "idle", !.lost = FALSE]
        \/ sup' = [sup EXCEPT !.at = "idle", !.lost = TRUE]
        \/ sup' = [sup EXCEPT !.at = "probe", !.lost = TRUE]
    <3>1. CASE Beat \/ ReadRegistry
      BY <3>1, Zenon DEF Beat, ReadRegistry, MarkLost
    <3>2. CASE OwnerChanged \/ Probe
      BY <3>2 DEF OwnerChanged, Probe, GiveUp
    <3> QED BY <3>1, <3>2
  <2>2. sup \in [at: SupSteps, lost: BOOLEAN, attached: BOOLEAN, matched: BOOLEAN]
    BY DEF ItemOK
  <2> QED BY <2>1, <2>2 DEF SupSteps
<1>6. sup'.at \in {"idle", "read"} => sup.attached
  BY DEF Beat, ReadRegistry, OwnerChanged, Probe, MarkLost, GiveUp, ItemOK, ServiceOK
<1>7. item'.registered # item.registered => ~shell.holds \/ spent'.faults > 0
  BY FaultSpends DEF Beat, ReadRegistry, OwnerChanged, Probe, MarkLost, GiveUp, ItemOK
<1>8. sup.at # "revive"
  BY DEF Beat, ReadRegistry, OwnerChanged, Probe
<1>9. ItemOK'
  BY <1>1, <1>3, <1>4, <1>5 DEF ItemOK
<1>10. (ServiceOK /\ IconOK)'
  BY <1>1, <1>4, <1>5, <1>6 DEF ServiceOK, IconOK, IconToCome
<1>11. RevivalOK'
  BY <1>1, <1>3, <1>4, <1>7, <1>8 DEF RevivalOK, ItemOK
<1>12. MenuOK'
  BY <1>1, SameRows
<1> QED BY <1>9, <1>10, <1>11, <1>12

LEMMA RegisterKeeps == TrayIInv /\ Register => TrayIInv'
<1> SUFFICES ASSUME TrayIInv, Register PROVE TrayIInv'
  OBVIOUS
<1> USE DEF TrayIInv
<1>1. UNCHANGED <<mode, item, snapshot, owner>> /\ (Fault \/ NoFault)
  BY DEF Register
<1>2. /\ spent' \in [changes: 0..MaxChanges, shell: 0..MaxShell, faults: 0..MaxFaults]
      /\ spent'.shell = spent.shell /\ spent'.faults >= spent.faults
  BY <1>1, FaultSpends
<1>3. CASE /\ shell.up
           /\ shell' = [shell EXCEPT !.holds = TRUE, !.asked = {"icon", "rows"}]
           /\ sup' = [sup EXCEPT !.at = "revive"]
  <2>1. /\ IsShell(shell') /\ shell'.up = TRUE /\ shell'.holds = TRUE
        /\ shell'.asked = {"icon", "rows"} /\ shell'.icon = shell.icon
        /\ shell'.menu = shell.menu /\ shell'.coming = shell.coming
        /\ shell'.overtaken = shell.overtaken
    BY <1>3 DEF ItemOK, IsShell
  <2>5. /\ sup' \in [at: SupSteps, lost: BOOLEAN, attached: BOOLEAN, matched: BOOLEAN]
        /\ sup'.at = "revive" /\ sup'.attached = sup.attached
    BY <1>3 DEF ItemOK, SupSteps
  <2>2. ItemOK'
    BY <1>1, <1>2, <2>1, <2>5 DEF ItemOK
  <2>3. (ServiceOK /\ IconOK /\ RevivalOK)'
    BY <1>1, <2>1, <2>5 DEF ServiceOK, IconOK, RevivalOK
  <2>4. MenuOK'
    BY <1>1, <2>1, RowsAsked DEF MenuOK
  <2> QED BY <2>2, <2>3, <2>4
<1>4. CASE GiveUp /\ UNCHANGED shell
  <2>1. /\ sup' \in [at: SupSteps, lost: BOOLEAN, attached: BOOLEAN, matched: BOOLEAN]
        /\ sup'.attached = sup.attached
        /\ sup'.at \in {"idle", "read"} => sup.attached
    BY <1>4 DEF ItemOK, SupSteps, GiveUp
  <2>2. ItemOK'
    BY <1>1, <1>2, <1>4, <2>1 DEF ItemOK
  <2>3. (ServiceOK /\ IconOK)'
    BY <1>1, <1>4, <2>1 DEF ServiceOK, IconOK, IconToCome
  <2>4. sup.at = "register"
    BY DEF Register
  <2>5. RevivalOK'
    BY <1>1, <1>2, <1>4, <2>4 DEF RevivalOK, ItemOK
  <2>6. MenuOK'
    BY <1>1, <1>4, SameRows
  <2> QED BY <2>2, <2>3, <2>5, <2>6
<1> QED BY <1>3, <1>4 DEF Register

LEMMA ReviveKeeps == TrayIInv /\ Revive => TrayIInv'
<1> SUFFICES ASSUME TrayIInv, Revive PROVE TrayIInv'
  OBVIOUS
<1> USE DEF TrayIInv
<1>1. UNCHANGED <<mode, snapshot, owner, spent>>
  BY DEF Revive
<1>2. item' \in [pix: Modes, registered: BOOLEAN] /\ item'.pix = item.pix /\ item'.registered
  BY DEF Revive, ItemOK
<1>3. /\ sup' \in [at: SupSteps, lost: BOOLEAN, attached: BOOLEAN, matched: BOOLEAN]
      /\ sup'.attached = sup.attached
      /\ sup'.at \in {"idle", "read"} => sup.attached
  <2>1. \/ sup.attached /\ sup' = [sup EXCEPT !.at = "idle", !.lost = FALSE]
        \/ ~sup.attached /\ sup' = [sup EXCEPT !.at = "install"]
    BY DEF Revive
  <2> QED BY <2>1 DEF ItemOK, SupSteps
<1>4. /\ IsShell(shell')
      /\ shell'.up = shell.up /\ shell'.holds = shell.holds /\ shell'.icon = shell.icon
      /\ shell'.menu = shell.menu /\ shell'.coming = shell.coming
      /\ shell'.overtaken = shell.overtaken
      /\ shell'.asked = IF sup.attached /\ shell.holds THEN shell.asked \cup {"icon"} ELSE shell.asked
  <2>1. CASE sup.attached
    <3>1. shell' = Asks(shell, {"icon"})
      BY <2>1 DEF Revive, NewIcon
    <3>2. IsShell(shell)
      BY DEF ItemOK
    <3>3. LET t == Asks(shell, {"icon"})
          IN  /\ IsShell(t)
              /\ t.up = shell.up /\ t.holds = shell.holds /\ t.icon = shell.icon
              /\ t.menu = shell.menu /\ t.coming = shell.coming /\ t.overtaken = shell.overtaken
              /\ t.asked = IF shell.holds THEN shell.asked \cup {"icon"} ELSE shell.asked
      BY <3>2, AsksEffect
    <3> QED BY <2>1, <3>1, <3>3
  <2>2. CASE ~sup.attached
    BY <2>2 DEF Revive, ItemOK
  <2> QED BY <2>1, <2>2
<1>5. ItemOK'
  BY <1>1, <1>2, <1>3, <1>4 DEF ItemOK
<1>6. (ServiceOK /\ IconOK /\ RevivalOK)'
  BY <1>1, <1>2, <1>3, <1>4 DEF ServiceOK, IconOK, IconToCome, RevivalOK
<1>7. MenuOK'
  BY <1>1, <1>4, SameRows
<1> QED BY <1>5, <1>6, <1>7

LEMMA InstallKeeps == TrayIInv /\ Install => TrayIInv'
<1> SUFFICES ASSUME TrayIInv, Install PROVE TrayIInv'
  OBVIOUS
<1> USE DEF TrayIInv
<1> DEFINE fields == IF mode = snapshot.mode THEN {} ELSE ModeFields
<1>1. /\ UNCHANGED <<mode, owner, spent>> /\ sup.at = "install"
      /\ item' = [item EXCEPT !.pix = mode]
      /\ snapshot' = [snapshot EXCEPT !.mode = mode]
      /\ shell' = NewIcon(Told(snapshot', fields), item.registered)
  BY DEF Install
<1>2. Unsignalled(snapshot, snapshot', fields)
  <2>1. mode \in Modes /\ snapshot \in Snapshot
    BY DEF ItemOK, MenuOK
  <2>2. CASE mode = snapshot.mode
    <3>1. snapshot' = snapshot
      BY <1>1, <2>1, <2>2 DEF Snapshot
    <3> QED BY <2>1, <3>1 DEF Unsignalled
  <2>3. CASE mode # snapshot.mode
    BY <1>1, <2>1, <2>3, ModeTouches
  <2> QED BY <2>2, <2>3
<1>9. fields \in SUBSET SignalledFields
  BY DEF ModeFields, SignalledFields
<1> HIDE DEF fields
<1>3. /\ IsShell(shell')
      /\ shell'.up = shell.up /\ shell'.holds = shell.holds /\ shell'.icon = shell.icon
      /\ shell'.menu = Patched(shell.menu, snapshot', fields) /\ shell'.coming = shell.coming
      /\ shell'.overtaken = Overtakes(fields)
      /\ shell'.asked = IF item.registered /\ shell.holds THEN shell.asked \cup {"icon"} ELSE shell.asked
  <2> DEFINE t == Told(snapshot', fields)
  <2>1. IsShell(shell) /\ shell' = NewIcon(t, item.registered)
    BY <1>1 DEF ItemOK
  <2>2. t = [up |-> shell.up, holds |-> shell.holds, icon |-> shell.icon,
             menu |-> Patched(shell.menu, snapshot', fields), asked |-> shell.asked,
             coming |-> shell.coming, overtaken |-> Overtakes(fields)]
    BY ToldEffect
  <2> HIDE DEF t
  <2>3. /\ IsShell(t) /\ t.up = shell.up /\ t.holds = shell.holds /\ t.icon = shell.icon
        /\ t.menu = Patched(shell.menu, snapshot', fields) /\ t.coming = shell.coming
        /\ t.overtaken = Overtakes(fields) /\ t.asked = shell.asked
    BY <2>1, <2>2 DEF IsShell
  <2> DEFINE u == NewIcon(t, item.registered)
  <2>4. /\ IsShell(u) /\ u.up = t.up /\ u.holds = t.holds /\ u.icon = t.icon
        /\ u.menu = t.menu /\ u.coming = t.coming /\ u.overtaken = t.overtaken
        /\ u.asked = IF item.registered /\ t.holds THEN t.asked \cup {"icon"} ELSE t.asked
    BY <2>3, NewIconEffect
  <2> HIDE DEF u
  <2> QED BY <2>1, <2>3, <2>4 DEF u
<1>4. /\ sup' \in [at: SupSteps, lost: BOOLEAN, attached: BOOLEAN, matched: BOOLEAN]
      /\ sup'.attached
  BY DEF Install, ItemOK, SupSteps
<1>5. item' \in [pix: Modes, registered: BOOLEAN] /\ item'.pix = mode
      /\ item'.registered = item.registered
  BY <1>1 DEF ItemOK
<1>6. ItemOK'
  BY <1>1, <1>3, <1>4, <1>5 DEF ItemOK
<1>7. (ServiceOK /\ IconOK /\ RevivalOK)'
  BY <1>1, <1>3, <1>4, <1>5 DEF ServiceOK, IconOK, IconToCome, RevivalOK, ItemOK
<1>8. MenuOK'
  BY <1>2, <1>3, <1>9, DeltaKeepsRows
<1> QED BY <1>6, <1>7, <1>8

LEMMA ShellKeeps ==
  ASSUME TrayIInv, ShellStarts \/ ShellDies \/ Evicts
  PROVE  TrayIInv'
<1> USE DEF TrayIInv
<1>1. UNCHANGED <<mode, item, snapshot, sup>> /\ owner' \in Nat /\ owner' <= owner + 1
  BY DEF ShellStarts, ShellDies, Evicts, ItemOK
<1>2. /\ spent' \in [changes: 0..MaxChanges, shell: 0..MaxShell, faults: 0..MaxFaults]
      /\ spent'.shell = spent.shell + 1 /\ spent'.faults = spent.faults
  BY MoveSpends DEF ShellStarts, ShellDies, Evicts
<1>3. /\ IsShell(shell')
      /\ shell'.up \in BOOLEAN /\ shell'.holds = FALSE /\ shell'.icon \in Modes \cup {"none"}
      /\ shell'.menu = shell.menu \/ shell'.menu = NoRows
      /\ shell'.asked = {} /\ shell'.coming = Nothing
      /\ shell'.overtaken = shell.overtaken \/ shell'.overtaken = {}
  <2>1. CASE ShellStarts
    BY <2>1 DEF ShellStarts, ItemOK, IsShell
  <2>2. CASE ShellDies \/ Evicts
    <3>1. PICK up \in BOOLEAN :
            shell' = [up |-> up, holds |-> FALSE, icon |-> "none", menu |-> NoRows,
                      asked |-> {}, coming |-> Nothing, overtaken |-> {}]
      BY <2>2 DEF ShellDies, Evicts, AbsentShell
    <3> QED BY <3>1 DEF IsShell, Nothing
  <2> QED BY <2>1, <2>2
<1>4. ItemOK'
  <2>1. owner' <= spent'.shell
    BY <1>1, <1>2 DEF ItemOK
  <2>2. Nothing.icon = "none"
    BY DEF Nothing
  <2> QED BY <1>1, <1>2, <1>3, <2>1, <2>2 DEF ItemOK
<1>5. (ServiceOK /\ IconOK /\ RevivalOK)'
  BY <1>1, <1>3 DEF ServiceOK, IconOK, RevivalOK
<1>6. MenuOK'
  <2>1. Nothing.rows = NoRows
    BY DEF Nothing
  <2> QED BY <1>1, <1>3, <2>1, RowsAsked DEF MenuOK
<1> QED BY <1>4, <1>5, <1>6

LEMMA ServeKeeps == TrayIInv /\ Serve => TrayIInv'
<1> SUFFICES ASSUME TrayIInv, Serve PROVE TrayIInv'
  OBVIOUS
<1> USE DEF TrayIInv
<1>1. UNCHANGED <<mode, item, snapshot, sup, owner, spent>>
  BY DEF Serve
<1>2. item.pix \in Modes /\ item.pix # "none"
  BY DEF ItemOK, Modes
<1>3. CASE /\ "icon" \in shell.asked /\ shell.coming.icon = "none"
           /\ shell' = [shell EXCEPT !.asked = @ \ {"icon"}, !.coming.icon = item.pix]
  <2>1. /\ IsShell(shell') /\ shell'.up = shell.up /\ shell'.holds = shell.holds
        /\ shell'.icon = shell.icon /\ shell'.menu = shell.menu
        /\ shell'.asked = shell.asked \ {"icon"} /\ shell'.overtaken = shell.overtaken
        /\ shell'.coming.icon = item.pix /\ shell'.coming.rows = shell.coming.rows
    BY <1>3 DEF ItemOK, IsShell
  <2>2. ItemOK'
    BY <1>1, <1>2, <1>3, <2>1 DEF ItemOK
  <2>3. (ServiceOK /\ IconOK /\ RevivalOK)'
    BY <1>1, <1>2, <2>1 DEF ServiceOK, IconOK, IconToCome, RevivalOK
  <2>4. MenuOK'
    BY <1>1, <2>1, SameRows
  <2> QED BY <2>2, <2>3, <2>4
<1>4. CASE /\ "rows" \in shell.asked /\ shell.coming.rows = NoRows
           /\ shell' = [shell EXCEPT !.asked = @ \ {"rows"}, !.coming.rows = Rows(snapshot),
                                    !.overtaken = {}]
  <2>1. /\ IsShell(shell') /\ shell'.up = shell.up /\ shell'.holds = shell.holds
        /\ shell'.icon = shell.icon /\ shell'.menu = shell.menu
        /\ shell'.asked = shell.asked \ {"rows"} /\ shell'.overtaken = {}
        /\ shell'.coming.icon = shell.coming.icon /\ shell'.coming.rows = Rows(snapshot)
    BY <1>4 DEF ItemOK, IsShell
  <2>2. ItemOK'
    BY <1>1, <1>4, <2>1 DEF ItemOK
  <2>3. (ServiceOK /\ IconOK /\ RevivalOK)'
    BY <1>1, <2>1 DEF ServiceOK, IconOK, IconToCome, RevivalOK
  <2>4. /\ snapshot \in Snapshot /\ DOMAIN Rows(snapshot) = RootKids(snapshot)
        /\ \A r \in RootKids(snapshot) : Rows(snapshot)[r] = RowOf(snapshot, r)
    BY DEF MenuOK, Rows
  <2>5. Rows(snapshot) # NoRows
    BY <2>4 DEF NoRows, RootKids
  <2>6. RowsOK'
    <3>1. RowsToCome' = Rows(snapshot)
      BY <2>1, <2>5 DEF RowsToCome
    <3> QED BY <1>1, <2>4, <3>1 DEF RowsOK, Faithful
  <2>7. CopyOK(Rows(snapshot))
    BY <2>4, RowsHaveFields DEF CopyOK
  <2>8. MenuOK'
    BY <1>1, <2>1, <2>6, <2>7 DEF MenuOK, CopyOK
  <2> QED BY <2>2, <2>3, <2>8
<1> QED BY <1>3, <1>4 DEF Serve

\* An answer that arrives is what was to come.
LEMMA DeliverKeeps == TrayIInv /\ Deliver => TrayIInv'
<1> SUFFICES ASSUME TrayIInv, Deliver PROVE TrayIInv'
  OBVIOUS
<1> USE DEF TrayIInv
<1>1. UNCHANGED <<mode, item, snapshot, sup, owner, spent>>
  BY DEF Deliver
<1>2. CASE /\ shell.coming.icon # "none"
           /\ shell' = [shell EXCEPT !.icon = shell.coming.icon, !.coming.icon = "none"]
  <2>1. /\ IsShell(shell') /\ shell'.up = shell.up /\ shell'.holds = shell.holds
        /\ shell'.icon = shell.coming.icon /\ shell'.menu = shell.menu
        /\ shell'.asked = shell.asked /\ shell'.overtaken = shell.overtaken
        /\ shell'.coming.icon = "none" /\ shell'.coming.rows = shell.coming.rows
    BY <1>2 DEF ItemOK, IsShell
  <2>2. shell.holds
    BY <1>2 DEF ItemOK, Nothing
  <2>3. ItemOK'
    BY <1>1, <2>1, <2>2 DEF ItemOK
  <2>4. (ServiceOK /\ IconOK /\ RevivalOK)'
    BY <1>1, <1>2, <2>1 DEF ServiceOK, IconOK, IconToCome, RevivalOK
  <2>5. MenuOK'
    BY <1>1, <2>1, SameRows
  <2> QED BY <2>3, <2>4, <2>5
<1>3. CASE /\ shell.coming.rows # NoRows
           /\ shell' = [shell EXCEPT !.menu = shell.coming.rows, !.coming.rows = NoRows]
  <2>1. /\ IsShell(shell') /\ shell'.up = shell.up /\ shell'.holds = shell.holds
        /\ shell'.icon = shell.icon /\ shell'.menu = shell.coming.rows
        /\ shell'.asked = shell.asked /\ shell'.overtaken = shell.overtaken
        /\ shell'.coming.icon = shell.coming.icon /\ shell'.coming.rows = NoRows
    BY <1>3 DEF ItemOK, IsShell
  <2>2. shell.holds
    BY <1>3 DEF ItemOK, Nothing
  <2>3. ItemOK'
    BY <1>1, <2>1, <2>2 DEF ItemOK
  <2>4. (ServiceOK /\ IconOK /\ RevivalOK)'
    BY <1>1, <2>1 DEF ServiceOK, IconOK, IconToCome, RevivalOK
  <2>5. RowsToCome' = RowsToCome
    BY <1>3, <2>1 DEF RowsToCome
  <2>6. RowsOK'
    BY <1>1, <2>1, <2>5 DEF MenuOK, RowsOK, Faithful
  <2>7. CopyOK(NoRows)
    BY DEF NoRows, CopyOK
  <2>8. MenuOK'
    BY <1>1, <2>1, <2>6, <2>7 DEF MenuOK, CopyOK
  <2> QED BY <2>3, <2>4, <2>8
<1> QED BY <1>2, <1>3 DEF Deliver

LEMMA TrayStep == TrayIInv /\ [TrayNext]_trayVars => TrayIInv'
<1> SUFFICES ASSUME TrayIInv, [TrayNext]_trayVars PROVE TrayIInv'
  OBVIOUS
<1>1. CASE UNCHANGED trayVars
  <2>1. UNCHANGED <<mode, item, snapshot, sup, owner, shell, spent>>
    BY <1>1 DEF trayVars
  <2>2. (ItemOK /\ ServiceOK /\ IconOK /\ RevivalOK)'
    BY <2>1 DEF TrayIInv, ItemOK, ServiceOK, IconOK, IconToCome, RevivalOK
  <2>3. MenuOK'
    BY <2>1, SameRows DEF TrayIInv
  <2> QED BY <2>2, <2>3 DEF TrayIInv
<1>2. CASE ModeChanged \/ SetAutocorrectEnabled \/ SetBlocklistApp \/ SetKeys
  BY <1>2, ModeChangedKeeps, SetAutocorrectEnabledKeeps, SetBlocklistAppKeeps, SetKeysKeeps
<1>3. CASE Supervise
  BY <1>3, WatchingKeeps, RegisterKeeps, ReviveKeeps, InstallKeeps DEF Supervise
<1>4. CASE ShellStarts \/ ShellDies \/ Evicts \/ Serve \/ Deliver
  BY <1>4, ShellKeeps, ServeKeeps, DeliverKeeps
<1> QED BY <1>1, <1>2, <1>3, <1>4 DEF TrayNext

\* The tray item is in order at rest: whatever the watcher and the shell do, a
\* registered item's icon is the actor's mode once the bus is quiet, and only
\* a call to the watcher that failed leaves a held item silent.
THEOREM TrayInOrder == TraySpec => []TrayInv
<1>1. TrayIInv => TrayInv
  <2> SUFFICES ASSUME TrayIInv PROVE TrayInv
    OBVIOUS
  <2>1. TrayTypeOK
    BY BoundsAssumption DEF TrayIInv, ItemOK, MenuOK, CopyOK, TrayTypeOK
  <2>2. IconIsShown
    BY DEF TrayIInv, ServiceOK, IconOK, IconToCome, IconIsShown, Quiet, Answered, Nothing
  <2>3. SilentByFaultOnly
    BY DEF TrayIInv, ItemOK, RevivalOK, SilentByFaultOnly
  <2> QED BY <2>1, <2>2, <2>3 DEF TrayInv
<1> QED BY <1>1, TrayStart, TrayStep, PTL DEF TraySpec

\* With every question answered a shell shows the rows served, but for what a
\* delta told it while the last answer was on its way.
THEOREM MenuFollows == TraySpec => []MenuIsShown
<1>1. TrayIInv => MenuIsShown
  <2> SUFFICES ASSUME TrayIInv, Answered, shell.holds
               PROVE  /\ DOMAIN shell.menu = RootKids(snapshot)
                      /\ \A r \in RootKids(snapshot) : SameRow(r)
    BY DEF MenuIsShown
  <2>1. RowsToCome = shell.menu
    BY DEF Answered, Nothing, RowsToCome
  <2>2. DOMAIN RowsToCome = RootKids(snapshot) /\ \A r \in RootKids(snapshot) : Faithful(r)
    BY DEF TrayIInv, MenuOK, RowsOK, Answered
  <2> QED BY <2>1, <2>2 DEF Faithful, SameRow, Shown, Fields
<1> QED BY <1>1, TrayStart, TrayStep, PTL DEF TraySpec

(***************************************************************************)
(* The configuration's pipeline.                                           *)
(***************************************************************************)
USE ClicksAssumption, DocsAssumption, BoundAssumption

Kinds == {"broken", "absent", "good", "invalid"}
Docs == [kind: Kinds, val: Values]

(***************************************************************************)
(* The inductive invariant.                                                *)
(***************************************************************************)
StepNames == {"idle", "stat", "lock", "remember", "refresh", "load", "write", "push", "fold"}

ValuesOK ==
  /\ file \in [doc: Docs, version: Nat]
  /\ current \in Values /\ applied \in Values
  /\ local \in [Procs -> [doc: Docs, stamp: Nat, on: BOOLEAN]]
  /\ seen \in Nat /\ answered \in Nat

StepsOK ==
  /\ pc \in [Procs -> StepNames]
  /\ menu \in [Toggles -> BOOLEAN]
  /\ pc["poll"] = "remember" => lock = "poll"
  /\ \A p \in Procs : pc[p] = "refresh" => lock = p
  /\ pc["start"] \in {"refresh", "idle"} /\ pc["reload"] # "fold"

\* Fingerprints come from the past of the file; the poll has parsed the
\* document of a fingerprint that is still current; an absent file has none.
StampsOK ==
  /\ file.version >= 1
  /\ seen <= file.version /\ answered <= file.version
  /\ local["poll"].stamp <= file.version
  /\ pc["poll"] = "remember" /\ local["poll"].stamp = file.version => answered = file.version
  /\ file.doc.kind = "absent" => seen < file.version /\ local["poll"].stamp < file.version

\* Whoever is about to take a fingerprint has parsed what it will cover.
Covered == answered = file.version \/ missed \/ OnItsWay
SeenOK ==
  /\ seen = file.version => Covered
  /\ \A p \in Procs : pc[p] = "refresh" /\ file.doc.kind # "absent" => Covered

IInv == ValuesOK /\ StepsOK /\ StampsOK /\ SeenOK

LEMMA ProcNames ==
  /\ Procs = Clicks \cup {"start", "poll", "reload"}
  /\ "none" \notin Procs /\ "poll" \in Procs /\ "start" \in Procs /\ "reload" \in Procs
  /\ \A c \in Clicks : c \in Procs /\ c # "poll" /\ c # "start" /\ c # "reload"
BY DEF Procs, Toggles

LEMMA DocumentsAreDocs ==
  /\ \A d \in Documents : d \in Docs
  /\ Absent \in Docs /\ NoLocal.doc = Absent /\ NoLocal.stamp = 0 /\ NoLocal.on = FALSE
  /\ NoLocal \in [doc: Docs, stamp: Nat, on: BOOLEAN]
<1>1. Defaults \in Values  BY DEF Defaults, Values
<1>2. QED  BY <1>1 DEF Documents, Docs, Kinds, Broken, Absent, Good, Invalid,
                       NoLocal

LEMMA FingerprintIs ==
  ASSUME ValuesOK
  PROVE  /\ Fingerprint \in Nat
         /\ file.doc.kind = "absent" => Fingerprint = 0
         /\ file.doc.kind # "absent" => Fingerprint = file.version
BY DEF ValuesOK, Docs, Fingerprint

(***************************************************************************)
(* One lemma per group of actions.                                         *)
(***************************************************************************)
LEMMA InitHolds == Init => IInv
<1> SUFFICES ASSUME Init PROVE IInv  OBVIOUS
<1> USE ProcNames, DocumentsAreDocs
<1>1. ValuesOK
  <2>1. StartDoc \in Docs /\ StartDoc.val \in Values  BY DEF Docs, Documents
  <2>3. local \in [Procs -> [doc: Docs, stamp: Nat, on: BOOLEAN]]  BY DEF Init
  <2> QED  BY <2>1, <2>3 DEF Init, ValuesOK, Fingerprint
<1>2. StepsOK
  <2>1. pc \in [Procs -> StepNames]  BY DEF Init, StepNames
  <2>2. menu \in [Toggles -> BOOLEAN]  BY <1>1 DEF Init, ValuesOK, Values, OnMenu, Keys
  <2> QED  BY <2>1, <2>2 DEF Init, StepsOK
<1>3. StampsOK  BY <1>1 DEF Init, StampsOK, Fingerprint, ValuesOK
<1>4. SeenOK  BY <1>1 DEF Init, SeenOK, Covered, Fingerprint, StepsOK
<1> QED  BY <1>1, <1>2, <1>3, <1>4 DEF IInv

LEMMA ParseKeeps ==
  ASSUME IInv, NEW p \in Procs, p # "start", Parse(p)
  PROVE  IInv'
<1> USE ProcNames, DocumentsAreDocs, FingerprintIs DEF IInv
<1>1. ValuesOK'
  <2>1. current' \in Values  BY DEF Parse, Reparse, ValuesOK, Docs
  <2> QED  BY <2>1 DEF Parse, Reparse, ValuesOK, foldVars
<1>2. StepsOK'
  BY DEF Parse, At, StepsOK, StepNames, foldVars
<1>3. StampsOK'
  BY DEF Parse, At, Reparse, StampsOK, StepsOK, ValuesOK
<1>4. SeenOK'
  <2>1. file.doc.kind # "absent" => answered' = file'.version  BY DEF Parse, Reparse
  <2>2. file.doc.kind = "absent" => seen' # file'.version  BY DEF Parse, StampsOK, ValuesOK
  <2> QED  BY <2>1, <2>2 DEF SeenOK, Covered, Parse
<1> QED  BY <1>1, <1>2, <1>3, <1>4

LEMMA RefreshKeeps ==
  ASSUME IInv, NEW p \in Procs, RefreshSeen(p)
  PROVE  IInv'
<1> USE ProcNames, DocumentsAreDocs, FingerprintIs DEF IInv
<1>1. ValuesOK'
  BY DEF RefreshSeen, ValuesOK, foldVars, fileVars
<1>2. StepsOK'
  BY DEF RefreshSeen, At, StepsOK, StepNames, foldVars
<1>3. StampsOK'
  BY DEF RefreshSeen, At, StampsOK, ValuesOK, fileVars
<1>4. SeenOK'
  <2>1. OnItsWay' = OnItsWay  BY DEF RefreshSeen, At, OnItsWay, StepsOK
  <2>2. Covered' = Covered  BY <2>1 DEF Covered, RefreshSeen, fileVars
  <2>3. file.doc.kind # "absent" => Covered  BY DEF RefreshSeen, At, SeenOK
  <2>4. file.doc.kind = "absent" => seen' # file'.version
    BY DEF RefreshSeen, StampsOK, ValuesOK, fileVars
  <2> QED  BY <2>2, <2>3, <2>4 DEF SeenOK, RefreshSeen, fileVars
<1> QED  BY <1>1, <1>2, <1>3, <1>4

LEMMA PollKeeps ==
  ASSUME IInv, PollReadSeen \/ PollStat \/ PollRemember
  PROVE  IInv'
<1> USE ProcNames, DocumentsAreDocs, FingerprintIs DEF IInv
<1>1. CASE PollReadSeen
  <2>1. ValuesOK'  BY <1>1 DEF PollReadSeen, ValuesOK, fileVars, watchVars, foldVars
  <2>2. StepsOK'  BY <1>1 DEF PollReadSeen, At, StepsOK, StepNames, watchVars, foldVars
  <2>3. StampsOK'
    BY <1>1 DEF PollReadSeen, At, StampsOK, ValuesOK, fileVars, watchVars, StepsOK
  <2>4. OnItsWay' = OnItsWay  BY <1>1 DEF PollReadSeen, At, OnItsWay, StepsOK
  <2>5. SeenOK'
    BY <1>1, <2>4 DEF PollReadSeen, At, SeenOK, Covered, fileVars, watchVars, StepsOK
  <2> QED  BY <2>1, <2>2, <2>3, <2>5
<1>2. CASE PollStat
  <2>1. ValuesOK'
    BY <1>2 DEF PollStat, ValuesOK, fileVars, watchVars, foldVars
  <2>2. StepsOK'  BY <1>2 DEF PollStat, At, StepsOK, StepNames, watchVars, foldVars
  <2>3. StampsOK'
    BY <1>2 DEF PollStat, At, StampsOK, ValuesOK, fileVars, watchVars, StepsOK
  <2>4. OnItsWay' = OnItsWay  BY <1>2 DEF PollStat, At, OnItsWay, StepsOK
  <2>5. SeenOK'
    BY <1>2, <2>4 DEF PollStat, At, SeenOK, Covered, fileVars, watchVars, StepsOK
  <2> QED  BY <2>1, <2>2, <2>3, <2>5
<1>3. CASE PollRemember
  <2>1. ValuesOK'  BY <1>3 DEF PollRemember, ValuesOK, fileVars, foldVars
  <2>2. StepsOK'  BY <1>3 DEF PollRemember, At, StepsOK, StepNames, foldVars
  <2>3. StampsOK'
    BY <1>3 DEF PollRemember, At, StampsOK, ValuesOK, fileVars, StepsOK
  <2>4. OnItsWay' = OnItsWay  BY <1>3 DEF PollRemember, At, OnItsWay, StepsOK
  <2>5. SeenOK'
    <3>1. seen' = file'.version => answered' = file'.version
      BY <1>3 DEF PollRemember, At, StampsOK, fileVars
    <3>2. \A p \in Procs : pc'[p] # "refresh"
      BY <1>3 DEF PollRemember, At, StepsOK
    <3> QED  BY <3>1, <3>2 DEF SeenOK, Covered
  <2> QED  BY <2>1, <2>2, <2>3, <2>5
<1> QED  BY <1>1, <1>2, <1>3

LEMMA ReloadKeeps == IInv /\ ForceReload => IInv'
<1> SUFFICES ASSUME IInv, ForceReload PROVE IInv'  OBVIOUS
<1> USE ProcNames, DocumentsAreDocs, FingerprintIs DEF IInv
<1>1. ValuesOK'  BY DEF ForceReload, ValuesOK, watchVars, foldVars
<1>2. StepsOK'  BY DEF ForceReload, At, StepsOK, StepNames, watchVars, foldVars
<1>3. StampsOK'  BY DEF ForceReload, At, StampsOK, ValuesOK, watchVars, StepsOK
<1>4. OnItsWay' = OnItsWay  BY DEF ForceReload, At, OnItsWay, StepsOK
<1>5. SeenOK'  BY <1>4 DEF ForceReload, At, SeenOK, Covered, watchVars, StepsOK
<1> QED  BY <1>1, <1>2, <1>3, <1>5

LEMMA FoldKeepsTypes ==
  ASSUME ValuesOK, menu \in [Toggles -> BOOLEAN], Fold
  PROVE  applied' \in Values /\ menu' \in [Toggles -> BOOLEAN]
BY DEF Fold, ValuesOK, Values, OnMenu, Keys

LEMMA EventKeeps == IInv /\ (Event \/ SetA11ySink \/ Reconcile) => IInv'
<1> SUFFICES ASSUME IInv, Event \/ SetA11ySink \/ Reconcile PROVE IInv'  OBVIOUS
<1> USE DEF IInv
<1>1. UNCHANGED <<fileVars, watchVars, pc, local>>
  BY DEF Event, SetA11ySink, Reconcile
<1>2. applied' \in Values /\ menu' \in [Toggles -> BOOLEAN]
  <2>1. CASE Event  BY <2>1, FoldKeepsTypes DEF Event, StepsOK
  <2>2. CASE SetA11ySink  BY <2>2 DEF SetA11ySink, ValuesOK, StepsOK
  <2>3. CASE Reconcile  BY <2>3 DEF Reconcile, foldVars, ValuesOK, StepsOK
  <2> QED  BY <2>1, <2>2, <2>3
<1>3. ValuesOK' /\ StepsOK' /\ StampsOK'
  BY <1>1, <1>2 DEF ValuesOK, StepsOK, StampsOK, fileVars, watchVars
<1>4. SeenOK'  BY <1>1 DEF SeenOK, Covered, OnItsWay, fileVars, watchVars
<1> QED  BY <1>3, <1>4

LEMMA SwitchIsLocal ==
  ASSUME NEW f \in [Procs -> [doc: Docs, stamp: Nat, on: BOOLEAN]],
         NEW c \in Procs, NEW b \in BOOLEAN
  PROVE  [f EXCEPT ![c].on = b] \in [Procs -> [doc: Docs, stamp: Nat, on: BOOLEAN]]
OBVIOUS

LEMMA ClickKeeps ==
  ASSUME IInv, NEW c \in Clicks, Click(c) \/ LoadDocument(c) \/ WriteFails(c)
  PROVE  IInv'
<1> USE ProcNames, DocumentsAreDocs, FingerprintIs DEF IInv
<1>1. UNCHANGED <<file, missed, watchVars, foldVars>>
  BY DEF Click, LoadDocument, WriteFails, fileVars
<1>2. /\ pc' = pc \/ \E s \in {"load", "write", "idle"} : pc' = [pc EXCEPT ![c] = s]
      /\ pc'[c] # pc[c] => pc[c] \in {"idle", "load", "write"}
  BY DEF Click, LoadDocument, WriteFails, At, StepsOK
<1>3. ValuesOK'
  <2>1. local' \in [Procs -> [doc: Docs, stamp: Nat, on: BOOLEAN]]
    <3>1. CASE Click(c)
      <4>0. local' = local \/ local' = [local EXCEPT ![c].on = ~applied[c]]  BY <3>1 DEF Click
      <4>3. (~applied[c]) \in BOOLEAN
        <5>1. applied \in [Keys -> BOOLEAN] /\ c \in Keys  BY DEF ValuesOK, Values, Keys
        <5> QED  BY <5>1
      <4>4. local \in [Procs -> [doc: Docs, stamp: Nat, on: BOOLEAN]] /\ c \in Procs
        BY DEF ValuesOK
      <4>5. [local EXCEPT ![c].on = ~applied[c]] \in [Procs -> [doc: Docs, stamp: Nat, on: BOOLEAN]]
        BY <4>3, <4>4, SwitchIsLocal, Zenon
      <4> QED  BY <4>0, <4>4, <4>5, Zenon
    <3>2. CASE LoadDocument(c)  BY <3>2 DEF LoadDocument, ValuesOK
    <3>3. CASE WriteFails(c)  BY <3>3 DEF WriteFails, ValuesOK
    <3> QED  BY <3>1, <3>2, <3>3
  <2> QED  BY <1>1, <2>1 DEF ValuesOK, watchVars, foldVars
<1>4. StepsOK'  BY <1>1, <1>2 DEF StepsOK, StepNames, watchVars, foldVars
<1>5. local'["poll"] = local["poll"]
  BY DEF Click, LoadDocument, WriteFails, ValuesOK
<1>6. StampsOK'  BY <1>1, <1>2, <1>5 DEF StampsOK, watchVars, StepsOK
<1>7. OnItsWay' = OnItsWay  BY <1>2 DEF OnItsWay, StepsOK
<1>8. SeenOK'  BY <1>1, <1>2, <1>7 DEF SeenOK, Covered, watchVars, StepsOK
<1> QED  BY <1>3, <1>4, <1>6, <1>8

LEMMA EditedIsDocument ==
  ASSUME NEW doc \in Docs, NEW c \in Clicks, NEW on \in BOOLEAN
  PROVE  \A d \in Edited(doc, c, on) : d \in Docs /\ d.kind # "absent"
BY DEF Edited, Good, Invalid, Docs, Kinds, Values, Keys

LEMMA WriteKeeps ==
  ASSUME IInv, NEW c \in Clicks, WriteDocument(c)
  PROVE  IInv'
<1> USE ProcNames, DocumentsAreDocs DEF IInv
<1>1. /\ UNCHANGED <<missed, watchVars, foldVars>>
      /\ pc[c] = "write"
      /\ \E s \in {"push", "lock"} : pc' = [pc EXCEPT ![c] = s]
      /\ local' = [local EXCEPT ![c].doc = Absent]
  BY DEF WriteDocument, At
<1>2. \/ file' = file
      \/ \E d \in Edited(local[c].doc, c, local[c].on) :
           file' = [doc |-> d, version |-> file.version + 1]
  BY DEF WriteDocument
<1>3. local[c].doc \in Docs /\ local[c].on \in BOOLEAN  BY DEF ValuesOK
<1>4. \A d \in Edited(local[c].doc, c, local[c].on) : d \in Docs /\ d.kind # "absent"
  BY <1>3, EditedIsDocument
<1>6. ValuesOK'
  <2>1. file' \in [doc: Docs, version: Nat]  BY <1>2, <1>4 DEF ValuesOK
  <2>2. local' \in [Procs -> [doc: Docs, stamp: Nat, on: BOOLEAN]]  BY <1>1 DEF ValuesOK
  <2> QED  BY <1>1, <2>1, <2>2 DEF ValuesOK, watchVars, foldVars
<1>7. StepsOK'  BY <1>1 DEF StepsOK, StepNames, watchVars, foldVars
<1>8. local'["poll"] = local["poll"]  BY <1>1 DEF ValuesOK
<1>9. StampsOK'
  <2>1. pc'["poll"] = pc["poll"]  BY <1>1 DEF StepsOK
  <2>2. CASE file' = file  BY <1>1, <1>8, <2>1, <2>2 DEF StampsOK, watchVars
  <2>3. CASE file' # file
    <3>1. file'.version = file.version + 1 /\ file'.doc.kind # "absent"
      BY <1>2, <1>4, <2>3
    <3> QED  BY <1>1, <1>8, <2>1, <3>1 DEF StampsOK, watchVars, ValuesOK
  <2> QED  BY <2>2, <2>3
<1>10. OnItsWay'  BY <1>1 DEF OnItsWay, StepsOK
<1>11. SeenOK'  BY <1>10 DEF SeenOK, Covered
<1> QED  BY <1>6, <1>7, <1>9, <1>11

LEMMA PushKeeps ==
  ASSUME IInv, NEW c \in Clicks, PushMenu(c)
  PROVE  IInv'
<1> USE ProcNames, DocumentsAreDocs DEF IInv
<1>1. /\ UNCHANGED <<fileVars, watchVars, applied>>
      /\ pc[c] = "push" /\ pc' = [pc EXCEPT ![c] = "lock"]
      /\ local' = [local EXCEPT ![c] = NoLocal]
      /\ menu' = [menu EXCEPT ![c] = local[c].on]
  BY DEF PushMenu, At
<1>2. ValuesOK'  BY <1>1 DEF ValuesOK, fileVars, watchVars
<1>3. StepsOK'
  <2>1. menu' \in [Toggles -> BOOLEAN]  BY <1>1 DEF StepsOK, ValuesOK
  <2> QED  BY <1>1, <2>1 DEF StepsOK, StepNames, watchVars
<1>4. StampsOK'  BY <1>1 DEF StampsOK, StepsOK, ValuesOK, fileVars, watchVars
<1>5. OnItsWay'  BY <1>1 DEF OnItsWay, StepsOK
<1>6. SeenOK'  BY <1>5 DEF SeenOK, Covered
<1> QED  BY <1>2, <1>3, <1>4, <1>6

LEMMA FoldAppliedKeeps ==
  ASSUME IInv, NEW c \in Clicks, FoldApplied(c)
  PROVE  IInv'
<1> USE ProcNames, DocumentsAreDocs DEF IInv
<1>1. /\ UNCHANGED <<fileVars, watchVars, local>>
      /\ pc[c] = "fold" /\ pc' = [pc EXCEPT ![c] = "idle"]
  BY DEF FoldApplied, At
<1>2. applied' \in Values /\ menu' \in [Toggles -> BOOLEAN]
  BY FoldKeepsTypes DEF FoldApplied, StepsOK
<1>3. ValuesOK'  BY <1>1, <1>2 DEF ValuesOK, fileVars, watchVars
<1>4. StepsOK'  BY <1>1, <1>2 DEF StepsOK, StepNames, watchVars
<1>5. StampsOK'  BY <1>1 DEF StampsOK, StepsOK, fileVars, watchVars
<1>6. OnItsWay' = OnItsWay  BY <1>1 DEF OnItsWay, StepsOK
<1>7. SeenOK'  BY <1>1, <1>6 DEF SeenOK, Covered, fileVars, watchVars, StepsOK
<1> QED  BY <1>3, <1>4, <1>5, <1>7

LEMMA EditKeeps ==
  ASSUME IInv, NEW d \in EditDocs, Edit(d)
  PROVE  IInv'
<1> USE ProcNames, DocumentsAreDocs DEF IInv
<1>1. /\ UNCHANGED <<watchVars, foldVars, pc, local>>
      /\ file' = [doc |-> d, version |-> file.version + 1]
      /\ missed' = (missed \/ \E p \in Procs : pc[p] = "refresh")
  BY DEF Edit
<1>2. ValuesOK'
  <2>1. d \in Docs  OBVIOUS
  <2> QED  BY <1>1, <2>1 DEF ValuesOK, watchVars, foldVars
<1>3. StepsOK'  BY <1>1 DEF StepsOK, watchVars, foldVars
<1>4. StampsOK'  BY <1>1 DEF StampsOK, ValuesOK, watchVars
<1>5. SeenOK'
  <2>1. seen' # file'.version  BY <1>1 DEF StampsOK, ValuesOK, watchVars
  <2>2. ASSUME NEW p \in Procs, pc'[p] = "refresh" PROVE missed'
    <3>1. pc[p] = "refresh"  BY <1>1, <2>2
    <3> QED  BY <3>1 DEF Edit
  <2> QED  BY <2>1, <2>2 DEF SeenOK, Covered
<1> QED  BY <1>2, <1>3, <1>4, <1>5

LEMMA NextKeeps == IInv /\ [Next]_vars => IInv'
<1> SUFFICES ASSUME IInv, [Next]_vars PROVE IInv'  OBVIOUS
<1> USE ProcNames
<1>1. CASE PollStep
  <2>1. CASE PollReadSeen \/ PollStat \/ PollRemember  BY <2>1, PollKeeps
  <2>2. CASE PollLock
    <3>1. CASE Parse("poll")  BY <3>1, ParseKeeps
    <3>2. CASE ~Parse("poll")
      <4>1. /\ UNCHANGED <<fileVars, watchVars, foldVars>>
            /\ pc["poll"] = "lock" /\ pc' = [pc EXCEPT !["poll"] = "idle"]
            /\ local' = [local EXCEPT !["poll"] = NoLocal]
        BY <2>2, <3>2 DEF PollLock, At
      <4> USE DEF IInv
      <4>2. ValuesOK'  BY <4>1, DocumentsAreDocs DEF ValuesOK, fileVars, watchVars, foldVars
      <4>3. StepsOK'  BY <4>1 DEF StepsOK, StepNames, watchVars, foldVars
      <4>4. StampsOK'
        BY <4>1, DocumentsAreDocs DEF StampsOK, StepsOK, ValuesOK, fileVars, watchVars
      <4>5. OnItsWay' = OnItsWay  BY <4>1 DEF OnItsWay, StepsOK
      <4>6. SeenOK'  BY <4>1, <4>5 DEF SeenOK, Covered, fileVars, watchVars, StepsOK
      <4> QED  BY <4>2, <4>3, <4>4, <4>6
    <3> QED  BY <3>1, <3>2
  <2> QED  BY <1>1, <2>1, <2>2 DEF PollStep
<1>2. CASE RefreshSeen("start") \/ ForceReload \/ ReloadStep("reload")
  BY <1>2, RefreshKeeps, ReloadKeeps, ParseKeeps DEF ReloadStep
<1>3. CASE \E c \in Clicks : Click(c) \/ ClickStep(c)
  <2> PICK c \in Clicks : Click(c) \/ ClickStep(c)  BY <1>3
  <2> QED  BY ClickKeeps, WriteKeeps, PushKeeps, FoldAppliedKeeps, ParseKeeps, RefreshKeeps
           DEF ClickStep, ReloadStep
<1>4. CASE Event \/ SetA11ySink \/ Reconcile  BY <1>4, EventKeeps
<1>5. CASE \E d \in EditDocs : Edit(d)  BY <1>5, EditKeeps
<1>6. CASE UNCHANGED vars
  BY <1>6 DEF vars, IInv, ValuesOK, StepsOK, StampsOK, SeenOK, Covered, OnItsWay,
              fileVars, watchVars, foldVars
<1> QED  BY <1>1, <1>2, <1>3, <1>4, <1>5, <1>6 DEF Next

LEMMA Invariant == Spec => []IInv
<1> QED  BY InitHolds, NextKeeps, PTL DEF Spec

(***************************************************************************)
(* The poll.                                                               *)
(***************************************************************************)
\* No fingerprint is taken as seen whose document was not parsed or is about
\* to be, but the one of a save between a parse and its fingerprint.
THEOREM OverlooksNothingElse == Spec => []SeenIsAnswered
<1>1. IInv => SeenIsAnswered
  BY DEF IInv, SeenOK, Covered, SeenIsAnswered, Unanswered
<1> QED  BY <1>1, Invariant, PTL

(***************************************************************************)
(* The fold.                                                               *)
(***************************************************************************)
LEMMA FoldServes ==
  ASSUME Fold
  PROVE  applied' = current /\ menu' = OnMenu(applied')
BY DEF Fold

\* The menu's marks are the values in force outside a click's own window.
THEOREM MenuIsTrue == Spec => []MenuTellsApplied
<1> USE ProcNames
<1>1. Init => MenuTellsApplied
  BY DEF Init, MenuTellsApplied, OnMenu
<1>2. IInv /\ MenuTellsApplied /\ [Next]_vars => MenuTellsApplied'
  <2> SUFFICES ASSUME IInv, MenuTellsApplied, [Next]_vars PROVE MenuTellsApplied'  OBVIOUS
  <2>1. CASE Event \/ \E c \in Clicks : FoldApplied(c)
    <3>1. menu' = OnMenu(applied')  BY <2>1, FoldServes DEF Event, FoldApplied
    <3> QED  BY <3>1 DEF MenuTellsApplied, OnMenu
  <2>2. CASE \E c \in Clicks : PushMenu(c)
    <3> PICK c \in Clicks : PushMenu(c)  BY <2>2
    <3> QED  BY DEF PushMenu, At, MenuTellsApplied, IInv, StepsOK
  <2>3. ASSUME UNCHANGED <<menu, applied>>,
               \A k \in Clicks : \/ pc'[k] = pc[k]
                                 \/ pc[k] \notin {"lock", "refresh", "fold"}
                                 \/ pc'[k] \in {"lock", "refresh", "fold"}
        PROVE  MenuTellsApplied'
    BY <2>3 DEF MenuTellsApplied
  <2>4. CASE PollStep \/ RefreshSeen("start") \/ ForceReload \/ ReloadStep("reload")
    <3>1. UNCHANGED <<menu, applied>> /\ \A k \in Clicks : pc'[k] = pc[k]
      BY <2>4 DEF PollStep, PollReadSeen, PollStat, PollLock, PollRemember, Parse, ForceReload,
                  ReloadStep, RefreshSeen, At, foldVars, IInv, StepsOK
    <3> QED  BY <3>1, <2>3
  <2>5. CASE \E c \in Clicks : \/ Click(c) \/ LoadDocument(c) \/ WriteFails(c)
                               \/ WriteDocument(c) \/ ReloadStep(c)
    <3> PICK c \in Clicks : \/ Click(c) \/ LoadDocument(c) \/ WriteFails(c)
                            \/ WriteDocument(c) \/ ReloadStep(c)  BY <2>5
    <3>1. UNCHANGED <<menu, applied>>
      BY DEF Click, LoadDocument, WriteFails, WriteDocument, ReloadStep, Parse, RefreshSeen, foldVars
    <3>2. \/ pc' = pc
          \/ pc[c] \in {"idle", "load", "write"} /\ \E s \in StepNames : pc' = [pc EXCEPT ![c] = s]
          \/ \E s \in {"refresh", "fold"} : pc' = [pc EXCEPT ![c] = s]
      BY DEF Click, LoadDocument, WriteFails, WriteDocument, ReloadStep, Parse, RefreshSeen, At,
             StepNames
    <3> QED  BY <3>1, <3>2, <2>3 DEF IInv, StepsOK
  <2>6. CASE SetA11ySink \/ Reconcile \/ (\E d \in EditDocs : Edit(d)) \/ UNCHANGED vars
    <3>1. UNCHANGED <<menu, applied, pc>>
      BY <2>6 DEF SetA11ySink, Reconcile, Edit, vars, foldVars
    <3> QED  BY <3>1, <2>3
  <2> QED  BY <2>1, <2>2, <2>4, <2>5, <2>6 DEF Next, ClickStep
<1> QED  BY <1>1, <1>2, Invariant, PTL DEF Spec

(***************************************************************************)
(* The reconciler behind the fold.                                         *)
(***************************************************************************)
LEMMA BooleanKey == ASSUME NEW v \in Values PROVE v["a11y"] \in BOOLEAN
BY DEF Values, Keys

\* The pipeline drives the reconciler by its own steps only.
LEMMA StepsOfTheReconciler == IInv /\ [Next]_vars => [A11yNext]_a11yVars
<1> SUFFICES ASSUME IInv, [Next]_vars PROVE [A11yNext]_a11yVars  OBVIOUS
<1> USE DEF A11yNext
<1>1. ASSUME Fold PROVE [A11yNext]_a11yVars
  <2>1. current["a11y"] \in BOOLEAN  BY BooleanKey DEF IInv, ValuesOK
  <2> QED  BY <1>1, <2>1 DEF Fold, PushA11y
<1>2. CASE Event \/ \E c \in Clicks : FoldApplied(c)
  BY <1>1, <1>2 DEF Event, FoldApplied
<1>3. CASE SetA11ySink  BY <1>3 DEF SetA11ySink
<1>4. CASE Reconcile  BY <1>4 DEF Reconcile
<1>5. CASE PollStep \/ RefreshSeen("start") \/ ForceReload \/ ReloadStep("reload")
  BY <1>5 DEF PollStep, PollReadSeen, PollStat, PollLock, PollRemember, Parse, ForceReload,
              ReloadStep, RefreshSeen
<1>6. CASE \E c \in Clicks : \/ Click(c) \/ LoadDocument(c) \/ WriteFails(c)
                             \/ WriteDocument(c) \/ PushMenu(c) \/ ReloadStep(c)
  BY <1>6 DEF Click, LoadDocument, WriteFails, WriteDocument, PushMenu, ReloadStep, Parse,
              RefreshSeen
<1>7. CASE (\E d \in EditDocs : Edit(d)) \/ UNCHANGED vars
  BY <1>7 DEF Edit, vars
<1> QED  BY <1>2, <1>3, <1>4, <1>5, <1>6, <1>7 DEF Next, ClickStep

THEOREM DrivesTheReconciler == Spec => A11ySpec
<1>1. Init => A11yInit  BY DEF Init
<1> QED  BY <1>1, StepsOfTheReconciler, Invariant, PTL DEF Spec, A11ySpec

\* Every series keeps what the desktop is owed.
LEMMA OwedIsKept ==
  /\ A11yInit => A11yTypeOK /\ ConvergenceOwed
  /\ A11yTypeOK /\ ConvergenceOwed /\ [A11yNext]_a11yVars => (A11yTypeOK /\ ConvergenceOwed)'
<1> USE DEF A11yTypeOK, ConvergenceOwed, NoSeries, SeriesSteps
<1>0. NoSeries.at = "none" /\ NoSeries \in [for: BOOLEAN, at: SeriesSteps]  OBVIOUS
<1>1. A11yInit => A11yTypeOK /\ ConvergenceOwed
  <2> SUFFICES ASSUME A11yInit PROVE A11yTypeOK /\ ConvergenceOwed  OBVIOUS
  <2>1. desired \in BOOLEAN /\ lastApplied \in BOOLEAN  BY Zenon DEF A11yInit
  <2>2. waiting \in [BOOLEAN -> Nat]  BY DEF A11yInit
  <2>3. series \in [for: BOOLEAN, at: SeriesSteps]  BY <1>0, Zenon DEF A11yInit
  <2>4. desired = lastApplied  BY Zenon DEF A11yInit
  <2> QED  BY <2>1, <2>2, <2>3, <2>4, Zenon
<1>2. ASSUME A11yTypeOK, ConvergenceOwed, [A11yNext]_a11yVars
      PROVE  (A11yTypeOK /\ ConvergenceOwed)'
  <2>1. CASE \E active \in BOOLEAN : Apply(active)
    BY <1>2, <2>1 DEF Apply
  <2>2. CASE \E active \in BOOLEAN : StartSeries(active)
    BY <1>2, <2>2 DEF StartSeries
  <2>3. CASE Gate
    <3>1. UNCHANGED <<desired, waiting>> /\ series.at = "gate"  BY <2>3 DEF Gate
    <3>2. CASE series.for # desired \/ series.for = lastApplied
      <4>1. series' = NoSeries /\ lastApplied' = lastApplied  BY <2>3, <3>2 DEF Gate
      <4>2. desired # lastApplied => waiting[desired] > 0
        BY <1>2, <3>1, <3>2
      <4> QED  BY <1>0, <1>2, <3>1, <4>1, <4>2, Zenon
    <3>3. CASE series.for = desired /\ series.for # lastApplied /\ series.for
      <4>1. series' = [series EXCEPT !.at = "read"] /\ lastApplied' = lastApplied
        BY <2>3, <3>3 DEF Gate
      <4>2. series' \in [for: BOOLEAN, at: SeriesSteps] /\ series'.for = series.for /\ series'.at = "read"
        BY <1>2, <4>1
      <4>3. A11yTypeOK'  BY <1>2, <3>1, <4>1, <4>2, Zenon
      <4>4. ConvergenceOwed'  BY <3>1, <3>3, <4>2
      <4> QED  BY <4>3, <4>4
    <3>4. CASE series.for = desired /\ series.for # lastApplied /\ ~series.for
      <4>1. series' = NoSeries /\ lastApplied' = FALSE  BY <2>3, <3>4 DEF Gate
      <4>2. desired' = FALSE  BY <1>2, <3>1, <3>4
      <4> QED  BY <1>0, <1>2, <3>1, <4>1, <4>2, Zenon
    <3> QED  BY <3>2, <3>3, <3>4
  <2>4. CASE ReadKey \/ SetKey  BY <1>2, <2>4 DEF ReadKey, SetKey
  <2>5. CASE Record  BY <1>2, <2>5 DEF Record
  <2>6. CASE UNCHANGED a11yVars  BY <1>2, <2>6 DEF a11yVars
  <2> QED  BY <1>2, <2>1, <2>2, <2>3, <2>4, <2>5, <2>6 DEF A11yNext, A11yStep, SeriesNext
<1> QED  BY <1>1, <1>2

\* Whatever the order of the series, a desired state the desktop has not
\* converged to has a series to come.
THEOREM Converges == Spec => []ConvergenceOwed
<1>1. A11ySpec => [](A11yTypeOK /\ ConvergenceOwed)  BY OwedIsKept, PTL DEF A11ySpec
<1> QED  BY <1>1, DrivesTheReconciler, PTL

\* What the actor was told is what the reconciler works towards.
THEOREM DesiredFollows == Spec => []DesiredIsApplied
<1>1. Init => DesiredIsApplied  BY DEF Init, A11yInit, DesiredIsApplied
<1>2. IInv /\ DesiredIsApplied /\ [Next]_vars => DesiredIsApplied'
  <2> SUFFICES ASSUME IInv, DesiredIsApplied, [Next]_vars PROVE DesiredIsApplied'  OBVIOUS
  <2>1. ASSUME Fold, UNCHANGED sink PROVE DesiredIsApplied'
    <3>1. CASE sink /\ current["a11y"] # applied["a11y"]
      <4>1. desired' = current["a11y"]  BY <2>1, <3>1 DEF Fold, PushA11y, Apply
      <4>2. current["a11y"] \in BOOLEAN  BY BooleanKey DEF IInv, ValuesOK
      <4> QED  BY <2>1, <3>1, <4>1, <4>2 DEF Fold, PushA11y, DesiredIsApplied
    <3>2. CASE ~(sink /\ current["a11y"] # applied["a11y"])
      <4>1. desired' = desired /\ applied' = current  BY <2>1, <3>2 DEF Fold, PushA11y, a11yVars
      <4>2. ~sink \/ current["a11y"] = applied["a11y"]  BY <3>2
      <4>3. CASE ~sink  BY <2>1, <4>1, <4>3 DEF DesiredIsApplied
      <4>4. CASE current["a11y"] = applied["a11y"]  BY <2>1, <4>1, <4>4 DEF DesiredIsApplied
      <4> QED  BY <4>2, <4>3, <4>4
    <3> QED  BY <3>1, <3>2
  <2>2. CASE Event \/ \E c \in Clicks : FoldApplied(c)
    BY <2>1, <2>2 DEF Event, FoldApplied
  <2>3. CASE SetA11ySink
    <3>1. applied["a11y"] \in BOOLEAN  BY BooleanKey DEF IInv, ValuesOK
    <3>2. CASE applied["a11y"]
      <4>0. Apply(TRUE) /\ ~sink /\ sink' = TRUE /\ applied' = applied
        BY <2>3, <3>2 DEF SetA11ySink
      <4>1. desired = FALSE  BY <4>0 DEF DesiredIsApplied
      <4>2. desired' = TRUE  BY <4>0, <4>1 DEF Apply
      <4> QED  BY <3>2, <4>0, <4>2 DEF DesiredIsApplied
    <3>3. CASE ~applied["a11y"]
      <4>1. desired' = desired /\ applied' = applied /\ ~sink
        BY <2>3, <3>3 DEF SetA11ySink, a11yVars
      <4> QED  BY <3>3, <4>1 DEF DesiredIsApplied
    <3> QED  BY <3>2, <3>3
  <2>4. ASSUME UNCHANGED <<desired, sink, applied>> PROVE DesiredIsApplied'
    BY <2>4 DEF DesiredIsApplied
  <2>5. CASE Reconcile
    <3>1. desired' = desired
      BY <2>5 DEF Reconcile, A11yStep, SeriesNext, StartSeries, Gate, ReadKey, SetKey, Record
    <3> QED  BY <2>5, <3>1, <2>4 DEF Reconcile, foldVars
  <2>6. CASE PollStep \/ RefreshSeen("start") \/ ForceReload \/ ReloadStep("reload")
    <3>1. UNCHANGED <<foldVars, a11yVars>>
      BY <2>6 DEF PollStep, PollReadSeen, PollStat, PollLock, PollRemember, Parse, ForceReload,
                  ReloadStep, RefreshSeen
    <3> QED  BY <3>1, <2>4 DEF foldVars, a11yVars
  <2>7. CASE \E c \in Clicks : \/ Click(c) \/ LoadDocument(c) \/ WriteFails(c)
                               \/ WriteDocument(c) \/ PushMenu(c) \/ ReloadStep(c)
    <3>1. UNCHANGED <<desired, sink, applied>>
      BY <2>7 DEF Click, LoadDocument, WriteFails, WriteDocument, PushMenu, ReloadStep, Parse,
                  RefreshSeen, foldVars, a11yVars
    <3> QED  BY <3>1, <2>4
  <2>8. CASE (\E d \in EditDocs : Edit(d)) \/ UNCHANGED vars
    <3>1. UNCHANGED <<desired, sink, applied>>  BY <2>8 DEF Edit, vars, foldVars, a11yVars
    <3> QED  BY <3>1, <2>4
  <2> QED  BY <2>2, <2>3, <2>5, <2>6, <2>7, <2>8 DEF Next, ClickStep
<1> QED  BY <1>1, <1>2, Invariant, PTL DEF Spec
=============================================================================
