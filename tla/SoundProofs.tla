---------------------------- MODULE SoundProofs -----------------------------
(***************************************************************************)
(* However many tones, changes and failures there are, a system that is    *)
(* muted has no connection once its stop is answered.  Behind the idle     *)
(* worker of the property stands the worker at work: no tone that is still *)
(* to dial, to open or to write passed a gate that is closed now, unless   *)
(* the stop behind it is still to be answered.  A second invariant stands  *)
(* behind the other properties: for each setting the last unread line, or  *)
(* the value in force when none is unread, is the desktop's; and the last  *)
(* of the loads at work, or the snapshot when none is, is the newest.      *)
(***************************************************************************)
EXTENDS Sound, TLAPS

Answered == muted /\ watch.at \notin {"stop", "halt"} /\ ~control
NoTonePasses == Answered => conn = None /\ worker.at \notin {"dial", "open", "write"}
Fields == "at" \in DOMAIN watch /\ "at" \in DOMAIN worker
IInv == NoTonePasses /\ Fields

LEMMA Initially == Init => IInv
BY DEF Init, IInv, NoTonePasses, Answered, Fields, Idle

LEMMA Inductive == IInv /\ [Next]_vars => IInv'
<1> SUFFICES ASSUME IInv, [Next]_vars PROVE IInv' OBVIOUS
<1> USE DEF IInv, NoTonePasses, Answered, Fields
<1>1. CASE Flip \/ AutoCorrect \/ SetAutocorrectEvent \/ FinishLoad
  <2>1. UNCHANGED <<watch, muted, control, worker, conn>>
    BY <1>1 DEF Flip, AutoCorrect, Enqueue, SetAutocorrectEvent, FinishLoad
  <2> QED BY <2>1
<1>2. CASE FoldSound
  <2>1. UNCHANGED <<watch, muted, worker, conn>> /\ (control' = TRUE \/ UNCHANGED control)
    BY <1>2 DEF FoldSound, Stop
  <2> QED BY <2>1
<1>3. CASE ReadTheme \/ StartMonitor \/ MonitorEnded
  <2>1. UNCHANGED <<muted, control, worker, conn>> /\ watch.at \notin {"stop", "halt"} /\ "at" \in DOMAIN watch'
    BY <1>3 DEF ReadTheme, StartMonitor, MonitorEnded
  <2> QED BY <2>1
<1>4. CASE ReadEventSounds
  <2>1. UNCHANGED <<worker, conn, control>> BY <1>4 DEF ReadEventSounds, SetEventSounds
  <2>2. "at" \in DOMAIN watch' /\ (muted' => watch'.at = "stop")
    <3>1. CASE SetEventSounds(desktop.on, watch, "start", "stop")
      BY <3>1 DEF SetEventSounds
    <3>2. CASE SetEventSounds(TRUE, [watch EXCEPT !.missed = TRUE], "start", "stop")
      BY <3>2 DEF SetEventSounds
    <3> QED BY <1>4, <3>1, <3>2 DEF ReadEventSounds
  <2> QED BY <2>1, <2>2
<1>5. CASE EventSoundsStop
  <2>1. control' = TRUE /\ UNCHANGED worker /\ "at" \in DOMAIN watch'
    BY <1>5 DEF EventSoundsStop, Stop
  <2> QED BY <2>1
<1>6. CASE ScanLine
  <2> DEFINE line == Head(watch.lines)
             rest == [watch EXCEPT !.lines = Tail(@)]
  <2>1. UNCHANGED <<worker, conn, control>> /\ watch.at = "scan" BY <1>6 DEF ScanLine, SetEventSounds
  <2>2. "at" \in DOMAIN watch' /\ ((UNCHANGED muted) \/ (muted' => watch'.at = "halt"))
    <3>1. CASE watch' = rest /\ UNCHANGED muted BY <3>1
    <3>2. CASE SetEventSounds(line.val, rest, "scan", "halt")
      BY <3>2 DEF SetEventSounds
    <3> QED BY <1>6, <3>1, <3>2 DEF ScanLine
  <2> QED BY <2>1, <2>2
<1>7. CASE MonitorExits \/ DesktopChanges
  <2>1. UNCHANGED <<muted, control, worker, conn>> BY <1>7 DEF MonitorExits, DesktopChanges
  <2>2. "at" \in DOMAIN watch' /\ watch'.at = watch.at
    BY <1>7 DEF MonitorExits, DesktopChanges, Changes
  <2> QED BY <2>1, <2>2
<1>8. CASE TakeStop BY <1>8 DEF TakeStop
<1>9. CASE TakeTone BY <1>9 DEF TakeTone, Idle
<1>10. CASE FoldTone
  <2>1. UNCHANGED <<watch, muted, control, conn>> BY <1>10 DEF FoldTone
  <2>2. "at" \in DOMAIN worker' /\ (muted => worker'.at = "idle") BY <1>10 DEF FoldTone, Idle
  <2> QED BY <2>1, <2>2
<1>11. CASE Dial \/ OpenStream \/ Write
  <2>1. UNCHANGED <<watch, muted, control>> /\ worker.at \in {"dial", "open", "write"}
    BY <1>11 DEF Dial, OpenStream, Write, RestOfPlay
  <2>2. "at" \in DOMAIN worker' BY <1>11 DEF Dial, OpenStream, Write, Plays, Idle
  <2> QED BY <2>1, <2>2
<1>12. CASE UNCHANGED vars BY <1>12 DEF vars
<1> QED BY <1>1, <1>2, <1>3, <1>4, <1>5, <1>6, <1>7, <1>8, <1>9, <1>10, <1>11, <1>12
      DEF Next, Watch, Work

\* However a tone, the mute and the unmute interleave, an idle worker that
\* has answered the stop holds no connection while the system is muted.
THEOREM MutedIsSilent == Spec => []SystemMuteCloses
<1>1. IInv => SystemMuteCloses BY DEF IInv, NoTonePasses, Answered, SystemMuteCloses
<1>2. IInv /\ [Next]_vars => IInv' BY Inductive
<1> QED BY Initially, <1>1, <1>2, PTL DEF Spec

(***************************************************************************)
(* Types, the sound switch, the desktop's settings and the loads.          *)
(***************************************************************************)
WatchSteps == {"theme", "switch", "stop", "start", "scan", "halt"}
WorkerSteps == {"idle", "fold", "dial", "open", "write"}
DesktopOK == desktop \in [on: BOOLEAN, theme: Themes]
WatchOK == watch \in [at: WatchSteps, live: BOOLEAN, lines: Seq(Lines), missed: BOOLEAN]
QueuesOK == muted \in BOOLEAN /\ control \in BOOLEAN /\ toneCh \in Tones \cup {None}
WorkerOK ==
  /\ worker \in [at: WorkerSteps, tone: Tones \cup {None}, format: Formats \cup {None}]
  /\ conn \in Formats \cup {None, "dialled"}
  /\ (worker.at = "write" => conn = worker.format) /\ (worker.at = "open" => conn # None)
DocOK == doc \in [on: BOOLEAN, ac: Events, queued: BOOLEAN]
Snapshots == {<< >>} \cup [theme: Themes, ac: Events, got: SUBSET Tones]
CacheOK == cache \in [theme: Themes, snap: Snapshots, loads: Seq(Loads), overtook: BOOLEAN]
SpentOK == spent \in [tones: 0..MaxTones, changes: 0..MaxChanges, faults: 0..MaxFaults]
Types == DesktopOK /\ WatchOK /\ QueuesOK /\ WorkerOK /\ DocOK /\ CacheOK /\ SpentOK

\* Behind a switch turned off with no tone queued nothing is left to play.
SwitchedOff ==
  ~doc.on /\ ~doc.queued => toneCh = None /\ (~control => conn = None /\ worker.at = "idle")

\* What the unread lines will leave of a setting that is v now.
Leaves(lines, key, v, wanted) ==
  \/ (\A j \in 1..Len(lines) : lines[j].key # key) /\ v = wanted
  \/ \E i \in 1..Len(lines) :
       lines[i].key = key /\ lines[i].val = wanted /\ \A j \in (i + 1)..Len(lines) : lines[j].key # key
SilentMonitor == watch.live \/ watch.lines # << >> => watch.at \in {"scan", "halt"}
ThemeRead == ~watch.missed /\ watch.at \in {"switch", "stop", "start"} => cache.theme = desktop.theme
SwitchRead == ~watch.missed /\ watch.at \in {"stop", "start"} => muted = ~desktop.on
LinesLead ==
  ~watch.missed /\ watch.live =>
    /\ Leaves(watch.lines, "theme", cache.theme, desktop.theme)
    /\ Leaves(watch.lines, "on", ~muted, desktop.on)

Newest ==
  cache.overtook \/
    /\ cache.loads # << >> => Last(cache.loads) = [theme |-> cache.theme, ac |-> doc.ac]
    /\ cache.loads = << >> /\ cache.snap # << >> => cache.snap.theme = cache.theme /\ cache.snap.ac = doc.ac

JInv == Types /\ SwitchedOff /\ SilentMonitor /\ ThemeRead /\ SwitchRead /\ LinesLead /\ Newest

LEMMA Joined ==
  ASSUME NEW x \in Seq(Loads), NEW y \in Seq(Loads)
  PROVE  /\ x \o y \in Seq(Loads) /\ Len(x \o y) = Len(x) + Len(y)
         /\ x \o y = << >> => Len(x) = 0 /\ Len(y) = 0
         /\ y # << >> => Last(x \o y) = Last(y)
BY DEF Last

LEMMA LoadDone ==
  ASSUME NEW q \in Seq(Loads), NEW i \in 1..Len(q)
  PROVE  /\ RemoveAt(q, i) \in Seq(Loads) /\ Len(RemoveAt(q, i)) = Len(q) - 1
         /\ RemoveAt(q, i) = << >> => i = 1 /\ Len(q) = 1
         /\ RemoveAt(q, i) # << >> /\ i # Len(q) => Last(RemoveAt(q, i)) = Last(q)
<1>1. Len(q) \in Int /\ i \in Int /\ 1 <= i /\ i <= Len(q) OBVIOUS
<1>2. SubSeq(q, 1, i - 1) \in Seq(Loads) /\ Len(SubSeq(q, 1, i - 1)) = i - 1 OBVIOUS
<1>3. SubSeq(q, i + 1, Len(q)) \in Seq(Loads) /\ Len(SubSeq(q, i + 1, Len(q))) = Len(q) - i OBVIOUS
<1>4. i # Len(q) => SubSeq(q, i + 1, Len(q)) # << >> /\ Last(SubSeq(q, i + 1, Len(q))) = Last(q)
  <2> SUFFICES ASSUME i # Len(q)
               PROVE  SubSeq(q, i + 1, Len(q)) # << >> /\ Last(SubSeq(q, i + 1, Len(q))) = Last(q)
    OBVIOUS
  <2>1. Len(q) - i >= 1 BY <1>1
  <2>2. SubSeq(q, i + 1, Len(q))[Len(q) - i] = q[Len(q)] BY <1>1, <2>1
  <2>3. \A b \in Seq(Loads) : Len(b) >= 1 => b # << >> OBVIOUS
  <2>4. SubSeq(q, i + 1, Len(q)) # << >> BY <1>3, <2>1, <2>3, Zenon
  <2> QED BY <1>3, <2>2, <2>4, Zenon DEF Last
<1>5. \A a, b \in Seq(Loads) : Len(a) = i - 1 /\ Len(b) = Len(q) - i /\ a \o b = << >> =>
        i = 1 /\ Len(q) = 1
  BY <1>1, Joined
<1>6. RemoveAt(q, i) = SubSeq(q, 1, i - 1) \o SubSeq(q, i + 1, Len(q)) BY Zenon DEF RemoveAt
<1>7. RemoveAt(q, i) \in Seq(Loads) BY <1>2, <1>3, <1>6, Joined, Zenon
<1>8. RemoveAt(q, i) = << >> => i = 1 /\ Len(q) = 1 BY <1>2, <1>3, <1>5, <1>6, Zenon
<1>9. i # Len(q) => Last(RemoveAt(q, i)) = Last(q) BY <1>2, <1>3, <1>4, <1>6, Joined, ZenonT(60)
<1>10. Len(RemoveAt(q, i)) = (i - 1) + (Len(q) - i) BY <1>2, <1>3, <1>6, Joined, Zenon
<1> QED BY <1>1, <1>7, <1>8, <1>9, <1>10

LEMMA LoadAppended ==
  ASSUME NEW q \in Seq(Loads), NEW l \in Loads
  PROVE  Append(q, l) \in Seq(Loads) /\ Append(q, l) # << >> /\ Last(Append(q, l)) = l
BY DEF Last

(***************************************************************************)
(* The lines: a written one is the last of its key, a read one leaves the  *)
(* rest as it was, and its value in force when it was the last.            *)
(***************************************************************************)
LEMMA LineWritten ==
  ASSUME NEW q \in Seq(Lines), NEW l \in Lines, NEW k, NEW v, NEW w,
         k = l.key => w = l.val, k # l.key => Leaves(q, k, v, w)
  PROVE  Append(q, l) \in Seq(Lines) /\ Append(q, l) # << >> /\ Leaves(Append(q, l), k, v, w)
<1>1. /\ Append(q, l) \in Seq(Lines) /\ Len(Append(q, l)) = Len(q) + 1 /\ Append(q, l) # << >>
      /\ Append(q, l)[Len(q) + 1] = l /\ Len(q) \in Nat
      /\ \A j \in 1..Len(q) : Append(q, l)[j] = q[j]
  OBVIOUS
<1>2. CASE k = l.key
  <2>1. Len(q) + 1 \in 1..Len(Append(q, l)) BY <1>1
  <2>2. (Len(q) + 1 + 1)..Len(Append(q, l)) = {} BY <1>1
  <2> QED BY <1>1, <1>2, <2>1, <2>2, Zenon DEF Leaves
<1>3. CASE k # l.key
  <2>1. CASE (\A j \in 1..Len(q) : q[j].key # k) /\ v = w
    <3>1. \A j \in 1..(Len(q) + 1) : j \in 1..Len(q) \/ j = Len(q) + 1 BY <1>1
    <3> QED BY <1>1, <1>3, <2>1, <3>1, Zenon DEF Leaves
  <2>2. CASE \E n \in 1..Len(q) :
               q[n].key = k /\ q[n].val = w /\ \A j \in (n + 1)..Len(q) : q[j].key # k
    <3>1. PICK n \in 1..Len(q) :
            q[n].key = k /\ q[n].val = w /\ \A j \in (n + 1)..Len(q) : q[j].key # k
      BY <2>2
    <3>2. n \in 1..(Len(q) + 1) BY <1>1
    <3>3. \A j \in (n + 1)..(Len(q) + 1) :
            j = Len(q) + 1 \/ (j \in 1..Len(q) /\ j \in (n + 1)..Len(q))
      BY <1>1
    <3>4. \A j \in (n + 1)..Len(Append(q, l)) : Append(q, l)[j].key # k
      BY <1>1, <1>3, <3>1, <3>3, Zenon
    <3>5. n \in 1..Len(Append(q, l)) /\ Append(q, l)[n] = q[n] BY <1>1, <3>2, Zenon
    <3>6. Append(q, l)[n].key = k /\ Append(q, l)[n].val = w BY <3>1, <3>5, Zenon
    <3> QED BY <1>1, <3>4, <3>5, <3>6, Zenon DEF Leaves
  <2> QED BY <1>3, <2>1, <2>2 DEF Leaves
<1> QED BY <1>1, <1>2, <1>3

LEMMA LineRead ==
  ASSUME NEW q \in Seq(Lines), q # << >>, NEW k, NEW v, NEW w, Leaves(q, k, v, w)
  PROVE  Tail(q) \in Seq(Lines) /\ Leaves(Tail(q), k, IF Head(q).key = k THEN Head(q).val ELSE v, w)
<1>1. /\ Tail(q) \in Seq(Lines) /\ Len(Tail(q)) = Len(q) - 1 /\ Len(q) \in Nat /\ Len(q) >= 1
      /\ \A j \in 1..(Len(q) - 1) : Tail(q)[j] = q[j + 1]
      /\ Head(q) = q[1]
  OBVIOUS
<1> DEFINE u == IF Head(q).key = k THEN Head(q).val ELSE v
<1>2. CASE (\A j \in 1..Len(q) : q[j].key # k) /\ v = w
  <2>1. 1 \in 1..Len(q) BY <1>1
  <2>2. \A j \in 1..(Len(q) - 1) : j + 1 \in 1..Len(q) BY <1>1
  <2>3. \A j \in 1..Len(Tail(q)) : Tail(q)[j].key # k BY <1>1, <1>2, <2>2, Zenon
  <2> QED BY <1>1, <1>2, <2>1, <2>3, Zenon DEF Leaves
<1>3. CASE \E n \in 1..Len(q) :
             q[n].key = k /\ q[n].val = w /\ \A j \in (n + 1)..Len(q) : q[j].key # k
  <2>1. PICK n \in 1..Len(q) :
          q[n].key = k /\ q[n].val = w /\ \A j \in (n + 1)..Len(q) : q[j].key # k
    BY <1>3
  <2>2. CASE n = 1
    <3>1. \A j \in 1..(Len(q) - 1) : j + 1 \in (n + 1)..Len(q) BY <1>1, <2>2
    <3>2. \A j \in 1..Len(Tail(q)) : Tail(q)[j].key # k BY <1>1, <2>1, <3>1, Zenon
    <3>3. u = w BY <1>1, <2>1, <2>2, Zenon
    <3> QED BY <1>1, <3>2, <3>3, Zenon DEF Leaves
  <2>3. CASE n # 1
    <3>1. n - 1 \in 1..(Len(q) - 1) /\ (n - 1) + 1 = n BY <1>1, <2>3
    <3>2. Tail(q)[n - 1] = q[n] BY <1>1, <3>1, Zenon
    <3>3. \A j \in ((n - 1) + 1)..(Len(q) - 1) : j \in 1..(Len(q) - 1) /\ j + 1 \in (n + 1)..Len(q)
      BY <1>1
    <3>4. \A j \in ((n - 1) + 1)..Len(Tail(q)) : Tail(q)[j].key # k BY <1>1, <2>1, <3>3, Zenon
    <3> QED BY <1>1, <2>1, <3>1, <3>2, <3>4, Zenon DEF Leaves
  <2> QED BY <2>2, <2>3
<1> QED BY <1>2, <1>3 DEF Leaves

(***************************************************************************)
(* The types.                                                              *)
(***************************************************************************)
LEMMA TypesInitially == Init => Types
<1> SUFFICES ASSUME Init PROVE Types OBVIOUS
<1>1. DesktopOK /\ QueuesOK BY DEF Init, DesktopOK, QueuesOK
<1>0. WatchOK
  <2>1. << >> \in Seq(Lines) OBVIOUS
  <2> QED BY <2>1 DEF Init, WatchOK, WatchSteps
<1>2. WorkerOK BY DEF Init, WorkerOK, Idle, WorkerSteps, None
<1>3. DocOK /\ CacheOK
  BY NamesAssumption DEF Init, DocOK, CacheOK, Snapshots
<1>4. SpentOK BY BoundsAssumption DEF Init, SpentOK
<1> QED BY <1>0, <1>1, <1>2, <1>3, <1>4 DEF Types

LEMMA Spends == ASSUME SpentOK PROVE (Fault \/ Change \/ NoFault) => SpentOK'
BY BoundsAssumption DEF Fault, Change, NoFault, SpentOK

LEMMA LoadTyped ==
  ASSUME CacheOK, NEW theme \in Themes, NEW ac \in Events, Load(theme, ac)
  PROVE  /\ CacheOK' /\ cache'.theme = theme /\ cache'.loads # << >> /\ ~cache'.overtook
         /\ Last(cache'.loads) = [theme |-> theme, ac |-> ac]
<1>1. cache.loads \in Seq(Loads) BY DEF CacheOK
<1>2. [theme |-> theme, ac |-> ac] \in Loads BY DEF Loads
<1>3. cache' = [cache EXCEPT !.theme = theme, !.overtook = FALSE,
                             !.loads = Append(cache.loads, [theme |-> theme, ac |-> ac])]
  BY DEF Load
<1>4. /\ cache'.theme = theme /\ cache'.overtook = FALSE
      /\ cache'.loads = Append(cache.loads, [theme |-> theme, ac |-> ac])
  BY <1>3 DEF CacheOK
<1>5. Append(cache.loads, [theme |-> theme, ac |-> ac]) \in Seq(Loads) BY <1>1, <1>2, LoadAppended
<1>6. CacheOK' BY <1>3, <1>5 DEF CacheOK
<1> QED BY <1>1, <1>2, <1>4, <1>6, LoadAppended

\* What a line says is a value of its key.
LEMMA LineTyped ==
  ASSUME WatchOK, watch.lines # << >>
  PROVE  /\ Head(watch.lines) \in Lines /\ Tail(watch.lines) \in Seq(Lines)
         /\ Head(watch.lines).key = "theme" => Head(watch.lines).val \in Themes
         /\ Head(watch.lines).key = "on" => Head(watch.lines).val \in BOOLEAN
<1>1. watch.lines \in Seq(Lines) BY DEF WatchOK
<1>2. Head(watch.lines) \in Lines /\ Tail(watch.lines) \in Seq(Lines) BY <1>1
<1> QED BY <1>2 DEF Lines

LEMMA TypesKept == Types /\ [Next]_vars => Types'
<1> SUFFICES ASSUME Types, [Next]_vars PROVE Types' OBVIOUS
<1> USE DEF Types
<1>1. CASE Flip \/ AutoCorrect
  <2>1. PICK event \in Tones : Enqueue(event)
    BY <1>1 DEF Flip, AutoCorrect, Tones, DocOK
  <2>2. SpentOK' /\ QueuesOK' BY <2>1, BoundsAssumption DEF Enqueue, SpentOK, QueuesOK
  <2> QED BY <2>1, <2>2 DEF Enqueue, DesktopOK, WatchOK, WorkerOK, DocOK, CacheOK
<1>2. CASE FoldSound
  <2>1. DocOK' /\ QueuesOK' BY <1>2 DEF FoldSound, DocOK, QueuesOK, Stop
  <2>2. UNCHANGED <<desktop, watch, worker, conn, cache>> /\ SpentOK' BY <1>2, Spends DEF FoldSound
  <2> QED BY <2>1, <2>2 DEF DesktopOK, WatchOK, WorkerOK, CacheOK
<1>3. CASE SetAutocorrectEvent
  <2>1. PICK e \in Events : doc' = [doc EXCEPT !.ac = e] /\ Load(cache.theme, e)
    BY <1>3 DEF SetAutocorrectEvent
  <2>2. DocOK' BY <2>1 DEF DocOK
  <2>3. cache.theme \in Themes BY DEF CacheOK
  <2>4. CacheOK' BY <2>1, <2>3, LoadTyped
  <2>5. UNCHANGED <<desktop, watch, muted, control, toneCh, worker, conn>> /\ SpentOK'
    BY <1>3, Spends DEF SetAutocorrectEvent
  <2> QED BY <2>2, <2>4, <2>5 DEF DesktopOK, WatchOK, QueuesOK, WorkerOK
<1>4. CASE FinishLoad
  <2> DEFINE Published(l) ==
               [theme |-> l.theme, ac |-> l.ac,
                got |-> {e \in {"flip", l.ac} : <<l.theme, e>> \in Playable}]
  <2>1. PICK i \in 1..Len(cache.loads) :
          cache' = [cache EXCEPT !.snap = Published(cache.loads[i]), !.loads = RemoveAt(cache.loads, i),
                                 !.overtook = @ \/ (1 < i /\ i = Len(cache.loads))]
    BY <1>4 DEF FinishLoad
  <2>2. cache.loads \in Seq(Loads) BY DEF CacheOK
  <2>3. cache.loads[i] \in Loads BY <2>2
  <2>4. Published(cache.loads[i]) \in Snapshots BY <2>3 DEF Snapshots, Loads, Tones
  <2>5. RemoveAt(cache.loads, i) \in Seq(Loads) BY <2>2, LoadDone
  <2> HIDE DEF Published
  <2>6. CacheOK' BY <2>1, <2>4, <2>5 DEF CacheOK
  <2>7. UNCHANGED <<desktop, watch, muted, control, toneCh, worker, conn, doc, spent>>
    BY <1>4 DEF FinishLoad
  <2> QED BY <2>6, <2>7 DEF DesktopOK, WatchOK, QueuesOK, WorkerOK, DocOK, SpentOK
<1>5. CASE ReadTheme
  <2>1. PICK theme \in Themes : ApplyTheme(theme)
    BY <1>5, NamesAssumption DEF ReadTheme, DesktopOK
  <2>2. CacheOK' BY <2>1, LoadTyped DEF ApplyTheme, DocOK
  <2>3. WatchOK' BY <1>5 DEF ReadTheme, WatchOK, WatchSteps
  <2>4. SpentOK' BY <1>5, Spends DEF ReadTheme
  <2>5. UNCHANGED <<desktop, muted, control, toneCh, worker, conn, doc>> BY <1>5 DEF ReadTheme
  <2> QED BY <2>2, <2>3, <2>4, <2>5 DEF DesktopOK, QueuesOK, WorkerOK, DocOK
<1>6. CASE ReadEventSounds
  <2>1. WatchOK' /\ QueuesOK'
    BY <1>6 DEF ReadEventSounds, SetEventSounds, WatchOK, WatchSteps, QueuesOK, DesktopOK
  <2>2. SpentOK' BY <1>6, Spends DEF ReadEventSounds
  <2>3. UNCHANGED <<desktop, toneCh, worker, conn, doc, cache>> BY <1>6 DEF ReadEventSounds
  <2> QED BY <2>1, <2>2, <2>3 DEF DesktopOK, WorkerOK, DocOK, CacheOK
<1>7. CASE EventSoundsStop \/ MonitorEnded
  <2>1. WatchOK' /\ QueuesOK'
    BY <1>7 DEF EventSoundsStop, MonitorEnded, Stop, WatchOK, WatchSteps, QueuesOK
  <2>2. UNCHANGED <<desktop, worker, conn, doc, cache, spent>>
    BY <1>7 DEF EventSoundsStop, MonitorEnded
  <2> QED BY <2>1, <2>2 DEF DesktopOK, WorkerOK, DocOK, CacheOK, SpentOK
<1>8. CASE StartMonitor \/ MonitorExits
  <2>1. WatchOK' BY <1>8 DEF StartMonitor, MonitorExits, WatchOK, WatchSteps
  <2>2. SpentOK' BY <1>8, Spends DEF StartMonitor, MonitorExits
  <2>3. UNCHANGED <<desktop, muted, control, toneCh, worker, conn, doc, cache>>
    BY <1>8 DEF StartMonitor, MonitorExits
  <2> QED BY <2>1, <2>2, <2>3 DEF DesktopOK, QueuesOK, WorkerOK, DocOK, CacheOK
<1>9. CASE ScanLine
  <2> DEFINE line == Head(watch.lines)
             rest == [watch EXCEPT !.lines = Tail(@)]
  <2>1. watch.lines # << >> /\ UNCHANGED <<desktop, toneCh, worker, conn, doc, spent>>
    BY <1>9 DEF ScanLine
  <2>2. rest \in [at: WatchSteps, live: BOOLEAN, lines: Seq(Lines), missed: BOOLEAN]
    BY <2>1, LineTyped DEF WatchOK
  <2>3. CASE line.key = "theme" /\ ApplyTheme(line.val) /\ watch' = rest /\ UNCHANGED <<muted, control>>
    <3>1. CacheOK' BY <2>1, <2>3, LineTyped, LoadTyped DEF ApplyTheme, DocOK
    <3> QED BY <2>1, <2>2, <2>3, <3>1 DEF DesktopOK, WatchOK, QueuesOK, WorkerOK, DocOK, SpentOK
  <2>4. CASE line.key = "on" /\ SetEventSounds(line.val, rest, "scan", "halt") /\ UNCHANGED cache
    <3>1. QueuesOK' BY <2>1, <2>4, LineTyped DEF SetEventSounds, QueuesOK
    <3> HIDE DEF rest
    <3>2. WatchOK' BY <2>2, <2>4 DEF SetEventSounds, WatchOK, WatchSteps
    <3> QED BY <2>1, <2>4, <3>1, <3>2 DEF DesktopOK, WorkerOK, DocOK, CacheOK, SpentOK
  <2> QED BY <1>9, <2>3, <2>4 DEF ScanLine
<1>10. CASE DesktopChanges
  <2>1. UNCHANGED <<muted, control, toneCh, worker, conn, doc, cache>> /\ SpentOK'
    BY <1>10, Spends DEF DesktopChanges
  <2>2. PICK key, val, unread : [key |-> key, val |-> val] \in Lines /\ Changes(key, val, unread)
    BY <1>10 DEF DesktopChanges, DesktopOK, Lines
  <2>3. WatchOK'
    <3>1. Append(watch.lines, [key |-> key, val |-> val]) \in Seq(Lines)
      BY <2>2, LineTyped DEF WatchOK
    <3>2. (watch.missed \/ watch.at \notin unread) \in BOOLEAN OBVIOUS
    <3> QED BY <2>2, <3>1, <3>2 DEF Changes, WatchOK
  <2>4. DesktopOK' BY <1>10 DEF DesktopChanges, DesktopOK
  <2> QED BY <2>1, <2>3, <2>4 DEF QueuesOK, WorkerOK, DocOK, CacheOK
<1>11. CASE TakeStop \/ TakeTone
  <2>1. WorkerOK' /\ QueuesOK'
    BY <1>11 DEF TakeStop, TakeTone, WorkerOK, QueuesOK, Idle, WorkerSteps, None
  <2> QED BY <1>11, <2>1 DEF TakeStop, TakeTone, DesktopOK, WatchOK, DocOK, CacheOK, SpentOK
<1>12. CASE FoldTone
  <2>1. WorkerOK' BY <1>12 DEF FoldTone, WorkerOK, Idle, WorkerSteps, Streams, Formats, None
  <2> QED BY <1>12, <2>1 DEF FoldTone, DesktopOK, WatchOK, QueuesOK, DocOK, CacheOK, SpentOK
<1>13. CASE Dial \/ OpenStream \/ Write
  <2>1. WorkerOK'
    BY <1>13 DEF Dial, OpenStream, Write, Plays, WorkerOK, Idle, WorkerSteps, Formats, None
  <2>2. UNCHANGED <<desktop, watch, muted, control, toneCh, doc, cache>> /\ SpentOK'
    BY <1>13, Spends DEF Dial, OpenStream, Write, RestOfPlay
  <2> QED BY <2>1, <2>2 DEF DesktopOK, WatchOK, QueuesOK, DocOK, CacheOK
<1>14. CASE UNCHANGED vars
  BY <1>14 DEF vars, DesktopOK, WatchOK, QueuesOK, WorkerOK, DocOK, CacheOK, SpentOK
<1> QED BY <1>1, <1>2, <1>3, <1>4, <1>5, <1>6, <1>7, <1>8, <1>9, <1>10, <1>11, <1>12, <1>13, <1>14
      DEF Next, Watch, Work

(***************************************************************************)
(* The sound switch.                                                       *)
(***************************************************************************)
LEMMA StaysOff == Types /\ SwitchedOff /\ [Next]_vars => SwitchedOff'
<1> SUFFICES ASSUME Types, SwitchedOff, [Next]_vars PROVE SwitchedOff' OBVIOUS
<1> USE DEF SwitchedOff
<1>1. CASE Flip \/ AutoCorrect
  BY <1>1 DEF Flip, AutoCorrect, Enqueue
<1>2. CASE FoldSound
  <2>1. doc'.on = ~doc.on /\ doc'.queued = (toneCh # None) /\ UNCHANGED toneCh
    BY <1>2 DEF FoldSound, Types, DocOK
  <2>2. doc.on => control' BY <1>2 DEF FoldSound, Stop
  <2> QED BY <2>1, <2>2
<1>3. CASE SetAutocorrectEvent
  <2>1. doc'.on = doc.on /\ doc'.queued = doc.queued BY <1>3 DEF SetAutocorrectEvent, Types, DocOK
  <2> QED BY <1>3, <2>1 DEF SetAutocorrectEvent
<1>4. CASE FinishLoad \/ ReadTheme \/ StartMonitor \/ MonitorEnded \/ MonitorExits \/ DesktopChanges
  <2>1. UNCHANGED <<doc, toneCh, control, conn, worker>>
    BY <1>4 DEF FinishLoad, ReadTheme, StartMonitor, MonitorEnded, MonitorExits, DesktopChanges
  <2> QED BY <2>1
<1>5. CASE ReadEventSounds \/ ScanLine
  <2>1. UNCHANGED <<doc, toneCh, control, conn, worker>>
    BY <1>5 DEF ReadEventSounds, ScanLine, SetEventSounds
  <2> QED BY <2>1
<1>6. CASE EventSoundsStop
  BY <1>6 DEF EventSoundsStop, Stop
<1>7. CASE TakeStop
  BY <1>7 DEF TakeStop
<1>8. CASE TakeTone
  BY <1>8 DEF TakeTone
<1>9. CASE FoldTone
  BY <1>9 DEF FoldTone
<1>10. CASE Dial \/ OpenStream \/ Write
  <2>1. worker.at # "idle" /\ UNCHANGED <<doc, toneCh, control>>
    BY <1>10 DEF Dial, OpenStream, Write, RestOfPlay
  <2> QED BY <2>1
<1>11. CASE UNCHANGED vars BY <1>11 DEF vars
<1> QED BY <1>1, <1>2, <1>3, <1>4, <1>5, <1>6, <1>7, <1>8, <1>9, <1>10, <1>11 DEF Next, Watch, Work

(***************************************************************************)
(* The settings.                                                           *)
(***************************************************************************)
Settings == SilentMonitor /\ ThemeRead /\ SwitchRead /\ LinesLead

\* A change under a running monitor is its last line of that key.
LEMMA ChangeHeard ==
  ASSUME Types, NEW key \in {"on", "theme"}, NEW val, [key |-> key, val |-> val] \in Lines,
         NEW unread, Changes(key, val, unread), watch.live
  PROVE  /\ watch'.live /\ watch'.at = watch.at /\ watch'.missed = watch.missed
         /\ \A v : Leaves(watch'.lines, key, v, val)
         /\ \A k, v, w : k # key /\ Leaves(watch.lines, k, v, w) => Leaves(watch'.lines, k, v, w)
<1> DEFINE l == [key |-> key, val |-> val]
<1>1. /\ watch'.live /\ watch'.at = watch.at /\ watch'.missed = watch.missed
      /\ watch'.lines = Append(watch.lines, l)
  BY DEF Changes, Types, WatchOK
<1>2. watch.lines \in Seq(Lines) /\ l \in Lines /\ l.key = key /\ l.val = val
  BY DEF Types, WatchOK
<1> HIDE DEF l
<1>3. ASSUME NEW v PROVE Leaves(Append(watch.lines, l), key, v, val) BY <1>2, LineWritten, Zenon
<1>4. ASSUME NEW k, NEW v, NEW w, k # key, Leaves(watch.lines, k, v, w)
      PROVE  Leaves(Append(watch.lines, l), k, v, w)
  BY <1>2, <1>4, LineWritten, Zenon
<1> QED BY <1>1, <1>3, <1>4, Zenon

LEMMA NothingLeft == ASSUME NEW k, NEW v PROVE Leaves(<< >>, k, v, v)
BY DEF Leaves

LEMMA SettingsKept == Types /\ Settings /\ [Next]_vars => Settings'
<1> SUFFICES ASSUME Types, Settings, [Next]_vars PROVE Settings' OBVIOUS
<1> USE DEF Settings
<1>0. WatchOK /\ DesktopOK /\ muted \in BOOLEAN BY DEF Types, QueuesOK
<1>1. CASE Flip \/ AutoCorrect \/ FoldSound
  <2>1. UNCHANGED <<desktop, watch, muted, cache>>
    BY <1>1 DEF Flip, AutoCorrect, Enqueue, FoldSound
  <2> QED BY <2>1 DEF SilentMonitor, ThemeRead, SwitchRead, LinesLead
<1>2. CASE SetAutocorrectEvent \/ FinishLoad
  <2>1. UNCHANGED <<desktop, watch, muted>> BY <1>2 DEF SetAutocorrectEvent, FinishLoad
  <2>2. cache'.theme = cache.theme
    BY <1>2 DEF SetAutocorrectEvent, FinishLoad, Load, Types, CacheOK
  <2> QED BY <2>1, <2>2 DEF SilentMonitor, ThemeRead, SwitchRead, LinesLead
<1>3. CASE ReadTheme
  <2>1. /\ watch'.at = "switch" /\ watch'.live = watch.live /\ watch'.lines = watch.lines
        /\ watch.at = "theme" /\ watch'.missed \in BOOLEAN
        /\ ~watch'.missed => ApplyTheme(desktop.theme)
    BY <1>0, <1>3 DEF ReadTheme, WatchOK
  <2>2. ~watch'.live /\ watch'.lines = << >> BY <2>1, <1>0 DEF SilentMonitor, WatchOK
  <2>3. UNCHANGED <<desktop, muted>> BY <1>3 DEF ReadTheme
  <2>4. ~watch'.missed => cache'.theme = desktop.theme
    BY <1>0, <2>1, LoadTyped DEF ApplyTheme, Types, DocOK, DesktopOK
  <2> QED BY <2>1, <2>2, <2>3, <2>4 DEF SilentMonitor, ThemeRead, SwitchRead, LinesLead
<1>4. CASE ReadEventSounds
  <2>1. /\ watch'.at \in {"start", "stop"} /\ watch'.live = watch.live /\ watch'.lines = watch.lines
        /\ watch.at = "switch"
        /\ ~watch'.missed => ~watch.missed /\ muted' = ~desktop.on
    BY <1>0, <1>4 DEF ReadEventSounds, SetEventSounds, WatchOK
  <2>2. UNCHANGED <<desktop, cache>> BY <1>4 DEF ReadEventSounds
  <2>3. ~watch'.live /\ watch'.lines = << >> BY <2>1, <1>0 DEF SilentMonitor, WatchOK
  <2> QED BY <2>1, <2>2, <2>3 DEF SilentMonitor, ThemeRead, SwitchRead, LinesLead
<1>5. CASE EventSoundsStop
  <2>1. /\ watch'.live = watch.live /\ watch'.lines = watch.lines /\ watch'.missed = watch.missed
        /\ \/ watch.at = "stop" /\ watch'.at = "start"
           \/ watch.at = "halt" /\ watch'.at = "scan"
    BY <1>0, <1>5 DEF EventSoundsStop, WatchOK
  <2>2. UNCHANGED <<desktop, muted, cache>> BY <1>5 DEF EventSoundsStop
  <2> QED BY <2>1, <2>2 DEF SilentMonitor, ThemeRead, SwitchRead, LinesLead
<1>6. CASE StartMonitor
  <2>1. UNCHANGED <<desktop, muted, cache>> /\ watch.at = "start" BY <1>6 DEF StartMonitor
  <2>2. ~watch.live /\ watch.lines = << >> BY <2>1, <1>0 DEF SilentMonitor, WatchOK
  <2>3. CASE watch' = [watch EXCEPT !.at = "scan", !.live = TRUE]
    <3>1. /\ watch'.at = "scan" /\ watch'.live /\ watch'.lines = << >> /\ watch'.missed = watch.missed
      BY <1>0, <2>2, <2>3 DEF WatchOK
    <3>2. ~watch.missed => cache.theme = desktop.theme /\ (~muted) = desktop.on
      BY <1>0, <2>1 DEF ThemeRead, SwitchRead, DesktopOK
    <3>3. LinesLead' BY <2>1, <3>1, <3>2, NothingLeft DEF LinesLead
    <3> QED BY <3>1, <3>3 DEF SilentMonitor, ThemeRead, SwitchRead
  <2>4. CASE watch' = [watch EXCEPT !.at = "theme"]
    <3>1. watch'.at = "theme" /\ ~watch'.live /\ watch'.lines = << >>
      BY <1>0, <2>2, <2>4 DEF WatchOK
    <3> QED BY <3>1 DEF SilentMonitor, ThemeRead, SwitchRead, LinesLead
  <2> QED BY <1>6, <2>3, <2>4 DEF StartMonitor
<1>7. CASE ScanLine
  <2> DEFINE line == Head(watch.lines)
             rest == [watch EXCEPT !.lines = Tail(@)]
  <2>1. watch.lines # << >> /\ watch.at = "scan" /\ UNCHANGED desktop BY <1>7 DEF ScanLine
  <2>2. watch.lines \in Seq(Lines) BY <1>0 DEF WatchOK
  <2>3. /\ watch'.live = watch.live /\ watch'.missed = watch.missed
        /\ watch'.lines = Tail(watch.lines) /\ watch'.at \in {"scan", "halt"}
    <3>1. /\ rest.live = watch.live /\ rest.missed = watch.missed
          /\ rest.lines = Tail(watch.lines) /\ rest.at = "scan"
          /\ rest \in [at: WatchSteps, live: BOOLEAN, lines: Seq(Lines), missed: BOOLEAN]
      BY <1>0, <2>1, LineTyped DEF WatchOK
    <3> HIDE DEF rest
    <3>2. CASE watch' = rest BY <3>1, <3>2
    <3>3. CASE SetEventSounds(line.val, rest, "scan", "halt")
      BY <3>1, <3>3 DEF SetEventSounds
    <3> QED BY <1>7, <3>2, <3>3 DEF ScanLine, rest
  <2>4. /\ cache'.theme = IF line.key = "theme" THEN line.val ELSE cache.theme
        /\ (~muted') = IF line.key = "on" THEN line.val ELSE ~muted
    <3>1. CASE line.key = "theme" /\ ApplyTheme(line.val) /\ UNCHANGED <<muted, control>>
      BY <1>0, <2>1, <3>1, LineTyped, LoadTyped DEF ApplyTheme, Types, DocOK
    <3>2. CASE line.key = "on" /\ SetEventSounds(line.val, rest, "scan", "halt") /\ UNCHANGED cache
      <4>1. line.val \in BOOLEAN BY <1>0, <2>1, <3>2, LineTyped
      <4> QED BY <3>2, <4>1 DEF SetEventSounds
    <3> QED BY <1>7, <3>1, <3>2 DEF ScanLine
  <2>5. ASSUME ~watch.missed, watch.live
        PROVE  /\ Leaves(watch'.lines, "theme", cache'.theme, desktop'.theme)
               /\ Leaves(watch'.lines, "on", ~muted', desktop'.on)
    <3>1. /\ Leaves(watch.lines, "theme", cache.theme, desktop.theme)
          /\ Leaves(watch.lines, "on", ~muted, desktop.on)
      BY <2>5 DEF LinesLead
    <3>2. Leaves(Tail(watch.lines), "theme", IF line.key = "theme" THEN line.val ELSE cache.theme, desktop.theme)
      BY <2>1, <2>2, <3>1, LineRead, Zenon
    <3>3. Leaves(Tail(watch.lines), "on", IF line.key = "on" THEN line.val ELSE ~muted, desktop.on)
      BY <2>1, <2>2, <3>1, LineRead, Zenon
    <3> QED BY <2>1, <2>3, <2>4, <3>2, <3>3, Zenon
  <2> QED BY <2>3, <2>5 DEF SilentMonitor, ThemeRead, SwitchRead, LinesLead
<1>8. CASE MonitorEnded
  <2>1. /\ watch'.live = watch.live /\ watch'.lines = watch.lines /\ ~watch.live /\ watch.lines = << >>
        /\ watch'.at = "theme"
    BY <1>0, <1>8 DEF MonitorEnded, WatchOK
  <2> QED BY <2>1 DEF SilentMonitor, ThemeRead, SwitchRead, LinesLead
<1>9. CASE MonitorExits
  <2>1. /\ ~watch'.live /\ watch'.at = watch.at /\ watch.live
        /\ UNCHANGED <<desktop, muted, cache>>
    BY <1>0, <1>9 DEF MonitorExits, WatchOK
  <2> QED BY <2>1 DEF SilentMonitor, ThemeRead, SwitchRead, LinesLead
<1>10. CASE DesktopChanges
  <2>1. UNCHANGED <<muted, cache>> BY <1>10 DEF DesktopChanges
  <2>2. CASE desktop' = [desktop EXCEPT !.on = ~@] /\ Changes("on", ~desktop.on, {"scan", "halt", "theme", "switch"})
    <3>1. desktop'.on = ~desktop.on /\ desktop'.theme = desktop.theme BY <1>0, <2>2 DEF DesktopOK
    <3>2. CASE watch.live
      <4>1. [key |-> "on", val |-> ~desktop.on] \in Lines BY DEF Lines
      <4>2. /\ watch'.live /\ watch'.at = watch.at /\ watch'.missed = watch.missed
            /\ \A v : Leaves(watch'.lines, "on", v, ~desktop.on)
            /\ \A k, v, w : k # "on" /\ Leaves(watch.lines, k, v, w) => Leaves(watch'.lines, k, v, w)
        BY <2>2, <3>2, <4>1, ChangeHeard
      <4> QED BY <2>1, <3>1, <3>2, <4>2 DEF SilentMonitor, ThemeRead, SwitchRead, LinesLead
    <3>3. CASE ~watch.live
      <4>1. /\ watch'.live = watch.live /\ watch'.at = watch.at /\ watch'.lines = watch.lines
            /\ ~watch'.missed => ~watch.missed /\ watch.at \in {"scan", "halt", "theme", "switch"}
        BY <1>0, <2>2, <3>3 DEF Changes, WatchOK
      <4> QED BY <2>1, <3>1, <3>3, <4>1 DEF SilentMonitor, ThemeRead, SwitchRead, LinesLead
    <3> QED BY <3>2, <3>3
  <2>3. CASE \E t \in Themes \ {desktop.theme} :
               desktop' = [desktop EXCEPT !.theme = t] /\ Changes("theme", t, {"scan", "halt", "theme"})
    <3>0. PICK t \in Themes :
            desktop' = [desktop EXCEPT !.theme = t] /\ Changes("theme", t, {"scan", "halt", "theme"})
      BY <2>3
    <3>1. desktop'.theme = t /\ desktop'.on = desktop.on BY <1>0, <3>0 DEF DesktopOK
    <3>2. CASE watch.live
      <4>1. [key |-> "theme", val |-> t] \in Lines BY DEF Lines
      <4>2. /\ watch'.live /\ watch'.at = watch.at /\ watch'.missed = watch.missed
            /\ \A v : Leaves(watch'.lines, "theme", v, t)
            /\ \A k, v, w : k # "theme" /\ Leaves(watch.lines, k, v, w) => Leaves(watch'.lines, k, v, w)
        BY <3>0, <3>2, <4>1, ChangeHeard
      <4> QED BY <2>1, <3>1, <3>2, <4>2 DEF SilentMonitor, ThemeRead, SwitchRead, LinesLead
    <3>3. CASE ~watch.live
      <4>1. /\ watch'.live = watch.live /\ watch'.at = watch.at /\ watch'.lines = watch.lines
            /\ ~watch'.missed => ~watch.missed /\ watch.at \in {"scan", "halt", "theme"}
        BY <1>0, <3>0, <3>3 DEF Changes, WatchOK
      <4> QED BY <2>1, <3>1, <3>3, <4>1 DEF SilentMonitor, ThemeRead, SwitchRead, LinesLead
    <3> QED BY <3>2, <3>3
  <2> QED BY <1>10, <2>2, <2>3 DEF DesktopChanges
<1>11. CASE Work
  <2>1. UNCHANGED <<desktop, watch, muted, cache>>
    BY <1>11 DEF Work, TakeStop, TakeTone, FoldTone, Dial, OpenStream, Write, RestOfPlay
  <2> QED BY <2>1 DEF SilentMonitor, ThemeRead, SwitchRead, LinesLead
<1>12. CASE UNCHANGED vars BY <1>12 DEF vars, SilentMonitor, ThemeRead, SwitchRead, LinesLead
<1> QED BY <1>1, <1>2, <1>3, <1>4, <1>5, <1>6, <1>7, <1>8, <1>9, <1>10, <1>11, <1>12 DEF Next, Watch

(***************************************************************************)
(* The loads.                                                              *)
(***************************************************************************)
LEMMA NewestKept == Types /\ Newest /\ [Next]_vars => Newest'
<1> SUFFICES ASSUME Types, Newest, [Next]_vars PROVE Newest' OBVIOUS
<1>0. CacheOK /\ DocOK /\ cache.loads \in Seq(Loads) BY DEF Types, CacheOK
<1>1. CASE Flip \/ AutoCorrect \/ FoldSound
  <2>1. UNCHANGED cache /\ doc'.ac = doc.ac
    BY <1>0, <1>1 DEF Flip, AutoCorrect, Enqueue, FoldSound, DocOK
  <2> QED BY <2>1 DEF Newest
<1>2. CASE SetAutocorrectEvent
  <2>1. PICK e \in Events : doc' = [doc EXCEPT !.ac = e] /\ Load(cache.theme, e)
    BY <1>2 DEF SetAutocorrectEvent
  <2>2. doc'.ac = e /\ cache.theme \in Themes BY <1>0, <2>1 DEF DocOK, CacheOK
  <2> QED BY <1>0, <2>1, <2>2, LoadTyped DEF Newest
<1>3. CASE FinishLoad
  <2>1. PICK i \in 1..Len(cache.loads) :
          /\ cache'.theme = cache.theme
          /\ cache'.snap.theme = cache.loads[i].theme /\ cache'.snap.ac = cache.loads[i].ac
          /\ cache'.loads = RemoveAt(cache.loads, i)
          /\ cache'.overtook = (cache.overtook \/ (1 < i /\ i = Len(cache.loads)))
    BY <1>0, <1>3 DEF FinishLoad, CacheOK
  <2>2. UNCHANGED doc /\ cache.loads # << >> BY <1>0, <1>3, <2>1 DEF FinishLoad
  <2>3. SUFFICES ASSUME ~cache'.overtook PROVE Newest' BY DEF Newest
  <2> ~cache.overtook /\ ~(1 < i /\ i = Len(cache.loads)) BY <2>1, <2>3, Zenon
  <2>4. Last(cache.loads) = [theme |-> cache.theme, ac |-> doc.ac] BY <2>2 DEF Newest
  <2>5. CASE cache'.loads = << >>
    <3>1. i = 1 /\ Len(cache.loads) = 1 BY <1>0, <2>1, <2>5, LoadDone
    <3>2. cache.loads[i] = Last(cache.loads) BY <3>1 DEF Last
    <3> QED BY <2>1, <2>2, <2>4, <2>5, <3>2 DEF Newest
  <2>6. CASE cache'.loads # << >>
    <3>1. i # Len(cache.loads)
      <4> SUFFICES ASSUME i = Len(cache.loads) PROVE FALSE OBVIOUS
      <4>0. Len(cache.loads) \in Nat /\ Len(cache.loads) # 0 BY <1>0, <2>2
      <4>1. ~(1 < Len(cache.loads)) OBVIOUS
      <4>a. \A n \in Nat : n # 0 /\ ~(1 < n) => n = 1 OBVIOUS
      <4>2. Len(cache.loads) = 1 BY <4>0, <4>1, <4>a, Zenon
      <4>3. cache'.loads \in Seq(Loads) /\ Len(cache'.loads) = 1 - 1 BY <1>0, <2>1, <4>2, LoadDone
      <4> QED BY <2>6, <4>3
    <3>2. Last(cache'.loads) = Last(cache.loads) BY <1>0, <2>1, <2>6, <3>1, LoadDone
    <3> QED BY <2>1, <2>2, <2>4, <2>6, <3>2 DEF Newest
  <2> QED BY <2>5, <2>6
<1>4. CASE ReadTheme
  <2>1. PICK theme \in Themes : Load(theme, doc.ac) /\ UNCHANGED doc
    BY <1>4, NamesAssumption DEF ReadTheme, ApplyTheme, Types, DesktopOK
  <2> QED BY <1>0, <2>1, LoadTyped DEF Newest, DocOK
<1>5. CASE ScanLine
  <2>1. UNCHANGED doc /\ watch.lines # << >> BY <1>5 DEF ScanLine
  <2>2. CASE UNCHANGED cache BY <2>1, <2>2 DEF Newest
  <2>3. CASE Head(watch.lines).key = "theme" /\ ApplyTheme(Head(watch.lines).val)
    <3>1. Head(watch.lines).val \in Themes BY <2>1, <2>3, LineTyped DEF Types
    <3> QED BY <1>0, <2>1, <2>3, <3>1, LoadTyped DEF ApplyTheme, Newest, DocOK
  <2> QED BY <1>5, <2>2, <2>3 DEF ScanLine
<1>6. CASE ReadEventSounds \/ EventSoundsStop \/ StartMonitor \/ MonitorEnded \/ MonitorExits \/ DesktopChanges
  <2>1. UNCHANGED <<doc, cache>>
    BY <1>6 DEF ReadEventSounds, EventSoundsStop, StartMonitor, MonitorEnded, MonitorExits, DesktopChanges
  <2> QED BY <2>1 DEF Newest
<1>7. CASE Work
  <2>1. UNCHANGED <<doc, cache>>
    BY <1>7 DEF Work, TakeStop, TakeTone, FoldTone, Dial, OpenStream, Write, RestOfPlay
  <2> QED BY <2>1 DEF Newest
<1>8. CASE UNCHANGED vars BY <1>8 DEF vars, Newest
<1> QED BY <1>1, <1>2, <1>3, <1>4, <1>5, <1>6, <1>7, <1>8 DEF Next, Watch

(***************************************************************************)
(* Together.                                                               *)
(***************************************************************************)
LEMMA InOrderInitially == Init => JInv
<1> SUFFICES ASSUME Init PROVE JInv OBVIOUS
<1>1. SwitchedOff BY DEF Init, SwitchedOff, Idle
<1>2. SilentMonitor /\ ThemeRead /\ SwitchRead /\ LinesLead
  BY DEF Init, SilentMonitor, ThemeRead, SwitchRead, LinesLead
<1>3. Newest BY DEF Init, Newest
<1> QED BY <1>1, <1>2, <1>3, TypesInitially DEF JInv

LEMMA InOrder == JInv /\ [Next]_vars => JInv'
BY TypesKept, StaysOff, SettingsKept, NewestKept DEF JInv, Settings

LEMMA Orderly == JInv => SoundInv
<1> SUFFICES ASSUME JInv PROVE SoundInv OBVIOUS
<1>1. TypeOK
  <2>1. /\ \A i \in 1..Len(watch.lines) : watch.lines[i] \in Lines
        /\ watch.at \in {"theme", "switch", "stop", "start", "scan", "halt"}
        /\ watch.live \in BOOLEAN /\ watch.missed \in BOOLEAN
    BY DEF JInv, Types, WatchOK, WatchSteps
  <2>2. /\ cache.theme \in Themes /\ cache.overtook \in BOOLEAN
        /\ \A i \in 1..Len(cache.loads) : cache.loads[i] \in Loads
        /\ cache.snap = << >> \/ cache.snap \in [theme: Themes, ac: Events, got: SUBSET Tones]
    BY DEF JInv, Types, CacheOK, Snapshots
  <2> QED BY <2>1, <2>2 DEF JInv, Types, TypeOK, DesktopOK, QueuesOK, WorkerOK, WorkerSteps, DocOK, SpentOK
<1>2. SwitchCloses BY DEF JInv, SwitchedOff, SwitchCloses
<1>3. SettingsFollowed
  <2> SUFFICES ASSUME watch.live, watch.lines = << >>, ~watch.missed
               PROVE  muted = ~desktop.on /\ cache.theme = desktop.theme
    BY DEF SettingsFollowed
  <2>1. Leaves(<< >>, "theme", cache.theme, desktop.theme) /\ Leaves(<< >>, "on", ~muted, desktop.on)
    BY DEF JInv, LinesLead
  <2>2. cache.theme = desktop.theme /\ (~muted) = desktop.on BY <2>1 DEF Leaves
  <2> QED BY <2>2 DEF JInv, Types, QueuesOK, DesktopOK
<1>4. SnapshotSettles BY DEF JInv, Newest, SnapshotSettles
<1> QED BY <1>1, <1>2, <1>3, <1>4 DEF SoundInv

\* Whatever is read, missed, failed and changed: a switch turned off closes
\* the stream unless a tone was queued, a monitor read to its end leaves the
\* desktop's settings in force, and the loads end with the newest snapshot.
THEOREM FollowsTheDesktop == Spec => []SoundInv
BY InOrderInitially, InOrder, Orderly, PTL DEF Spec
=============================================================================
