------------------------------- MODULE Sound --------------------------------
(***************************************************************************)
(* The acoustic feedback: the actor's gate, the tone queue of one, the     *)
(* worker that alone owns the connection to the sound server, the watcher  *)
(* of the desktop's settings and the loads of theme sounds, each in a      *)
(* goroutine of its own.  A tone is the event it names; the sounds of a    *)
(* theme have one format, the synthesised tones another.                   *)
(***************************************************************************)
EXTENDS Naturals, Sequences, SequencesExt

CONSTANTS
  Themes, Events,   \* what the desktop and the document may name
  StartEvent,       \* the document's autocorrect event when the player is made
  Playable,         \* the pairs of a theme and a tone whose sound decodes
  MaxTones,         \* bounds: the tones,
  MaxChanges,       \*   the changes of the settings and of the document,
  MaxFaults         \*   and what fails: reads, the monitor, the sound server

ASSUME NamesAssumption ==
  "freedesktop" \in Themes /\ StartEvent \in Events /\ "flip" \notin Events /\ Playable \subseteq Themes \X (Events \cup {"flip"})
ASSUME BoundsAssumption == {MaxTones, MaxChanges, MaxFaults} \subseteq Nat

VARIABLES
  desktop,   \* the settings: the event sounds and the theme
  watch,     \* the watcher: its step, the monitor, its unread lines, whether it missed a change (history)
  muted,     \* the gate of the system's switch
  control,   \* the stop signal, one at most
  toneCh,    \* the queued tone
  worker,    \* the worker: its step, the tone, the format to play it in
  conn,      \* the connection: none, dialled, or the format of its stream
  doc,       \* the actor: the sound switch, the autocorrect event, a tone queued at the mute (history)
  cache,     \* the theme played, the snapshot, the loads at work in order, one overtook (history)
  spent      \* the bounds' counters

vars == <<desktop, watch, muted, control, toneCh, worker, conn, doc, cache, spent>>

None == "none"
Tones == Events \cup {"flip"}
Formats == {"theme", "synth"}
Loads == [theme: Themes, ac: Events]
Lines == [key: {"on"}, val: BOOLEAN] \cup [key: {"theme"}, val: Themes]

Idle == [at |-> "idle", tone |-> None, format |-> None]

TypeOK ==
  /\ desktop \in [on: BOOLEAN, theme: Themes]
  /\ watch.at \in {"theme", "switch", "stop", "start", "scan", "halt"}
  /\ watch.live \in BOOLEAN /\ watch.missed \in BOOLEAN
  /\ \A i \in 1..Len(watch.lines) : watch.lines[i] \in Lines
  /\ muted \in BOOLEAN /\ control \in BOOLEAN
  /\ toneCh \in Tones \cup {None}
  /\ worker \in [at: {"idle", "fold", "dial", "open", "write"}, tone: Tones \cup {None}, format: Formats \cup {None}]
  /\ conn \in Formats \cup {None, "dialled"}
  /\ (worker.at = "write" => conn = worker.format) /\ (worker.at = "open" => conn # None)
  /\ doc \in [on: BOOLEAN, ac: Events, queued: BOOLEAN]
  /\ cache.theme \in Themes /\ cache.overtook \in BOOLEAN
  /\ \A i \in 1..Len(cache.loads) : cache.loads[i] \in Loads
  /\ cache.snap = << >> \/ cache.snap \in [theme: Themes, ac: Events, got: SUBSET Tones]
  /\ spent \in [tones: 0..MaxTones, changes: 0..MaxChanges, faults: 0..MaxFaults]

Init ==
  /\ desktop \in [on: BOOLEAN, theme: Themes]
  /\ watch = [at |-> "theme", live |-> FALSE, lines |-> << >>, missed |-> FALSE]
  /\ muted = FALSE /\ control = FALSE /\ toneCh = None /\ conn = None
  /\ worker = Idle
  /\ \E on \in BOOLEAN : doc = [on |-> on, ac |-> StartEvent, queued |-> FALSE]
  /\ cache = [theme |-> "freedesktop", snap |-> << >>, loads |-> << >>, overtook |-> FALSE]
  /\ spent = [tones |-> 0, changes |-> 0, faults |-> 0]

Fault == spent.faults < MaxFaults /\ spent' = [spent EXCEPT !.faults = @ + 1]
NoFault == UNCHANGED spent
Change == spent.changes < MaxChanges /\ spent' = [spent EXCEPT !.changes = @ + 1]

(***************************************************************************)
(* The actor's side: nothing here waits.                                   *)
(***************************************************************************)
\* The switch gates every tone before the sink; a muted player queues none,
\* a full queue drops the tone.
Enqueue(event) ==
  /\ doc.on
  /\ spent.tones < MaxTones /\ spent' = [spent EXCEPT !.tones = @ + 1]
  /\ toneCh' = IF muted \/ toneCh # None THEN toneCh ELSE event
  /\ UNCHANGED <<desktop, watch, muted, control, worker, conn, doc, cache>>
Flip == Enqueue("flip")
AutoCorrect == Enqueue(doc.ac)

\* A stop that waits already stands for the new one.
Stop == control' = TRUE

FoldSound ==
  /\ Change
  /\ doc' = [doc EXCEPT !.on = ~@, !.queued = toneCh # None]
  /\ IF doc.on THEN Stop ELSE UNCHANGED control
  /\ UNCHANGED <<desktop, watch, muted, toneCh, worker, conn, cache>>

\* go cache.load: the newest load is at work, nothing has overtaken it.
Load(theme, ac) ==
  cache' = [cache EXCEPT !.theme = theme, !.overtook = FALSE,
                         !.loads = Append(@, [theme |-> theme, ac |-> ac])]

SetAutocorrectEvent ==
  /\ Change
  /\ \E e \in Events \ {doc.ac} :
       /\ doc' = [doc EXCEPT !.ac = e]
       /\ Load(cache.theme, e)
  /\ UNCHANGED <<desktop, watch, muted, control, toneCh, worker, conn>>

(***************************************************************************)
(* The loads: each decodes what it can and publishes its whole snapshot.   *)
(***************************************************************************)
FinishLoad ==
  /\ \E i \in 1..Len(cache.loads) :
       LET l == cache.loads[i] IN
       cache' = [cache EXCEPT
         !.snap = [theme |-> l.theme, ac |-> l.ac,
                   got |-> {e \in {"flip", l.ac} : <<l.theme, e>> \in Playable}],
         !.loads = RemoveAt(@, i),
         !.overtook = @ \/ (1 < i /\ i = Len(cache.loads))]
  /\ UNCHANGED <<desktop, watch, muted, control, toneCh, worker, conn, doc, spent>>

(***************************************************************************)
(* The watcher: a full read, then the monitor's lines until it ends.       *)
(***************************************************************************)
ApplyTheme(theme) == Load(theme, doc.ac)

\* A theme that cannot be read is the fallback.
ReadTheme ==
  /\ watch.at = "theme"
  /\ \/ ApplyTheme(desktop.theme) /\ NoFault /\ watch' = [watch EXCEPT !.at = "switch", !.missed = FALSE]
     \/ ApplyTheme("freedesktop") /\ Fault /\ watch' = [watch EXCEPT !.at = "switch", !.missed = TRUE]
  /\ UNCHANGED <<desktop, muted, control, toneCh, worker, conn, doc>>

\* Mutant: the gate alone.
SetEventSounds_NoStop(on, w, next, stop) ==
  /\ muted' = ~on
  /\ watch' = [w EXCEPT !.at = next]
  /\ UNCHANGED control

\* The gate first, the stop second, or a tone that passed the gate stays open.
SetEventSounds(on, w, next, stop) ==
  /\ muted' = ~on
  /\ watch' = [w EXCEPT !.at = IF on THEN next ELSE stop]
  /\ UNCHANGED control

\* A switch that cannot be read is on.
ReadEventSounds ==
  /\ watch.at = "switch"
  /\ \/ SetEventSounds(desktop.on, watch, "start", "stop") /\ NoFault
     \/ SetEventSounds(TRUE, [watch EXCEPT !.missed = TRUE], "start", "stop") /\ Fault
  /\ UNCHANGED <<desktop, toneCh, worker, conn, doc, cache>>

EventSoundsStop ==
  /\ watch.at \in {"stop", "halt"}
  /\ Stop
  /\ watch' = [watch EXCEPT !.at = IF @ = "stop" THEN "start" ELSE "scan"]
  /\ UNCHANGED <<desktop, muted, toneCh, worker, conn, doc, cache, spent>>

\* A monitor that cannot start is tried again after a pause and a full read.
StartMonitor ==
  /\ watch.at = "start"
  /\ \/ watch' = [watch EXCEPT !.at = "scan", !.live = TRUE] /\ NoFault
     \/ watch' = [watch EXCEPT !.at = "theme"] /\ Fault
  /\ UNCHANGED <<desktop, muted, control, toneCh, worker, conn, doc, cache>>

ScanLine ==
  /\ watch.at = "scan" /\ watch.lines # << >>
  /\ LET line == Head(watch.lines) rest == [watch EXCEPT !.lines = Tail(@)] IN
       \/ line.key = "theme" /\ ApplyTheme(line.val) /\ watch' = rest /\ UNCHANGED <<muted, control>>
       \/ line.key = "on" /\ SetEventSounds(line.val, rest, "scan", "halt") /\ UNCHANGED cache
  /\ UNCHANGED <<desktop, toneCh, worker, conn, doc, spent>>

\* Mutant: the monitor alone is restarted.
MonitorEnded_NoRead ==
  /\ watch.at = "scan" /\ ~watch.live /\ watch.lines = << >>
  /\ watch' = [watch EXCEPT !.at = "start"]
  /\ UNCHANGED <<desktop, muted, control, toneCh, worker, conn, doc, cache, spent>>

MonitorEnded ==
  /\ watch.at = "scan" /\ ~watch.live /\ watch.lines = << >>
  /\ watch' = [watch EXCEPT !.at = "theme"]
  /\ UNCHANGED <<desktop, muted, control, toneCh, worker, conn, doc, cache, spent>>

MonitorExits ==
  /\ watch.live /\ Fault
  /\ watch' = [watch EXCEPT !.live = FALSE]
  /\ UNCHANGED <<desktop, muted, control, toneCh, worker, conn, doc, cache>>

\* A change reaches the lines of a running monitor, or a read still to come.
Changes(key, val, unread) ==
  watch' = IF watch.live THEN [watch EXCEPT !.lines = Append(@, [key |-> key, val |-> val])]
           ELSE [watch EXCEPT !.missed = @ \/ watch.at \notin unread]
DesktopChanges ==
  /\ Change
  /\ \/ desktop' = [desktop EXCEPT !.on = ~@] /\ Changes("on", ~desktop.on, {"scan", "halt", "theme", "switch"})
     \/ \E t \in Themes \ {desktop.theme} :
          desktop' = [desktop EXCEPT !.theme = t] /\ Changes("theme", t, {"scan", "halt", "theme"})
  /\ UNCHANGED <<muted, control, toneCh, worker, conn, doc, cache>>

(***************************************************************************)
(* The worker.                                                             *)
(***************************************************************************)
TakeStop ==
  /\ worker.at = "idle" /\ control
  /\ control' = FALSE
  /\ conn' = None
  /\ UNCHANGED <<desktop, watch, muted, toneCh, worker, doc, cache, spent>>

TakeTone ==
  /\ worker.at = "idle" /\ toneCh # None
  /\ toneCh' = None
  /\ worker' = [Idle EXCEPT !.at = "fold", !.tone = toneCh]
  /\ UNCHANGED <<desktop, watch, muted, control, conn, doc, cache, spent>>

Cached(event) == cache.snap # << >> /\ cache.snap.theme = cache.theme /\ event \in cache.snap.got
Streams == conn \in Formats

\* Mutant: the gate is not asked again.
FoldTone_Ungated ==
  /\ worker.at = "fold"
  /\ LET format == IF Cached(worker.tone) THEN "theme" ELSE IF Streams THEN conn ELSE "synth" IN
     worker' = [at |-> IF conn = None THEN "dial" ELSE IF conn = format THEN "write" ELSE "open",
                tone |-> None, format |-> format]
  /\ UNCHANGED <<desktop, watch, muted, control, toneCh, conn, doc, cache, spent>>

\* A muted player drops the tone; a cached one has its own format, a
\* synthesised one follows the stream's.
FoldTone ==
  /\ worker.at = "fold"
  /\ LET format == IF Cached(worker.tone) THEN "theme" ELSE IF Streams THEN conn ELSE "synth" IN
     worker' = IF muted THEN Idle
               ELSE [at |-> IF conn = None THEN "dial" ELSE IF conn = format THEN "write" ELSE "open",
                     tone |-> None, format |-> format]
  /\ UNCHANGED <<desktop, watch, muted, control, toneCh, conn, doc, cache, spent>>

Plays(step, c) ==
  worker' = (IF step = "idle" THEN Idle ELSE [worker EXCEPT !.at = step]) /\ conn' = c
RestOfPlay == UNCHANGED <<desktop, watch, muted, control, toneCh, doc, cache>>

\* A connection that cannot stream, and one that cannot be written to, is
\* closed.
Dial ==
  /\ worker.at = "dial"
  /\ \/ Plays("open", "dialled") /\ NoFault
     \/ Plays("idle", None) /\ Fault
  /\ RestOfPlay
OpenStream ==
  /\ worker.at = "open"
  /\ \/ Plays("write", worker.format) /\ NoFault
     \/ Plays("idle", None) /\ Fault
  /\ RestOfPlay
Write ==
  /\ worker.at = "write"
  /\ \/ Plays("idle", conn) /\ NoFault
     \/ Plays("idle", None) /\ Fault
  /\ RestOfPlay

Watch == ReadTheme \/ ReadEventSounds \/ EventSoundsStop \/ StartMonitor \/ ScanLine \/ MonitorEnded
Work == TakeStop \/ TakeTone \/ FoldTone \/ Dial \/ OpenStream \/ Write
Next ==
  \/ Flip \/ AutoCorrect \/ FoldSound \/ SetAutocorrectEvent
  \/ FinishLoad \/ Watch \/ MonitorExits \/ DesktopChanges \/ Work

\* The goroutines run; a select with both channels ready takes either.
Spec == Init /\ [][Next]_vars
FairSpec == Spec /\ WF_vars(FinishLoad) /\ WF_vars(Watch) /\ WF_vars(Work)

(***************************************************************************)
(* Properties.                                                             *)
(***************************************************************************)
\* However a tone, the mute and the unmute interleave, an idle worker that
\* has answered the stop holds no connection while the system is muted.
SystemMuteCloses ==
  muted /\ watch.at \notin {"stop", "halt"} /\ worker.at = "idle" /\ ~control => conn = None

\* The sound switch closes the connection too, unless a tone was queued at
\* the moment it was turned off.
SwitchCloses ==
  ~doc.on /\ worker.at = "idle" /\ ~control /\ toneCh = None => conn = None \/ doc.queued

\* A monitor read to its last line leaves the gate and the theme as the
\* desktop has them, unless a change fell between the read and the monitor
\* or a read failed.
SettingsFollowed ==
  watch.at = "scan" /\ watch.live /\ watch.lines = << >> =>
    watch.missed \/ (muted = ~desktop.on /\ cache.theme = desktop.theme)

\* The snapshot is that of the theme and the event in force once no load is
\* at work, unless a load overtook an older one.
SnapshotSettles ==
  cache.loads = << >> /\ cache.snap # << >> =>
    cache.overtook \/ (cache.snap.theme = cache.theme /\ cache.snap.ac = doc.ac)

\* The settings at rest, a muted system has no connection for good.
FallsSilent == <>[](muted => conn = None)

\* Muted by the switch means no connection at all.
MutedMeansClosed ==
  ~doc.on /\ worker.at = "idle" /\ ~control /\ toneCh = None => conn = None

\* The player in good order: types, a switch that closes the stream, the
\* desktop's settings in force and the newest snapshot in the cache.
SoundInv == TypeOK /\ SwitchCloses /\ SettingsFollowed /\ SnapshotSettles
=============================================================================
