------------------------------ MODULE Delivery ------------------------------
(***************************************************************************)
(* The level-2 delivery machine of the session actor: a correction in a    *)
(* client without surrounding text, or in a terminal, is a burst of        *)
(* forwarded BackSpaces, a settle window and one commit.  The machine      *)
(* gives up the actor's mutex before its first BackSpace, between chunks   *)
(* and in the settle window; what may happen there is what this module is  *)
(* about: typed keys are parked and drained after the commit, a second     *)
(* correction is refused, a layout flip is parked until the next           *)
(* keystroke, and a context that dies stops the machine only before its    *)
(* first BackSpace.                                                        *)
(*                                                                         *)
(* A signal of the daemon, and the key it lets through, reach the client   *)
(* in the order of the steps and at once; module VerifyRounds delays them. *)
(* Autocorrect, the macros, the clipboard rung and the level-1 ladder are  *)
(* off; key releases only feed the recogniser and are modelled in          *)
(* TapSeries.                                                              *)
(***************************************************************************)
EXTENDS ActorText

CONSTANTS
  KeyKinds,         \* the key presses that occur
  Entries,          \* the other entries into the actor that occur
  TerminalClasses,  \* the answers classifyTerminal may give
  FlipAfter,        \* the option FlipAfterCorrection
  BackspaceCap,     \* the longest burst the configuration allows
  ChunkKeys,        \* terminalChunkKeys, 8 in the code
  MaxCtx,           \* bound: input contexts the focus may visit
  MaxResets,        \* bound: Reset events
  MaxInputs,        \* bound: key presses and other entries
  LateMint,         \* whether parked keys may drain between the loss of the
                    \* focus and the creation of the next engine
  Barging,          \* whether an entry may take the mutex ahead of a drainer
                    \* that has been woken
  Overrun           \* whether a parked key's bounded wait may expire

TextKeys == {"letter", "space", "backspace"}
AllKeys == TextKeys \cup {"enter", "combo", "chord", "modifier"}
AllEntries == {"correct", "phrase", "toggle", "switch", "sync", "push"}

ASSUME KindsAssumption ==
  /\ KeyKinds \subseteq AllKeys
  /\ Entries \subseteq AllEntries
  /\ TerminalClasses \subseteq BOOLEAN
  /\ {FlipAfter, LateMint, Barging, Overrun} \subseteq BOOLEAN
ASSUME BoundsAssumption ==
  /\ {BackspaceCap, ChunkKeys, MaxCtx} \subseteq Nat \ {0}
  /\ {MaxResets, MaxInputs} \subseteq Nat

Contexts == 1 .. MaxCtx

\* Every text is longer at first than the bounded key presses and the one
\* burst in flight can erase.
Ahead == MaxInputs + BackspaceCap

VARIABLES
  field,    \* the text before the cursor of every input context
  ctx,      \* the focused context
  slot,     \* the context of the engine created last: where emitter() writes
  buf,      \* the typed-input buffer
  modes,    \* script mode, flip slot, combo in progress, flip credits
  machine,  \* the delivery machine
  queue,    \* holdQueue
  drain,    \* the goroutine that drains it
  after,    \* the verify-after round
  resets,   \* Reset events so far
  inputs,   \* key presses and entries so far
  typed     \* history: what the key presses so far add to the text

vars == <<field, ctx, slot, buf, modes, machine, queue, drain, after, resets, inputs, typed>>

(***************************************************************************)
(* Modes and the one slot of the deferred flip.                            *)
(***************************************************************************)
NoFlip == [target |-> "none", gesture |-> FALSE]
Flips == {NoFlip} \cup [target : Modes, gesture : BOOLEAN]
ModeStates == [mode : Modes, flip : Flips, combo : BOOLEAN, credit : Nat]

\* Mutant: a flip is done whether the machine runs or not.
Flip_Unguarded(m, t, busy) ==
  IF t = m.mode THEN m ELSE [m EXCEPT !.mode = t, !.credit = m.credit + 1]

\* flipTo: no-op, parked in the slot while the machine runs, or done at once;
\* a flip done makes ibus create the engine anew, and books a credit for it.
Flip(m, t, busy) ==
  CASE t = m.mode -> m
    [] t # m.mode /\ busy -> [m EXCEPT !.flip = [target |-> t, gesture |-> TRUE]]
    [] t # m.mode /\ ~busy -> [m EXCEPT !.mode = t, !.credit = m.credit + 1]

ReleaseFlip(m, busy) ==
  IF m.flip.target = "none" THEN m ELSE Flip([m EXCEPT !.flip = NoFlip], m.flip.target, busy)

\* Mutant: the combo stays pending after its flip.
SettleCombo_Pending(m, busy) == IF m.combo THEN Flip(m, Opposite(m.mode), busy) ELSE m

SettleCombo(m, busy) ==
  IF m.combo THEN Flip([m EXCEPT !.combo = FALSE], Opposite(m.mode), busy) ELSE m

\* settleCorrectionFlip: the legacy branch flips at once.
FollowScript(m, t) == IF m.combo \/ ~FlipAfter THEN m ELSE Flip(m, t, FALSE)

\* Mutant: a correction arms its flip over a gesture that waits in the slot.
DeferFlip_DropsGesture(m, t) ==
  IF m.combo \/ ~FlipAfter \/ t = m.mode THEN m
  ELSE [m EXCEPT !.flip = [target |-> t, gesture |-> FALSE]]

\* deferCorrectionFlip: the terminal branch leaves the flip to the next key.
DeferFlip(m, t) ==
  IF m.combo \/ ~FlipAfter \/ m.flip.gesture \/ t = m.mode THEN m
  ELSE [m EXCEPT !.flip = [target |-> t, gesture |-> FALSE]]

(***************************************************************************)
(* The machine and the round that verifies its result.                     *)
(***************************************************************************)
Phases == {"idle", "start", "burst", "settle"}
Machines == [phase : Phases, ctx : Contexts, token : Texts, tail : Texts,
             left : Nat, erased : Texts, moved : BOOLEAN,
             terminal : BOOLEAN, phrase : BOOLEAN, byDrain : BOOLEAN]
NoMachine == [phase |-> "idle", ctx |-> 1, token |-> <<>>, tail |-> <<>>,
              left |-> 0, erased |-> <<>>, moved |-> FALSE,
              terminal |-> FALSE, phrase |-> FALSE, byDrain |-> FALSE]
Rounds == [expected : Texts, missed : BOOLEAN]
NoRound == [expected |-> <<>>, missed |-> FALSE]
Drains == {"idle", "waiting", "woken", "running", "hosting"}

Busy == machine.phase # "idle"

\* The drainer keeps the mutex from one parked key to the next.
MutexFree == drain # "running"

\* Mutants: the drainer that ran the machine forgets the keys parked since;
\* the settled machine wakes nobody.
DrainOnSettle_Forgets == IF machine.byDrain THEN "idle" ELSE IF drain = "waiting" THEN "woken" ELSE drain
DrainOnSettle_NoWake == IF machine.byDrain /\ queue # <<>> THEN "running" ELSE
                        IF machine.byDrain THEN "idle" ELSE drain

\* machineSettle: who waits is woken, who ran the machine itself goes on.
DrainOnSettle ==
  CASE machine.byDrain -> IF queue = <<>> THEN "idle" ELSE "running"
    [] ~machine.byDrain /\ drain = "waiting" -> "woken"
    [] OTHER -> drain

\* Mutant: a second correction starts over the machine in flight.
MayStart_Again(size) == size =< BackspaceCap

\* executeLevel2's own refusals: a machine in flight, a burst over the cap.
MayStart(size) == ~Busy /\ size =< BackspaceCap

\* startRangeCorrection over the word or the phrase, m being the modes so far.
Correct(m, phrase, byDrain) ==
  LET token == IF phrase THEN buf ELSE Word(buf)
      tail  == IF phrase THEN <<>> ELSE WordTail(buf)
      size  == Len(token) + Len(tail)
  IN  \/ /\ ~HasLetter(token)
         /\ modes' = SettleCombo(m, Busy)
         /\ UNCHANGED <<machine, after>>
      \/ /\ HasLetter(token)
         /\ ~MayStart(size)
         /\ modes' = SettleCombo(m, Busy)
         /\ after' = NoRound
         /\ UNCHANGED machine
      \/ /\ HasLetter(token)
         /\ MayStart(size)
         /\ \E terminal \in TerminalClasses :
              machine' = [phase |-> "start", ctx |-> slot, token |-> token, tail |-> tail,
                          left |-> size, erased |-> <<>>, moved |-> FALSE,
                          terminal |-> terminal, phrase |-> phrase, byDrain |-> byDrain]
         /\ modes' = m
         /\ after' = NoRound

\* The commit and all that follows it, f being the text the burst left.
Commit(f) ==
  LET new == Converted(machine.token)
      m   == IF machine.terminal THEN DeferFlip(modes, ScriptOf(new))
                                 ELSE FollowScript(modes, ScriptOf(new))
  IN  /\ field' = [f EXCEPT ![machine.ctx] = @ \o new \o machine.tail]
      /\ buf' = IF machine.phrase THEN ReplacePhrase(buf, new) ELSE ReplaceWord(buf, new)
      /\ machine' = NoMachine
      /\ modes' = SettleCombo(m, FALSE)
      /\ after' = IF machine.terminal
                    THEN [expected |-> new \o machine.tail, missed |-> FALSE]
                    ELSE after
      /\ drain' = DrainOnSettle

\* A chunk of BackSpaces.  After the last one the legacy branch commits
\* under the same hold of the mutex, the terminal branch gives it up.
Chunk ==
  LET n    == IF ChunkKeys < machine.left THEN ChunkKeys ELSE machine.left
      text == field[machine.ctx]
      f    == [field EXCEPT ![machine.ctx] = DropLast(text, n)]
      last == n = machine.left
  IN  IF last /\ ~machine.terminal THEN Commit(f)
      ELSE /\ field' = f
           /\ machine' = [machine EXCEPT !.phase = IF last THEN "settle" ELSE "burst",
                                         !.left = @ - n,
                                         !.erased = TakeLast(text, n) \o @]
           /\ UNCHANGED <<buf, modes, after, drain>>

-----------------------------------------------------------------------------
Init ==
  /\ field = [c \in Contexts |-> [i \in 1 .. Ahead |-> "p"]]
  /\ ctx = 1
  /\ slot = 1
  /\ buf = <<>>
  /\ modes = [mode |-> "EN", flip |-> NoFlip, combo |-> FALSE, credit |-> 0]
  /\ machine = NoMachine
  /\ queue = <<>>
  /\ drain = "idle"
  /\ after = NoRound
  /\ resets = 0
  /\ inputs = 0
  /\ typed = 0

\* handleKeyArrived: whatever the key, it first releases the deferred flip.
Arrive(k, byDrain) ==
  LET m == ReleaseFlip(modes, Busy)
      c == IF m.mode = "RU" THEN "r" ELSE "e"
      Insert(x) == /\ field' = [field EXCEPT ![slot] = Append(@, x)]
                   /\ buf' = Append(buf, x)
                   /\ modes' = m
                   /\ UNCHANGED <<machine, after>>
  IN  CASE k = "letter" -> Insert(c)
        [] k = "space" -> Insert("s")
        [] k = "backspace" ->
             /\ field' = [field EXCEPT ![slot] = DropLast(@, 1)]
             /\ buf' = IF buf = <<>> THEN buf ELSE DropLast(buf, 1)
             /\ modes' = m
             /\ UNCHANGED <<machine, after>>
        [] k = "enter" ->
             /\ field' = [field EXCEPT ![slot] = Append(@, "p")]
             /\ buf' = <<>>
             /\ modes' = m
             /\ UNCHANGED <<machine, after>>
        [] k = "combo" ->
             /\ Correct([m EXCEPT !.combo = TRUE], FALSE, byDrain)
             /\ UNCHANGED <<field, buf>>
        [] k = "chord" ->
             /\ modes' = Flip(m, Opposite(m.mode), Busy)
             /\ UNCHANGED <<field, buf, machine, after>>
        [] k = "modifier" ->
             /\ modes' = m
             /\ UNCHANGED <<field, buf, machine, after>>

Input ==
  /\ inputs < MaxInputs
  /\ MutexFree
  /\ drain = "woken" => Barging
  /\ inputs' = inputs + 1

Adds(k) == CASE k \in {"letter", "space", "enter"} -> 1 [] k = "backspace" -> -1 [] OTHER -> 0

\* Mutants: a BackSpace, or a printable key, does not park.
Holdable_Printable(k) == k \in TextKeys \ {"backspace"}
Holdable_BackSpace(k) == k = "backspace"

\* holdableKey: typed-layout input.
Holdable(k) == k \in TextKeys

\* HandleKey parks a typed key while the machine runs, and any key behind a
\* parked one; the first parked key's goroutine becomes the drainer.
Park(k) ==
  /\ queue' = Append(queue, k)
  /\ drain' = CASE drain # "idle" -> drain
                [] drain = "idle" /\ Busy -> "waiting"
                [] drain = "idle" /\ ~Busy -> "running"
  /\ UNCHANGED <<field, buf, modes, machine, after>>

Key(k) ==
  /\ Input
  /\ slot = ctx
  /\ typed' = typed + Adds(k)
  /\ IF (Busy /\ Holdable(k)) \/ queue # <<>>
       THEN Park(k)
       ELSE Arrive(k, FALSE) /\ UNCHANGED <<queue, drain>>
  /\ UNCHANGED <<ctx, slot, resets>>

\* The drainer has the mutex back: one parked key is processed, whether the
\* machine has settled or not (awaitDeliverySettle's answer is only logged).
DrainKey ==
  /\ drain = "woken" \/ (drain = "running" /\ ~Busy)
  /\ LateMint \/ slot = ctx
  /\ Arrive(Head(queue), TRUE)
  /\ queue' = Tail(queue)
  /\ drain' = CASE machine' # machine -> "hosting"
                [] machine' = machine /\ Tail(queue) = <<>> -> "idle"
                [] machine' = machine /\ Tail(queue) # <<>> -> "running"
  /\ UNCHANGED <<ctx, slot, resets, inputs, typed>>

\* A parked key behind the drained one finds a machine in flight again.
DrainWaits ==
  /\ drain = "running" /\ Busy
  /\ drain' = "waiting"
  /\ UNCHANGED <<field, ctx, slot, buf, modes, machine, queue, after, resets, inputs, typed>>

\* The wait of the drainer ends at its bound, the machine still in flight.
BoundExpires ==
  /\ Overrun
  /\ drain = "waiting" /\ MutexFree
  /\ drain' = "woken"
  /\ UNCHANGED <<field, ctx, slot, buf, modes, machine, queue, after, resets, inputs, typed>>

\* The machine takes the mutex back before its first BackSpace: the last
\* point where the death of the context stops it.
MachineStart ==
  /\ machine.phase = "start" /\ MutexFree
  /\ IF machine.moved
       THEN /\ machine' = NoMachine
            /\ modes' = SettleCombo(modes, FALSE)
            /\ drain' = DrainOnSettle
            /\ UNCHANGED <<field, buf, after>>
       ELSE Chunk
  /\ UNCHANGED <<ctx, slot, queue, resets, inputs, typed>>

MachineChunk ==
  /\ machine.phase = "burst" /\ MutexFree
  /\ Chunk
  /\ UNCHANGED <<ctx, slot, queue, resets, inputs, typed>>

MachineCommit ==
  /\ machine.phase = "settle" /\ MutexFree
  /\ Commit(field)
  /\ UNCHANGED <<ctx, slot, queue, resets, inputs, typed>>

\* The entries that are no key press: CorrectNow or a double tap, a triple
\* tap, the tray's toggle or a single tap, the tray's radio pair.
CorrectNow(phrase) ==
  /\ Input
  /\ (IF phrase THEN "phrase" ELSE "correct") \in Entries
  /\ Correct(modes, phrase, FALSE)
  /\ UNCHANGED <<field, ctx, slot, buf, queue, drain, resets, typed>>

ToggleMode ==
  /\ Input
  /\ "toggle" \in Entries
  /\ modes' = Flip(modes, Opposite(modes.mode), Busy)
  /\ UNCHANGED <<field, ctx, slot, buf, machine, queue, drain, after, resets, typed>>

SwitchMode(t) ==
  /\ Input
  /\ "switch" \in Entries
  /\ modes' = Flip(modes, t, Busy)
  /\ UNCHANGED <<field, ctx, slot, buf, machine, queue, drain, after, resets, typed>>

\* The signal GlobalEngineChanged, or the name that comes with a focus: the
\* shell chose the engine itself, and the daemon follows at any moment.  (If
\* the choice also creates the engine anew, the old context dies: Reset.)
SyncEngine(t) ==
  /\ Input
  /\ "sync" \in Entries
  /\ t # modes.mode
  /\ modes' = [modes EXCEPT !.mode = t]
  /\ UNCHANGED <<field, ctx, slot, buf, machine, queue, drain, after, resets, typed>>

\* A report of the client while the verify-after round is open: a match
\* releases the deferred flip, one mismatch is asked about again.
Push ==
  LET match == IsSuffixOf(after.expected, field[ctx])
  IN  /\ Input
      /\ "push" \in Entries
      /\ after # NoRound
      /\ modes' = IF match THEN ReleaseFlip(modes, Busy) ELSE modes
      /\ after' = IF match \/ after.missed THEN NoRound ELSE [after EXCEPT !.missed = TRUE]
      /\ UNCHANGED <<field, ctx, slot, buf, machine, queue, drain, resets, typed>>

AfterExpiry ==
  /\ after # NoRound
  /\ MutexFree
  /\ after' = NoRound
  /\ UNCHANGED <<field, ctx, slot, buf, modes, machine, queue, drain, resets, inputs, typed>>

\* What FocusOut and Reset have in common.
ContextDies(credit) ==
  /\ MutexFree
  /\ modes' = [modes EXCEPT !.combo = FALSE, !.credit = credit]
  /\ machine' = IF Busy THEN [machine EXCEPT !.moved = TRUE] ELSE machine
  /\ after' = NoRound
  /\ UNCHANGED <<field, slot, queue, drain, inputs, typed>>

\* The FocusOut a flip of the daemon's own causes keeps the buffer.
SyntheticFocusOut ==
  /\ modes.credit > 0
  /\ ContextDies(modes.credit - 1)
  /\ UNCHANGED <<ctx, buf, resets>>

\* The user leaves the context; its echoes have all come.
FocusOut ==
  /\ modes.credit = 0
  /\ slot = ctx /\ ctx < MaxCtx
  /\ ContextDies(0)
  /\ ctx' = ctx + 1
  /\ buf' = <<>>
  /\ UNCHANGED resets

Reset ==
  /\ resets < MaxResets
  /\ ContextDies(modes.credit)
  /\ resets' = resets + 1
  /\ buf' = <<>>
  /\ UNCHANGED ctx

\* CreateEngine for the context that has the focus now.
AttachEngine ==
  /\ slot # ctx
  /\ slot' = ctx
  /\ UNCHANGED <<field, ctx, buf, modes, machine, queue, drain, after, resets, inputs, typed>>

Next ==
  \/ \E k \in KeyKinds : Key(k)
  \/ DrainKey
  \/ DrainWaits
  \/ BoundExpires
  \/ MachineStart
  \/ MachineChunk
  \/ MachineCommit
  \/ \E phrase \in BOOLEAN : CorrectNow(phrase)
  \/ ToggleMode
  \/ \E t \in Modes : SwitchMode(t)
  \/ \E t \in Modes : SyncEngine(t)
  \/ Push
  \/ AfterExpiry
  \/ SyntheticFocusOut
  \/ FocusOut
  \/ Reset
  \/ AttachEngine

\* A goroutine that sleeps or waits for the mutex gets on in the end (Go's
\* mutex hands over to the longest waiter), and ibus creates the engine.
Fairness ==
  /\ WF_vars(MachineStart \/ MachineChunk \/ MachineCommit)
  /\ WF_vars(DrainKey \/ DrainWaits)
  /\ WF_vars(AttachEngine)

Spec == Init /\ [][Next]_vars /\ Fairness

-----------------------------------------------------------------------------
TypeOK ==
  /\ field \in [Contexts -> Texts]
  /\ ctx \in Contexts
  /\ slot \in Contexts
  /\ buf \in Texts
  /\ modes \in ModeStates
  /\ machine \in Machines
  /\ queue \in Seq(AllKeys)
  /\ drain \in Drains
  /\ after \in Rounds
  /\ resets \in Nat
  /\ inputs \in Nat
  /\ typed \in Int

\* What the machine is about to erase and has erased is, cell for cell, the
\* word and its tail: whatever happened in its windows (keys, resets, moves
\* of the focus, second corrections), no BackSpace goes beyond the word.
EraseOnlyTheWord ==
  Busy => TakeLast(field[machine.ctx], machine.left) \o machine.erased
            = machine.token \o machine.tail

\* Between corrections the buffer mirrors the end of the focused text, so
\* that the next correction erases what it means to.
Mirror == ~Busy /\ slot = ctx => IsSuffixOf(buf, field[ctx])

\* Total(g, n): the sum of g[1], ..., g[n].
Total(g, n) ==
  LET upTo[i \in 0 .. n] == IF i = 0 THEN 0 ELSE upTo[i - 1] + g[i]
  IN  upTo[n]

\* What the texts f hold, and what the parked keys q will add to it.
InTexts(f) == Total([c \in Contexts |-> Len(f[c])], MaxCtx)
InQueue(q) == Total([i \in DOMAIN q |-> Adds(q[i])], Len(q))

\* Nothing is lost or doubled: every key press reaches the text once, at
\* once or from the queue, and what a burst erases its commit restores.
Conserved ==
  InTexts(field) + InQueue(queue) + Len(machine.erased) = MaxCtx * Ahead + typed

\* Parked keys have a drainer; it sleeps only while a machine runs that will
\* wake it, and a machine it runs itself ends with its own drain.
ParkedKeysHaveDrainer ==
  /\ queue # <<>> => drain # "idle"
  /\ drain = "waiting" => Busy
  /\ drain = "hosting" <=> machine.byDrain
  /\ drain \in {"waiting", "woken", "running"} => queue # <<>>

\* The layout half of a combo is pending only while the machine that will
\* settle it is in flight and its context lives: no exit of a correction
\* forgets it, and none settles the combo of a context that is gone.
ComboHasOwner == modes.combo => Busy /\ ~machine.moved

\* The daemon never flips the layout while the machine is in flight: a flip
\* would make ibus create the engine anew and the commit would go to a dead
\* one.  Only the shell may, and then the daemon follows.
FlipsWait ==
  [][Busy /\ Busy' /\ modes'.mode # modes.mode => \E t \in Modes : SyncEngine(t)]_vars

\* No typed key reaches the client ahead of the commit of a machine in
\* flight: between two steps of the machine its text does not move (an Enter
\* is not a typed key).
KeysFollowTheCommit ==
  [][Busy /\ machine' = machine
       => field'[machine.ctx] \in {field[machine.ctx], Append(field[machine.ctx], "p")}]_vars

\* The mode the next typed key will see.
Effective == IF modes.flip.target = "none" THEN modes.mode ELSE modes.flip.target

\* The mode a commit asks for: the combo's, or that of the result's script.
Following ==
  CASE modes.combo -> Opposite(modes.mode)
    [] ~modes.combo /\ FlipAfter -> ScriptOf(Converted(machine.token))
    [] OTHER -> modes.mode

\* The machine ends with its commit, not for the death of its context.
Commits == Busy /\ machine' = NoMachine /\ ~(machine.phase = "start" /\ machine.moved)

\* The owner asks for a layout: from the tray, from the shell, by a combo or
\* by a chord, at once or from the queue.
Gestures ==
  \/ ToggleMode
  \/ \E t \in Modes : SwitchMode(t) \/ SyncEngine(t)
  \/ \E k \in {"combo", "chord"} : Key(k) \/ (DrainKey /\ Head(queue) = k)

\* The mode follows the script of the result: the key after a commit types in
\* the mode the commit asks for, unless another flip waits in the slot; and
\* nothing else moves that mode but the owner, whose waiting gesture no
\* commit overrules.
ModeFollowsResult ==
  [][/\ Commits /\ modes.flip.target \in {"none", Following} => Effective' = Following
     /\ Effective' # Effective
          => \/ Gestures
             \/ Effective' = Following /\ (modes.combo \/ (Commits /\ ~modes.flip.gesture))]_vars

\* What a comment of deferCorrectionFlip says of two flips of corrections:
\* the later one supersedes the former.
FlipSupersedes ==
  [][Commits /\ FlipAfter /\ ~modes.combo /\ ~modes.flip.gesture => Effective' = Following]_vars

\* Every parked key is processed.
ParkedKeysDrain == queue # <<>> ~> queue = <<>>

\* The keys in good order under any scheduling of the drainer and the
\* machine: types, and no key press lost, doubled or eaten by a burst.
KeysInv == TypeOK /\ Conserved
=============================================================================
