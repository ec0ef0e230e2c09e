----------------------------- MODULE EngineLink -----------------------------
(***************************************************************************)
(* The daemon's connection to ibus-daemon and the layout both sides hold:  *)
(* the serve cycle that dials, registers, subscribes, re-activates the     *)
(* owned engine and binds the switcher once per generation; the flips that *)
(* leave through the switcher under the actor's lock; and the two ways the *)
(* daemon hears which engine is really active: the signal stream, in order *)
(* and dropped when its buffer is full, and FocusIn, each in a goroutine   *)
(* of its own.  ibus-daemon restarts, calls fail or time out and land      *)
(* later, and the owner picks engines in the shell meanwhile.              *)
(* A signal on the wire counts as in the buffer, and a signal the          *)
(* dispatcher holds while it waits for the actor's lock too.               *)
(***************************************************************************)
EXTENDS Naturals, Sequences, SequencesExt

CONSTANTS
  Foreign,     \* the engines that are not goswitch's
  Current,     \* the source under the desktop's current index, which the shell never writes
  Buffer,      \* signalBufferSize
  Attempts,    \* activationAttempts
  MaxFlips,    \* bounds: the gestures that flip,
  MaxMoves,    \*   the engines picked in the shell,
  MaxLosses,   \*   the restarts of ibus-daemon,
  MaxFaults,   \*   the calls that fail or time out,
  MaxFocus     \*   and the FocusIn handlers at work at a time

Modes == {"en", "ru"}
Engines == Modes \cup Foreign

ASSUME NamesAssumption == Foreign \cap Modes = {} /\ Current \in Engines
ASSUME SizesAssumption == {Buffer, Attempts} \subseteq Nat \ {0}
ASSUME BoundsAssumption == {MaxFlips, MaxMoves, MaxLosses, MaxFaults, MaxFocus} \subseteq Nat

VARIABLES
  mode,      \* the actor's
  flip,      \* the flip that awaits its answer under the actor's lock
  switcher,  \* the generation of the closure the actor holds, 0 when none
  link,      \* the serve cycle: its step, its generation, the engine to activate, the attempts
  signals,   \* the channel of the subscribed generation
  focus,     \* the FocusIn handlers at work, with the engine each names
  bus,       \* ibus-daemon: its generation, the global engine, a late call
  unheard,   \* why the actor may be wrong about the engine (history)
  spent      \* the bounds' counters

vars == <<mode, flip, switcher, link, signals, focus, bus, unheard, spent>>

None == "none"
Steps == {"dial", "register", "subscribe", "factual", "attempt", "bind", "serving", "exited"}
\* Mutant: the subscription comes after the activation.
Subscribed_Late == link.at = "serving"
Subscribed == link.at \in {"factual", "attempt", "bind", "serving"}
Registered == Subscribed \/ link.at = "subscribe"
Alive == link.gen = bus.gen
Running == link.at # "exited"

Generations == 0..(MaxLosses + 1)
Causes == {"dropped", "refused", "overtaken", "gap"}
TypeOK ==
  /\ mode \in Modes
  /\ flip \in Modes \cup {None}
  /\ switcher \in Generations
  /\ link \in [at: Steps, gen: Generations, name: Engines, attempt: 1..Attempts]
  /\ link.gen <= bus.gen /\ switcher <= link.gen
  /\ Len(signals) <= Buffer /\ \A i \in 1..Len(signals) : signals[i] \in Engines
  /\ Len(focus) <= MaxFocus /\ \A i \in 1..Len(focus) : focus[i] \in Modes
  /\ bus \in [gen: Generations, engine: Engines, late: Modes \cup {None}]
  /\ unheard \subseteq Causes
  /\ spent \in [flips: 0..MaxFlips, moves: 0..MaxMoves, losses: 0..MaxLosses, faults: 0..MaxFaults]

Init ==
  /\ mode = "en" /\ flip = None /\ switcher = 0
  /\ link = [at |-> "dial", gen |-> 0, name |-> "en", attempt |-> 1]
  /\ signals = << >> /\ focus = << >>
  /\ \E e \in Engines : bus = [gen |-> 1, engine |-> e, late |-> None]
  /\ unheard = {"gap"}
  /\ spent = [flips |-> 0, moves |-> 0, losses |-> 0, faults |-> 0]

(***************************************************************************)
(* What the actor may not have heard: a cause stays until the mode is the  *)
(* engine, or will be when the channel has been read.                      *)
(***************************************************************************)
Settled(m, e, queue) == IF queue = << >> THEN m = e ELSE Last(queue) = e
Hears(causes) ==
  unheard' = IF Settled(mode', bus'.engine, signals') THEN {} ELSE unheard \cup causes

(***************************************************************************)
(* ibus-daemon sets an engine: it tells the subscribed connection, and an  *)
(* engine of goswitch may get the focus.                                   *)
(***************************************************************************)
DeliverSignal(name) == IF Len(signals) < Buffer THEN Append(signals, name) ELSE signals
LossOf ==
  IF ~(Alive /\ Subscribed) THEN {"gap"} ELSE IF Len(signals) = Buffer THEN {"dropped"} ELSE {}

FocusIn(name) ==
  \/ UNCHANGED focus
  \/ Alive /\ Registered /\ name \in Modes /\ Len(focus) < MaxFocus /\ focus' = Append(focus, name)

SetGlobalEngine(name) ==
  /\ bus' = [bus EXCEPT !.engine = name, !.late = IF @ = name THEN None ELSE @]
  /\ signals' = IF Alive /\ Subscribed THEN DeliverSignal(name) ELSE signals
  /\ FocusIn(name)

(***************************************************************************)
(* The serve cycle.                                                        *)
(***************************************************************************)
Fault == spent.faults < MaxFaults /\ spent' = [spent EXCEPT !.faults = @ + 1]
NoFault == UNCHANGED spent

Goes(step) == link' = [link EXCEPT !.at = step]
RestOfActor == UNCHANGED <<mode, flip, switcher, focus>>

\* Discovery, dial, handshake and the component's name: another instance
\* that holds the name ends the daemon.
Dial ==
  /\ link.at = "dial"
  /\ \/ link' = [link EXCEPT !.at = "register", !.gen = bus.gen] /\ NoFault
     \/ link' = [link EXCEPT !.at = "exited"] /\ Fault
  /\ RestOfActor /\ UNCHANGED <<signals, bus, unheard>>

Register ==
  /\ link.at = "register"
  /\ \/ Alive /\ Goes("subscribe") /\ NoFault
     \/ ~Alive /\ Goes("dial") /\ NoFault
     \/ Goes("dial") /\ Fault
  /\ RestOfActor /\ UNCHANGED <<signals, bus, unheard>>

\* A channel of its own for the generation.
Subscribe ==
  /\ link.at = "subscribe"
  /\ \/ Alive /\ Goes("factual") /\ signals' = << >> /\ NoFault
     \/ ~Alive /\ Goes("dial") /\ NoFault /\ UNCHANGED signals
     \/ Goes("dial") /\ Fault /\ UNCHANGED signals
  /\ RestOfActor /\ UNCHANGED <<bus, unheard>>

\* IfOwned: the factual engine leads; one that cannot be read leaves the
\* decision to the desktop's keys, which may be unreadable too.
Aims(name) ==
  link' = IF name \in Modes THEN [link EXCEPT !.at = "attempt", !.name = name, !.attempt = 1]
          ELSE [link EXCEPT !.at = "bind"]
IfOwned ==
  /\ link.at = "factual"
  /\ \/ Alive /\ Aims(bus.engine) /\ NoFault
     \/ ~Alive /\ Aims(Current) /\ NoFault
     \/ Fault /\ (Aims(Current) \/ Goes("bind"))
  /\ RestOfActor /\ UNCHANGED <<signals, bus, unheard>>

\* The activation is a process with a connection of its own.
Reactivate ==
  /\ link.at = "attempt"
  /\ \/ SetGlobalEngine(link.name) /\ Goes("bind") /\ NoFault
        /\ UNCHANGED <<mode, flip, switcher>> /\ Hears(LossOf)
     \/ /\ Fault /\ RestOfActor /\ UNCHANGED <<signals, bus, unheard>>
        /\ link' = IF link.attempt < Attempts THEN [link EXCEPT !.attempt = @ + 1]
                   ELSE [link EXCEPT !.at = "bind"]

\* Mutant: the first closure stays.
BindSwitcher_Once ==
  /\ link.at = "bind" /\ flip = None
  /\ switcher' = IF switcher = 0 THEN link.gen ELSE switcher
  /\ Goes("serving")
  /\ UNCHANGED <<mode, flip, signals, focus, bus, unheard, spent>>

BindSwitcher ==
  /\ link.at = "bind" /\ flip = None
  /\ switcher' = link.gen
  /\ Goes("serving")
  /\ UNCHANGED <<mode, flip, signals, focus, bus, unheard, spent>>

\* Mutant: the closed channel is set aside as a closed one of the tray's is.
BusLoss_Ignored == FALSE

\* A closed channel is drained before the loss is seen.
BusLoss ==
  /\ link.at = "serving" /\ ~Alive /\ signals = << >>
  /\ Goes("dial")
  /\ RestOfActor /\ UNCHANGED <<signals, bus, unheard, spent>>

(***************************************************************************)
(* What the actor hears.                                                   *)
(***************************************************************************)
SyncEngine(name) == mode' = IF name \in Modes THEN name ELSE mode

\* Mutant: the newest signal first.
DispatchSignals_Newest ==
  /\ link.at = "serving" /\ flip = None /\ signals # << >>
  /\ SyncEngine(Last(signals))
  /\ signals' = Front(signals)
  /\ UNCHANGED <<flip, switcher, link, focus, bus, spent>>
  /\ Hears({})

DispatchSignals ==
  /\ link.at = "serving" /\ flip = None /\ signals # << >>
  /\ SyncEngine(Head(signals))
  /\ signals' = Tail(signals)
  /\ UNCHANGED <<flip, switcher, link, focus, bus, spent>>
  /\ Hears({})

HandleFocusIn ==
  /\ Running /\ flip = None
  /\ \E i \in 1..Len(focus) :
       /\ SyncEngine(focus[i])
       /\ focus' = RemoveAt(focus, i)
       /\ UNCHANGED <<signals, bus>>
       /\ Hears(IF focus[i] # bus.engine THEN {"overtaken"} ELSE {})
  /\ UNCHANGED <<flip, switcher, link, spent>>

(***************************************************************************)
(* The flips: the mode stands at once, the call follows under the lock.    *)
(***************************************************************************)
FlipTo ==
  /\ Running /\ flip = None
  /\ spent.flips < MaxFlips /\ spent' = [spent EXCEPT !.flips = @ + 1]
  /\ \E target \in Modes \ {mode} :
       /\ mode' = target
       /\ flip' = IF switcher = 0 THEN None ELSE target
  /\ UNCHANGED <<switcher, link, signals, focus, bus>>
  /\ Hears(IF switcher = 0 THEN {"refused"} ELSE {})

FlipLands ==
  /\ Running /\ flip # None /\ switcher = bus.gen
  /\ SetGlobalEngine(flip)
  /\ flip' = None
  /\ UNCHANGED <<mode, switcher, link, spent>>
  /\ Hears(LossOf)

\* The closure of a dead generation fails; a live call may fail, or run into
\* the deadline with ibus-daemon still to serve it.
FlipFails ==
  /\ Running /\ flip # None
  /\ flip' = None
  /\ \/ switcher # bus.gen /\ NoFault /\ UNCHANGED bus
     \/ switcher = bus.gen /\ Fault /\ \E late \in {flip, bus.late} : bus' = [bus EXCEPT !.late = late]
  /\ UNCHANGED <<mode, switcher, link, signals, focus>>
  /\ Hears({"refused"})

(***************************************************************************)
(* ibus-daemon and the owner.                                              *)
(***************************************************************************)
LateFlip ==
  /\ bus.late # None
  /\ SetGlobalEngine(bus.late)
  /\ UNCHANGED <<mode, flip, switcher, link, spent>>
  /\ Hears(LossOf)

OwnerPicks ==
  /\ spent.moves < MaxMoves /\ spent' = [spent EXCEPT !.moves = @ + 1]
  /\ \E e \in Engines \ {bus.engine} : SetGlobalEngine(e)
  /\ UNCHANGED <<mode, flip, switcher, link>>
  /\ Hears(LossOf)

WindowFocused ==
  /\ focus' = Append(focus, bus.engine)
  /\ spent.moves < MaxMoves /\ spent' = [spent EXCEPT !.moves = @ + 1]
  /\ Alive /\ Registered /\ bus.engine \in Modes /\ Len(focus) < MaxFocus
  /\ UNCHANGED <<mode, flip, switcher, link, signals, bus, unheard>>

\* A restarted ibus-daemon begins with an engine of its own choice.
IbusRestarts ==
  /\ spent.losses < MaxLosses /\ spent' = [spent EXCEPT !.losses = @ + 1]
  /\ \E e \in Engines : bus' = [gen |-> bus.gen + 1, engine |-> e, late |-> None]
  /\ UNCHANGED <<mode, flip, switcher, link, signals, focus>>
  /\ Hears({"gap"})

Serve == Dial \/ Register \/ Subscribe \/ IfOwned \/ Reactivate \/ BindSwitcher \/ BusLoss
Next ==
  \/ Serve \/ DispatchSignals \/ HandleFocusIn
  \/ FlipTo \/ FlipLands \/ FlipFails
  \/ LateFlip \/ OwnerPicks \/ WindowFocused \/ IbusRestarts

\* The daemon's goroutines run, and a call is answered or runs into its
\* deadline.
Spec == Init /\ [][Next]_vars
FairSpec ==
  /\ Spec
  /\ WF_vars(Serve) /\ WF_vars(DispatchSignals) /\ WF_vars(HandleFocusIn)
  /\ WF_vars(FlipLands \/ FlipFails)

(***************************************************************************)
(* Properties.                                                             *)
(***************************************************************************)
Owed == signals # << >> /\ Last(signals) = bus.engine

\* Whatever flips, echoes of older flips, picks and restarts cross, the mode
\* and an owned engine differ only while a flip awaits its answer, while the
\* correcting signal is queued, or for a recorded cause: a dropped signal,
\* a refused flip, an overtaken FocusIn or a time without a subscription.
Agreement ==
  Running /\ bus.engine \in Modes /\ mode # bus.engine =>
    flip # None \/ Owed \/ unheard # {}

\* The time before the subscription is made up for by the activation: on a
\* live, served connection it stays a cause only after a failed call.
GapClosed ==
  link.at = "serving" /\ Alive /\ signals = << >> /\ bus.engine \in Modes /\ "gap" \in unheard =>
    spent.faults > 0

\* The closure of a dead generation does not survive into serving: there a
\* flip on a live connection is refused only by a call that failed.
ServingSwitcherIsLive ==
  [][FlipFails /\ Alive /\ link.at = "serving" => spent'.faults > spent.faults]_vars

\* The owner at rest, the layout the daemon holds becomes the engine's.
Follows == <>[](link.at = "serving" /\ bus.engine \in Modes => mode = bus.engine \/ unheard # {})
\* And the daemon comes back to serving unless another instance stopped it.
Serves == <>[](link.at \in {"serving", "exited"} /\ (Alive \/ link.at = "exited"))

\* A flip made after the new generation has subscribed does not leave
\* through the closure of the dead one.
NoDeadSwitcher == [][FlipTo /\ Alive /\ Subscribed => switcher \in {0, link.gen}]_vars

\* The link in good order: types, and a gap that the activation made up for.
LinkInv == TypeOK /\ GapClosed

\* After the last loss the daemon serves again, and follows the engine.
Recovers == Serves /\ Follows
=============================================================================
