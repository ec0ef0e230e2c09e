----------------------------- MODULE ContextLife -----------------------------
(***************************************************************************)
(* The behavioural terminal class of the session actor: learned when a     *)
(* verify round of the live context is lost, wiped when the context dies,  *)
(* kept over the flaps of a window and over the daemon's own layout flips, *)
(* and remembered per application.  The focus handlers, the two windows    *)
(* with their timers and the callbacks that wait for the mutex meet in any *)
(* order; the accessibility observer names the focused application earlier *)
(* or later than ibus reports the focus.                                   *)
(***************************************************************************)
EXTENDS Naturals, FiniteSets, SequencesExt

CONSTANTS
  Windows,  \* input contexts
  AppOf,    \* the application of a window
  Visible,  \* the applications the observer can name
  Peer,     \* the bus name that mints the engines of a window
  Cap,      \* appDeadMemoryCap
  Bounds    \* how often the environment may do what `spent` counts

None == "none"

Apps == {AppOf[w] : w \in Windows}

Inputs == {"mints", "moves", "flips", "resets", "rounds"}

ASSUME WindowsAssumption ==
  /\ DOMAIN AppOf = Windows /\ DOMAIN Peer = Windows
  /\ Visible \subseteq Apps
  /\ None \notin Windows \cup Apps

ASSUME BoundsAssumption == Cap \in Nat \ {0} /\ Bounds \in [Inputs -> Nat]

VARIABLES
  focus,      \* the window whose FocusIn was handled last, None after its FocusOut
  seen,       \* the application the observer reports, None when it has no name
  emitter,    \* the engine object minted last: its window and its number
  own,        \* the focus pairs of the daemon's flips on their way
  echoes,     \* the Resets the clients still owe to the flips
  dead,       \* verifyDead, the class of the live context
  memory,     \* appDeadOrder, the keys of the applications that taught it
  round,      \* a verify round is open
  credit,     \* flipCredit
  flap,       \* the deferred wipe of the class
  aftermath,  \* the aftermath of the last flip
  kept,       \* history: the window that learned the class and has not lost it
  due,        \* history: the echo of the last flip is still in its time
  younger,    \* history: of every key taught, the keys that came to memory after it
  spent       \* the bounds' counters

classVars == <<focus, seen, emitter, own, echoes, dead, memory, round, credit,
               flap, aftermath, kept, due, younger, spent>>

env == <<focus, seen, emitter, own, echoes>>

-----------------------------------------------------------------------------
(* A window is a slot with a timer and an epoch: a callback that waits for  *)
(* the mutex is "now" when its epoch is the slot's, else "old".             *)

NoEngine == <<None, 0>>

Closed == [on |-> FALSE, eng |-> NoEngine, timer |-> FALSE, calls |-> {}]

\* Mutant: a cancelled window keeps its epoch.
Cancel_SameEpoch(slot) == [Closed EXCEPT !.calls = slot.calls]

Cancel(slot) == [Closed EXCEPT !.calls = IF slot.calls = {} THEN {} ELSE {"old"}]

\* Mutant: the window of a repeated loss has no timer.
Arm_Once(slot) ==
  [Cancel(slot) EXCEPT !.on = TRUE, !.eng = emitter, !.timer = ~slot.on]

Arm(slot) == [Cancel(slot) EXCEPT !.on = TRUE, !.eng = emitter, !.timer = TRUE]

Fired(slot) == [slot EXCEPT !.timer = FALSE, !.calls = @ \cup {"now"}]

Ran(slot, call) ==
  IF call = "old" THEN [slot EXCEPT !.calls = @ \ {call}]
  ELSE [Closed EXCEPT !.calls = slot.calls \ {call}]

-----------------------------------------------------------------------------
(* The memory of the applications.                                          *)

KeyOf(w) == IF AppOf[w] \in Visible THEN AppOf[w] ELSE Peer[w]

\* The observer's name, or else the peer that minted the live engine.
AppKey == IF seen # None THEN seen ELSE Peer[emitter[1]]

Remembered(k) ==
  LET longer == Append(memory, k)
  IN  CASE k \in ToSet(memory) -> memory
        [] k \notin ToSet(memory) /\ Len(longer) > Cap -> Tail(longer)
        [] OTHER -> longer

\* The behavioural half of classifyTerminal.
Terminal == dead \/ AppKey \in ToSet(memory)

-----------------------------------------------------------------------------
(* The discipline of a context's death.                                     *)

FocusLost(synthetic) ==
  /\ IF synthetic
       THEN flap' = Cancel(flap) /\ UNCHANGED aftermath
       ELSE flap' = Arm(flap) /\ aftermath' = Cancel(aftermath)
  /\ UNCHANGED <<dead, memory>>

\* A Reset in the aftermath of a flip is the client's echo of it.
ResetCame ==
  /\ flap' = Cancel(flap)
  /\ IF aftermath.on
       THEN aftermath' = Cancel(aftermath) /\ UNCHANGED dead
       ELSE dead' = FALSE /\ UNCHANGED aftermath
  /\ UNCHANGED memory

\* HandleLifecycle(FocusOut): a flip's credit makes it a synthetic one.
HandleFocusOut ==
  /\ FocusLost(credit > 0)
  /\ credit' = IF credit > 0 THEN credit - 1 ELSE credit
  /\ round' = FALSE

\* HandleLifecycle(Reset).
HandleReset == ResetCame /\ round' = FALSE /\ UNCHANGED credit

\* HandleLifecycle(FocusIn): the engine minted last, and not the one that
\* gained the focus, is compared with the engine of the window.
HandleFocusIn ==
  /\ flap' = IF flap.on /\ flap.eng = emitter THEN Cancel(flap) ELSE flap
  /\ UNCHANGED <<dead, memory, round, credit, aftermath>>

-----------------------------------------------------------------------------
Spend(what) == spent[what] < Bounds[what] /\ spent' = [spent EXCEPT ![what] = @ + 1]

ClassInit ==
  /\ \E w \in Windows : focus = w /\ emitter = <<w, 0>>
  /\ seen \in Visible \cup {None}
  /\ own = <<>> /\ echoes = 0
  /\ dead = FALSE /\ memory = <<>> /\ round = FALSE /\ credit = 0
  /\ flap = Closed /\ aftermath = Closed
  /\ kept = None /\ due = FALSE /\ younger = [k \in {} |-> {}]
  /\ spent = [i \in Inputs |-> 0]

\* AttachEngine: an engine is minted for a window that is to gain the focus;
\* the call takes no lock and may overtake the FocusOut of the other window.
Mint(w) ==
  /\ Spend("mints")
  /\ w # focus
  /\ emitter' = <<w, spent.mints + 1>>
  /\ kept' = IF flap.on THEN None ELSE kept
  /\ UNCHANGED <<focus, seen, own, echoes, dead, memory, round, credit, flap, aftermath, due, younger>>

\* The accessibility observer reports another application, or loses its name.
Observe ==
  /\ seen' \in (Visible \cup {None}) \ {seen}
  /\ UNCHANGED <<focus, emitter, own, echoes, dead, memory, round, credit, flap, aftermath, kept, due, younger, spent>>

\* The focus leaves the window; the flips' pairs came before.
FocusOut ==
  /\ Spend("moves")
  /\ focus # None /\ own = <<>>
  /\ focus' = None
  /\ due' = FALSE
  /\ HandleFocusOut
  /\ UNCHANGED <<seen, emitter, own, echoes, kept, younger>>

\* A window gains the focus: the one that lost it, or another.
FocusIn(w) ==
  /\ focus = None
  /\ focus' = w
  /\ kept' = IF w = kept THEN kept ELSE None
  /\ HandleFocusIn
  /\ UNCHANGED <<seen, emitter, own, echoes, due, younger, spent>>

\* flipTo: ibus mints the engine of the focused window anew, and a focus
\* pair and the echo of a slow client follow.
Flip ==
  /\ Spend("flips")
  /\ focus # None
  /\ credit' = credit + 1
  /\ aftermath' = Arm(aftermath)
  /\ emitter' = <<focus, Bounds["mints"] + spent.flips + 1>>
  /\ own' = own \o <<"out", "in">>
  /\ echoes' = echoes + 1
  /\ due' = TRUE
  /\ UNCHANGED <<focus, seen, dead, memory, round, flap, kept, younger>>

\* The next event of a flip's focus pair.
OwnPair ==
  /\ own # <<>>
  /\ own' = Tail(own)
  /\ IF Head(own) = "out" THEN HandleFocusOut ELSE HandleFocusIn
  /\ UNCHANGED <<focus, seen, emitter, echoes, kept, due, younger, spent>>

\* The client connects its input context to the new engine and resets it.
EchoReset ==
  /\ echoes > 0 /\ own = <<>>
  /\ echoes' = echoes - 1
  /\ kept' = IF due THEN kept ELSE None
  /\ due' = FALSE
  /\ HandleReset
  /\ UNCHANGED <<focus, seen, emitter, own, younger, spent>>

\* The client resets its input context for a reason of its own.
ClientReset ==
  /\ Spend("resets")
  /\ focus # None
  /\ kept' = None
  /\ due' = FALSE
  /\ HandleReset
  /\ UNCHANGED <<focus, seen, emitter, own, echoes, younger>>

\* A correction of a context that is not a terminal's opens a verify round.
OpenRound ==
  /\ Spend("rounds")
  /\ focus # None /\ ~round /\ ~Terminal
  /\ round' = TRUE
  /\ UNCHANGED <<env, dead, memory, credit, flap, aftermath, kept, due, younger>>

\* The client answers in time.
AnswerCame ==
  /\ round
  /\ round' = FALSE
  /\ UNCHANGED <<env, dead, memory, credit, flap, aftermath, kept, due, younger, spent>>

SetVerifyDead == dead' = TRUE /\ memory' = IF dead THEN memory ELSE Remembered(AppKey)

\* The round is lost: its budget expires, or the one answer is of a stale cache.
RoundLost ==
  /\ round
  /\ round' = FALSE
  /\ SetVerifyDead
  /\ kept' = IF flap.on THEN None ELSE focus
  /\ younger' = IF AppKey \in ToSet(memory) THEN younger
                ELSE [k \in DOMAIN younger \cup {AppKey} |->
                        IF k = AppKey THEN {} ELSE younger[k] \cup {AppKey}]
  /\ UNCHANGED <<env, credit, flap, aftermath, due, spent>>

FlapFires ==
  /\ flap.timer
  /\ flap' = Fired(flap)
  /\ kept' = IF focus = None THEN None ELSE kept
  /\ UNCHANGED <<env, dead, memory, round, credit, aftermath, due, younger, spent>>

\* verifyDeadWipeExpiry.
WipeExpiry(call) ==
  /\ call \in flap.calls
  /\ flap' = Ran(flap, call)
  /\ dead' = IF call = "now" THEN FALSE ELSE dead
  /\ UNCHANGED <<env, memory, round, credit, aftermath, kept, due, younger, spent>>

AftermathFires ==
  /\ aftermath.timer
  /\ aftermath' = Fired(aftermath)
  /\ due' = FALSE
  /\ UNCHANGED <<env, dead, memory, round, credit, flap, kept, younger, spent>>

\* flipAftermathExpiry.
AftermathExpiry(call) ==
  /\ call \in aftermath.calls
  /\ aftermath' = Ran(aftermath, call)
  /\ UNCHANGED <<env, dead, memory, round, credit, flap, kept, due, younger, spent>>

ClassNext ==
  \/ \E w \in Windows : Mint(w) \/ FocusIn(w)
  \/ Observe \/ FocusOut \/ Flip \/ OwnPair \/ EchoReset \/ ClientReset
  \/ OpenRound \/ AnswerCame \/ RoundLost
  \/ FlapFires \/ AftermathFires
  \/ \E call \in {"now", "old"} : WipeExpiry(call) \/ AftermathExpiry(call)

\* The runtime fires its timers and their callbacks get the mutex.
Fairness == WF_classVars(FlapFires) /\ WF_classVars(\E call \in {"now", "old"} : WipeExpiry(call))

ClassSpec == ClassInit /\ [][ClassNext]_classVars /\ Fairness

-----------------------------------------------------------------------------
\* Types; the credits are the focus losses that the flips still owe.
ClassTypeOK ==
  /\ focus \in Windows \cup {None} /\ kept \in Windows \cup {None}
  /\ seen \in Visible \cup {None}
  /\ credit = Cardinality({i \in DOMAIN own : own[i] = "out"})
  /\ {dead, round, due} \subseteq BOOLEAN
  /\ Len(memory) =< Cap /\ IsInjective(memory)

\* The class learned in a window survives everything that is not the death of
\* its context: flaps of that window shorter than the deferred wipe, the focus
\* pairs of the daemon's flips, the echo of the last of them, and whatever
\* callbacks of cancelled windows still wait for the mutex (actor.go
\* verifyDeadOnContextDeath, cancelVerifyDeadWipe).
KeptWhileHere == kept # None => dead

\* A context that lost the focus for good takes its class with it: however
\* often flaps and flips re-armed or cancelled the deferred wipe, nothing
\* leaves the class behind with no wipe to come (actor.go armVerifyDeadWipe).
LossIsFinal == dead /\ focus = None ~> ~dead \/ focus # None

\* An application that taught the class under its name or its peer is never
\* probed again, in whichever of its windows, until as many others as the
\* memory holds were taught after it: neither a wipe of the live class nor a
\* mistaken identity in between takes it (actor.go setVerifyDead,
\* rememberVerifyDeadApp, classifyTerminal).
FirstPress ==
  \A w \in Windows :
    focus = w /\ AppKey = KeyOf(w) /\ KeyOf(w) \in DOMAIN younger =>
      Terminal \/ Cardinality(younger[KeyOf(w)]) >= Cap

\* The class in good order, live and remembered.
ClassInv == ClassTypeOK /\ KeptWhileHere /\ FirstPress
=============================================================================
