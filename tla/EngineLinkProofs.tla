-------------------------- MODULE EngineLinkProofs --------------------------
(***************************************************************************)
(* Proofs about the engine link: whatever the numbers of flips, picks,     *)
(* restarts, faults and the buffer's size, the mode and the engine differ  *)
(* only for the causes Agreement names.  The invariant says what a clean   *)
(* record means: the channel ends with the engine, or is empty and the     *)
(* mode is the engine, a flip is on its way, or the engine is foreign; the *)
(* channel is empty before a subscription, so that the fresh one loses     *)
(* nothing, and within its buffer, so that what does not fit is recorded.  *)
(* A second invariant, on top of the first, is about the generations and   *)
(* the gap before a subscription: while a live subscribed connection still *)
(* has one the channel is fresh, so the activation's own signal closes it. *)
(***************************************************************************)
EXTENDS EngineLink, TLAPS

ChannelOK == signals \in Seq(Engines) /\ Len(signals) <= Buffer
Clean(m, f, e, queue) ==
  IF queue = << >> THEN m = e \/ f # None \/ e \notin Modes ELSE Last(queue) = e
CleanMeans == unheard = {} => Clean(mode, flip, bus.engine, signals)
FreshChannel == link.at \in {"dial", "register", "subscribe"} => signals = << >>
LinkOK == link \in [at: Steps, gen: Nat, name: Engines, attempt: Nat]
AimOK == link.at = "attempt" => link.name \in Modes
BusOK == bus \in [gen: Nat, engine: Engines, late: Modes \cup {None}]
FlipOK == flip \in Modes \cup {None}
IInv == ChannelOK /\ CleanMeans /\ FreshChannel /\ LinkOK /\ AimOK /\ BusOK /\ FlipOK

(***************************************************************************)
(* The channel.                                                            *)
(***************************************************************************)
LEMMA Appended ==
  ASSUME NEW q \in Seq(Engines), NEW e \in Engines
  PROVE  /\ Append(q, e) \in Seq(Engines) /\ Append(q, e) # << >>
         /\ Len(Append(q, e)) = Len(q) + 1 /\ Last(Append(q, e)) = e
BY DEF Last

LEMMA Consumed ==
  ASSUME NEW q \in Seq(Engines), q # << >>
  PROVE  /\ Tail(q) \in Seq(Engines) /\ Len(Tail(q)) = Len(q) - 1
         /\ Tail(q) # << >> => Last(Tail(q)) = Last(q)
         /\ Tail(q) = << >> => Last(q) = Head(q)
BY DEF Last

LEMMA EmptyChannel == << >> \in Seq(Engines) /\ Len(<< >>) <= Buffer
<1>1. << >> \in Seq(Engines) /\ Len(<< >>) = 0 OBVIOUS
<1> QED BY <1>1, SizesAssumption

\* A step that records its causes leaves a clean record only if it is one.
LEMMA Recorded ==
  ASSUME NEW causes, Hears(causes), causes # {} PROVE CleanMeans'
BY DEF Hears, Settled, CleanMeans, Clean

\* A set engine is heard in order, or its loss is recorded.
LEMMA EngineSet ==
  ASSUME IInv, NEW name \in Engines, SetGlobalEngine(name), Hears(LossOf)
  PROVE  ChannelOK' /\ CleanMeans' /\ BusOK' /\ (~Subscribed => UNCHANGED signals)
<1>1. BusOK' /\ bus'.engine = name
  BY DEF SetGlobalEngine, IInv, BusOK, Modes
<1>2. CASE Alive /\ Subscribed /\ Len(signals) < Buffer
  <2>1. signals' = Append(signals, name) BY <1>2 DEF SetGlobalEngine, DeliverSignal
  <2>2. ChannelOK' /\ signals' # << >> /\ Last(signals') = name
    BY <2>1, <1>2, Appended, SizesAssumption DEF ChannelOK, IInv
  <2> QED BY <1>1, <1>2, <2>2 DEF CleanMeans, Clean
<1>3. CASE ~(Alive /\ Subscribed /\ Len(signals) < Buffer)
  <2>1. UNCHANGED signals BY <1>3 DEF SetGlobalEngine, DeliverSignal
  <2>2. LossOf # {} BY <1>3, SizesAssumption DEF LossOf, IInv, ChannelOK
  <2> QED BY <1>1, <2>1, <2>2, Recorded DEF ChannelOK, IInv
<1> QED BY <1>2, <1>3

(***************************************************************************)
(* The invariant.                                                          *)
(***************************************************************************)
LEMMA Initially == Init => IInv
<1> SUFFICES ASSUME Init PROVE IInv OBVIOUS
<1>1. ChannelOK BY EmptyChannel DEF Init, ChannelOK
<1>2. LinkOK /\ BusOK /\ FlipOK
  BY DEF Init, LinkOK, BusOK, FlipOK, Steps, Engines, Modes
<1> QED BY <1>1, <1>2 DEF Init, IInv, CleanMeans, FreshChannel, AimOK

LEMMA Inductive == IInv /\ [Next]_vars => IInv'
<1> SUFFICES ASSUME IInv, [Next]_vars PROVE IInv' OBVIOUS
<1> USE DEF IInv
<1>1. CASE Dial \/ Register
  <2>1. UNCHANGED <<mode, flip, signals, bus, unheard>>
    BY <1>1 DEF Dial, Register, RestOfActor
  <2>2. LinkOK' /\ AimOK' /\ (link'.at \in {"dial", "register", "subscribe"} => link.at \in {"dial", "register", "subscribe"})
    BY <1>1 DEF Dial, Register, Goes, LinkOK, AimOK, BusOK, Steps
  <2> QED BY <2>1, <2>2 DEF ChannelOK, CleanMeans, FreshChannel, BusOK, FlipOK
<1>2. CASE Subscribe
  <2>1. UNCHANGED <<mode, flip, bus, unheard>> /\ signals = << >> /\ signals' = << >>
    BY <1>2 DEF Subscribe, RestOfActor, FreshChannel
  <2>2. LinkOK' /\ AimOK' BY <1>2 DEF Subscribe, Goes, LinkOK, AimOK, Steps
  <2> QED BY <2>1, <2>2 DEF ChannelOK, CleanMeans, FreshChannel, BusOK, FlipOK
<1>3. CASE IfOwned
  <2>1. UNCHANGED <<mode, flip, signals, bus, unheard>> BY <1>3 DEF IfOwned, RestOfActor
  <2>2. PICK name \in Engines : Aims(name) \/ Goes("bind")
    BY <1>3, NamesAssumption DEF IfOwned, BusOK
  <2>3. LinkOK' /\ AimOK' /\ link'.at \in {"attempt", "bind"}
    <3>1. CASE Aims(name) /\ name \in Modes
      BY <3>1 DEF Aims, LinkOK, AimOK, Steps
    <3>2. CASE (Aims(name) /\ name \notin Modes) \/ Goes("bind")
      BY <3>2 DEF Aims, Goes, LinkOK, AimOK, Steps
    <3> QED BY <2>2, <3>1, <3>2
  <2> QED BY <2>1, <2>3 DEF ChannelOK, CleanMeans, FreshChannel, BusOK, FlipOK
<1>4. CASE Reactivate
  <2>1. LinkOK' /\ AimOK' /\ link'.at \in {"attempt", "bind"} /\ FlipOK'
    BY <1>4, SizesAssumption DEF Reactivate, Goes, LinkOK, AimOK, Steps, RestOfActor, FlipOK
  <2>2. CASE SetGlobalEngine(link.name) /\ Hears(LossOf)
    <3>1. link.name \in Engines BY DEF LinkOK
    <3> QED BY <3>1, <2>1, <2>2, EngineSet DEF FreshChannel
  <2>3. CASE UNCHANGED <<mode, flip, signals, bus, unheard>>
    BY <2>1, <2>3 DEF ChannelOK, CleanMeans, FreshChannel, BusOK, FlipOK
  <2> QED BY <1>4, <2>2, <2>3 DEF Reactivate, RestOfActor
<1>5. CASE BindSwitcher \/ BusLoss
  <2>1. UNCHANGED <<mode, flip, signals, bus, unheard>>
    BY <1>5 DEF BindSwitcher, BusLoss, RestOfActor
  <2>2. LinkOK' /\ AimOK' /\ (link'.at \in {"dial", "register", "subscribe"} => signals = << >>)
    BY <1>5 DEF BindSwitcher, BusLoss, Goes, LinkOK, AimOK, Steps
  <2> QED BY <2>1, <2>2 DEF ChannelOK, CleanMeans, FreshChannel, BusOK, FlipOK
<1>6. CASE DispatchSignals
  <2>1. /\ UNCHANGED <<flip, link, bus>> /\ signals # << >> /\ signals' = Tail(signals)
        /\ flip = None /\ SyncEngine(Head(signals)) /\ Hears({})
    BY <1>6 DEF DispatchSignals
  <2>2. ChannelOK' BY <2>1, Consumed, SizesAssumption DEF ChannelOK
  <2>3. CleanMeans'
    <3> SUFFICES ASSUME unheard' = {}, ~Settled(mode', bus'.engine, signals')
                 PROVE  Clean(mode', flip', bus'.engine, signals')
      BY DEF CleanMeans, Settled, Clean
    <3>1. Last(signals) = bus.engine BY <2>1 DEF Hears, CleanMeans, Clean
    <3>2. CASE Tail(signals) = << >>
      BY <2>1, <3>1, <3>2, Consumed DEF SyncEngine, Clean, ChannelOK
    <3>3. CASE Tail(signals) # << >>
      BY <2>1, <3>1, <3>3, Consumed DEF Clean, ChannelOK
    <3> QED BY <3>2, <3>3
  <2> QED BY <2>1, <2>2, <2>3 DEF FreshChannel, LinkOK, AimOK, BusOK, FlipOK
<1>7. CASE HandleFocusIn
  <2>1. PICK i \in 1..Len(focus) :
          /\ SyncEngine(focus[i])
          /\ Hears(IF focus[i] # bus.engine THEN {"overtaken"} ELSE {})
    BY <1>7 DEF HandleFocusIn
  <2>2. UNCHANGED <<flip, link, bus, signals>> BY <1>7 DEF HandleFocusIn
  <2>3. CleanMeans'
    <3>1. CASE focus[i] # bus.engine BY <2>1, <3>1, Recorded
    <3>2. CASE focus[i] = bus.engine
      BY <2>1, <2>2, <3>2 DEF Hears, Settled, SyncEngine, CleanMeans, Clean
    <3> QED BY <3>1, <3>2
  <2> QED BY <2>2, <2>3 DEF ChannelOK, FreshChannel, LinkOK, AimOK, BusOK, FlipOK
<1>8. CASE FlipTo
  <2>1. PICK target \in Modes : flip' = (IF switcher = 0 THEN None ELSE target)
    BY <1>8 DEF FlipTo
  <2>2. UNCHANGED <<link, bus, signals>> /\ Hears(IF switcher = 0 THEN {"refused"} ELSE {})
    BY <1>8 DEF FlipTo
  <2>3. CleanMeans'
    <3>1. CASE switcher = 0 BY <2>2, <3>1, Recorded
    <3>2. CASE switcher # 0
      BY <2>1, <2>2, <3>2 DEF Hears, Settled, CleanMeans, Clean, Modes, None
    <3> QED BY <3>1, <3>2
  <2> QED BY <2>1, <2>2, <2>3 DEF ChannelOK, FreshChannel, LinkOK, AimOK, BusOK, FlipOK
<1>9. CASE FlipLands
  <2>1. flip \in Engines /\ SetGlobalEngine(flip) /\ Hears(LossOf) /\ UNCHANGED link /\ flip' = None
    BY <1>9 DEF FlipLands, FlipOK, Engines
  <2>2. ChannelOK' /\ CleanMeans' /\ BusOK' /\ (~Subscribed => UNCHANGED signals)
    BY <2>1, EngineSet
  <2> QED BY <2>1, <2>2 DEF FreshChannel, LinkOK, AimOK, FlipOK, Subscribed
<1>10. CASE FlipFails
  <2>1. UNCHANGED <<link, signals>> /\ flip' = None /\ Hears({"refused"}) /\ BusOK'
    BY <1>10 DEF FlipFails, BusOK, FlipOK, None
  <2> QED BY <2>1, Recorded DEF ChannelOK, FreshChannel, LinkOK, AimOK, FlipOK
<1>11. CASE LateFlip \/ OwnerPicks
  <2>1. PICK name \in Engines : SetGlobalEngine(name)
    BY <1>11 DEF LateFlip, OwnerPicks, BusOK, Engines
  <2>2. UNCHANGED <<link, flip>> /\ Hears(LossOf) BY <1>11 DEF LateFlip, OwnerPicks
  <2>3. ChannelOK' /\ CleanMeans' /\ BusOK' /\ (~Subscribed => UNCHANGED signals)
    BY <2>1, <2>2, EngineSet
  <2> QED BY <2>2, <2>3 DEF FreshChannel, LinkOK, AimOK, FlipOK, Subscribed
<1>12. CASE WindowFocused
  BY <1>12 DEF WindowFocused, ChannelOK, CleanMeans, FreshChannel, LinkOK, AimOK, BusOK, FlipOK
<1>13. CASE IbusRestarts
  <2>1. UNCHANGED <<link, flip, signals>> /\ Hears({"gap"}) BY <1>13 DEF IbusRestarts
  <2>2. BusOK' BY <1>13 DEF IbusRestarts, BusOK, None
  <2> QED BY <2>1, <2>2, Recorded DEF ChannelOK, FreshChannel, LinkOK, AimOK, FlipOK
<1>14. CASE UNCHANGED vars
  BY <1>14 DEF vars, ChannelOK, CleanMeans, FreshChannel, LinkOK, AimOK, BusOK, FlipOK
<1> QED BY <1>1, <1>2, <1>3, <1>4, <1>5, <1>6, <1>7, <1>8, <1>9, <1>10, <1>11, <1>12, <1>13, <1>14
      DEF Next, Serve

LEMMA Agrees == IInv => Agreement
BY DEF IInv, CleanMeans, Clean, Agreement, Owed

\* Whatever flips, echoes, picks, faults and restarts cross, the mode differs
\* from an owned engine only for a cause the record names or while the
\* correction is on its way.
THEOREM FollowsTheEngine == Spec => []Agreement
<1>1. IInv /\ [Next]_vars => IInv' BY Inductive
<1> QED BY Initially, <1>1, Agrees, PTL DEF Spec

(***************************************************************************)
(* The generations, the counters and the gap.                              *)
(***************************************************************************)
SpentOK == spent \in [flips: 0..MaxFlips, moves: 0..MaxMoves, losses: 0..MaxLosses, faults: 0..MaxFaults]
GenOK == bus.gen = spent.losses + 1 /\ link.gen <= bus.gen
SwitcherOK == switcher \in Nat /\ switcher <= link.gen
ServingOK == link.at = "serving" => switcher = link.gen
FocusOK == focus \in Seq(Modes) /\ Len(focus) <= MaxFocus
ActorOK == mode \in Modes /\ unheard \subseteq Causes /\ link.attempt \in 1..Attempts
GapIsFresh == Alive /\ Subscribed /\ "gap" \in unheard => signals = << >>
GapIsActivated ==
  Alive /\ link.at \in {"bind", "serving"} /\ "gap" \in unheard =>
    spent.faults > 0 \/ bus.engine \notin Modes
JInv == SpentOK /\ GenOK /\ SwitcherOK /\ ServingOK /\ FocusOK /\ ActorOK /\ GapIsFresh /\ GapIsActivated

LEMMA HandlerDone ==
  ASSUME NEW q \in Seq(Modes), NEW i \in 1..Len(q)
  PROVE  RemoveAt(q, i) \in Seq(Modes) /\ Len(RemoveAt(q, i)) = Len(q) - 1
<1> DEFINE a == SubSeq(q, 1, i - 1)
           b == SubSeq(q, i + 1, Len(q))
<1>1. a \in Seq(Modes) /\ Len(a) = i - 1 OBVIOUS
<1>2. b \in Seq(Modes) /\ Len(b) = Len(q) - i OBVIOUS
<1>3. a \o b \in Seq(Modes) /\ Len(a \o b) = Len(a) + Len(b) BY <1>1, <1>2
<1>4. RemoveAt(q, i) = a \o b BY DEF RemoveAt
<1>5. \A l, k \in Int : (k - 1) + (l - k) = l - 1 OBVIOUS
<1>6. Len(q) \in Int /\ i \in Int OBVIOUS
<1>7. Len(a \o b) = (i - 1) + (Len(q) - i) BY <1>1, <1>2, <1>3, Zenon
<1> QED BY <1>3, <1>4, <1>5, <1>6, <1>7, Zenon

LEMMA HandlerStarted ==
  ASSUME FocusOK, NEW name, FocusIn(name) PROVE FocusOK'
BY BoundsAssumption DEF FocusOK, FocusIn

\* A record only grows by a step's own causes.
LEMMA RecordGrows ==
  ASSUME NEW causes, Hears(causes) PROVE unheard' \subseteq unheard \cup causes
BY DEF Hears

\* An engine set while the subscribed connection lives ends the gap.
LEMMA GapHeard ==
  ASSUME IInv, GapIsFresh, NEW name \in Engines, SetGlobalEngine(name), Hears(LossOf),
         Alive, Subscribed
  PROVE  "gap" \notin unheard'
<1>1. CASE "gap" \in unheard
  <2>1. signals = << >> BY <1>1 DEF GapIsFresh
  <2>2. signals' = Append(signals, name)
    BY <2>1, SizesAssumption DEF SetGlobalEngine, DeliverSignal
  <2>3. signals' # << >> /\ Last(signals') = name BY <2>2, Appended DEF IInv, ChannelOK
  <2>4. bus'.engine = name BY DEF SetGlobalEngine, IInv, BusOK
  <2>5. Settled(mode', bus'.engine, signals') BY <2>3, <2>4 DEF Settled
  <2> QED BY <2>5 DEF Hears
<1>2. CASE "gap" \notin unheard
  <2>1. "gap" \notin LossOf BY DEF LossOf
  <2> QED BY <1>2, <2>1, RecordGrows
<1> QED BY <1>1, <1>2

LEMMA CausesOfLoss == LossOf \subseteq Causes
BY DEF LossOf, Causes

\* What an engine set does to the second invariant, whoever sets it.
LEMMA EngineSetInOrder ==
  ASSUME IInv, JInv, NEW name \in Engines, SetGlobalEngine(name), Hears(LossOf),
         link' \in {link, [link EXCEPT !.at = "bind"]}, link' # link => link.at = "attempt"
  PROVE  /\ bus'.gen = bus.gen /\ FocusOK' /\ unheard' \subseteq Causes
         /\ GapIsFresh' /\ GapIsActivated'
<1>1. bus'.gen = bus.gen BY DEF SetGlobalEngine, IInv, BusOK
<1>2. FocusOK' BY HandlerStarted DEF SetGlobalEngine, JInv
<1>3. unheard' \subseteq Causes BY CausesOfLoss, RecordGrows DEF JInv, ActorOK
<1>4. Alive' /\ Subscribed' => Alive /\ Subscribed
  BY <1>1 DEF Alive, Subscribed, IInv, LinkOK
<1>5. Alive' /\ Subscribed' => "gap" \notin unheard' BY <1>4, GapHeard DEF JInv
<1> QED BY <1>1, <1>2, <1>3, <1>5 DEF GapIsFresh, GapIsActivated, Subscribed

LEMMA InOrderInitially == Init => JInv
<1> SUFFICES ASSUME Init PROVE JInv OBVIOUS
<1>1. SpentOK /\ GenOK /\ SwitcherOK /\ ServingOK
  BY BoundsAssumption DEF Init, SpentOK, GenOK, SwitcherOK, ServingOK
<1>2. FocusOK BY BoundsAssumption DEF Init, FocusOK
<1>3. ActorOK BY SizesAssumption DEF Init, ActorOK, Modes, Causes
<1>4. GapIsFresh /\ GapIsActivated
  BY DEF Init, GapIsFresh, GapIsActivated, Subscribed
<1> QED BY <1>1, <1>2, <1>3, <1>4 DEF JInv

LEMMA InOrder == IInv /\ JInv /\ [Next]_vars => JInv'
<1> SUFFICES ASSUME IInv, JInv, [Next]_vars PROVE JInv' OBVIOUS
<1> USE DEF JInv
<1> DEFINE Kept == UNCHANGED <<switcher, focus, mode, unheard>>
<1>0. bus.gen \in Nat /\ link.gen \in Nat /\ spent.faults \in Nat /\ spent.losses \in Nat
  BY BoundsAssumption DEF IInv, BusOK, LinkOK, SpentOK
<1>f. ASSUME Fault PROVE SpentOK' /\ UNCHANGED spent.losses /\ spent'.faults > 0
  BY <1>f, BoundsAssumption DEF Fault, SpentOK
<1>1. CASE Dial
  <2>1. Kept /\ UNCHANGED <<signals, bus>> BY <1>1 DEF Dial, RestOfActor
  <2>2. SpentOK' /\ UNCHANGED spent.losses BY <1>1, <1>f DEF Dial, NoFault, SpentOK
  <2>3. /\ link'.gen \in {link.gen, bus.gen} /\ link'.at \in {"register", "exited"}
        /\ link'.attempt = link.attempt
    BY <1>1 DEF Dial, IInv, LinkOK
  <2>4. GenOK' /\ SwitcherOK' /\ ServingOK'
    BY <1>0, <2>1, <2>2, <2>3 DEF GenOK, SwitcherOK, ServingOK
  <2> QED BY <2>1, <2>2, <2>3, <2>4 DEF FocusOK, ActorOK, GapIsFresh, GapIsActivated, Subscribed
<1>2. CASE Register
  <2>1. Kept /\ UNCHANGED <<signals, bus>> BY <1>2 DEF Register, RestOfActor
  <2>2. SpentOK' /\ UNCHANGED spent.losses BY <1>2, <1>f DEF Register, NoFault, SpentOK
  <2>3. /\ link'.gen = link.gen /\ link'.at \in {"subscribe", "dial"}
        /\ link'.attempt = link.attempt
    BY <1>2 DEF Register, Goes, IInv, LinkOK
  <2>4. GenOK' /\ SwitcherOK' /\ ServingOK'
    BY <1>0, <2>1, <2>2, <2>3 DEF GenOK, SwitcherOK, ServingOK
  <2> QED BY <2>1, <2>2, <2>3, <2>4 DEF FocusOK, ActorOK, GapIsFresh, GapIsActivated, Subscribed
<1>3. CASE Subscribe
  <2>1. Kept /\ UNCHANGED bus BY <1>3 DEF Subscribe, RestOfActor
  <2>2. SpentOK' /\ UNCHANGED spent.losses BY <1>3, <1>f DEF Subscribe, NoFault, SpentOK
  <2>3. /\ link'.gen = link.gen /\ link'.at \in {"factual", "dial"}
        /\ link'.attempt = link.attempt /\ signals' = << >>
    BY <1>3 DEF Subscribe, Goes, IInv, LinkOK, FreshChannel
  <2>4. GenOK' /\ SwitcherOK' /\ ServingOK'
    BY <1>0, <2>1, <2>2, <2>3 DEF GenOK, SwitcherOK, ServingOK
  <2> QED BY <2>1, <2>2, <2>3, <2>4 DEF FocusOK, ActorOK, GapIsFresh, GapIsActivated
<1>4. CASE IfOwned
  <2>1. Kept /\ UNCHANGED <<signals, bus>> BY <1>4 DEF IfOwned, RestOfActor
  <2>2. SpentOK' /\ UNCHANGED spent.losses BY <1>4, <1>f DEF IfOwned, NoFault, SpentOK
  <2>3. /\ link'.gen = link.gen /\ link'.at \in {"attempt", "bind"}
        /\ link'.attempt \in {link.attempt, 1} /\ link.at = "factual"
    BY <1>4 DEF IfOwned, Aims, Goes, IInv, LinkOK
  <2>4. GenOK' /\ SwitcherOK' /\ ServingOK'
    BY <1>0, <2>1, <2>2, <2>3 DEF GenOK, SwitcherOK, ServingOK
  <2>5. GapIsFresh' BY <2>1, <2>3 DEF GapIsFresh, Subscribed, Alive
  <2>6. GapIsActivated'
    <3>1. CASE Fault BY <3>1, <1>f DEF GapIsActivated
    <3>2. CASE Alive /\ Aims(bus.engine)
      BY <3>2, <2>1 DEF Aims, GapIsActivated, IInv, LinkOK
    <3>3. CASE ~Alive BY <3>3, <2>1, <2>3 DEF GapIsActivated, Alive
    <3> QED BY <1>4, <3>1, <3>2, <3>3 DEF IfOwned
  <2> QED BY <2>1, <2>2, <2>3, <2>4, <2>5, <2>6, SizesAssumption DEF FocusOK, ActorOK
<1>5. CASE Reactivate
  <2>1. CASE SetGlobalEngine(link.name) /\ Goes("bind") /\ NoFault
             /\ UNCHANGED <<mode, flip, switcher>> /\ Hears(LossOf)
    <3>1. link.name \in Engines /\ link.at = "attempt" BY <1>5 DEF IInv, LinkOK, Reactivate
    <3>2. /\ bus'.gen = bus.gen /\ FocusOK' /\ unheard' \subseteq Causes
          /\ GapIsFresh' /\ GapIsActivated'
      BY <2>1, <3>1, EngineSetInOrder DEF Goes
    <3>3. link'.gen = link.gen /\ link'.at = "bind" /\ link'.attempt = link.attempt
      BY <2>1 DEF Goes, IInv, LinkOK
    <3> QED BY <2>1, <3>2, <3>3 DEF NoFault, SpentOK, GenOK, SwitcherOK, ServingOK, ActorOK
  <2>2. CASE /\ Fault /\ RestOfActor /\ UNCHANGED <<signals, bus, unheard>>
             /\ link' = IF link.attempt < Attempts THEN [link EXCEPT !.attempt = @ + 1]
                        ELSE [link EXCEPT !.at = "bind"]
    <3>1. SpentOK' /\ UNCHANGED spent.losses /\ spent'.faults > 0 BY <2>2, <1>f
    <3>2. /\ link'.gen = link.gen /\ link'.at \in {"attempt", "bind"} /\ link.at = "attempt"
          /\ link'.attempt \in 1..Attempts
      BY <2>2, <1>5, SizesAssumption DEF IInv, LinkOK, ActorOK, Reactivate
    <3>3. GapIsFresh' /\ GapIsActivated'
      BY <2>2, <3>1, <3>2 DEF GapIsFresh, GapIsActivated, Subscribed, Alive
    <3> QED BY <2>2, <3>1, <3>2, <3>3 DEF RestOfActor, GenOK, SwitcherOK, ServingOK, FocusOK, ActorOK
  <2> QED BY <1>5, <2>1, <2>2 DEF Reactivate
<1>6. CASE BindSwitcher
  <2>1. /\ link'.gen = link.gen /\ link'.at = "serving" /\ link.at = "bind" /\ switcher' = link.gen
        /\ link'.attempt = link.attempt
    BY <1>6 DEF BindSwitcher, Goes, IInv, LinkOK
  <2>2. UNCHANGED <<mode, flip, signals, focus, bus, unheard, spent>> BY <1>6 DEF BindSwitcher
  <2>3. GapIsFresh' /\ GapIsActivated'
    BY <2>1, <2>2 DEF GapIsFresh, GapIsActivated, Subscribed, Alive
  <2> QED BY <1>0, <2>1, <2>2, <2>3 DEF SpentOK, GenOK, SwitcherOK, ServingOK, FocusOK, ActorOK
<1>7. CASE BusLoss
  <2>1. link'.gen = link.gen /\ link'.at = "dial" /\ link'.attempt = link.attempt
    BY <1>7 DEF BusLoss, Goes, IInv, LinkOK
  <2>2. Kept /\ UNCHANGED <<signals, bus, spent>> BY <1>7 DEF BusLoss, RestOfActor
  <2> QED BY <2>1, <2>2 DEF SpentOK, GenOK, SwitcherOK, ServingOK, FocusOK, ActorOK,
                            GapIsFresh, GapIsActivated, Subscribed
<1>8. CASE DispatchSignals
  <2>1. /\ UNCHANGED <<switcher, link, focus, bus, spent>> /\ signals # << >>
        /\ SyncEngine(Head(signals)) /\ Hears({})
    BY <1>8 DEF DispatchSignals
  <2>2. unheard' \subseteq unheard /\ mode' \in Modes
    BY <2>1, RecordGrows DEF SyncEngine, ActorOK
  <2> QED BY <2>1, <2>2 DEF SpentOK, GenOK, SwitcherOK, ServingOK, FocusOK, ActorOK,
                            GapIsFresh, GapIsActivated, Alive, Subscribed
<1>9. CASE HandleFocusIn
  <2>1. PICK i \in 1..Len(focus) :
          /\ SyncEngine(focus[i]) /\ focus' = RemoveAt(focus, i)
          /\ UNCHANGED <<signals, bus>>
          /\ Hears(IF focus[i] # bus.engine THEN {"overtaken"} ELSE {})
    BY <1>9 DEF HandleFocusIn
  <2>2. UNCHANGED <<switcher, link, spent>> BY <1>9 DEF HandleFocusIn
  <2>3. unheard' \subseteq unheard \cup {"overtaken"} BY <2>1, RecordGrows
  <2>4. mode' \in Modes BY <2>1 DEF SyncEngine, ActorOK
  <2>5. FocusOK' BY <2>1, HandlerDone, BoundsAssumption DEF FocusOK
  <2> QED BY <2>1, <2>2, <2>3, <2>4, <2>5 DEF SpentOK, GenOK, SwitcherOK, ServingOK, ActorOK, Causes,
                            GapIsFresh, GapIsActivated, Alive, Subscribed
<1>10. CASE FlipTo
  <2>1. UNCHANGED <<switcher, link, signals, focus, bus>> BY <1>10 DEF FlipTo
  <2>2. mode' \in Modes BY <1>10 DEF FlipTo
  <2>3. unheard' \subseteq unheard \cup {"refused"} BY <1>10, RecordGrows DEF FlipTo
  <2>4. SpentOK' /\ UNCHANGED <<spent.losses, spent.faults>>
    BY <1>10, BoundsAssumption DEF FlipTo, SpentOK
  <2> QED BY <2>1, <2>2, <2>3, <2>4 DEF GenOK, SwitcherOK, ServingOK, FocusOK, ActorOK, Causes,
                            GapIsFresh, GapIsActivated, Alive, Subscribed
<1>11. CASE FlipLands \/ LateFlip \/ OwnerPicks
  <2>1. PICK name \in Engines : SetGlobalEngine(name)
    BY <1>11 DEF FlipLands, LateFlip, OwnerPicks, IInv, BusOK, FlipOK, Engines
  <2>2. UNCHANGED <<mode, switcher, link>> /\ Hears(LossOf)
    BY <1>11 DEF FlipLands, LateFlip, OwnerPicks
  <2>3. SpentOK' /\ UNCHANGED spent.losses
    BY <1>11, BoundsAssumption DEF FlipLands, LateFlip, OwnerPicks, SpentOK
  <2>4. /\ bus'.gen = bus.gen /\ FocusOK' /\ unheard' \subseteq Causes
        /\ GapIsFresh' /\ GapIsActivated'
    BY <2>1, <2>2, EngineSetInOrder
  <2> QED BY <2>2, <2>3, <2>4 DEF GenOK, SwitcherOK, ServingOK, ActorOK
<1>12. CASE FlipFails
  <2>1. UNCHANGED <<mode, switcher, link, signals, focus, bus.gen, bus.engine>>
    BY <1>12 DEF FlipFails, IInv, BusOK
  <2>2. unheard' \subseteq unheard \cup {"refused"} BY <1>12, RecordGrows DEF FlipFails
  <2>3. SpentOK' /\ UNCHANGED spent.losses /\ spent'.faults >= spent.faults
    BY <1>0, <1>12, BoundsAssumption DEF FlipFails, Fault, NoFault, SpentOK
  <2> QED BY <1>0, <2>1, <2>2, <2>3 DEF GenOK, SwitcherOK, ServingOK, FocusOK, ActorOK, Causes,
                            GapIsFresh, GapIsActivated, Alive, Subscribed, SpentOK
<1>13. CASE WindowFocused
  <2>1. UNCHANGED <<mode, flip, switcher, link, signals, bus, unheard>> BY <1>13 DEF WindowFocused
  <2>2. SpentOK' /\ UNCHANGED <<spent.losses, spent.faults>>
    BY <1>13, BoundsAssumption, SMTT(60) DEF WindowFocused, SpentOK
  <2>3. FocusOK' BY <1>13, BoundsAssumption DEF WindowFocused, FocusOK
  <2> QED BY <2>1, <2>2, <2>3 DEF GenOK, SwitcherOK, ServingOK, ActorOK, GapIsFresh, GapIsActivated,
                            Alive, Subscribed
<1>14. CASE IbusRestarts
  <2>1. UNCHANGED <<mode, switcher, link, signals, focus>> BY <1>14 DEF IbusRestarts
  <2>2. unheard' \subseteq unheard \cup {"gap"} BY <1>14, RecordGrows DEF IbusRestarts
  <2>3. SpentOK' /\ spent'.losses = spent.losses + 1 /\ bus'.gen = bus.gen + 1
    BY <1>14, BoundsAssumption DEF IbusRestarts, SpentOK
  <2>4. ~Alive' BY <1>0, <2>1, <2>3 DEF Alive, GenOK
  <2> QED BY <1>0, <2>1, <2>2, <2>3, <2>4 DEF GenOK, SwitcherOK, ServingOK, FocusOK, ActorOK, Causes,
                            GapIsFresh, GapIsActivated
<1>15. CASE UNCHANGED vars
  BY <1>15 DEF vars, SpentOK, GenOK, SwitcherOK, ServingOK, FocusOK, ActorOK, GapIsFresh,
               GapIsActivated, Alive, Subscribed
<1> QED BY <1>1, <1>2, <1>3, <1>4, <1>5, <1>6, <1>7, <1>8, <1>9, <1>10, <1>11, <1>12, <1>13, <1>14, <1>15
      DEF Next, Serve

LEMMA BothHold == Spec => [](IInv /\ JInv)
<1>1. Init => IInv /\ JInv BY Initially, InOrderInitially
<1>2. (IInv /\ JInv) /\ [Next]_vars => (IInv /\ JInv)' BY Inductive, InOrder
<1> QED BY <1>1, <1>2, PTL DEF Spec

LEMMA Orderly == IInv /\ JInv => LinkInv
<1> SUFFICES ASSUME IInv, JInv PROVE LinkInv OBVIOUS
<1>1. bus.gen \in Generations /\ switcher \in Generations /\ link.gen \in Generations
  BY BoundsAssumption DEF IInv, JInv, BusOK, LinkOK, SpentOK, GenOK, SwitcherOK, Generations
<1>2. link \in [at: Steps, gen: Generations, name: Engines, attempt: 1..Attempts]
  BY <1>1 DEF IInv, JInv, LinkOK, ActorOK
<1>3. bus \in [gen: Generations, engine: Engines, late: Modes \cup {None}]
  BY <1>1 DEF IInv, BusOK
<1>4. \A i \in 1..Len(signals) : signals[i] \in Engines BY DEF IInv, ChannelOK
<1>5. \A i \in 1..Len(focus) : focus[i] \in Modes BY DEF JInv, FocusOK
<1>6. TypeOK
  BY <1>1, <1>2, <1>3, <1>4, <1>5
     DEF TypeOK, IInv, JInv, ActorOK, FlipOK, GenOK, SwitcherOK, ChannelOK, FocusOK, SpentOK
<1>7. GapClosed BY DEF JInv, GapIsActivated, GapClosed
<1> QED BY <1>6, <1>7 DEF LinkInv

\* The state keeps its types and generations, and once the daemon serves a
\* live connection the time without a subscription has been made up for by
\* the activation, unless a call failed.
THEOREM KeepsInOrder == Spec => []LinkInv
BY BothHold, Orderly, PTL

LEMMA FailsOnlyByFault ==
  ASSUME IInv, JInv, FlipFails, Alive, link.at = "serving"
  PROVE  spent'.faults > spent.faults
<1>1. switcher = bus.gen BY DEF JInv, ServingOK, Alive
<1>2. Fault BY <1>1 DEF FlipFails
<1> QED BY <1>2, BoundsAssumption DEF Fault, JInv, SpentOK

\* While the daemon serves a live connection the actor's closure is that
\* connection's: a flip is refused there only by a call that failed.
THEOREM ServesWithALiveSwitcher == Spec => ServingSwitcherIsLive
<1>1. IInv /\ JInv /\ [Next]_vars =>
        [FlipFails /\ Alive /\ link.at = "serving" => spent'.faults > spent.faults]_vars
  BY FailsOnlyByFault
<1> QED BY <1>1, BothHold, PTL DEF Spec, ServingSwitcherIsLive
=============================================================================
