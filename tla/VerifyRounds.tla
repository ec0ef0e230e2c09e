---------------------------- MODULE VerifyRounds ----------------------------
(***************************************************************************)
(* The verified correction of the session actor.  Before it touches the    *)
(* text the actor wants to have seen the word in a report of the client    *)
(* (the pending round); it then deletes the word, waits for the report     *)
(* that proves the deletion (the ladder), commits the replacement, and     *)
(* asks once more (the verify-after round).  Every wait has a deadline,    *)
(* whose callback may fire before the round is over and get the mutex      *)
(* after it.  The layout follows the result, but only once the replacement *)
(* is thought delivered: the flip is deferred.                             *)
(*                                                                         *)
(* Between the actor and the client there are two channels: the signals of *)
(* the engine and the verdicts on keys go down, the keys, the reports and  *)
(* the lifecycle calls go up.  A flip makes ibus create the engine anew,   *)
(* and the client discards what the old engine still sends.                *)
(*                                                                         *)
(* The client is one text field; the focus stays with it, and words stay   *)
(* below the cap and within one chunk of the level-2 machine, whose        *)
(* windows are the subject of module Delivery: a key waits here until the  *)
(* machine has settled.                                                    *)
(***************************************************************************)
EXTENDS ActorText

CONSTANTS
  Clients,     \* the kinds of client that occur
  KeyKinds,    \* the key presses that occur
  Entries,     \* the other events that occur
  Starts,      \* the texts typed before the first step
  AutoOn,      \* the option AutoCorrectEnabled
  FlipAfter,   \* the option FlipAfterCorrection
  MaxKeys,     \* bound: key presses
  MaxEntries,  \* bound: other events
  MaxLate      \* bound: callbacks that wait for the mutex at once

AllClients == {"pushing", "answering", "silent", "deaf"}
AllKeys == {"letter", "space", "backspace", "combo"}
AllEntries == {"correct", "phrase", "toggle", "focusout", "reset"}
Rounds == {"pending", "ladder", "after", "flip"}

ASSUME KindsAssumption ==
  /\ Clients \subseteq AllClients
  /\ KeyKinds \subseteq AllKeys
  /\ Entries \subseteq AllEntries
  /\ {AutoOn, FlipAfter} \subseteq BOOLEAN
ASSUME TextAssumption == Starts \subseteq Texts
ASSUME BoundsAssumption == {MaxKeys, MaxEntries, MaxLate} \subseteq Nat

VARIABLES
  actor,   \* what the actor's mutex protects, and both channels
  client,  \* the text field
  left     \* the key presses and other events still to come

vars == <<actor, client, left>>

(***************************************************************************)
(* The actor's state.                                                      *)
(***************************************************************************)
Ranges == [token : Texts, tail : Texts, phrase : BOOLEAN]
NoRange == [token |-> <<>>, tail |-> <<>>, phrase |-> FALSE]
Match(r) == r.token \o r.tail
New(r) == Converted(r.token)

NoPending == [range |-> NoRange, auto |-> FALSE, cacheNil |-> FALSE, epoch |-> 0]
NoLadder == [range |-> NoRange, eng |-> 0, epoch |-> 0]
NoAfter == [expected |-> <<>>, missed |-> FALSE, epoch |-> 0]
NoBurst == [range |-> NoRange, eng |-> 0, terminal |-> FALSE, sent |-> FALSE, moved |-> FALSE]
NoFlip == [target |-> "none", kind |-> "none", epoch |-> 0]

Signals == [kind : {"key", "erase", "delete", "burst", "commit", "require"},
            text : Texts, eng : Nat]
Calls ==
  [kind : {"key"}, text : Texts, key : AllKeys]
    \cup [kind : {"report", "focusout", "reset"}, text : Texts, key : {"none"}]
Report(t) == [kind |-> "report", text |-> t, key |-> "none"]
Call(kind, key) == [kind |-> kind, text |-> <<>>, key |-> key]

Callbacks == [round : Rounds, epoch : Nat, over : BOOLEAN]

Send(a, kind, text, eng) ==
  [a EXCEPT !.down = Append(@, [kind |-> kind, text |-> text, eng |-> eng])]

\* A deadline is armed under a fresh epoch.
Arm(a, round) ==
  [a EXCEPT !.epoch[round] = @ + 1, !.armed[round] = a.epoch[round] + 1]

\* A round is over: its timer is stopped; a callback that has fired is late.
Over(a, round) ==
  [a EXCEPT !.armed[round] = 0,
            !.late = {IF t.round = round THEN [t EXCEPT !.over = TRUE] ELSE t : t \in @}]

Busy(a) == a.burst # NoBurst

(***************************************************************************)
(* The layout.                                                             *)
(***************************************************************************)
\* What the client will discard once the engine is created anew.
Undelivered(a) ==
  \/ a.ladder # NoLadder
  \/ \E i \in DOMAIN a.down : a.down[i].eng # 0 /\ a.down[i].kind # "require"

\* parkGestureFlip: the slot takes the flip and waits for the next key.
Park(a, t) ==
  LET b == Over(a, "flip")
  IN  [b EXCEPT !.epoch["flip"] = @ + 1,
                !.flip = [target |-> t, kind |-> "gesture", epoch |-> a.epoch["flip"] + 1]]

\* flipTo: the engine is created anew before the call returns, and the
\* FocusOut this causes is on its way.
FlipTo(a, t) ==
  CASE t = a.mode -> a
    [] t # a.mode /\ Busy(a) -> Park(a, t)
    [] t # a.mode /\ ~Busy(a) ->
         [a EXCEPT !.mode = t, !.eng = @ + 1, !.credit = @ + 1,
                   !.up = Append(@, Call("focusout", "none")),
                   !.crossed = @ \/ Undelivered(a)]

ReleaseFlip(a) ==
  IF a.flip = NoFlip THEN a
  ELSE FlipTo([Over(a, "flip") EXCEPT !.flip = NoFlip], a.flip.target)

\* A verify round that failed does not release the flip of a terminal.
ReleaseOnVerify(a) == IF a.flip.kind \in {"terminal", "gesture"} THEN a ELSE ReleaseFlip(a)

\* settleCombo: the layout half of the gesture, once the word half is settled.
SettleCombo(a) ==
  IF a.combo THEN FlipTo([a EXCEPT !.combo = FALSE], Opposite(a.mode)) ELSE a

\* settleCorrectionFlip: at once.
FollowScript(a, t) == IF a.combo \/ ~FlipAfter THEN a ELSE FlipTo(a, t)

\* deferCorrectionFlip: the ladder's flip has a grace deadline, that of the
\* terminal branch has none.
DeferFlip(a, t, kind) ==
  IF a.combo \/ ~FlipAfter \/ a.flip.kind = "gesture" \/ t = a.mode THEN a
  ELSE LET b == [Over(a, "flip") EXCEPT
                   !.flip = [target |-> t, kind |-> kind, epoch |-> a.epoch["flip"] + 1]]
       IN  IF kind = "ladder" THEN Arm(b, "flip") ELSE [b EXCEPT !.epoch["flip"] = @ + 1]

(***************************************************************************)
(* The steps of a correction.                                              *)
(***************************************************************************)
ResolvePending(a) == [Over(a, "pending") EXCEPT !.pending = NoPending]
ClearAfter(a) == [Over(a, "after") EXCEPT !.after = NoAfter]

Replaced(a, r) ==
  [a EXCEPT !.buf = IF r.phrase THEN ReplacePhrase(@, New(r)) ELSE ReplaceWord(@, New(r)),
            !.raced = @ \/ a.pending # NoPending]

\* armAfterVerify and armAfterVerifyTerminal.
ArmAfter(a, r) ==
  LET b == [ClearAfter(a) EXCEPT
              !.after = [expected |-> New(r) \o r.tail, missed |-> FALSE, epoch |-> a.epoch["after"] + 1]]
  IN  Send(Arm(b, "after"), "require", <<>>, a.eng)

DropLadder(a) == [Over(a, "ladder") EXCEPT !.ladder = NoLadder]

\* The second phase of the ladder, through the engine that has deleted.
Commit(a, text) ==
  LET r == a.ladder.range
      b == Replaced(Send(DropLadder(a), "commit", text, a.ladder.eng), r)
  IN  ArmAfter(SettleCombo(DeferFlip(b, ScriptOf(New(r)), "ladder")), r)

\* flushLevel1Confirm: the one completion of the ladder.
Flush(a) ==
  IF a.ladder = NoLadder THEN a
  ELSE Commit(a, New(a.ladder.range) \o a.ladder.range.tail)

\* executeLevel2 up to the first window in which it gives up the mutex.
ExecuteLevel2(a, r, terminal) ==
  IF Busy(a) THEN SettleCombo(a)
  ELSE [a EXCEPT !.burst = [range |-> r, eng |-> a.eng, terminal |-> terminal,
                            sent |-> FALSE, moved |-> FALSE]]

\* executeCorrection: the deletion goes out only if this engine has seen a
\* report, else the level-2 machine takes over, whose guard refuses a second
\* burst; the deletion does not look whether a burst is in flight.
ExecuteCorrection(a) ==
  LET r == a.pending.range
      b == ResolvePending(a)
      c == [Over(b, "ladder") EXCEPT
              !.ladder = [range |-> r, eng |-> a.eng, epoch |-> a.epoch["ladder"] + 1]]
  IN  IF a.seen # a.eng THEN ExecuteLevel2(b, r, FALSE)
      ELSE [Send(Arm(c, "ladder"), "delete", Match(r), a.eng) EXCEPT !.doubled = @ \/ Busy(a)]

\* startRangeCorrection: the last report will do, unless the word was
\* captured at a boundary whose key is still on its way.
StartRange(a, r, auto) ==
  LET b == ClearAfter(ResolvePending(a))
      Pending(e) == [range |-> r, auto |-> auto, cacheNil |-> ~a.surr.known, epoch |-> e]
      asked == [Arm(b, "pending") EXCEPT !.pending = Pending(b.epoch["pending"] + 1)]
  IN  CASE ~HasLetter(r.token) -> SettleCombo(a)
        [] HasLetter(r.token) /\ a.dead -> ExecuteLevel2(b, r, TRUE)
        [] OTHER -> IF auto \/ ~IsSuffixOf(Match(r), a.surr.text)
                      THEN Send(asked, "require", <<>>, a.eng)
                      ELSE ExecuteCorrection([b EXCEPT !.pending = Pending(0)])

WordRange(a) == [token |-> Word(a.buf), tail |-> WordTail(a.buf), phrase |-> FALSE]
PhraseRange(a) == [token |-> a.buf, tail |-> <<>>, phrase |-> TRUE]

\* Mutant: a ladder in flight is not completed first.
StartCorrection_NoFlush(a) == StartRange(a, WordRange(a), FALSE)

StartCorrection(a) == StartRange(Flush(a), WordRange(Flush(a)), FALSE)
StartPhraseCorrection(a) == StartRange(Flush(a), PhraseRange(Flush(a)), FALSE)

(***************************************************************************)
(* What the client calls.                                                  *)
(***************************************************************************)
\* A client that has never reported and now answers is taken for a terminal.
StaleCache(p) == ~p.auto /\ p.cacheNil

\* The answer was given before the key at the boundary got to the client.
EarlyAnswer(p, t) == p.auto /\ IsSuffixOf(p.range.token, t)

SettlePending(a, t) ==
  LET p == a.pending
      terminal == ExecuteLevel2([ResolvePending(a) EXCEPT !.dead = TRUE], p.range, TRUE)
  IN  CASE IsSuffixOf(Match(p.range), t) ->
             IF StaleCache(p) THEN terminal ELSE ExecuteCorrection(a)
        [] ~IsSuffixOf(Match(p.range), t) /\ EarlyAnswer(p, t) -> a
        [] OTHER -> IF StaleCache(p) THEN terminal ELSE SettleCombo(ResolvePending(a))

\* Mutant: the deadline gets an epoch that the round does not have.
RearmAfter_NewEpoch(a) == [Arm(a, "after") EXCEPT !.after.missed = TRUE]

\* rearmAfter: one mismatch is asked about again, under the same epoch.
RearmAfter(a) == [a EXCEPT !.after.missed = TRUE, !.armed["after"] = a.after.epoch]

SettleAfter(a, t) ==
  CASE IsSuffixOf(a.after.expected, t) -> ReleaseFlip(ClearAfter(a))
    [] ~IsSuffixOf(a.after.expected, t) /\ ~a.after.missed ->
         Send(RearmAfter(a), "require", <<>>, a.eng)
    [] OTHER -> ReleaseOnVerify(ClearAfter(a))

HandleReport(a, t) ==
  LET b == [a EXCEPT !.surr = [known |-> TRUE, text |-> t], !.seen = a.eng]
  IN  CASE a.ladder # NoLadder ->
             IF IsSuffixOf(Match(a.ladder.range), t) THEN b ELSE Flush(b)
        [] a.ladder = NoLadder /\ a.pending # NoPending -> SettlePending(b, t)
        [] OTHER -> IF a.after = NoAfter THEN b ELSE SettleAfter(b, t)

\* The rest of HandleLifecycle. How long the learned class outlives the
\* context is left open.
ContextDies(a, synthetic, forgets) ==
  [ClearAfter(ResolvePending(a)) EXCEPT
     !.buf = IF synthetic THEN @ ELSE <<>>,
     !.dead = @ /\ (synthetic \/ ~forgets),
     !.surr = [known |-> FALSE, text |-> <<>>],
     !.seen = 0,
     !.burst = IF Busy(a) THEN [a.burst EXCEPT !.moved = TRUE] ELSE NoBurst,
     !.combo = FALSE]

\* Mutant: the ladder dies with its context.
HandleLifecycle_DropsLadder(a, kind, forgets) ==
  LET synthetic == kind = "focusout" /\ a.credit > 0
      b == IF synthetic THEN [a EXCEPT !.credit = @ - 1] ELSE a
  IN  ContextDies(DropLadder(b), synthetic, forgets)

\* HandleLifecycle on FocusOut and Reset: a FocusOut for which a flip has
\* left a credit keeps the buffer.
HandleLifecycle(a, kind, forgets) ==
  LET synthetic == kind = "focusout" /\ a.credit > 0
      b == IF synthetic THEN [a EXCEPT !.credit = @ - 1] ELSE a
  IN  ContextDies(Flush(b), synthetic, forgets)

\* autoCorrectBoundary: the word the space has just ended, if the detector
\* takes it for one of the other layout.
Captured(a, wrong) ==
  IF AutoOn /\ wrong /\ ~a.dead THEN [a EXCEPT !.payload = WordRange(a)] ELSE a

Typed(a, cell, eng) ==
  [Send(a, "key", <<cell>>, eng) EXCEPT !.buf = Append(@, cell),
                                        !.raced = @ \/ a.pending # NoPending]

\* feedKey: the ladder is completed and the flip released before the key.
FeedKey(a, k, wrong) ==
  LET b == ReleaseFlip(Flush(a))
      ends == b.buf # <<>> /\ b.buf[Len(b.buf)] \in Letters
  IN  CASE k = "letter" -> IF b.mode = "RU" THEN Typed(b, "r", b.eng) ELSE Typed(b, "e", 0)
        [] k = "space" -> IF ends THEN Captured(Typed(b, "s", 0), wrong) ELSE Typed(b, "s", 0)
        [] k = "backspace" ->
             [Send(b, "erase", <<>>, 0) EXCEPT
                !.buf = IF @ = <<>> THEN @ ELSE DropLast(@, 1),
                !.raced = @ \/ b.pending # NoPending]
        [] k = "combo" -> StartCorrection([b EXCEPT !.combo = TRUE])

\* Mutant: a callback expires whatever round of its kind is open.
IsCurrent_AnyRound(a, t) == a[t.round].epoch # 0

IsCurrent(a, t) == a[t.round].epoch = t.epoch

\* What the callback of a deadline does once it has the mutex.
Expire(a, t) ==
  CASE ~IsCurrent(a, t) -> a
    [] IsCurrent(a, t) /\ t.round = "pending" ->
         SettleCombo(ClearAfter(ResolvePending([a EXCEPT !.dead = TRUE])))
    [] IsCurrent(a, t) /\ t.round = "ladder" -> Flush(a)
    [] IsCurrent(a, t) /\ t.round = "after" -> ReleaseOnVerify(ClearAfter(a))
    [] IsCurrent(a, t) /\ t.round = "flip" -> ReleaseFlip(a)

\* The end of executeLevel2.
CommitBurst(a) ==
  LET r == a.burst.range
      b == [Replaced(Send(a, "commit", New(r) \o r.tail, a.burst.eng), r) EXCEPT !.burst = NoBurst]
  IN  IF a.burst.terminal
        THEN ArmAfter(SettleCombo(DeferFlip(b, ScriptOf(New(r)), "terminal")), r)
        ELSE SettleCombo(FollowScript(b, ScriptOf(New(r))))

-----------------------------------------------------------------------------
Init ==
  /\ \E text \in Starts, kind \in Clients :
       LET reports == kind \in {"pushing", "deaf"}
       IN  /\ client = [kind |-> kind, field |-> text, news |-> FALSE,
                        gap |-> FALSE, torn |-> FALSE, harmed |-> FALSE]
           /\ actor = [buf |-> text, mode |-> "EN", flip |-> NoFlip, combo |-> FALSE,
                       credit |-> 0, eng |-> 1, dead |-> FALSE,
                       surr |-> [known |-> reports, text |-> IF reports THEN text ELSE <<>>],
                       seen |-> IF reports THEN 1 ELSE 0,
                       pending |-> NoPending, ladder |-> NoLadder, after |-> NoAfter,
                       burst |-> NoBurst, payload |-> NoRange,
                       epoch |-> [r \in Rounds |-> 0], armed |-> [r \in Rounds |-> 0],
                       late |-> {}, down |-> <<>>, up |-> <<>>,
                       crossed |-> FALSE, raced |-> FALSE, doubled |-> FALSE]
  /\ left = [keys |-> MaxKeys, entries |-> MaxEntries]

\* The user presses a key; the client asks the daemon about it.
PressKey(k) ==
  /\ left.keys > 0
  /\ left' = [left EXCEPT !.keys = @ - 1]
  /\ actor' = [actor EXCEPT !.up = Append(@, Call("key", k))]
  /\ UNCHANGED client

\* The calls of a client reach the actor in their order.
TakeCall ==
  /\ actor.up # <<>>
  /\ LET c == Head(actor.up)
         a == [actor EXCEPT !.up = Tail(@)]
     IN  /\ c.kind = "key" => ~Busy(actor)
         /\ CASE c.kind = "key" -> \E wrong \in BOOLEAN : actor' = FeedKey(a, c.key, wrong)
              [] c.kind = "report" -> actor' = HandleReport(a, c.text)
              [] OTHER -> \E forgets \in BOOLEAN : actor' = HandleLifecycle(a, c.kind, forgets)
  /\ UNCHANGED <<client, left>>

Enter(e) ==
  /\ e \in Entries
  /\ left.entries > 0
  /\ left' = [left EXCEPT !.entries = @ - 1]
  /\ actor' = CASE e = "correct" -> StartCorrection(actor)
                [] e = "phrase" -> StartPhraseCorrection(actor)
                [] e = "toggle" -> FlipTo(actor, Opposite(actor.mode))
                [] OTHER -> [actor EXCEPT !.up = Append(@, Call(e, "none"))]
  /\ UNCHANGED client

\* autoConfirm comes back with the role of the focused object: the payload
\* goes on only if the buffer is what it was.
AutoConfirm ==
  /\ actor.payload # NoRange
  /\ LET a == [actor EXCEPT !.payload = NoRange]
     IN  \/ actor' = a
         \/ /\ WordRange(a) = actor.payload
            /\ actor' = StartRange(a, actor.payload, TRUE)
  /\ UNCHANGED <<client, left>>

\* A timer fires: from here on stopping it is too late.
Fire(round) ==
  /\ actor.armed[round] # 0
  /\ Cardinality(actor.late) < MaxLate
  /\ actor' = [actor EXCEPT !.armed[round] = 0,
                            !.late = @ \cup {[round |-> round, epoch |-> actor.armed[round],
                                              over |-> FALSE]}]
  /\ UNCHANGED <<client, left>>

RunCallback(t) ==
  /\ actor' = Expire([actor EXCEPT !.late = @ \ {t}], t)
  /\ UNCHANGED <<client, left>>

\* The level-2 machine before its first BackSpace, where the death of the
\* context still stops it, and after its settle window.
Level2Burst ==
  /\ Busy(actor) /\ ~actor.burst.sent
  /\ LET b == Send(actor, "burst", Match(actor.burst.range), actor.burst.eng)
     IN  actor' = IF actor.burst.moved THEN SettleCombo([actor EXCEPT !.burst = NoBurst])
                  ELSE IF actor.burst.terminal THEN [b EXCEPT !.burst.sent = TRUE]
                  ELSE CommitBurst(b)
  /\ UNCHANGED <<client, left>>

Level2Commit ==
  /\ Busy(actor) /\ actor.burst.sent
  /\ actor' = CommitBurst(actor)
  /\ UNCHANGED <<client, left>>

(***************************************************************************)
(* The client.                                                             *)
(***************************************************************************)
Applied(m) ==
  LET f == client.field
      erases == m.kind \in {"erase", "delete", "burst"} /\ ~(m.kind = "delete" /\ client.kind = "deaf")
      n == IF m.kind = "erase" THEN 1 ELSE Len(m.text)
      text == CASE m.kind \in {"key", "commit"} -> f \o m.text
                [] erases -> IF n > Len(f) THEN <<>> ELSE DropLast(f, n)
                [] OTHER -> f
      opens == erases /\ m.kind # "erase"
  IN  [client EXCEPT !.field = text,
                     !.news = @ \/ text # f,
                     !.gap = (@ \/ opens) /\ m.kind # "commit",
                     !.torn = @ \/ (client.gap /\ m.kind \notin {"commit", "require"}),
                     !.harmed = @ \/ (opens /\ ~IsSuffixOf(m.text, f))]

\* The client takes a signal, or discards it with the engine that sent it.
TakeSignal ==
  /\ actor.down # <<>>
  /\ LET m == Head(actor.down)
         alive == m.eng \in {0, actor.eng}
         answers == alive /\ m.kind = "require" /\ client.kind = "answering"
     IN  /\ client' = IF alive THEN Applied(m) ELSE client
         /\ actor' = [actor EXCEPT !.down = Tail(@),
                                   !.up = IF answers THEN Append(@, Report(client.field)) ELSE @]
  /\ UNCHANGED left

\* A pushing client reports its text, changes it has not reported at once.
PushReport ==
  /\ client.kind \in {"pushing", "deaf"}
  /\ client.news
  /\ client' = [client EXCEPT !.news = FALSE]
  /\ actor' = [actor EXCEPT !.up = Append(@, Report(client.field))]
  /\ UNCHANGED left

Next ==
  \/ \E k \in KeyKinds : PressKey(k)
  \/ TakeCall
  \/ \E e \in Entries : Enter(e)
  \/ AutoConfirm
  \/ \E round \in Rounds : Fire(round)
  \/ \E t \in actor.late : RunCallback(t)
  \/ Level2Burst
  \/ Level2Commit
  \/ TakeSignal
  \/ PushReport

Spec == Init /\ [][Next]_vars

-----------------------------------------------------------------------------
\* What the actor's mutex protects, and both channels.
Actors ==
  [buf : Texts, mode : Modes, combo : BOOLEAN, credit : Nat, eng : Nat, dead : BOOLEAN,
   seen : Nat, surr : [known : BOOLEAN, text : Texts],
   flip : [target : Modes \cup {"none"}, kind : {"none", "ladder", "terminal", "gesture"},
           epoch : Nat],
   pending : [range : Ranges, auto : BOOLEAN, cacheNil : BOOLEAN, epoch : Nat],
   ladder : [range : Ranges, eng : Nat, epoch : Nat],
   after : [expected : Texts, missed : BOOLEAN, epoch : Nat],
   burst : [range : Ranges, eng : Nat, terminal : BOOLEAN, sent : BOOLEAN, moved : BOOLEAN],
   payload : Ranges, epoch : [Rounds -> Nat], armed : [Rounds -> Nat],
   late : SUBSET Callbacks, down : Seq(Signals), up : Seq(Calls),
   crossed : BOOLEAN, raced : BOOLEAN, doubled : BOOLEAN]

\* The types of the variables; a credit is never spent twice.
TypeOK ==
  /\ actor \in Actors
  /\ client \in [kind : AllClients, field : Texts,
                 news : BOOLEAN, gap : BOOLEAN, torn : BOOLEAN, harmed : BOOLEAN]
  /\ left \in [keys : Nat, entries : Nat]

AtRest == actor.down = <<>> /\ actor.ladder = NoLadder /\ ~Busy(actor)

\* A deletion that the client has done is followed by its replacement before
\* anything else gets into the text, and does not stay alone: never a
\* "deletion without replacement" (level1ConfirmBudget).  The code breaks it
\* where a flip goes out right behind the commit.
DeletedIsReplaced == ~client.torn /\ (AtRest => ~client.gap)

\* Two corrections never delete at once: the level-2 machine's guard "covers
\* the WHOLE machine window" (executeLevel2).  The code breaks it where a
\* report arrives in the window: the next correction takes the ladder, which
\* does not ask the guard.
OneAtATime == ~actor.doubled

\* Nothing else loses the replacement: no report, deadline, key, focus loss,
\* reset or correction between the two phases of the ladder or of the
\* machine.
LossHasCause == ~actor.crossed /\ ~actor.doubled => DeletedIsReplaced

\* What a correction erases in the client is the range it has planned over
\* and verified.  The code breaks it where the text moves while the pending
\* round is open.
EraseOnlyTheRange == ~client.harmed

\* Nothing else breaks it in a client that does what it is asked for, as
\* long as no commit has been lost and no two corrections delete at once:
\* neither a correction in the ladder's window, nor a late report, nor the
\* autocorrect's round.
HarmHasCause ==
  client.harmed => actor.raced \/ actor.crossed \/ actor.doubled \/ client.kind = "deaf"

\* With everything delivered the buffer is the end of the text, through
\* every exit of every round.
Mirror ==
  AtRest /\ ~actor.crossed /\ ~actor.raced /\ ~actor.doubled /\ client.kind # "deaf"
    => IsSuffixOf(actor.buf, client.field)

\* A combo that has not flipped the layout yet belongs to a round that will
\* settle it, whichever way the round ends.
ComboHasOwner ==
  actor.combo => actor.pending # NoPending \/ actor.ladder # NoLadder \/ Busy(actor)

\* A deadline that fired before its round was over, and got the mutex after
\* it, does nothing to the round that follows: it teaches no class, commits
\* nothing, closes nothing and flips nothing.  (A rearmed after round is
\* still the same round.)
LateIsHarmless ==
  [][\A t \in actor.late : t.over /\ t \notin actor'.late =>
       actor' = [actor EXCEPT !.late = @ \ {t}]]_vars

\* A round never waits for ever: an open one has its timer, or the timer's
\* callback on its way to the mutex, under the round's own epoch, be the
\* client deaf or silent.  (The flip of a terminal or of a gesture has no
\* deadline: it waits for a key.)
RoundHasDeadline ==
  \A round \in Rounds :
    \/ actor[round].epoch = 0
    \/ round = "flip" /\ actor.flip.kind # "ladder"
    \/ actor.armed[round] = actor[round].epoch
    \/ \E t \in actor.late : t.round = round /\ t.epoch = actor[round].epoch

\* The rounds in good order, through every exit of every one of them: types,
\* a deadline for each open round, an owner for each pending combo, and a
\* buffer that still mirrors the client's text.
RoundsInv == TypeOK /\ RoundHasDeadline /\ ComboHasOwner /\ Mirror
=============================================================================
