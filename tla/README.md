# goswitch in TLA+

goswitch is an IBus input-method daemon that repairs text typed in the wrong
EN/RU layout. The owner taps Right Shift (or strikes a combo), and the daemon
deletes the last word or phrase from the focused client and commits it
converted, then flips the layout. This directory holds TLA+ models of the
daemon, the TLC configurations that check them, and proofs that TLAPS checks.
The models are translated from the Go sources; `PROJECT.json` maps each
definition to its lines.

## 1. Inventory

Paths are under `src/`. "Mutex" is `Actor.mu` of `internal/session/actor.go`.

| Component | State | Operations | Interacts with |
|---|---|---|---|
| Tap series, `internal/hotkey/fsm.go` | window, tap key, count, held key, last tap | press, release, reset, expiry, hot reload of window and key | the actor feeds it and owns its timer |
| Session actor, `internal/session/actor.go` (5052 lines) | buffer, script mode, deferred flip, delivery machine, hold queue, rounds (pending, level-1, after), learned terminal class, caches of the client's text, autocorrect and super-key state, configuration snapshot | `HandleKey`, `HandleLifecycle`, `HandleSurroundingText`, `CorrectNow`, `ToggleMode`, `SwitchMode`, `SyncEngine`, `AttachEngine`, timer callbacks | everything below; its mutex is given up inside a delivery and around external lookups |
| Correction core, `internal/correct`, `internal/layouts/tables.go` | phrase buffer with token coordinates | push, pop, reset, replace word/token/phrase, convert, plan | called by the actor under the mutex |
| IBus engine and connection, `internal/engine` | connection, exported engines, signal channel | `CreateEngine`, key and focus calls, emit, reconnect, drop of signals in a storm | D-Bus peer; calls the actor |
| Re-activation, `internal/activate` | attempts | re-activates its engine if the desktop still lists it | connection, `gsettings` |
| Configuration, `internal/config` | served snapshot, fingerprint, last error, the document | poll, reload, toggle and block-list edits by rename | actor folds the snapshot at every event; tray and CLI edit |
| Tray, `internal/indicator` | exported item and menu, watcher's owner | attach, revive, menu calls | actor (gestures), configuration |
| Focused application, `internal/appid`, `internal/a11y` | name and role of the focused application, subscriptions | focus reports, reconciliation of the a11y switch | actor (class, autocorrect) |
| Sound, `internal/sound` | queue, stream, held tone | enqueue, play, reconnect | actor |
| Clipboard rung, `internal/clipboard` | the clipboard | save, set, paste, restore | actor, outside the mutex |
| Control service, `internal/ctlsvc`, `cmd/goswitchctl` | none | correct, reload, status, toggle | actor, configuration |
| Installer, `internal/install` | backup of the desktop's input sources, unit files | install, take over, restore, uninstall | desktop settings |
| Wiring and tools, `cmd/goswitchd`, `internal/uinject`, `cmd/skillgen`, logging | | | |

What is hard here, by kind (each item with its line is a hazard in
`PROJECT.json`):

* **The mutex is given up inside an operation.** A delivery releases it before
  its first BackSpace, between chunks and for its settle window. Keys,
  gestures, resets and focus moves enter there.
* **One slot, many owners.** The deferred flip is set by corrections, chords,
  the tray and the control socket, and executed by the next key or report.
* **A drainer that may become the thing it waits for.** The goroutine of the
  first parked key drains the queue; a parked combo makes it run a delivery.
* **A conversation with an unreliable client.** A verified correction takes up
  to four messages each way; clients push late, answer only when asked, stay
  silent or ignore the deletion, and keys are typed in between.
* **Stale callbacks.** Every deadline is a runtime timer whose callback may
  have fired before it is stopped.
* **Echoes.** A flip makes IBus re-create the engine; the FocusOut it causes
  must not be taken for the owner's, nor the owner's for it.
* **Incremental coordinates** of the token against the text, and tables that
  are not inverse of each other on punctuation.
* **Two deferred wipes of one class.** The learned terminal class must outlive a
  flap and an echo and die with its context; both windows have callbacks that
  may have fired before they are cancelled.
* **A file written by three and watched by one**: the owner's editor, the menu
  and the control socket write it, each by rename, and the watcher knows it by
  its fingerprint.
* **A desktop that is borrowed**: the installer rewrites the owner's input
  sources and may stop at any step, with a daemon and an ibus-daemon that restart
  meanwhile.
* **Peers that restart, drop and answer late**: ibus-daemon, the shell's watcher,
  the settings monitor, the sound server.

What makes a component correct:

* tap series: it counts the taps made, decides after a quiet window, and never
  leaves a counted tap undecided;
* delivery: it erases the word and nothing else, no key is lost, doubled or put
  ahead of the commit, the daemon's flips wait for the commit and the
  next key types in the layout of the result, and every machine and every queue ends;
* correction core: the buffer mirrors the text, its coordinates are those of
  the text, and a repeated correction converts back;
* verify rounds: every deletion has its replacement, what is erased is what was
  verified, a late deadline changes nothing, every round ends;
* context life: the learned class survives the daemon's own flips and the flaps of
  its window, and dies with a real change of context; an application once learned
  is remembered;
* configuration and accessibility: the last document is served in the end, what
  the menu shows is in force, and the desktop's key follows the last change;
* engine link: the actor's layout is the engine ibus has, or the cause is known; a
  lost connection is served again;
* tray: the shell shows the state, and a lost item returns;
* sound: a muted desktop holds no connection, the newest theme is played;
* installer: a list that was taken has a backup, uninstalling gives back what the
  owner had and leaves nothing.

## 2. Modules

| Module | Contents |
|---|---|
| `TapSeries` | the recogniser and the actor's timer for it |
| `TapSeriesLog` | `TapSeries` beside a log of the strokes; the promise of the recogniser, stated over the log alone |
| `ActorText` | what the next two share: the text, the word a correction takes out of it, its conversion |
| `Delivery` | the level-2 delivery machine, the key hold, the deferred flip, the terminal's verify-after round |
| `VerifyRounds` | the verified correction: pending round, ladder, verify-after round, deferred flip, and both channels to the client |
| `PhraseBuffer` | the typed-input buffer, the stretch, the conversion, the plan, beside the text |
| `ContextLife` | the learned terminal class: deferred wipe, flip's aftermath, memory of applications, flip credit |
| `A11y` | the accessibility reconciler, with a specification of its own |
| `ConfigPipeline` | extends `A11y`: watcher, reload, menu clicks that rewrite the document, fold, menu marks |
| `EngineLink` | the serve cycle, the signal stream, the switcher, the focus handlers, re-activation |
| `Tray` | the item, the menu's snapshot and signals, the supervisor, the shell |
| `Sound` | gate, queue, worker, stream, settings watcher, loads of theme sounds |
| `Installer` | install, uninstall and selfcheck, one step per file operation or subprocess |
| `BorrowedSources` | what the installer promises of the owner's list: the abstract specification of `Installer` |
| `TapSeriesProofs`, `DeliveryProofs`, `VerifyRoundsProofs`, `ContextProofs` (of `PhraseBuffer` and `ContextLife`), `ConfigTrayProofs` (of `ConfigPipeline` and `Tray`), `EngineLinkProofs`, `SoundProofs`, `InstallerProofs` | theorems, with the inductive invariants and lemmas they rest on |
| `MC*` | instances for TLC |

Three modules meet at the session actor: `Delivery`, `VerifyRounds` and
`ContextLife` are three views of its one lock, cut so that each keeps the
interleavings its part is about and takes the other two parts as free choices
(a class that may be learned or forgotten, a flip with its focus pair). `TapSeries`
feeds them gestures. `ConfigPipeline` ends in the actor's fold, which is where
`TapSeries` reads its document; `EngineLink` is the other side of the flips that
`Delivery` parks. `Tray` and `Sound` observe the actor and never delay it.

### TapSeries

`fsm` is the struct of `fsm.go` with its methods as operators of the same
names. `timer` is the actor's `a.timer`, `running` the runtime timers that have
not fired, `calls` the callbacks that have fired, have read the clock
(`Expiry`) and wait for the mutex (`ExpiryAt`). A `timer.Stop` removes a running
deadline and cannot take back a call. The handlers fold the served document
before they feed the machine (`Folded`); `HandleLifecycle` does not. A combo or
a chord resets the machine after feeding its key press (`gesture`).

Time is a natural number; two timers armed at the same instant are one
deadline. That loses nothing: the code's clock has nanoseconds and every arm
stops the timer before it.

`TapSeriesLog` conjoins each step with a note in `log`; `Series` is the set of
taps of the live series read off the log, without any variable of the machine.

### Delivery

| Variable | Code |
|---|---|
| `field`, `ctx` | the client's text and the focus, external |
| `slot` | the engine created last: what `emitter()` returns |
| `buf` | `a.buf`, its runes; the coordinates are in `PhraseBuffer` |
| `modes` | `a.mode`, `a.flipPending` (target, gesture), `a.comboPending`, `a.flipCredit` |
| `machine` | `a.level2Busy` and the locals of `executeLevel2` and `replayBurst` on the stack of its goroutine |
| `queue`, `drain` | `a.holdQueue`, and where the goroutine with `a.holdDrain` is |
| `after` | `a.after`, the terminal form: expected text, and whether a mismatch has been seen |
| `typed` | history, for `Conserved` |

A step is one hold of the mutex. `MutexFree` says that the drainer, which goes
from one parked key to the next without giving up the mutex, does not have it;
`machine.moved` is `a.ctxEpoch != gen`. The drainer sleeps (`waiting`) in
`awaitDeliverySettle`, is `woken` when the channel closes or the bound expires,
is `running` while it holds the mutex, and is `hosting` while the machine its
own key started runs on its stack.

`SyncEngine` is the shell's own choice of an engine, which the daemon follows at any
moment, also in the middle of a burst; where the choice creates the engine anew,
`Reset` is the death of the context that follows.

A flip done (`Flip`) makes IBus create the engine anew and books a credit;
`SyntheticFocusOut` is the FocusOut that spends it. The owner's own `FocusOut` is
taken to come after those echoes. Text is made of four kinds of cell; Latin and
Russian letters are all the conversion tells apart.

Left out: autocorrect and the level-1 ladder (they are in `VerifyRounds`), the
super-key remap and the clipboard rung (they are off), key releases (they only
feed the recogniser), the tray's and the sound's observers, logging.

### VerifyRounds

The other half of the actor: `Delivery` opens the windows of the level-2 machine
and has the client follow at once; here the machine's windows are closed (a key
waits until it has settled) and the channels are open.

| Field | Code |
|---|---|
| `actor.buf`, `mode`, `combo`, `credit`, `dead` | `a.buf`, `a.mode`, `a.comboPending`, `a.flipCredit`, `a.verifyDead` |
| `actor.surr`, `seen` | `a.surr` (nil or text), `a.surrSeen` with `a.surrEng` |
| `actor.pending`, `ladder`, `after`, `flip` | `a.pending`, `a.l1`, `a.after`, `a.flipPending` |
| `actor.epoch`, `armed`, `late` | their epochs; their running timers; the callbacks that have fired and wait for the mutex |
| `actor.burst` | `executeLevel2` in flight; `moved` is `a.ctxEpoch != gen` |
| `actor.payload` | the boundary decision `autoConfirm` carries outside the mutex |
| `actor.eng` | the engine object `emitter()` returns, by number |
| `actor.down` | signals of the engine and answers to keys, not yet taken by the client |
| `actor.up` | keys, reports and lifecycle calls, not yet taken by the actor |
| `client` | the text field, external |

The code's functions are operators from actor states to actor states under
their names, composed as the code calls them; an action is one hold of the
mutex. `over` marks a callback whose round has ended since. Ghosts: `gap` (the
client has deleted and not yet got the commit), `torn` (something got into the
gap), `harmed` (a deletion took other text than the planned range), `crossed` (an
engine was created anew over an undelivered deletion or commit), `raced` (the
buffer moved under an open pending round), `doubled` (a ladder deleted while a burst
was in flight).

Assumed of the outside: both channels keep their order; a flip succeeds, creates
the engine anew before it returns, sends one FocusOut and no Reset, and the
client discards what the old engine still sends, as the comments at
`actor.go:491` and `3336` say. A `pushing` client reports every change, late and
possibly merged; an `answering` one reports when asked; a `silent` one never; a
`deaf` one pushes and ignores deletions. How long the learned class survives the
death of its context is left open (it may be forgotten at once). The focus stays
with the field. A word fits into one chunk of the burst.

Left out: selections, the paste after a second mismatch, failing flips, the
role and block-list gates of the autocorrect, its capture at Enter and Tab.

### PhraseBuffer

`runes`, `curStart`, `lastStart`, `lastLen` are the struct of `buffer.go`; pushes
update the coordinates in place, pops and replacements recompute them. Runes and
tables are parameters; `PositionsAssumption` says of the tables what their generator
does, that they are inverse of each other and a letter is typed in its own layout only. `field` is the client's text; every operation is
modelled with what it does to both. `Image` is the table choice of `ConvertRuns`,
letter by letter in mixed text, wholesale in text of one script.

### ContextLife

| Variable | Code |
|---|---|
| `focus`, `seen`, `emitter` | the window whose FocusIn came last; the application the observer reports; the engine `AttachEngine` minted last |
| `dead`, `memory` | `a.verifyDead`; the keys of `appDeadOrder`, oldest first |
| `round`, `credit` | a verify round is open; `a.flipCredit` |
| `flap`, `aftermath` | the deferred wipe and the aftermath of a flip: armed or not, the engine of the window, its timer, and the callbacks that wait for the mutex, of this epoch or of an older one |
| `own`, `echoes` | the focus pairs and the echo Resets the daemon's flips still owe, external |
| `kept`, `due`, `younger` | history, for the properties |

A window's cancel bumps the epoch, so that a callback that has fired becomes an
"old" one, which must do nothing. `KeptWhileHere` names what the class may die of by
leaving it out of `kept`: an engine minted within a flap, a wipe of an older window
still to come when the class is learned, a second echo after two quick flips, and a
late echo of a window that was left. `Terminal` is the half of `classifyTerminal` that
is learned (the dead class and the memory); the lists of names and roles, which only
add cases in which nothing is learned, are left out. Section 3 says where the first departs from a
comment. Assumed: the focus events of one engine
arrive in their order. Left out: what a context's death does to buffer, machine and
rounds, which is in the other modules.

### A11y and ConfigPipeline

`A11y` has `desired` and `lastApplied` of the reconciler, for each state the number of
series spawned and not yet started (`waiting`), and the series that holds the series
lock with its step. Which of the waiting series goes first is open. `ConfigPipeline`
extends it:

| Variable | Code |
|---|---|
| `file` | the document on disk with its fingerprint, an external fact every writer changes |
| `seen`, `current`, `rejected`, `lock` | the watcher's fingerprint, served values, last error, and who holds `reloadMu` |
| `pc`, `local` | for the start, the poll, the forced reload and each click: its step, and what it has read and not yet used |
| `applied`, `menu`, `sink` | the values folded into the actor, the check marks, whether the accessibility sink is there yet |
| `answered`, `missed` | history: the fingerprint of the last parse; a save between a reload's parse and its fingerprint |

A click is read, rewrite, rename, mark, reload, fold; two clicks run in goroutines of
their own. A document is absent, unparsable (`Broken`: a click fails), refused by the
strict parse only (`Invalid`: a click still rewrites it, and may replace the very section
that made it invalid) or good; the daemon serves good ones. Four keys of the document are kept, one of each kind of edit (two scalars,
a list's entry, the accessibility switch). Left out: the validation of values and the
YAML layout.

### EngineLink

`mode` and `flip` are the actor's layout and the flip that awaits its answer under the
actor's lock; `switcher` the generation of the closure `BindSwitcher` gave it; `link` the
serve cycle (dial, register, subscribe, re-activate, bind, serve); `signals` the channel of
the subscribed generation; `focus` the `FocusIn` handlers, each in a goroutine; `bus`
ibus-daemon with its generation, its global engine and a call the daemon has stopped
waiting for. `unheard` records why the actor may be wrong about the engine: a dropped
signal, a refused flip, an overtaken FocusIn, a time without a subscription.

Two assumptions: a signal on the wire counts as in the channel, and so does the one the
dispatcher holds while it waits for the lock. A full channel drops the newest signal,
as `stormHandler` does. Left out: D-Bus wire forms, address discovery, parked
flips (they are in `Delivery`).

### Tray

`mode` is the actor's; `item` the icon served and whether the item believes itself
registered; `snapshot` the menu state the rows are computed from; `sup` the supervisor with its
step and its lost flag; `owner` the name-owner changes it has not handled; `shell` the
watcher's registry, the shell's copies of icon and rows, and its open questions. A
delta signal carries values; an "updated" signal makes the shell ask, and the answer
is computed from what is served then (`Serve`) and arrives later (`Deliver`), after any
signal emitted in between: `overtaken` holds the fields of the rows for which that has
happened to the last answer. Assumed of the shell: it asks again only after the former
answer came. Left out: drawing, rows that repeat others, an emit that fails for good.

### Sound

`desktop` are the settings; `watch` the watcher of them with the monitor's unread lines;
`muted` the gate; `control` and `toneCh` the two channels of one; `worker` and `conn` the
worker and its connection; `doc` the actor's two settings; `cache` the theme, the
snapshot, and the loads at work. Left out: decoding, synthesis, the lookup of theme
files.

### Installer and BorrowedSources

`live`, `chords`, `a11y` are the desktop's settings, `kept` is `install-state.json`, `xml` and
`unit` the two files, `cache`, `view`, `restarting` ibus's registry and what the running
ibus-daemon has read of it, `daemon` goswitchd. `step` and `got` are the running command's
step and what it has read. A command may end at any step (`Abort`). History variables
remember the owner's list (`mine`), whether goswitch has written the live one
(`taken`), and the owner's edits that came too late to be backed up (`stale`) or between
a read and a write (`raced`). `unstopped` is a stop that failed: the daemon may outlive
its own uninstallation.

`BorrowedSources` is the promise in five actions: a copy is kept once per borrowing, the
list is taken only while a copy is kept, what comes back is the copy, and the copy goes
only after the list came back. `Installer` implements it with `mine` and `kept` mapped to
their lists and `adrift` to `unstopped`. One `goswitchctl` command runs at a time.

## 3. Runs

| Run | Asks | Result |
|---|---|---|
| `tap_series` | does the machine count the taps of the live series and decide on a quiet key only, does a live series always have a deadline, and does every series end, with lagging callbacks and edits that change the key? | holds |
| `delivery` | combo corrections with keys, chords, gestures, switches by the shell, reports, resets and focus moves in every window of the machine: the erased text, the buffer, the combo, the flips, the order of the keys | holds |
| `delivery_rough` | the roughest scheduling: overtaken drainers, expired bounds, drains between two engines, with corrections by tap, phrase, tray and combo, chords and switches by the shell: are keys conserved, does the queue drain, does the next key type in the layout of the result? | holds; one exception is named |
| `verify_rounds` | is every deletion replaced, is only the verified range erased, does the buffer mirror the text, does a late deadline do nothing, has every open round a deadline? | holds, but for the two races below, which its properties name |
| `phrase_buffer` | coordinates, mirror, toggle, and does a word correction rewrite the whole stretch and nothing else? | holds |
| `context_life` | does the learned class survive flaps, flips and echoes, die with its context, and is an application remembered? | holds |
| `config_pipeline` | is the last document served, does the menu tell the truth, does the desktop's key follow? | holds; one race is named |
| `engine_link` | may the actor be wrong about the engine, and does the link come back? | holds; the causes are named |
| `tray` | does the shell show the state, and does a lost item return? | holds; one race is named |
| `sound` | is a muted desktop silent, and is the newest theme the one played? | holds; one race is named |
| `installer` | has a taken list a backup, does uninstalling give back and clean up, is the list borrowed? | holds |
| `verify_orphan` | is the deletion replaced when a key completes the ladder? | violated |

Some properties are conjunctions, so that a run checks one thing per name:

| Property | Conjuncts |
|---|---|
| `KeysInv` (`Delivery`) | `TypeOK`, `Conserved` |
| `RoundsInv` (`VerifyRounds`) | `TypeOK`, `RoundHasDeadline`, `ComboHasOwner`, `Mirror` |
| `BufferInv` (`PhraseBuffer`) | `TypeOK`, `Coordinates`, `Mirror` |
| `ClassInv` (`ContextLife`) | `ClassTypeOK`, `KeptWhileHere`, `FirstPress` |
| `LinkInv`, `Recovers` (`EngineLink`) | `TypeOK`, `GapClosed`; `Serves`, `Follows` |
| `TrayInv` (`Tray`) | `TrayTypeOK`, `IconIsShown`, `SilentByFaultOnly` |
| `SoundInv` (`Sound`) | `TypeOK`, `SwitchCloses`, `SettingsFollowed`, `SnapshotSettles` |
| `Uninstalls` (`Installer`) | `GivesBack`, `LeavesNothing` |
| `Settles` (`ConfigPipeline`) | `EventuallyServed`, `EventuallyReconciled` |

### Documented claims the code does not keep

Each configuration checks one property that states what a comment, a document or a
test says, and TLC reports a counterexample: `tlc -config X.cfg M`. `verify_orphan` is the
gravest, and is kept as a run.

| Configuration, module | Property | Claim |
|---|---|---|
| `MCTapSeriesReload`, `MCTapSeriesLog` | `SeriesEnds` | `internal/hotkey/fsm.go:74` |
| `MCDeliveryHandover`, `MCDelivery` | `KeysFollowTheCommit` | `internal/session/actor.go:574-576` |
| `MCDeliveryEnter`, `MCDelivery` | `EraseOnlyTheWord` | `docs/SPEC.md:130` |
| `MCDeliverySlot`, `MCDelivery` | `FlipSupersedes` | `internal/session/actor.go:2271-2274` |
| `MCVerifyKeys`, `MCVerifyRounds` | `EraseOnlyTheRange` | the invariant of the pending round, `actor.go` |
| `MCVerifyOrphan`, `MCVerifyRounds` | `DeletedIsReplaced` | `actor.go:91-92`, `3551-3554` |
| `MCVerifyDoubled`, `MCVerifyRounds` | `OneAtATime` | `internal/session/actor.go:4571-4583` |
| `MCConfigMissed`, `MCConfigPipeline` | `NoEditMissed` | `internal/config/watch.go:90` |
| `MCConfigClicks`, `MCConfigPipeline` | `OneScalarChanges` | `internal/config/writer.go:3` |
| `MCEngineLinkSwitcher`, `MCEngineLink` | `NoDeadSwitcher` | `internal/engine/conn.go:53-54` |
| `MCTrayIcon`, `MCTray` | `IconFollows` | `cmd/goswitchd/main.go:229-230` |
| `MCTrayOvertaken`, `MCTray` | `MenuIsCurrent` | `internal/indicator/menu.go:426` |
| `MCSoundMute`, `MCSound` | `MutedMeansClosed` | `internal/sound/sound.go:6` and `259` |
| `MCInstallerAgain`, `MCInstaller` | `UninstallIsIdempotent` | `internal/install/install.go:418-421` |

* `MCTapSeriesReload`: a tap arms a timer of the old window; the reload puts a
  longer window into the machine; the timer's expiry is then "stale" and nothing
  re-arms it. The comment of `SetWindow` says a reload cancels no decision.
* `MCDeliveryHandover`: machine one settles and wakes the drainer; `CorrectNow`
  takes the mutex first and starts machine two; the drainer processes its key
  in machine two's windows, since `awaitDeliverySettle`'s `false` is only logged.
* `MCDeliveryEnter`: Enter does not park, so it enters the text between two
  BackSpaces, and the burst erases it instead of the head of the word.
* `MCDeliverySlot`: a word is corrected in a terminal and corrected back without a key in
  between. The comment of `deferCorrectionFlip` says that a second correction's "own flip
  supersedes the pending one"; its early return on a target that is the current layout
  (`actor.go:2288-2291`) keeps the first one's flip in the slot, and the next key types in
  the layout of the text that is no longer there. `ModeFollowsResult` says that this is
  the only way to miss the layout of a result: another flip waits in the slot.
* `MCVerifyKeys`: the cache lags, so the correction asks; a space is typed; the
  report sent before the space arrives and matches, and the deletion is emitted
  behind the space: it erases the space and the end of the word. Neither the
  mutation (`feedKey`) nor the verdict (`pendingVerdict`) compares the round with
  the buffer.
* `MCVerifyOrphan` (run `verify_orphan`): with the ladder open, a letter makes `feedKey` flush the commit
  and then release the flip the flush has just deferred. The engine is created
  anew before the client has seen the commit; the word is gone, while the buffer
  holds it. The combo's own flip (`settleCombo` inside the flush) does the same.
* `MCVerifyDoubled`: a report has not come yet, so a correction runs the level-2 machine,
  whose guard covers "the WHOLE machine window"; in that window the report arrives, and the
  next correction takes the ladder, which does not ask the guard: its deletion goes out
  between the machine's burst and its commit.

  `LossHasCause` and `HarmHasCause` say that these three are all: a replacement is lost
  only by a flip over something undelivered or by two corrections that delete at once, and
  other text is erased only by those two, by a race with an open pending round, or in a
  client that ignores deletions. The listed run has too few inputs for the third; the
  theorems need no bound.

* `MCConfigMissed`: `Reload` parses and takes the fingerprint afterwards; what the owner
  saves between the two is recorded as seen and not served until the next save.
  `SeenIsAnswered` says that this is the only way to miss one.
* `MCConfigClicks`: two clicks read the same document and rename over each other; the
  later rename brings the first key back.
* `MCEngineLinkSwitcher`: the actor gets the new generation's switcher only when the
  connection is registered, subscribed and re-activated; a flip until then leaves
  through the closed connection and fails.
* `MCTrayIcon`: a beat of the supervisor that cannot reach the watcher marks the item
  lost although the watcher still holds it, which silences it; the next beat finds it in
  the registry, clears the supervisor's flag and does not revive the item
  (`supervisor.go:88-114`), so the icon stays as it was until the next restart of the
  shell. `SilentByFaultOnly` says that nothing else silences a held item.
* `MCTrayOvertaken`: the shell asks for the layout; `GetLayout` computes it, gives up the
  menu's mutex and returns (`menu.go:386-404`), and godbus sends what it returned later.
  A flip of the layout in between emits its delta first, and the older answer overwrites
  it: the menu keeps the old layout until the next change, since `AboutToShow` answers
  that "honest signals keep the renderer current; nothing is ever pending here", so that
  opening the menu does not make the shell ask (the milestone's research, section on the
  renderer, says the same of the extension). `MenuIsShown` says that only a field whose
  delta overtook the last answer may be behind.
* `MCSoundMute`: a tone is queued, the switch is turned off and the stop is taken before
  the tone: the worker then dials again, since the configuration's switch gates the
  queue and not the worker. The desktop's own mute does gate it (`SystemMuteCloses`).
* `MCInstallerAgain`: with the backup gone, an uninstallation takes the list it finds for
  a taken one without a backup and writes the fallback over the owner's own.

Further observations, met while modelling and without a configuration of their own:

* `Delivery`. `SwitchMode` to the current layout while a gesture's flip to the other is
  parked does not supersede it (`flipTo` returns before the slot is looked at, against the
  comment at `actor.go:3425`). A key parked in one context and drained
  after its focus loss, before the next engine exists, goes through the old engine into
  the new context's buffer, so `Mirror` needs `LateMint = FALSE`. The comments at
  `actor.go:601` and `4837` say gestures never park, while `HandleKey` parks every key
  behind a parked one; `Delivery` models the code.
* `PhraseBuffer`. The toggle of `stretch.go:61` has an exception, which is the precondition
  `KeepsALetter` of `Toggle`: a word whose letters all sit on punctuation keys converts to
  punctuation, and a text without letters is refused.
* `ContextLife`. `FocusIn` compares the engine minted last, not the one that gained the
  focus (`actor.go` about 1474-1481): going back within the deferred wipe to a window
  whose engine already exists carries the class of the first window into the second. A
  credit may be spent by the owner's own FocusOut, and the memory, keyed by the
  application seen at the deadline, may then name the wrong one.
* `ConfigPipeline`. `EnsureDocument` looks whether the file is there and renames later; a
  document written in between is lost.
* `Tray`. `SetBlocklistApp` changes a row's sensitivity and signals label and mark only.
* `EngineLink`. The echo of an older flip is applied as a correction of the layout
  until the newer one's own echo follows.
* `Sound`. Loads of theme sounds are not serialised, against the comment at
  `internal/sound/pcm.go:148`: an older load that ends last publishes its snapshot.
* `Installer`. It activates `goswitch-en` also when the list holds `goswitch-ru` alone; a
  reinstallation wraps the saved list and not the current one; the cache the
  selfcheck repairs is not read before ibus restarts; and with a backup of an earlier
  version the accessibility key is not given back.
* The super-key remap (`actor.go:3002-3058`, not modelled): a letter noted under Super
  outlives a focus loss before Super is released, and of two letters the last is kept.

### Bounds

* Taps: two tap keys, one window of one tick, a clock of three ticks of input and two
  more to decide, so that a gap, a window's exact end and a late callback all fit; the
  log holds six strokes, three taps or two with one other stroke among them. Edits that
  shorten the window are the theorem's (`SeriesIsCovered`), edits that lengthen it
  `MCTapSeriesReload`'s.
* Delivery: words of one to three letters with a tail against chunks of one key and a
  cap of three, so that a burst has several windows, the cap refuses, and a chunk is
  the last or not. Two contexts, one reset. Six key presses or entries (five in
  `delivery_rough`): three to make a word and start a machine, the rest to happen in its
  windows. The text before the word is as long as the inputs and one burst together
  (`Ahead`), so that a BackSpace always has something to erase, also that of a burst
  whose word is no longer where the buffer has it; what a BackSpace at the very start
  of a text does is not modelled.
* Verified corrections: a word of one letter to start from, two key presses (a letter,
  a space, a BackSpace or a combo each) and one other event (a tap correction, a phrase
  correction, a gesture, a focus loss or a reset), so that two corrections, or one and
  an autocorrection, overlap with a third event in every order; one callback waits for
  the mutex at a time. With two entries and one key, and with two callbacks at a time,
  the same properties hold, in some minutes more.
* Buffer: nine runes, one for every combination of classes and table rows the code
  distinguishes, texts of four.
* Context life: an application with two windows and one the observer cannot name, a
  memory of one, so that it evicts; three moves of the focus, two flips, one engine
  minted early, one Reset, two rounds.
* Configuration: two clicks on keys of different kinds and one act from outside (a save
  or a forced reload), with every poll in between, from an absent document. The owner saves
  one of three: one that cannot be parsed, one that turns the accessibility off, and the
  same with a value the strict parse refuses.
* Engine link: two flips, two picks of the owner, two restarts of ibus-daemon, one call
  that fails, a channel of two, two attempts, two handlers at a time.
* Tray: two changes, so that one answer is overtaken and another not, three moves of the
  shell, two failing calls.
* Sound: two tones, two changes, one fault; a theme with sounds of its own and one
  without, so that formats change.
* Installer: three commands and one edit over nine lists (empty, of foreign, of
  unsupported entries, with engines of goswitch in it, in either order), from nothing or
  from an earlier version's installation.

`CHECK_DEADLOCK FALSE` is set wherever a bound on inputs ends the run.

### Fairness

* `TapSeriesLog`, as `TapSeries`: the clock advances, due timers fire, a goroutine that
  waits for the mutex gets it in the end (Go's mutex hands over to its longest waiter
  after a millisecond).
* `Delivery`: the machine and the drainer get on, since they sleep for bounded times
  and then wait for the mutex; IBus creates the engine for the focused context
  (`AttachEngine`), which the drain waits for unless `LateMint`.
* `VerifyRounds` states none: that rounds end is the invariant `RoundHasDeadline`, a timer
  or its callback under the round's epoch, of which the rest follows since timers fire
  and goroutines get the mutex.
* `ContextLife`: the deferred wipe's timer fires and its callback gets the mutex. The
  aftermath's needs none.
* `ConfigPipeline`: the poll's ticker ticks, a reload or a click that has begun goes on,
  a spawned series gets its lock. Nobody has to click.
* `EngineLink`: the goroutines run, and a call is answered or runs into its deadline.
* `Tray`: the supervisor's ticker ticks, and what the shell asked is answered.
* `Sound`: worker, watcher and loads run; a select with both channels ready may take
  either.

No fairness is assumed of keys, entries, reports, the owner, the shell or a peer's
restart.

### Scheduling constants of Delivery

`Barging`: whether an entry may take the mutex ahead of a woken drainer. `Overrun`:
whether the drainer's bounded wait may expire with the machine in flight, a
"pathological overrun" by the code's comment. `LateMint`: whether a parked key
may drain between the loss of the focus and the creation of the next engine.
`delivery_rough` and five theorems of `DeliveryProofs` allow all three; the properties that need one of
them excluded say so by their run: `KeysFollowTheCommit` holds with `Barging` when no entry but a key
starts a machine (`delivery`) and fails with `CorrectNow` (`MCDeliveryHandover.cfg`);
`Mirror` holds without `LateMint` and fails with it (section 3).

The owner's `FocusOut` comes after the echoes of the flips, so a credit that is one too
many is never spent in `Delivery`; there `Mirror` and `KeysInv` catch a credit too few. In
`ContextLife` the owner's FocusOut may spend one.

## 4. Proofs

All theorems are of the specification for every value of its constants that
meets the named assumptions.

* `TapSeriesProofs!TypeCorrect` (`TypeOK`): it has the last tap and the pending readings
  in the past of the clock, which the arithmetic needs.
* `SeriesIsCovered`: `~MayLengthen /\ Spec => []SeriesHasTimer`. Alone the invariant is
  not inductive: a timer is armed with the document's window, while the series is
  decided by the machine's, which lags behind the document until the next fold. The
  strengthening is that the document's window is never the longer one
  (`DocumentShorter`), which holds as long as edits only shorten it; a fold then only
  moves the machine's deadline forward, so every cover stays one. That an edit may not
  lengthen is what `MCTapSeriesReload` shows to be needed.
* `CountsEveryTap` (`CountsTheSeries`) and `DecidesOnAQuietKey` (`DecisionIsQuiet`), without
  a condition: edits may lengthen the window, and the bounds on the log play no part.
  `CountsTheSeries` alone says nothing of the next stroke; the invariant (`Follows`) adds
  that the machine holds the key, cleanly or not, exactly when the strokes do
  (`HoldsAsStruck`) and remembers the moment of the last tap (`RemembersTheLast`). The log
  only grows, so one lemma says what one more stroke does to each notion of
  `TapSeriesLog` (`StrokeOn`, `SeriesOn`), and one for each method of the machine that it
  follows its stroke.
* `ParkedKeysAreOwned` (`ParkedKeysHaveDrainer`), `ComboIsSettled` (`ComboHasOwner`: a
  combo pends only under a machine in flight whose context lives): proved together, since
  the machine's exit decides both. The inductive invariant adds
  the shape of the variables and that only a machine in flight can be the drainer's own
  (`machine.byDrain => Busy`).
* `NoFlipInFlight` (`FlipsWait`): from the same invariant: a flip of the daemon is done only
  by an operator that is given `Busy`, and `FollowScript`, which is not, runs in the step
  that ends the machine. `SyncEngine`, by which the daemon follows the shell, has no such
  guard in the code either and is the one exception.
* `ModeIsTheResults` (`ModeFollowsResult`), from the same invariant and without a
  condition: it speaks of the layout the next key will see (`Effective`: the slot's target,
  or the layout when the slot is empty). One lemma for each operator on the slot says what it
  does to that layout (`FlipEffective`, `ReleaseEffective`, `SettleEffective`), one for the
  commit (`CommitEffective`), and one that nothing else moves it (`OnlyTheseMove`).
* `KeysConserved` (`KeysInv`) and with it `DeliveryProofs!TypeCorrect` (`TypeOK`), without
  a condition. The count could only fail where a burst finds fewer cells than it means to
  erase, as it might when keys drain under it, a second correction plans over a stale
  buffer or the focus has moved. `Room` excludes it: a text with what the machine holds of
  it has lost no more cells than inputs have been taken up, and what a burst holds and
  still has to erase is within the cap. The sums of `Conserved` are a recursive function of
  the number of summands (`Total`); that it exists, and what it becomes when one summand
  changes, is added or taken away, is shown with the smallest number for which it would
  not be so (`SumsExist`, `TotalChanged`, `TotalTail`).
* `ErasesTheWord` (`EraseOnlyTheWord`) and `MirrorsTheText` (`Mirror`) under `Orderly`; `KeysComeAfter`
  (`KeysFollowTheCommit`) under `InTurn`. The conditions are on constants and none can be left out:
  - `InTurn`: the drainer's bounded wait does not expire, and either no entry overtakes a
    woken drainer or no entry but a key starts a machine (`MCDeliveryHandover` shows
    what happens otherwise);
  - `Orderly`: also, no parked key drains between two engines (`LateMint`), and Enter,
    which does not park, is not pressed (`MCDeliveryEnter`).

  The invariant (`WordsOK`) ties the text to the machine: before the burst the text ends
  with the buffer; in the burst it is the text before the word and what is left of the
  word (`BurstOK`); the buffer has lost the word exactly when the commit is sent
  (`LevelOK`). The lemmas on texts under it (what `Word`, `DropLast` and `Converted` return,
  that joining cancels) use no induction but the least element of a set of numbers.
* `VerifyRoundsProofs`, without a condition: `DeletedIsReplacedUnless` (`LossHasCause`),
  `ErasesThePlannedUnless` (`HarmHasCause`), `RoundsAreInOrder` (`RoundsInv`) and
  `LateCallbacksAreHarmless` (`LateIsHarmless`). The invariant `Sound` relates the actor, both
  channels and the client:
  - open rounds, timers and callbacks carry epochs that were given out, and one that is
    over none that is open (`Epochs`), so a late callback finds no round of its own; an open
    round has its deadline (`Deadline`);
  - what is under way was sent by an engine that lives (`Engines`), unless `crossed`;
  - in the channel, with the client before it and the actor behind it, every deletion is
    answered: the next signal that is no request is its commit, or there is none yet and
    the actor still owes it (`Gapless`);
  - the channel leads the client's text to one that ends with the buffer, but for the half
    owed (`Level`, `Leads`), and what a round is about is in the buffer (`RangeOf`);
  - ladder and burst are not in flight at once unless `doubled` (`Alone`), and an
    autocorrection's payload never meets a ladder with a learned class (`Learned`): a
    fact about three entries that no run's bound reaches.

  The code composes its functions, and the proofs follow the calls: one lemma for each
  operator, which says that it leads from `Sound` to `Sound` and takes back no history
  (`Goes`).
* `ContextProofs`: `BufferIsTrue` (`BufferInv`): the coordinates kept in place are those a
  scan of the text would find (`Marks`), which pops and replacements recompute by the same
  scan. `TheWholeWord` (`WordAndItsStretch`): that a correction rewrites the
  stretch of the last token, all of it, with every letter changed, and no cell beyond,
  needs the invariant for the range, since the stretch is stated over the text and the
  code walks from its coordinates. `CorrectsBack` (`Toggle`) needs `PositionsAssumption`
  for the way back, and for every letter to have another image.
* `ClassInOrder` (`ClassInv`). That the class outlives what is not its context's death
  (`KeptWhileHere`) needs to be known of every timer and callback that could wipe it: a
  callback still entitled to wipe finds nothing kept; an armed wipe with something kept
  was armed by the loss that is still on, with the engine minted last, so that the
  window's return will cancel it (`FlapOK`); the echo in its time finds the aftermath open
  with its timer running (`AftermathOK`); and a flip's focus pair has its credit (`CreditOK`),
  so that it arms nothing. `FirstPress` follows from the order of the memory (`MemoryOK`):
  each key has all that stand behind it among those taught after it, so the one that a
  full memory drops was followed by as many as the memory holds. Only a round of a
  context not yet classified can teach (`RoundOK`).
* `InstallerProofs!TypeCorrect`, `BackedUp` (`TakenIsBackedUp`), `Borrows` (`BorrowSpec`): the
  invariant `SagaInv` says what each step of a command may count on, although commands
  stop anywhere: past the saving step there is a backup (`SavedFirst`), past the giving
  back the list is the owner's (`GivenBack`), past the stop the daemon is off or known to
  be unstopped (`StoppedFirst`), and a daemon that lives, or a selfcheck about to heal, has
  a backup behind it (`DaemonHasBackup`, `HealHasBackup`). That a backup holds a layout
  (`BackupHasLayout`) comes from the refusal gate through `ReadHasLayout`. The refinement
  maps every step of the saga to one of the five actions or to a stutter under it.
* `TakesOnlyTheOwners` (`TakenIsTheOwners`) and `GivesBackAndLeavesNothing` (`Uninstalls`):
  `OwnInv` says what each step has read of the owner's list and what it is about to write,
  `BackInv` that the kept copy, and what an uninstallation has read of it, is the owner's
  list, chords and key, `GoneInv` what an uninstallation has removed by each of its steps.
* `OverlooksNothingElse` (`SeenIsAnswered`): the fingerprint the poll compares with is one
  that was parsed, or a click's own write whose reload follows, or the race of section
  3. The invariant (`ValuesOK`, `StepsOK`, `StampsOK`, `SeenOK`) says which processes are past
  a stat or a write and not yet at their parse, and that none holds a stamp newer than
  the file's.
* `MenuIsTrue` (`MenuTellsApplied`): the fold is the only writer of the applied values
  and sets the marks in the same step; a click is ahead of it until its own fold.
* `DrivesTheReconciler`: `ConfigPipeline` implements `A11ySpec`, so `Converges`
  (`ConvergenceOwed`: a state desired and not applied has a series that will run for it)
  holds in whatever order series are started; `DesiredFollows` ties the desired state to
  the folded document and the sink.
* `TrayInOrder` (`TrayInv`) and `MenuFollows` (`MenuIsShown`). `IconIsShown` speaks of quiet
  moments; between them the copy of the icon is right for whoever has no question open,
  also before the attachment is over, when the item serves the first icon whatever the
  mode (`IconOK`, `ServiceOK`). A held item that is not registered is about to be revived,
  unless a call failed (`RevivalOK`). For the rows, the copy that counts is the
  answer on its way when there is one (`RowsToCome`): it is faithful but in the fields a
  delta has overtaken since it was computed (`RowsOK`). One lemma per change says which
  fields of which rows depend on it (`ModeTouches`, `AutocorrectTouches`, `AppTouches`), and
  one that a delta which carries those keeps the copy faithful but for what it overtakes
  (`DeltaKeepsRows`).
* `FollowsTheEngine` (`Agreement`): without a recorded cause, the channel read from its
  head leads the mode to the engine (`CleanMeans`); a channel is empty before its
  generation has subscribed (`FreshChannel`).
* `KeepsInOrder` (`LinkInv`) and `ServesWithALiveSwitcher` (`ServingSwitcherIsLive`): a gap in
  the subscription that is still on record has an empty channel behind it
  (`GapIsFresh`) and is over once the connection is re-activated, unless a call failed or
  the owner has picked an engine of another method (`GapIsActivated`); the switcher is
  never of a later generation than the link.
* `MutedIsSilent` (`SystemMuteCloses`): once a muted player has taken the stop, no tone
  passes to the dial: the worker asks the gate after it took the tone.
* `FollowsTheDesktop` (`SoundInv`): the last unread line of a setting, or the value in force
  when none is unread, is the desktop's (`LinesLead`), a freshly read setting is too
  (`ThemeRead`, `SwitchRead`), and the last load at work, or the snapshot when none is, is the
  newest (`Newest`).

Model-checked only: liveness (`SeriesEnds`, `ParkedKeysDrain`, `LossIsFinal`, `Settles`,
`Recovers`, `ItemReturns`, `FallsSilent`), which the prover does not do under fairness.
`ClassInv` has been checked with a memory of two as well.

## 5. Not modelled

Reasons are beside each component in `PROJECT.json`. In short:

* Generated data: `dict_ru.go`, `dict_en.go` and `trigrams.go` are 226 107 lines, 92 % of
  the Go that is not a test, and have no behaviour; a share of lines modelled says
  something about the hand-written rest only.
* The detector's statistics: its verdict is a free choice of `VerifyRounds`. Its gates
  (role, block list) only refuse; the capture at Enter and Tab is left out.
* The selection's rounds and the clipboard rung (`actor.go:2924`): the selection is what
  the client reports, and the clipboard's three subprocesses are external commands whose
  failures the code logs; that the clipboard is left with the replacement when the
  restore fails is read off the code without a model.
* The super-key remap: off unless configured, two flags of one key stream.
* Key names and bindings: stateless parsing. Wire forms, drawing, sample synthesis,
  YAML layout: conversions no property is about.
* Start-up wiring (flags, logging, signals), injection and stand tools.

## 6. Plan

What is left, the most important first:

1. `VerifyRounds`: the selection's rounds, the paste after a mismatch, failing flips;
   with its theorems carried along.
2. Autocorrect's gates as reads outside the mutex that may be stale when the decision
   is applied, and the capture at Enter.
3. The clipboard rung, with the failures of each of its commands.
4. The super-key remap inside `Delivery`.

Refinements: `Delivery` without focus moves implements an atomic replacement of the
word; `PhraseBuffer` implements a specification that has the text alone.
