# A verification project for the jaato computer-use bridge

A language model drives an Android or a Windows device. A Python **controller** listens on a
WebSocket; a **bridge** on the device dials in, serialises the accessibility tree and a
screenshot on request, and performs actions. The controller turns each tool call of the model
into *act → wait until the screen settled → observe again*.

This directory holds TLA+ models of that program, the TLC runs that check them, and proofs
that TLAPS checks. Paths below are relative to `src/`; `a11y/` is `controller/a11y/`, and
`bridge/` is `android-bridge/app/src/main/java/com/jaato/a11ybridge/`.

## 1. Inventory

| Component | State | Operations | Talks to |
|---|---|---|---|
| `DeviceSession` (`a11y/device_session.py`) | `_alive`, `_id`, `_pending` futures, `_blobs` and `_blob_waiters` by version, `_settled` queue | `request`, `observe`, `act`, `configure`, `await_settled`, `wait_for_settle`, `pump` and its handlers, `_fail_pending` | the device over one socket; the controller's tasks |
| `Controller` (`a11y/controller.py`, `settle_policy.py`, `grounding.py`, `audit.py`) | `_session`, `_scope`, `_settle`, `_tuner`, `_act_lock`, the audit file | `act_ref`, `global_action`, `type_text`, `press_key`, `gesture`, `wait`, `_observe_and_follow`, `_recover_session` | one session at a time; `reacquire` |
| `BridgeServer` (`a11y/device_session.py`) | `_devices`, `_cond` | `_on_connect`, `list_devices`, `get_device`, `wait_for_device` | sockets; recovery; selection tools |
| `run_controller.py` | `turn_done`, `turn_active`, `terminated`, `steer_queue`, `just_connected` | turn loop, `_route_lines`, event callbacks, `connect_cb` | the agent daemon, the console |
| Host tools (`a11y/host_tools.py`) | none | one coroutine per tool call | controller, server |
| Android consent (`bridge/state/ConsentGate.kt`, `CommandRouter.kt`, `ConsentOverlay.kt`, `state/SessionConfig.kt`) | consent, pending and generation; live scope; `consentPromptActive`; the card on screen | `configure`, approve, deny, revoke, `resetSession`, show, hide | three threads; the operator |
| Android router (`bridge/CommandRouter.kt`) | `inbox` | one handler per verb, serial | `SettleDetector`, walker, actuator, socket |
| Android `SettleDetector` (`bridge/settle/`) | armed cycle, its callback, two timers | `arm`, `onEvent`, `cancel`, `disarm`, timer fires | router, event thread, timer threads |
| Android `WsClient`, service (`bridge/transport/WsClient.kt`, `BridgeAccessibilityService.kt`) | `running`, `webSocket`, `loopJob` | `start`, `stop`, `connectLoop`, listener | router's reset, socket |
| Android observation (`bridge/observe/`, `state/SnapshotClock.kt`) | the snapshot clock | walk, prune, list windows, bump | platform |
| Android actuation, screenshots (`bridge/act/`, `bridge/shot/`) | rate limit | resolve, perform, capture | platform |
| Windows bridge (`windows-bridge/JaatoBridge/`) | queue, `_waits`, `_actCts`, snapshot store, dial loop | serial consumer, `ArmForAct`, `WaitForSettle`, `Cancel`, `Connect`, `Reconnect` | UIA, socket, tray |
| Wire formats, configuration, console, drawing | none that outlives a call | conversion, I/O | – |

**What is hard.** On the controller, asyncio runs one coroutine at a time, but the model batches
tool calls (`parallel_tools`), so several coroutines share one session and one controller: every
`await` is a point where the pump, a timer or another tool call runs. Answers come late, out of
order, twice around a timeout, or never; the socket dies at any of these points and comes back as
another session object. On Android, three threads write consent state with a lock around only a
part of it. The settle detector races its own timers. What makes each component correct:

* *session*: a request ends exactly once; none waits for its response on a dead socket; a frame goes
  to the observation it belongs to, once.
* *controller*: a batch is performed in order and each act at most once; the trail tells what was
  done, in order; what the device was last asked to run is what the controller holds; the lock is
  always released.
* *server*: the newest session of an id is the one found; a teardown removes only itself; a
  waiter wakes when its device is there.
* *turn loop*: each turn's end is seen; an operator's line reaches exactly one turn.
* *consent*: nothing enters the live scope that the operator did not allow; a decision counts only
  for the card it was made on; what is dropped is retracted.
* *settle*: one completion per armed cycle, and never on the quiet of another cycle.
* *connection lifecycle*: at most one dial loop; a disconnect wins over a dial in flight; no
  answer crosses from one connection to the next.

## 2. Modules

| Module | Models |
|---|---|
| `RequestCycle` | Abstract: what the mux promises about one request. |
| `DeviceSession` | `DeviceSession` with its pump, timers, callers, and the device and network around it. |
| `Controller` | The act cycle, the observe path, recovery, tuning, audit, for one device. |
| `Refs` | From the mark the model points at to the node the device acts on. |
| `Registry` | `BridgeServer` under its users, over the device's dial loop. |
| `TurnLoop` | `run_controller.py` and the console, over the agent daemon. |
| `ConsentGate` | The gate, one action per method (each holds the gate's lock). |
| `Consent` | `EXTENDS ConsentGate`: the router, the store, the overlay and three threads over it. |
| `SettleCycle` | Abstract: what a bridge promises about one settle cycle. |
| `Settle` | The Android `SettleDetector` under its four threads. |
| `DeviceSessionProofs`, `ControllerProofs`, `ConsentProofs`, `RegistryProofs`, `TurnLoopProofs`, `RefsProofs`, `SettleProofs` | Inductive invariants and theorems. |
| `MCDeviceSession`, `MCController`, `MCRefs`, `MCRegistry`, `MCTurnLoop`, `MCConsent`, `MCSettle` | Instances for TLC. |

The definitions named `X_Y` near the head of a module (`Refused_NoCheck`, …) are mutated forms
of `X`: plausible slips used to see that a property notices them. No action uses them.

### DeviceSession

One action is a stretch of code between two awaits. `Request(t, w)` parks the future and begins to
send; `SendReturns(t)` and `SendRaises(t)` end the send, which may suspend, and only then is there a
timer; `Timer(t)` is the timer of `wait_for` cancelling a future; `ResponseReturn(t)` is the caller
resuming, which for an observe goes straight on into `_await_blob`; `BlobReturn(t)` is its end.
`PumpMessage` is one frame through `_handle_text` or `_handle_binary`; `PumpEnd` is the `finally`
of `pump`, after the close or after a handler that raised on the message it took, with the socket
perhaps still open. *Setting a future and resuming its waiter are two steps*: that is where a late
response meets a cancelled future. The verbs are `observe`, which also waits for a frame, and
`other`, which stands for all that do not. A bye marks the session dead and fails nothing until
the socket closes, as in the code. A `ws.send` on a socket that closed while the pump still
reads raises past the parked future; the pump's end clears it.

The device takes requests in as sent, reads the snapshot version at that moment, answers in any
order (captures and settle waits run beside its inbox), and may fail to capture. A drop loses a
tail of what was sent. Ids `1..MaxId` are fresh, as `_next_id` makes them.

### Controller

A tool call is a task; `task[t].pc` names the request it awaits or where it is parked
(`queued` on the lock, `settle` on `_settled`, `reacquire` on the reconnect). Acts are of three
kinds, because the code tells them apart: on a ref (`RefActs`, retried on STALE and on a refused
click), global (`GlobalActs`, settle override, not counted by the tuner) and the others
(`PlainActs`). `Looks` are `screen_observe` and `screen_wait`, which take no lock. `Request`
has the outcomes of `DeviceSession.request`; only a dead session leads to recovery, and once
per call, also when a send of the observe path raised and the pump had ended by the time it was
caught. `cfg` is `_scope` with a flag for a widened settle policy, replaced *before* the
configure is sent. `lockQueue` is `asyncio.Lock`, FIFO; `Ended` is `async with` leaving it, also
by an exception. A `screen_wait` beside an act takes the place of the act's settle cycle on the
device (`DeviceReport`): the act then waits for its ceiling.

`asked` is the configuration the device was last *asked* to run. It answers `applied: true` and
runs the settle policy as asked, of the scope only what the operator consents to
(`CommandRouter.kt:193-204`), and the operator changes that at any time (91-133); which part is
`Consent`, and the controller never learns of it.

`Drop`, `PumpEnd` and `Reconnect` are the life of the connection, `epoch` its number: between
`Drop` and `PumpEnd` the session still looks alive. What the device had read before the drop it
still works off, for nobody. One assumption: a device does not answer a request of an earlier
connection on the next one (see *not modelled*). `order`, `refused` and `troubled` are ghosts: the acts as
emitted, whether the device refused the last configure, and the calls of which a request was not
sent, not answered in time, or failed for good.

### Refs

A call points at a ref of `shown`, the screen the model was last given; `Ground` (`act_ref` up to
the lock) looks it up in `current`, the session's snapshot, which another call may have replaced,
and computes the version-independent selector (`ToSelector`). Holding the lock, the
version-bound attempt is `CheckVersion`, `FindByRef` and `Click`, and the retry after STALE
`FindByStable` and `Click`: the device reads the clock, walks the tree and performs the action one
after the other while the screen goes on changing. `ActByGesture` is the tap after a refused click. `Resolve` is the device's resolver: text and description by containment, an index
among the visible matches, or the smallest node over a point. `ReadClock` and `Walk` are one
observe, between which the screen may change; `Change` and `Event` are a change of the screen and
the event that advances `SnapshotClock` some time later. Bounds have one dimension and text is a
name with a relation `Contains`. A click goes to the node the walk held, whatever it shows by then. `hit`
is a ghost: what the last act hit, what was meant, whether that was still there when the selector was
resolved, and whether the call was `calm` (see `RefHitsItsNode` below).

### Registry

`loop`, `awaited` and `webSocket` are `WsClient`; `conn[c]` is one connection with its two ends,
which learn of its end at different times (`Lose`, `CutOff`), so that a half-open socket is a state.
`Start`, `Stop`, `Dial`, `Open` and `Redial` are the device; `Open` does not ask whether the loop
still runs, as `onOpen` does not. `Register`, `Refuse`, `Bye` and `Teardown` are `_on_connect` and
the pump's end. `Connect`, `Connected` and `Bind` are `connect_device` with `connect_cb`; `Use` is a
tool of the bound device that meets a dead session, `Match`, `GiveUp` and `Adopt` the
`wait_for_device` behind `reacquire` and what `_recover_session` does with its result. `held[d]` is
`_session` of the controller of `d`.

### TurnLoop

`pc` is where the main coroutine is parked; a step is what it, the router of lines or an event
callback does between two awaits. `turnDone`, `turnFinish`, `turnActive`, `terminated`,
`justConnected`, `lineQueue` and `steerQueue` are the variables of `run`. `TakeLine` and `GotLine` are apart because
the getter takes the line before its caller resumes; `Route` decides by `turnActive` and
`InjectReturns` ends the injection. The daemon (`Accept`, `SendRaises`, `Fold`, `EndTurn`,
`Terminate`) is outside `src/`; assumed of it: one event per turn's end, with a
`finish_reason` that is clean (`stop`, `tool_use`) or not (`short`: `max_tokens`, `safety`, `error`), a line injected while no
turn runs waits for the next, and a send to a session that terminated raises. `reached`, `typed` and
`dropped` are ghosts: how many turns a line reached, and the lines reported to the operator as lost.

### Consent

`CommandRouter.configure` runs on the router's coroutine; the card, its buttons and the console's
revocation on the main thread; `resetSession` on the socket's thread. Each gate method is one
step, and each statement after it that writes `scope`, `consentPromptActive` or the card is
another. What a thread does to the card is a post to the main thread's queue (`posts`), run
later by `RunPost`. A tap runs the callback, then hides the overlay, also when the gate refused
the tap as stale. `requested`, `allowed` and `given` are ghosts: the last scope asked for, the
packages allowed on a card and not retracted since, and those ever allowed.

### Settle

`armed`, `onComplete`, `armRequestId`, `qualifyingCount` and `mode` are the detector's fields, each
method of it one action. A timer is in three stages: `delaying` (can be cancelled), `expired` (its
coroutine runs and is not yet at the lock, so that cancelling it has no effect), and `firing`
(`fireIfReady` took the callback under the lock and has not invoked it). A cycle has the number of its
arm, which the code does not keep; `onComplete` is the number the callback belongs to. `Act`,
`Performed`, `Failed`, `WaitForSettle` and `Cancel` are the router's handlers, one request at a time;
`Reset` is the socket thread's. `events` and `dropped` are ghosts. `CyclePhase` maps the fields to the
phase of each cycle in `SettleCycle`: armed, settling (fired and not yet reported), told or dropped.

## 3. Runs

| Run | Constants | Shows |
|---|---|---|
| `device_session` | 2 tasks, 2 ids, versions 0..1 | types; `NoStrandedRequest`; `ImageMatchesTree`; `FrameUsedOnce`; `ImplementsRequestCycle` (refinement); `EveryCallReturns` (liveness) |
| `controller` | 1 ref act, 1 global, 1 package, 1 drop | types; `PerformedOnceInOrder`; `AuditFaithful`; `CallsReturn` (liveness) |
| `controller_follow` | 1 ref act, 1 look or wait, 2 packages, 1 drop | `ConfigureIsCurrent`; `CallsReturn` (liveness) |
| `refs` | 2 taps, 1 look, 5 screens, 2 changes | types; `RefHitsItsNode`; `NamedRetryHitsItsNode` |
| `registry` | 2 devices, 2 calls, 2 connections | types; `NoGhost`; `AnnouncementsTrue`; `NoLostWakeup`; `EvictsOnlyItself` (action); `FlapIsAPause` (liveness) |
| `turn_loop` | 3 lines, 2 connects | types; `LineReachesOneTurn`; `CompletionIsOfThisTurn`; `ZeroMeansGoalRun`; `TurnIsLeft`, `LineIsHandedOver` (liveness) |
| `consent` | 2 packages, 3 prompts, 2 posts | types; `ConsentWasGiven`; `ConsentedIsRequested`; `ScopeWasGiven` |
| `settle` | 3 cycles, 1 event required and counted | types; `ToldOnce`; `QuietHeardEnough`; `ImplementsSettleCycle` (refinement); `CycleIsReported` (liveness) |
| `settled_of_another_act` | `Controller`, 2 plain acts, no drop | **violated** `SettledMatchesAct` |
| `consent_scope` | as `consent` | **violated** `ScopeIsConsented` |
| `refs_retry` | `Refs`, 1 tap, 1 change | **violated** `RetryHitsItsNode` |
| `settle_quiet` | `Settle`, 2 cycles, 2 events required | **violated** `QuietIsOwn` |

The largest runs have some 4.8 million (`refs`), 930,000 (`device_session`), 750,000
(`controller_follow`), 330,000 (`turn_loop`) and 100,000 (`controller`) distinct states.

**What some of them say, and what they do not.**

* `NoStrandedRequest` is about responses: after the pump has ended nothing is parked, and whoever is
  sending or awaiting a response has its outcome. It does not cover frames: an observe whose response was in
  just before may register for its frame afterwards, with no check of `_alive`, and waits out its 5 s
  (`a11y/device_session.py:199-208`). The model does this too; `EveryCallReturns` bounds it.
* `AuditFaithful`: the records are in the order of the acts, and a performed act whose call has returned
  is missing only if the call is in `troubled`. The code does lose a record then (the answer timed
  out, or the re-observe or the widening failed, `a11y/controller.py:351-363`), although
  `a11y/audit.py:4-6` calls the trail "enough to replay".
* `ConfigureIsCurrent` is about what was asked, not what was granted (see `Controller` above), and
  excludes a configure the device refused.
* `RefHitsItsNode` is conditional on `hit.calm`: the session's snapshot was still the one shown
  when the ref was grounded; no change was without its event when the version was checked; none came
  between the check and the walk. Each of the three can fail in the code, and an accepted ref then names
  another node; a change between the walk and the click does not matter.
* `ZeroMeansGoalRun`: exit 0 of `--once` says that the goal had its turn, exactly once, and that
  the turn was over without a terminal error of the session. It does not say that the model
  finished: a turn cut short by `max_tokens`, `safety` or `error` arrives as `TURN_COMPLETED`
  (`run_controller.py:216-218`), and 401-402 leave the code at 0. That a `--once` run ends at all is not
  stated, since a turn that connects a device is continued each time (395-400).
* `CompletionIsOfThisTurn` includes the `finish_reason` which the line at the boundary is printed from.

**Bounds.** `MaxId = 2` and two tasks are the smallest system in which one caller's timeout,
frame or response meets another's; two versions let a frame be mistaken for one of another tree.
In `Controller`, two acts are enough for one act's leftovers (a late event, a request that outlived
its timeout, a held lock) to meet the next; one drop gives two sessions, the dead one and the
newest, and `timeouts` starts anywhere in `0..2`, so that the widening is one step away in one
of the initial states. In `Consent`, three prompts allow a card, one that supersedes it and one
after both; two posts let a show and a hide be outstanding together. In `controller_follow` the call beside the act is a look or a `screen_wait`, so that a wait takes the place of
the act's settle cycle and both calls recover from one drop. In `Registry`, two connections
are either one of each device, where a wake-up for one meets a waiter of the other, or the old and
the new one of a device that flaps once, with the old one half-open; a chain of flaps is beyond this bound. In `Refs`, two changes give three
versions: the one grounded on, one re-observed between grounding and act, and one unseen; the five
screens have a repeated view id, a text contained in another, a node without a name, an invisible
one and one that refuses a click. In `TurnLoop`, three lines are one on its way by each route (main loop, router, mailbox)
and two connects make a turn that is continued, twice. In `Settle`, three cycles are one that is replaced,
one that replaces it and one after a cancel or a reset. `MaxVersion`, `MaxId`, `MaxDrops`, `MaxGeneration`, `MaxPosts`,
`MaxConn`, `MaxChanges`, `MaxConnects`, `MaxArms` and `MaxEvents` are the only bounds, each in a guard; they stand for counters
and queues that are unbounded in the code. `TurnLoop`, `Registry` and `Settle` may stop (the run
exits, a device has no connection left, no cycle is armed), so deadlock is not checked there.

**Fairness.** `DeviceSession` and `Controller` state weak fairness of the coroutines' own steps:
asyncio resumes a ready coroutine, expires a timer, and runs the pump while it can read or its
socket has closed; a suspended `ws.send` ends, because the buffer drains or the keepalive closes the socket
(`a11y/device_session.py:328`). Nothing is assumed of the device, the network, the lock's waiters or the model
that starts the calls, so the liveness properties say that the *timers* bound every wait. In
`Controller` a session's timeout is part of `Continue`, and a queued act advances because the
holder does. `Registry` assumes that the event loop serves a hello, a bye, a closed socket (which the keepalive
bounds) and the ready calls, and that the tools are called again; nothing of the operator, the
network or the dial loop. `TurnLoop` assumes the main coroutine, the router, the callbacks, and
that the daemon answers a send and a connect and ends each turn (or terminates the session); the operator need do nothing.
`Settle` assumes that delays end and their coroutines run, and nothing of the other threads.

**Two assumptions to know of.** `Overtaken = FALSE` in `registry`: hellos of one device are handled
in the order they were sent, because a device redials only a second or more after it gave up its socket.
With `TRUE` the registry may name the older session, and `FlapIsAPause` fails: that hazard is not covered.
`TurnIsLeft` rests on `send_message` raising for a session that has terminated: `prep_turn` erases a
termination that came while the loop was idle, and if the send did not raise, the wait would not end.

**The four violations** are disagreements between the code and what it says of itself:

* `SettledMatchesAct`: a late `settled` is taken by the next act; nothing empties the queue
  after a ceiling or before an act.
* `ScopeIsConsented`: scope and consent are written under different locks, in different orders.
* `RetryHitsItsNode`: the index of a text selector counts nodes of *equal* text in the snapshot, the
  device applies it to the nodes that *contain* the text, in text or description.
* `QuietIsOwn`: arming does not cancel the quiet timer of the cycle it replaces.

More that the models show the code does, for which no property is stated, besides what was said above: two observes of one
version share one waiter slot, so one of the callers may time out; a settle cycle's hard timer that has expired may end the
cycle armed after it as a timeout; the flag
`consentPromptActive` is set and cleared apart from the card, and a button of a stale card takes down
the next one; a socket that opens after `stop` is kept.

## 4. Proofs

All theorems hold for every value of the constants under the modules' named assumptions
(`SessionAssumption`, `ControllerAssumption`, `GateAssumption`, `ConsentAssumption`, `RegistryAssumption`,
`TurnAssumption`, `RefsAssumption`, `SettleAssumption`). Those say that bounds are numbers, that the
values which stand for "none" are not values of the data, that an act is not a look, that screens are
sequences of nodes with distinct ids, and that a text contains itself. Every invariant of every passing
run is a theorem (of `AuditFaithful` the first conjunct, `AuditOrdered`), and so are both refinements and the
action property.

**DeviceSessionProofs.** The invariant `IInv` is `TypeOK` and six conjuncts: a caller's request
was issued (`CallsIssued`); nothing is known of an id before it is issued (`FreshUntouched`); an
issued request is parked for as long as its future is not done (`Parked`); a pump that returned
left the session dead and nothing parked (`PumpOver`); a request on its way to the device was issued,
is not handled yet and travels once (`InTransit`); whatever reports an answer, on the wire, owed or
in a future, reports one of a request the device took in (`AnswersHandled`). `NoStrandedRequest` is
not inductive alone: a request made after the pump's end is refused only because the session is
dead by then, which is the other half of `PumpOver`; that nobody sends or awaits without an outcome is `Parked`
with nothing left parked. The refinement needs the rest: `Answer` of
`RequestCycle` requires that the device took the request in (`AnswersHandled`), `Handle` that it did
not before (`InTransit`), `Issue` that a fresh id is free (`FreshUntouched` and `Parked`). Each
action of the session is then one of `Issue`, `Handle`, `Answer`, `Fail` or a stutter.

Frames have an invariant of their own, `FrameInv`. A frame is one of a request the device took in
(`FramesHandled`), from then on in one place: to be captured, on the wire, buffered, or with one caller
(`OnePlace`), which gives `FramesUsedOnce`. A buffered frame lies under its own version and a
returned one has the version of the call (`FramesMatch`, which gives `ImagesCorrect`), because whoever
is registered as a waiter waits for that very version (`WaitersAwait`): a later observe may take the
slot over, never with another version.

**ControllerProofs.** `TypeCorrect` needs that an answer under way goes to a task that still awaits it
and nothing else (`Addressed`), and that only acts reach the steps of an act. `ConfigCorrect` rests on
`ConfigSent`: on the newest connection the last configure in the inbox carries the controller's
configuration, and without one it is the one the device was asked last; the premise `held = epoch` is what a
recovery restores, since the first request on the new session is a configure.

`OncePerformedInOrder` and `AuditCorrect` (`AuditOrdered`) are about sequences built over the whole behaviour. Both
come from `OrderInv`. The lock's queue is a tail of the order in which the model emitted the acts
(`QueueIsOrder`) and only its head is past `queued` (`LockHeld`), so that the acts sent follow the order up
to the holder. `SentInOrder` then speaks of what was performed *followed by what the inbox will
still have performed*: a request that outlived its caller's timeout is still in the inbox when the lock
passes on, and the inbox is worked off in order, so it cannot overtake or be overtaken. At most once is
`SentOnce`: an act about to be sent, for the first time or again, is neither performed nor in the
inbox; a retry follows an answer that refused the act, never a timeout. `AuditInOrder`: what is recorded was
performed (`RecordsPerformed`) by an act that has left the lock, while those still to be recorded come
later in the order.

The proof of `TypeCorrect` found that an earlier form of `Tune` had two alternatives that both applied to
a global act that timed out, which TLC resolved in its own way; the module now states it as the code does,
one condition after the other.

**ConsentProofs.** `IInv` adds to `TypeOK`: an open prompt's card names exactly what is
pending under its generation, wherever the card is, on its way to the queue, in it or on screen
(`PromptsNamePending`), so that a tap the gate accepts approves what its card named; the scopes
computed under the lock and not yet written are within what was given (`ComputedWasGiven`). The
three safety properties of the passing run follow.

**RegistryProofs.** The invariant is `Types` (the part of `TypeOK` used), `LinksInOrder` (a
connection has a server end only once it opened, and a device once it was dialled), `CallsInOrder`
and `NoGhost`. `NoGhost` is not inductive alone: that `Register` cannot reuse the connection of an
entry, and that a fresh dial is not one the registry names, is `LinksInOrder`. `AnnouncementsTrue`,
`EvictsOnlyItself` and `NoLostWakeup` follow from what a step does to the registry: it registers and
wakes, tears down one connection, or leaves the entries and the live sessions as they are or fewer.
They hold whether or not hellos overtake. `TypeCorrect` adds the device's end and the hellos on their
way (`DialTypes`).

**TurnLoopProofs.** `TypeCorrect` needs `HoldsLine` (a coroutine about to pass a line on holds one).
`NoStaleCompletion` rests on `TurnInv`: while the session lives at most one end of turn is under way
and only while main is past its send; when it is set, `turnDone` stands for a turn that is over, and
at a send it is clear; and on `FinishInv`: a completion under way, or taken, carries the end of the turn sent
last. A termination is the case `prep_turn` erases; the property excludes it by
`terminated`, and `TurnIsLeft` is about it.

`OneTurnEach` is proved from `LineInv`: a line is in exactly one of eight places (queue, router's hand,
steer queue, main's hand, being sent, the daemon's mailbox, a turn, reported as lost) if and only if it was
typed; both queues hold no line twice; and the slots a step fills (`sending`, `hand`, `routed`) are empty at
the control points that fill them. The property as stated counts places, the invariant excludes each pair of
them. `ZeroIsEarned` adds two facts: a turn that an error cut short is known to the loop or about to be, by that
error alone (`CutInv`), so the loop cannot close with 0 over it; and a `--once` run holds its goal until
a turn has it (`OnceInv`).

**RefsProofs.** `RefIsTight` rests on two facts. A snapshot of the clock's present version, while no
event is outstanding, is the screen (`SnapshotSound`): the clock is read *before* the walk, so a
change in between makes the stamp too old, never too new. And what a call grounded keeps that
relation up to the version check, from the check to the walk for as long as it is calm, and in the node the
walk found up to the click (`Carries`), whatever looks replace `current` meanwhile.

`TypeCorrect` needs the lock (`LockHeld`: every tap past its first request is at the head of the queue, and no
tap is in it twice) and that a call with a frame to come has its snapshot. `NamedRetryIsSafe` follows
from what a call keeps for its retry (`Meant`: a node the pruner keeps, hence visible, and the selector made of
that node): the node, if it is there, is one of the matches (`SelectorMatches`), and without an index the
resolver returns the only match or none (`OnlyMatch`). A text selector has an index, and there the
property fails (`RetryHitsItsNode`).

**SettleProofs.** `IInv` is `TypeOK` with: the armed cycle was not told of and is not firing (`ArmedIsNew`), a
firing one was not told of and fires once (`FiringIsNew`), only cycles that were armed are told of
(`SentIsOld`), each once (`SentOnce`). `QuietIsEarned` adds `CountIsOwn`: the detector's count is at
most what the armed cycle heard, because `arm` resets it under the same lock. The refinement of
`SettleCycle` (`CyclesEndOnce`) adds `DroppedIsOver`: a cycle that was taken off is in no other place, so the
five phases exclude each other, and each action is `Arm`, `Complete`, `Report`, `Cancel`, `Drop` or a stutter.

**Model-checked only.** Liveness (`EveryCallReturns`, `CallsReturn`, `FlapIsAPause`, `TurnIsLeft`, `LineIsHandedOver`,
`CycleIsReported`): `ENABLED` is out of the prover's reach. The second conjunct of `AuditFaithful`, which acts
may be missing from the trail. Induction over data and RECURSIVE
operators are out of reach of the installed provers; no module here needs them: what the code filters out of
a list (`Kept`, `Chosen` of `Refs`) is stated by positions, and what leaves a queue by its tail or its index.

## 5. Not modelled, and why

* The Windows bridge: its router, settle service and host are a second implementation of the
  protocol with its own concurrency (a serial consumer, cancellation tokens, UIA handlers). The
  controller sees of it what `Controller` allows a device: settle events late, lost, or one beside another.
* An answer, or a `settled`, that crosses from one connection to the next (ids restart at 1, the
  Android inbox is not emptied by a reset): assumed away in `Controller`; it takes two sessions
  composed with one device.
* Which window is in front, the traversal of the platform's tree, collapsing, redaction, cropping:
  computation over platform data without interleaving; outcomes appear as choices. Which nodes are kept,
  numbered, listed and marked is in `Refs`.
* Durations: the backoff of the dial loop, settle windows, ceilings. A timer may expire at any time.
* Wire formats, configuration parsing, rendering of output, logging, the drawing of marks: pure
  conversion or I/O. Development tools and smoke tests (`controller/tools/`, `tools/`) are clients
  of the above and hold no part of the system.

## 6. Plan

What is left, in this order, each with its runs and proofs:

1. Proofs that follow from the invariants at hand and are not stated yet: one act at a time between the
   lock's holder and the device (`LockHeld` of `ControllerProofs`), no request across two connections.
2. `WindowsSettle` (serial consumer, `ArmForAct`, `WaitForSettle`, `Cancel`) and the Windows host's
   dial loop over `Registry`. Its abstract specification is `SettleCycle` too.
3. Two `DeviceSession`s over one device whose inbox survives: an answer completes only the request it
   belongs to.
