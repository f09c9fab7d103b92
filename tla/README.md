# A verification development for soothe-client-rust

This directory holds TLA+ models of the concurrent core of the client in
`src/`, TLC configurations that check them on small instances, and proofs
about them that TLAPS checks for all values of the constants. File and line
references are to `src/src/` of the repository.

## The system

`soothe-client` is an asynchronous (tokio) client for the Soothe daemon. A
`Client` keeps one WebSocket; the *appkit* builds sessions, a connection pool
and a turn runner on top of it.

| Part | State it keeps | Operations | Talks to |
|---|---|---|---|
| Transport (`client.rs`) | write channel, `connected`, `reader_alive`, `handshake_complete`, `readiness_state`, `disconnect_cause` | `connect`, `close`, `reconnect`, `wait_disconnected`, the reader and writer tasks | daemon over the socket; the inbound queue |
| Inbound queue and RPC mux (`client.rs`, `inbound_priority.rs`, `stream_terminal.rs`) | pending frames, the cap, drop counter, degraded flag, one waiter per request | `route_inbound`, `read_event`, `receive_messages`, `push_pending_event`, `peel_stale_pending_control_events`, `clear_pending_events`, `request`, `subscribe` | reader task on one side, applications on the other |
| Session bootstrap (`session.rs`) | none | `connect_with_retries`, `bootstrap_loop_session` | Client |
| DaemonSession (`appkit/daemon_session.rs`) | loop id, turn statistics, a stream and an RPC client, `rpc_connected` | `connect`, `new_loop`, `switch_loop`, `ensure_connected`, `close`, `send_turn`, `iter_turn_chunks`, `cancel_active_turn`, the RPCs | two Clients |
| Turn boundary (`turn_boundary.rs`, `appkit/turn_boundary.rs`) | per turn: running seen, progress seen, expected turn id, cancellation seen, ended | `feed_status_turn`, `feed_event_turn`, the gates | fed by TurnRunner; its gates are used by DaemonSession |
| ConnectionPool (`appkit/pool.rs`) | table of active connections, channel of idle slots and its gauge | `acquire`, `release`, `reset_session`, `stop` | Client, LoopSessionStore |
| QueryGate (`appkit/query_gate.rs`) | per key: local cancel callback, daemon-cancel sender | `acquire`, `cancel`, `release`, `set_send_cancel`, `replace_cancel`, `is_active` | TurnRunner and the application |
| TurnRunner (`appkit/turn_runner.rs`) | per turn: `cancelled` flag, deadlines, collected text, boundary | `execute`, `execute_reserved` | QueryGate, ConnectionPool, classifier, store, broadcaster |
| Broadcaster (`appkit/broadcaster.rs`) | subscribers and their bounded channels | `subscribe`, `broadcast` | TurnRunner |
| Heartbeat tracker (`heartbeat.rs`, `client.rs`) | start time, last heartbeat, threshold; the pinger tasks | `update`, `note_pong`, `get_health`, `reset`, `wait_for_alive`, `enable_heartbeat_tracking` | inbound frames, connections |
| Card projection, classifier, chunk filter | folded cards; none | pure functions of frames | TurnRunner, DaemonSession |
| Loop session store (`appkit/loop_session_store.rs`) | session records behind a lock | `get_loop_id_for_session`, `set_loop_id`, `append_message` | ConnectionPool, TurnRunner |
| Command clients, codec, helpers | none | - | - |

What makes it hard: everything is `async` and shared behind short critical
sections, so that another task runs between any two of them; a future can be
dropped at any await; the daemon and the network answer late, never, or after a
timeout; frames of one turn can still be on the wire when the next one starts;
queues are bounded and drop.

## The models

### QueryGate and TurnRunner

`QueryGate.tla` is the gate alone: the two maps, and one operator per critical
section. `cancel` has one critical section, `RemoveBoth`; what it does with the
two callbacks it took is in `TurnRunner.tla`, where a cancel is a process of its
own (`CancelTake`, `CancelDaemon`, `CancelLocal`, `DropCancel`).

`TurnRunner.tla` runs turns and cancels against one gate. A turn's `pc` stands
at the awaits of `execute`, `execute_reserved` and `run_turn`:

| pc | the code is about to |
|---|---|
| `start` | call `gate.acquire` (`execute`), or have its caller call it |
| `reserved`, `checked` | check and replace the callback in `execute_reserved` |
| `pool`, `setSend` | await `pool.acquire`, register the daemon cancel |
| `drain`, `send` | settle-drain the stream, send `loop_input` |
| `loop` | read the event stream |
| `timedOut` | apply the timeout policy after the awaited daemon cancel |
| `ended` | drain and release the gate |

The daemon is a variable per turn that says what became of its input; a daemon
cancel names a loop and stops whatever runs there. How frames end a turn is
abstracted to the ways the loop ends (`EndOnEvent`, `EndOnClose`,
`EndOnMissingStream`). `takenAt`, `told` and `takes` are history.

*Properties.* The gate promises single flight. It does not keep that promise
across a cancel, because `cancel` frees the key before the cancelled turn has
stopped (run `turn_overlap`). What does hold is stated instead:
until a cancel takes a reservation of the key there is single flight
(`SingleFlightUntilCancel`), and after that the turns outside the gate never
outnumber the cancels (`OverlapBoundedByCancels`), even though the release of a
cancelled turn may free the key of a later one. `ReservationHasOwner` says that
no path, that release included, leaves a key busy for ever, except a dropped
future. `DaemonBeforeFlag` is the order of a
cancel: daemon first. `StopsOnlyItself` says that a deadline, which cancels the
loop by name, hits nobody else. `TurnsReturn` and `SentTurnsAreReported` are
liveness, and checked by the run `daemon_session`. They are about turns past
their settle-drain, and ask nothing of a turn while another one of the session
holds the stream: a trickle of frames can keep a settle-drain going.

*Fairness.* `WF` of each turn's own steps while no other turn of the session
holds the lock of the event stream: the runtime polls ready tasks, and each
await among these steps carries a timeout. Dialling in `pool.acquire` carries
none, the settle-drain restarts its 5 ms with every frame, and nobody has to
start anything: those steps are not fair. Cancels are not fair either.

*Bounds.* Three turns and one cancel of one session: a cancelled turn, the turn
that overlaps it, and the one that comes when the release of the first has freed
the key of the second. For liveness two turns, the second through
`execute_reserved`, and a cancel: a turn that waits alone, one that is cancelled,
and one that waits for the stream of another. Several keys and cancels are
covered by the proofs of the safety properties.

### InboundQueue

`InboundQueue.tla` is the queue between the reader task and whoever reads
events. A frame is its kind, whether it came inside a `next` envelope, and the
request it answers; the classifiers of `inbound_priority.rs` and
`stream_terminal.rs` are operators on kinds. An operation on the queue is one
critical section of its mutex. What does not take that mutex comes in between:

| Code | Steps |
|---|---|
| a drop (`client.rs:1450-1457`) | `note_inbound_drop` counts it and swaps the flag; `FireHook` then looks at the callback and calls it, with the queue still locked |
| the setter of the callback (`:185-192`) | `StoreHook`, of a callback or of none, then `ArmHook`, which resets the flag |
| a request (`:451-470`) | `request`; then the answer, or `Timeout`, which gives up the receiver, and `RemoveWaiter` |
| `reconnect` (`:415-430`) | `BeginReconnect`, `ClearWaiters`, `ClearQueue`, `ClearNotified`, which resets the flag too |

An answer between `Timeout` and `RemoveWaiter` is taken out of the table and is
nobody's (`lost`). A frame that has to be acknowledged carries a loop id in the
model.

*Refinement.* `LossyQueue.tla` is what a reader of events may rely on: a
first-in first-out queue that loses an entry for want of room only, at most one
for each arrival, and counts it. `LosesOnlyForRoom` is `LossyQueue!Spec` with
the queue mapped to the numbers of its frames, `maxInbound` to the room and
`dropped` to the losses: order of reading is order of arrival whatever is
evicted in the middle, no frame vanishes unaccounted except by the reader's own
peels, clears and reconnects, and the backlog grows only below the cap. A frame
that is pushed back is one more arrival, with a number of its own: this is what
the code does, and not what the comment on `push_pending_event` says (run
`inbound_push_back`). A queue
with a cap of zero lets one frame in: `route_inbound` evicts before it pushes,
and finds nothing to evict. Answers that reach their waiter, re-armings and
changes of flags are stutters of `LossyQueue`.

*Properties.* An urgent or acknowledged frame is pushed out only when no
streaming chunk could go instead (`NormalGoesFirst`). Once a callback is armed,
the first drop since then has called it and no later one has, whatever setters,
drops and reconnects race; it was called once more, or without a drop, only when
a drop had swapped the flag and not yet called when the flag was reset
(`DropsAreReported`, where `stale` remembers this). There is at most one copy of
an answer among the events, read or pending, and none that its caller got or
that a timeout swallowed (`AnswerGoesToOne`). The comment "Never drop" on the
CRITICAL class is not kept (run `inbound_never_drop`).

*Bounds.* Three frames, caps zero to two, one request: full and overfull queues,
every pair of classes pending with every class arriving (the frames have one or
more kinds of each class). Two setters or reconnects, which take turns with each
other where no request is under way, and one next to a request (`Apart`): a
drop, a setter and a reconnect race, and so do an answer, a timeout and a
reconnect. The proofs have no such restriction.

### Heartbeat

`Heartbeat.tla` is the other thing the client makes of inbound frames: a verdict
on the daemon. `HeartbeatTracker` keeps times; `connect` first brings the
connection up (`dial`) and starts a pinger when an acknowledgement with an
interval comes (`acknowledge`), so that a handshake that fails, or that names no
interval, leaves a connection without a pinger; `route_inbound` notes pongs and heartbeat
events; the daemon hangs, with or without the answers it owes, and recovers.
Time is counted in ticks of five seconds, the least period of a pinger, up to
`Horizon`, beyond which ages are not told apart; the grace period of 20 seconds
is four ticks and the default threshold of 15 three. No tick passes while a
pinger, an answer or a poll of `wait_for_alive` is due: these are the
assumptions on time, in place of fairness.

*Properties.* Two bounds on the same verdict, from opposite sides. A daemon that
answers within `Delay` is not reported dead once a connection has been
acknowledged for a period and a delay, over reconnects that leave old pingers behind, resets, and
changes of the tracker, if the threshold allows for both (`NoFalseAlarm`). A
daemon that hangs is reported dead past the threshold, the answers under way and
the grace period (`SilenceIsNoticed`), which a reset or a new tracker starts
anew, and a heartbeat does not. With a threshold above the grace period, a
tracker that was reset during the silence has to grow older than its threshold
too, because it takes its own start for a heartbeat.

*Bounds.* Two connections, periods of one and two ticks or no pinger, thresholds
of three and five, a delay of one and a horizon of six: a period, a delay and a
threshold fit in, a threshold is below the grace period and one above it, and a
pinger of the first connection can ping the second.

### ConnectionPool

`ConnectionPool.tla` is the pool with concurrent calls; a call's `pc` stands at
its awaits. A connection is named by its slot id, has a session and a loop, and
is up or not. The loop is the one that the call read from the store before it
dialled (`LoopIdFor`), as in the code, where another call may have replaced it
since. What the network does with dialling, reattaching and bootstrapping
is a choice (a failed handshake may leave the socket open), and a connection may
go down at any time.

*Properties.* Whatever calls race, open connections and slots that can still
become connections never exceed the pool size (`ConnectionsBounded`), and the
gauge is the length of the channel (part of `SlotsAccounted`). With one call per
session at a time, as the gate makes the acquires (`serial`, chosen at the
start of a behaviour), there is one connection per session
(`OneConnectionPerSession`), its loop is the one in the `LoopSessionStore`
(`StoreAgrees`; a reset keeps it, whatever its comment says of a fresh loop), and
every slot is somewhere (`SlotsAccounted`): the only losses
are acquires that failed and calls that were dropped. That failed acquires lose
their slot is itself a divergence from the documentation (run `pool_lost_slot`):
the failure path calls `release`, which finds no entry for the session and
returns early.

*Bounds.* Four calls, two slots and two sessions, with one connection lost:
conflicts of up to four calls on one session, or two on each of two.

### Transport

`Transport.tla` is the connection itself. Calls of `connect`,
`connect_with_retries`, `reconnect` and `close` race each other, the readers of
up to two connections with their `mark_disconnected`, requests with their
waiters, and consumers of events with their wake-ups. The client's task runs on
a multi-threaded runtime and these functions take one lock after the other, so
the actions are single critical sections (`MarkUp`, `MarkTx`, `MarkWaiters`,
`MarkWake`; `Dial`, `Publish`, `SetUp`, `Spawn`, `SendInit`, `WaitAck`), where
`pc` names the next one. Adjacent stores that no modelled step can tell apart
are one step. The writer task is its channel.

*Properties.* A request that went out is not left to its timeout once the
reader of its connection has failed what was pending, although registering,
sending, clearing the sender and draining the waiters are four separate steps
(`NoStrandedWaiter`: the order "register, then send" against "clear the sender,
then drain" is what makes it true). No race of connects, closes and old readers
leaves the client up, or with a sender, and nobody left who would mark it down
(`UpMeansAReaderIsLeft`). A single consumer cannot sleep on a pending frame that
nobody is about to notify it of (`NoLostWakeUp`: `notify_one` leaves a permit,
and an emptied queue is looked at again). That `Ok` from `connect` means a
completed handshake is not kept (run `transport_handshake`).

*Bounds.* Two calls and two connections: an old connection whose reader is still
ending next to a new one. One request or one forwarder at a time, because the
two share no state of their own.

### Turn boundary and the end of turns

`TurnBoundary.tla` holds the gates of `turn_boundary.rs` and, as functions from
a record and a frame to a record, the two contracts that decide where a turn
ends: `feed_boundary` (TurnRunner's `TurnBoundary`) and `iter_turn_chunk`
(`DaemonSession`). `TurnStream.tla` feeds both the same frames: turns are sent
one after the other on a loop, turn *n* is generation *n*, and any frame that
the daemon could have sent by then may arrive at any time, tagged with its turn
or not, leftovers of earlier turns included. This assumes that turns of a
session do not overlap. The gate lets them, after a cancel
(`appkit/query_gate.rs:81`); two readers then share one stream, which
`TurnRunner` models without its frames.

*Properties.* `OwnRunningShields`: once a turn has read its own `running`, only
a terminal of its own makes the boundary end it, be it to complete or to fail
it. `LeftoverTerminalsAreHarmless`: if every earlier turn had finished, their
running, progress and terminal frames neither complete nor fail the next one, in
any order. This is as far as it goes: a late reply (a deliverable), a late
report of a failure or a late error of a finished turn does end the next one,
because the classifier does not look at turns (`appkit/turn_runner.rs:448-493`).
`TurnIsNotMissed`: `running`, progress and a terminal of the turn, in this
order and with anything in between, end the turn for both clients.
`SessionEndsNoEarlier`: the two contracts agree in one direction. The README's
claim that leftovers cannot end the next turn at all is not kept (run
`stream_leftovers`).

*Bounds.* Three turns, so that a leftover can be one or two generations old.

### DaemonSession

`DaemonSession.tla` extends `TurnBoundary` with the rest of the component: the
stream client (up or not, the loops the daemon streams on it, its pending
events), the sidecar, the loop of the session, and the daemon, which runs the
turns of a loop one after the other and keeps streaming a loop that was left.
Four parties share this state, with one step between two awaits that another
could tell apart:

| Party | Steps |
|---|---|
| a call (`ctl`) | `connect`, `new_loop`, `switch_loop`, `ensure_connected`, `close`; then `Dial`, `Probe`, `LoopNew`, `LoopSubscribe`, `StoreLoop`, `CloseStream`, `CloseRpc`, `ClearFlag` |
| the iteration (`iter`), which holds `read_lock` | `BeginIteration`, `Peel`, `ReadFrame`, `ReadNothing`, `Deadline`, `DrainFrame`, `DrainEnds` |
| an RPC (`rpc`) | `RpcCheck`, `RpcDial`, `RpcFlag`, `RpcAnswer`, with the flag locked while it dials |
| whoever sends | `send_turn`, `cancel_active_turn` |

A request may have its effect at the daemon and still fail at the client; a
connection may be lost at any time, with the loops of the daemon or without. One
call at a time is assumed: the code lets an application overlap them, and has no
lock for it.

*Properties.* `StreamHearsItsLoop`: after any losses, stale loops, repairs and
switches that succeeded, a session that is up is on a loop the daemon streams to
it. `OnlyCallsMoveTheLoop`: although every status that is heeded overwrites the
loop and the old loop stays subscribed, no frame undoes a switch, unless an
iteration and the switch overlapped. `TurnsStayApart`: as long as turns are sent
and read in sequence, an iteration returns chunks of its own turn, whatever the
drain and the peel take. `IterationsReturn`: if the daemon finishes the turn,
the iteration returns, without a deadline. The exceptions are named by the
variables `unsure` (a call has failed half-way), `mixed` (a call overlapped an
iteration) and `calm` (used in sequence, nothing lost, and every turn had
progress or was cancelled). What the code does in these cases is described
below.

*Fairness.* `WF` of `Iterate`: the runtime polls the reader. Nobody has to send,
call or answer.

*Bounds.* Two loops, two turns, two events, one connection lost, three calls,
and five of these together, or four when one is an event: a switch between two
turns, a repair after a loss that finds its loop gone, a turn sent while the
drain of the last one runs. The proofs of the safety properties have no such
bound. An RPC shares only the calls that close the sidecar with the others, so
`MCDaemonSession` keeps it apart from turns.

### The text of a turn

`Classifier.tla` is `EventClassifier` as a function of a frame and the text so
far; a frame is the path it takes through the classifier and its text, which is
a sequence of pieces one of which is white space. `TurnText.tla` extends it with
what `run_turn` does with the result (`Handle`), the daemon that streams
increments or the whole text so far, `SseBroadcaster` with its bounded channels,
and a client behind each channel that appends deltas. Where the turn ends is the
subject of `TurnStream`; here any end frame may end it. A turn begins when the
one before it has returned. After a cancel the gate lets two turns of a session
overlap (`appkit/query_gate.rs:81`), and both then broadcast their deltas to the
same subscribers, who cannot tell them apart: the properties say nothing of that.

*Properties.* `InStepShowsTheText`: deltas add up to the text for every
subscriber that lost nothing since the last report, and a loss, that of a report
included, does no harm past the next report that arrives. `TextIsExact`: the
prefix rule of `run_turn` reconstructs the text from either style of streaming.
`NoBlankReply`: no frame completes a turn with nothing to show (a deadline may:
`finish_timeout` says so).

*Bounds.* Three pieces of text, one word and white space, two turns, one
subscriber with a channel of one event: a full channel, a report that is lost
and one that is not, a blank reply, a text so far that is continued.

### Cards

`CardStream.tla` is `CardProjection` at the end of a stream that may lose any
frame (`trim_inbound_overflow` drops card frames before others). The daemon
creates cards, changes fields, and replays all it has between two markers.

*Properties.* `ReplayHeals`: if nothing was lost since the last replay began,
the projection will show exactly the daemon's cards when it has applied what is
under way, whatever state losses had left it in. `OrderKept`: losses of any
other frame never disorder the cards.

*Bounds.* Two cards with two fields, four frames under way: a replay of both
cards fits on the wire.

### Composition

`QueryGate` is taken by extension into `TurnRunner`, `TurnBoundary` into
`TurnStream` and `DaemonSession`, and `Classifier` into `TurnText`; `LossyQueue`
is instantiated in `InboundQueue`. `Subsequences` says what `retain` leaves of a
queue, for the peels of `InboundQueue` and `DaemonSession`. `MCInboundQueue` puts `InboundQueue` and
`Heartbeat`, the two readers of the inbound frames, into one run. `MCSession`
does the same with `TurnStream`, `TurnText` and `CardStream`, and
`MCDaemonSession` with `DaemonSession` and an instance of `TurnRunner`, the two
ways of an application to run turns. Modules put together like this share no state, so
each behaviour follows one of them while the others rest: all interleavings of independent
steps would add states and no question.

## Runs

A run that expects a violation checks one statement of the repository's
documentation that the code does not keep; its counterexample is the finding.

| Run | Expect | Properties | What it shows |
|---|---|---|---|
| `turn_gate` | pass | `TypeOK`, `ReservationHasOwner`, `SingleFlightUntilCancel`, `OverlapBoundedByCancels`, `DaemonBeforeFlag`, `StopsOnlyItself` | Three turns of one session through both entry points, one of them abandoned, and one cancel that may be dropped: who holds the key, how many turns overlap, and whom the daemon cancels stop. |
| `turn_overlap` | violation | `SingleFlight` | A cancel frees the key before the cancelled turn has stopped, so the next turn of the session overlaps it. |
| `inbound_queue` | pass | `MCTypeOK`, `DropsAreReported`, `AnswerGoesToOne`, `NoFalseAlarm`, `SilenceIsNoticed`, `NormalGoesFirst`, `LosesOnlyForRoom` | Three frames of any class against caps of zero to two that move, with a request that times out in two steps, drops that call the callback in two, peels, clears, reads, frames pushed back, and setters of the callback and reconnects that race with all of it; and a daemon that hangs and recovers, over two connections with their pingers, as a heartbeat tracker sees it. |
| `inbound_never_drop` | violation | `CriticalNeverDropped` | With only urgent frames pending, an urgent newcomer pushes out the oldest CRITICAL one. |
| `inbound_push_back` | violation | `PushedBackIsNext` | A frame that is pushed back goes behind those that are pending, and the next read returns another one. |
| `pool_slots` | pass | `TypeOK`, `ConnectionsBounded`, `OneConnectionPerSession`, `SlotsAccounted`, `StoreAgrees` | Four calls of acquire, release, reset and stop over two sessions of a pool of two, racing or one at a time for each session, any of which may fail or be dropped: where every slot and every open connection is. |
| `pool_lost_slot` | violation | `FailureReturnsSlot` | An acquire whose bootstrap fails calls release, which finds no entry and returns no slot. |
| `daemon_session` | pass | `TypeOK`, `StreamHearsItsLoop`, `TurnsStayApart`, `OnlyCallsMoveTheLoop`, `IterationsReturn`, `TurnsReturn`, `SentTurnsAreReported` | The two ways to run turns. Three calls that connect, switch, repair or close a session next to two turns on two loops, their iterations, a lost connection or a restarted daemon, and RPCs over the sidecar; or two turns of the runner and a cancel. Turns past their settle-drain return and report, iterations of finished turns return. |
| `transport_races` | pass | `TypeOK`, `NoStrandedWaiter`, `UpMeansAReaderIsLeft`, `NoLostWakeUp` | Two racing calls of connect, reconnect and close with the readers of up to two connections, next to a request or a forwarder. |
| `transport_handshake` | violation | `ConnectOkMeansHandshaken` | A failed handshake leaves the client connected, so the next attempt of connect_with_retries returns Ok without one. |
| `session_frames` | pass | `TypeOK`, `OwnRunningShields`, `LeftoverTerminalsAreHarmless`, `TurnIsNotMissed`, `SessionEndsNoEarlier`, `ShownTypeOK`, `InStepShowsTheText`, `TextIsExact`, `NoBlankReply`, `ReplayHeals`, `OrderKept` | What the frames of a session make of its turns, of the text they show and of its cards, whatever is late, tagged, cumulative or lost. |
| `stream_leftovers` | violation | `LeftoversEndNothing` | A leftover of a turn that was given up arms the next turn and ends it. |

The passing runs take one to four minutes each on two cores. Distinct states:
`transport_races` 2,825,152, `turn_gate` 2,336,287, `inbound_queue` 1,679,664,
`session_frames` 1,069,922, `pool_slots` 714,227, `daemon_session` 345,695.

## Proofs

The theorems hold for every value of the constants that satisfies the
assumptions named in the modules: sets that are finite or do not overlap, bounds
that are numbers, an absent value that is not a handle. TLC evaluates these
assumptions in the runs. Each component has its proofs in a module of its own;
`SequenceLemmas` holds what they share.

| Module | Theorem | States |
|---|---|---|
| `TurnRunnerProofs` | `TypeCorrect` | `Spec => []TypeOK` |
| | `GateCorrect` | `Spec => [](SenderNeedsReservation /\ ReservationHasOwner)` |
| | `SingleFlightHolds` | `Spec => []SingleFlightUntilCancel` |
| | `OverlapIsBounded` | `Spec => []OverlapBoundedByCancels` |
| | `DaemonFirst` | `Spec => []DaemonBeforeFlag` |
| | `OnlyItselfIsStopped` | `Spec => StopsOnlyItself`, an action property |
| `InboundQueueProofs` | `TypeCorrect` | `Spec => []TypeOK` |
| | `QueueLosesOnlyForRoom` | `Spec => LosesOnlyForRoom`, the refinement of `LossyQueue` |
| | `UrgentFramesGoLast` | `Spec => NormalGoesFirst`, an action property |
| | `AnswerHasOnePlace` | `Spec => []AnswerGoesToOne` |
| | `FirstDropIsReported` | `Spec => []DropsAreReported` |
| `HeartbeatProofs` | `QueueIsComposed` | `MCSpec => Spec`: the theorems above hold of the composition |
| | `ComposedTypes` | `MCSpec => []MCTypeOK` |
| | `WellIsNotReportedDead` | `MCSpec => []NoFalseAlarm` |
| | `DeadIsReported` | `MCSpec => []SilenceIsNoticed` |
| `TransportProofs` | `TypeCorrect` | `Spec => []TypeOK` |
| | `WaitersAreServed` | `Spec => []NoStrandedWaiter` |
| | `ReaderAlwaysLeft` | `Spec => []UpMeansAReaderIsLeft` |
| | `WakeUpsArrive` | `Spec => []NoLostWakeUp` |
| `ConnectionPoolProofs` | `TypeCorrect` | `Spec => []TypeOK` |
| | `PoolIsBounded` | `Spec => []ConnectionsBounded` |
| | `SessionHasOneConnection` | `Spec => []OneConnectionPerSession` |
| | `TableAgreesWithStore` | `Spec => []StoreAgrees` |
| | `SlotsAddUp` | `Spec => []SlotsAccounted` |
| `DaemonSessionProofs` | `TypeCorrect` | `Spec => []TypeOK` |
| | `SessionHearsItsLoop` | `Spec => []StreamHearsItsLoop` |
| | `CallsMoveTheLoop` | `Spec => OnlyCallsMoveTheLoop`, an action property |
| | `IterationsReturnTheirTurn` | `Spec => []TurnsStayApart` |
| `FramesProofs` | `TypeCorrect` | `Spec => []TypeOK` |
| | `OwnRunningIsAShield` | `Spec => OwnRunningShields`, an action property |
| | `EndIsNotMissed` | `Spec => []TurnIsNotMissed` |
| | `SessionNotEarlier` | `Spec => []SessionEndsNoEarlier` |
| | `LeftoverTerminalsEndNoTurn` | `Spec => []LeftoverTerminalsAreHarmless`, if running frames are tagged |
| | `ShownTypeCorrect` | `MCSpec => []ShownTypeOK` |
| | `RepliesShowSomething` | `MCSpec => []NoBlankReply` |
| | `TextIsCollected` | `MCSpec => []TextIsExact`, if an idle does not complete a turn |
| | `SubscribersShowTheText` | `MCSpec => []InStepShowsTheText` |
| | `CardsKeepTheirOrder` | `MCSpec => []OrderKept` |
| | `ReplaysHeal` | `MCSpec => []ReplayHeals` |

Few of the properties are inductive. The rest of this section says what has to
be added, which is what the code relies on.

### TurnRunner

`TypeOK` is inductive. `ReservationHasOwner` is inductive together with
`SenderNeedsReservation` (a daemon-cancel sender is registered only under a
reservation), which no run states: every path that leaves a turn behind either
removes the reservation or is a dropped future. `SingleFlightUntilCancel` says
nothing of which of the turns of a key the gate names. It follows from
`UncancelledTurnHoldsKey`, which is inductive over the two: as long as no cancel
took a reservation of the key, a turn in flight is the one named.

`OverlapBoundedByCancels` counts the turns outside the gate and the cancels, and
is inductive with the finiteness of the two sets (`OverlapInv`). What makes it
delicate is a release that frees the key of a later turn, and an execution under
a reservation that replaces the callback of another turn: the turn that does
this leaves, or comes in, itself, so that one turn trades places with one other
(`TurnTradesPlaces`). Only a cancel puts a turn outside and takes none in, and
it counts (`CancelPutsOneOut`).

`DaemonBeforeFlag` is about two steps: when the local callback sets the flag,
the daemon was asked in an earlier step, by a cancel that took two callbacks out
of two maps. `CancelInv` adds what ties them together: a cancel under way holds
a callback of its own key (`CancelHoldsCallback`); a turn's callback is not yet
created, in the gate, or with the one cancel that took it
(`CallbackInOnePlace`); a turn in its loop has its input at the daemon and, if
the gate still names it, a daemon-cancel sender next to it
(`LoopIsCancellable`); and a turn taken in its loop was told before its callback
can run (`ToldBeforeCallback`). `OnlyItselfIsStopped` is proved per step: a
cancel under way has a take on record, so that what is left is a deadline, and
by `SingleFlightUntilCancel` it is the turn's own.

### InboundQueue

`TypeInv` adds to the types that what was dropped since the arming is part of
what arrived (`Counted`). `HookInv` follows a drop from the swap to the call:
the flag is set exactly when something was dropped since it was reset
(`NotifiedAtFirstDrop`), so only the first drop goes on to the callback; one
that is about to call has a drop since the reset as its cause, or it was under
way at the reset and `stale` says so (`FiringHasACause`); and the calls made are
these, less the one under way, unless no callback is there or one is stored and
not yet armed (`CallsAreMade`). `AnswerInv` follows an answer: the daemon gives
it once, and not while the request still waits (`AnsweredOnce`), a request that
was served or whose answer was swallowed has had it (`ServedIsAnswered`), an answer among the events has lost
its waiter (`LateAnswersAreEvents`), and it is there once, read or pending
(`Alone`, `ReadOrPending`).

The refinement maps the queue to the numbers of its frames. `StepAbstract` takes
each action to a step of `LossyQueue` or a stutter; an overflow removes one
position and appends (`IdsRemoveAt`, `IdsAppend`), a peel keeps a set of
positions in their order (`IdsKept`). What is evicted is the worst pending
frame, the lowest position of the worst class (`WorstProperties`), from which
`UrgentFramesGoLast` follows.

### Heartbeat

`NoFalseAlarm` says nothing of the pingers. `BeatInv` does: the connection has a
pinger of its own period (`HasPinger`; old ones are removed only when the
connection is down), and one such pinger keeps a promise (`PingerServes`):
either it is to ping, or a pong is under way, early enough for the last
heartbeat, or for the time since all has been well when there was none since.
Four cases, which turn into each other: an acknowledgement starts with the second
(`healthy` is zero and the whole period left), a ping makes a pong under way of
the first two, a heartbeat, a reset or a new tracker leads back to the first.
`HealthyIsUp` makes a recovery start over.

`SilenceIsNoticed` needs `SilenceCounts`: every answer still under way was asked
for before the silence, and the tracker has heard nothing since they arrived,
unless it is younger. A first attempt at the proof showed that
`SilenceIsNoticed` was false as it had been stated, for thresholds above the
grace period, which no run had: the statement and the run now cover these.

### Transport

The steps are grouped by who takes them (calls, readers, markers, requests,
consumers), and one lemma per group says which `pc`s it moves. `DialInv`: a call
about to publish a connection has it to itself, and without a reader as yet.
With it `UpMeansAReaderIsLeft` is inductive. `WaiterInv` adds to
`NoStrandedWaiter` that the sender in `write_tx` is of a connection whose reader
has still to take it away and then to fail the waiters (`WriterHasReader`): this
is the order that makes the four steps of `mark_disconnected` safe. `WakeInv`
adds to `NoLostWakeUp` who is registered and how often, that a single user has
no rival for the permit (`OneUser`), and that a consumer about to register with
a frame pending finds a permit or will be notified (`RegistersInTime`).

### ConnectionPool

`PoolIsBounded` counts places (`Bounded`: the slots in use and the idle ones are
no more than the pool size). A step moves a connection from one place to
another, and the sum stands only if it was in one place: `PlaceInv` says that
ids in use were handed out (`OnlyHandedOut`), that a connection bears the
session of its entry or call (`BearsItsSession`), that one that is built is not
in the table and nobody else's (`BuiltByOne`), that one taken out of it is taken
by one call (`TakenByOne`), and that a release closes before it refills
(`OneToClose`).

`OneConnectionPerSession` and `StoreAgrees` hold with one call per session at a
time; `SerialInv` follows the call: the table has no entry for the session while
the call builds or closes (`TableIsClear`), and what it publishes is attached to
the loop in the store (`PublishesStored`). A step of the failure kind is the
only one that leaves an open connection behind (`OnlyFailuresLeave`).
`SlotsAccounted` is a sum of cardinalities; the lemma `Trades` says that what a
call holds it trades with the channel or the table, one slot for one.

### DaemonSession

`LoopInv` adds to `StreamHearsItsLoop` what a call has done at each of its
awaits (`CallHasDone`: a loop about to be taken over is streamed, a repair is
about the loop of the session, a call that closes has hung up), that a call and
an iteration overlap only when `mixed` says so, and that the iteration reads the
loop of the session (`IteratesItsLoop`). `OnlyCallsMoveTheLoop` is the last of
these for the frames of the iteration and the drain.

`TurnInv` adds to `TurnsStayApart` how far the turn that is awaited has come,
while `calm`: it waits, is worked on or is finished at one loop and no other
turn is live (`OnlyAwaitedWork`); no frame of it arrives before it is admitted
(`NotYetAdmitted`); a frame that ends it is behind all live ones
(`ClosersAreLast`), so that nothing live is left for the drain or for the next
turn (`TurnIsOver`); and the reader expects it or nothing (`ReadsAwaited`).

### TurnStream

None of the properties says what the two readers remember, so none is
inductive. `ReadersInv` does: from the running frame of a turn on, the boundary
and `DaemonSession` expect this turn and remember its progress
(`BoundaryFollows`, `SessionFollows`: a late running frame cannot rebind them,
because generations only grow, and one of the same generation does not reset
progress), and until a cancellation notice `DaemonSession` expects the same turn
as the boundary and has seen no more progress (`ReadersAgree`). Two lemmas say
what a frame does to a reader that does not end on it (`BoundaryStep`,
`SessionStep`); the step of the invariant is then one case per kind of frame.
For leftovers, `Settled` adds that the boundary is bound to no other turn: a
running frame of a finished turn does not arrive any more. An untagged running
frame would start the boundary without binding it, after which any `stopped`
ends the turn; hence the condition on the daemon.

### TurnText

`MCSpec` is the composition `MCSession`, and `TurnsAreComposed`,
`TextIsComposed` and `CardsAreComposed` say that it does to each of the three
what `TurnStream`, `TurnText` and `CardStream` do. `TextInv` adds to the types and to `NoBlankReply` that an
idle turn has collected nothing (`IdleIsEmpty`). A final reply is what trimming
left of the content or of the text so far: trimming what was trimmed leaves it
(`TrimProperties`), and the minimum of a text so far is never 0, which
`EventClassifier::new` replaces by the default. `TextIsExact` is inductive
with `TextInv`, under the condition `~IdleCompletes`, which is the default and
the value of the run. Without it an idle hands the text so far over as content,
and a text that is not trimmed is appended to itself (below).

`InStepShowsTheText` folds a channel of any length. `FoldLeft` of the community
modules is defined by a recursive function, so a lemma per use unfolds it into
its values (`FoldExists`), and two lists of values that take the same steps are
equal (`SameSteps`). Of these it is enough that a broadcast appends one step at
the end (`ShowAppend`) and a receive takes one from the front (`ShowTail`).
The invariant `InStepInv` adds that the report of a turn is one of those that
reset the client (`OutcomeReports`); the rest is what a delta of `run_turn`
does: it appends what was added to the text, or the text as a whole.

### CardStream

`OrderKept` says nothing of the wire. `OrderInv` does: up to the next begin, the
frames that create a card are in the order of the daemon (`WireSorted`), and
each comes after every card that is shown already (`Follows`); the ids shown or
under way are of cards the daemon has. A replay starts over, and a new card is
the last of all.

`HealInv` is `ReplayHeals` in a form that losses keep. The projection is right
(`Right`: the cards of the daemon, in order, none else, not replaying) after all
that is under way, if nothing was lost since the last replay began. And from
each begin on the wire, any projection becomes right, which is what the replay
promises while a frame before it may still be lost. Since a fold over a wire
and a new frame is a fold over the wire, and then over the frame (`FoldConcat`),
it is enough to look at one frame at a time: `CreateKeepsRight`,
`ChangeKeepsRight`, `AnonymousKeepsRight`, and `ReplayMakesRight` for a whole
replay. The last one counts the cards (`HasFirst`). The snapshot skips ids
without a card; a right projection has none (`RightShows`). An empty id is not
the id of a card, as `apply` returns on it.

### Only model-checked

The liveness properties (`TurnsReturn`, `SentTurnsAreReported`,
`IterationsReturn`): the prover does not reason about `ENABLED`. Every other
property of a passing run is stated by a theorem. The
provers do no induction over data either; where a proof counts along a sequence,
it takes the least number that fails (`LeastNumber`, `Induction`,
`ClimbsToTheTop` of `SequenceLemmas`). The runs in which a property is violated
are TLC's.

## What the code does, and no run shows

Read off the code while modelling it. Some of it differs from a comment in the
repository, without a run of its own:

- The daemon cancel is said to run "on a detached 10s timeout so the caller's
  cancellation cannot block the wire send" (`appkit/query_gate.rs:5-8`, and
  `:75-76`). It is awaited inline (`:92`), and a caller that is dropped there
  drops it. `DropCancel` models what the code does.
- `ensure_connected` is said to bootstrap "if stale"
  (`appkit/daemon_session.rs:188`). Any error of the probe makes it abandon the
  loop (`:201`).
- After `reset_session` "the next `acquire` bootstraps fresh"
  (`appkit/pool.rs:366`), and a log line says that it will create a new loop.
  The store keeps the loop id, and the next `acquire` reattaches to it
  (`:267`, `:290`).
- The pool's `TurnBoundary` "applies DaemonSession end rules"
  (`appkit/turn_boundary.rs:100`, and `:1`). A cancellation notice ends an
  iteration and not a pool turn, and `SessionEndsNoEarlier` says so.
- The stream-degraded callback is said to be "invoked on the first inbound
  overflow drop" (`client.rs:184`). It may be called twice, or after an arming
  without a drop, if a drop was between its swap and its call as the flag was
  reset; `DropsAreReported` names this case.
- `receive_messages` is said to keep RPC responses "on the internal mux"
  (`client.rs:593-595`). An answer that comes after its timeout is forwarded.

The rest is about things of which no comment or test was found to speak:

- A `cancel` whose future is dropped during the daemon's ten seconds leaves a
  turn that runs without reservation and without callback
  (`appkit/query_gate.rs:92`). A cancel between reservation and send does not
  keep the input from going out (`appkit/turn_runner.rs:323`), and a cancel of a
  key whose sender is not yet registered does not tell the daemon.
- A turn may be cancelled by name through a deadline after its key was freed
  (`appkit/turn_runner.rs:352`); after a cancel this may be the next turn.
- An answer between the timeout of its request and the removal of its waiter
  goes to nobody (`client.rs:459-469`); one that comes later goes to the event
  readers.
- A drop between the two steps of `set_stream_degraded_callback` does not reach
  the new callback when the flag is still set (`client.rs:186-191`): the drops
  that count are those after the reset.
- A late reply, report of a failure or error of a finished turn ends the next
  one (`appkit/turn_runner.rs:448-493`).
- Two `acquire`s of one session overwrite each other's entry
  (`appkit/pool.rs:326`); a `stop` next to an `acquire` may leave the connection
  it publishes afterwards.
- `mark_disconnected` wakes those who are registered (`client.rs:1326`): a
  consumer between its look at the queue and its registration sleeps on a dead
  connection. `wait_disconnected` has the same gap, and `reconnect` clears the
  cause it waits for.
- A forwarder survives a reconnect and may take the `connection_ack` of the
  handshake (`client.rs:601`). A reader that ends late marks a newer connection
  down (`client.rs:311`). A quick reconnect leaves two pingers, and the tracker
  keeps the last heartbeat of the old connection (`client.rs:330`).
- `subscribe` leaves its waiter in the table when the send fails
  (`client.rs:510`).
- An iteration that overlaps a switch reads on with the loop it began with
  (`appkit/daemon_session.rs:348`); a status of that loop then moves the session
  back (`:453`), and the statuses of the new loop are skipped.
- A call that fails between its dial and its subscription leaves a live
  connection that hears nothing, and `ensure_connected` takes it as it is
  (`appkit/daemon_session.rs:190`).
- An iteration without `max_wait` whose connection is lost before the turn has
  started reads on for ever (`appkit/daemon_session.rs:382`), and so does one
  whose turn ended without a chunk, unless it was cancelled.
- `drain_after_idle` adds every event of its time to the result, of the next
  turn too if that has been sent already (`appkit/daemon_session.rs:613`).
- An RPC that dials between the two steps of `close` leaves the sidecar open
  (`appkit/daemon_session.rs:213`).
- Of a text frame with several lines, `decode_message` keeps the first
  (`protocol.rs:311`).
- The peel at the start of `iter_turn_chunks` may take the terminal of its own
  turn when the turn is that fast (`appkit/daemon_session.rs:353`); an idle
  still ends it.
- An increment that begins with all the text so far is taken for the text so
  far (`appkit/turn_runner.rs:470`): of a first token that is repeated, only the
  second is kept. A tool message between two texts so far breaks the prefix, and
  the next text is appended whole.
- With `treat_status_idle_as_complete` and without a gate, an idle makes the
  text so far a content, which is appended once more if it was not trimmed.

## Not modelled

`wait_disconnected` and the readiness string of the client; the statistics and
`detach` of `DaemonSession`; phase and loop id of the last heartbeat; messages
and reset counts of the store; multiplexing of `delivery_ack` over several
loops; `classify_turn` with a gate, which TurnRunner does not use. The command
clients and `send_methods.rs` are one request each over a connection, whose life
is in `InboundQueue` and `Transport`. The codec, the request builders,
attachments, hints, logging and configuration are data transformations without
state. Several keys in the pool and several sessions in the broadcaster are
separate entries of a map.

## Plan

Written in this order, the most important behaviour first:

1. `QueryGate`, `TurnRunner` (done): single flight, cancel, deadlines. Runs
   `turn_gate`, `turn_overlap`, and `daemon_session` for liveness; proofs in
   `TurnRunnerProofs`.
2. `InboundQueue`, `ConnectionPool`, `Transport` (done): queue, slots and
   connection under races.
3. `TurnBoundary`, `TurnStream`, `Classifier`, `TurnText`, `CardStream` (done):
   what the frames of a session mean. Runs `session_frames`,
   `stream_leftovers`; proofs in `FramesProofs`.
4. `DaemonSession`, `Heartbeat` (done): the session on its loop, and the verdict
   on the daemon. `LossyQueue` (done) as the abstract queue that `InboundQueue`
   implements.
5. Next, the wake-up lost between a consumer's look at a dead connection and its
   registration, as a liveness question of `Transport` with fairness.
6. Theorems (done): every safety invariant and action property that a passing
   run checks, and the refinement of `LossyQueue`.
7. Next theorems: an abstract gate, of which `TurnRunner` with its callbacks and
   deadlines is an implementation, and an abstract projection for `CardStream`,
   with the proofs that they are implemented.
