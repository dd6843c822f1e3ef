# aioacaia in TLA+

A TLA+ model of [aioacaia](../src/README.md), the asyncio library that connects
to Acaia coffee scales over Bluetooth LE, with TLC runs on small instances and
TLAPS proofs. Paths such as `scale.py:268` are under `src/src/aioacaia/`,
`tests/...` under `src/tests/`.

Contents: [the system](#the-system), [the plan](#the-plan),
[the modules](#the-modules), [the runs](#the-runs),
[fairness](#fairness), [disagreements](#where-the-code-and-its-documentation-disagree),
[the proofs](#the-proofs), [what is left out](#what-is-only-model-checked-and-what-is-not-modelled).

## The system

One object, `AcaiaScale` in `scale.py`, holds all the state that changes. It is
used from one asyncio event loop, by any number of application coroutines, and
runs two background tasks of its own. Nothing is persisted. Coroutines switch
only where an `await` suspends, so the hard part is what may happen at each of
those places: another call, a task, a cancellation, or the callback with which
bleak reports a lost link.

| Component | State | Operations | Correct when |
|---|---|---|---|
| Connection management (`scale.py` 187-205, 250-259, 283-375, 426-438) | `connected`, `_client`, `last_disconnect_time`, `address_or_ble_device` | `connect`, `disconnect`, `_disconnect_client`, `device_disconnected_handler`, the rollback in `connect` | a link that is up is that of `_client`, and none is given up without its `disconnect()` having been called; `disconnect()` returns and leaves nothing running; a lost link is noticed, if the tasks were set up; a reconnect waits for the cooldown |
| Command queue, lock and worker (226-281, 384-404) | `_queue` with its count of unfinished tasks, `_add_to_queue_lock`, `process_queue_task` | `_enqueue_command`, `_drain_queue`, `process_queue`, `_write_msg`, cancellation | every command is acknowledged once; the lock is never leaked; nothing is written before the handshake or by a task of a closed connection |
| Heartbeat (406-424) | `heartbeat_task` | `send_heartbeats`, cancellation | its batch of commands stays together; it ends with the connection |
| Timer (440-448, 455-493, 573-580, 607-680) | `timer_running`, `_timer_start`, `_timer_stop`, `_button_pressed`, `_last_timer_command` | `start_stop_timer`, `reset_timer`, button, weight, timer and settings messages, the disconnected handler | old reports do not undo a command; the local timer follows the scale's; both agree in the end on whether it runs; it is never negative |
| Device state (562-570) | `_device_state` | settings message | it is the last settings the scale sent |
| Frame reassembly (502-557) | `_last_short_msg` | `_extract_messages`, `_skip_to_next_frame` | whatever the split of the bytes over notifications, the good frames come out, once and in order |
| Decoding (`parser.py`) | none | `decode`, `_walk_records`, message parsers | a whole frame is decoded to what the scale put in it; a damaged one never is; a cut record chain does not shift fields |
| Weight history (163-185, 585-605) | `_weight`, `weight_history` | `_update_weight`, `flow_rate` | rising weights of the last five seconds only, of two connections only where `connect()` began before the callback of the first; the flow is one that the data has |
| Encoding (`encoder.py`) | none | `encode` | the decoder's checksum accepts it |
| Data types (`messages.py`) | none | none | what `decode` returns is of these types |
| Discovery (`discovery.py`), constants and exceptions (`const.py`, `exceptions.py`), scripts (`run.py`, `test.py`) | none | I/O or none | - |

How they interact:

- A command (`tare`, `start_stop_timer`, `reset_timer`) connects on demand, takes
  the lock and puts into the queue; `auth` and `send_weight_notification_request`
  put without connecting. `put` suspends on a full queue with the lock held.
- The heartbeat puts one command, or three for a new-style scale, under the same lock.
- The worker takes a command, awaits the BLE write, acknowledges and sleeps 0.1 s. A
  failed write makes it take the connection down: it cancels the heartbeat, drains the
  queue and closes the client.
- `disconnect()` cancels both tasks, drains, awaits them, drains again, joins the
  queue and closes the client.
- bleak calls `device_disconnected_handler` when a link is gone, at any later turn of
  the loop, also while a call of this library awaits something. The handler does not
  look at which client it is called for.
- `connect()` sets `_client` before its handshake and `connected` after it. No lock keeps
  two `connect()` calls apart.
- Notifications reach `on_bluetooth_data_received`, which runs without an await and
  writes the timer that the commands write too; a command changes the local timer
  after its put, so before the scale has seen it.

What is hard is listed in `PROJECT.json` under `hazards`, each at its line with the
properties that cover it.

## The plan

In order of importance. Done:

1. `ScaleConnection`: connection, queue, lock, both tasks, callback. Runs for one
   caller, for liveness, for two callers, and two disagreements.
2. `ScaleConnectionProofs`: types, queue accounting and lock discipline for every
   number of callers, clients and slots.
3. `ScaleTimer`: the two timers, commands and reports crossing each other.
4. `CommandChannel`: the abstract specification of queue, lock and worker, which
   `ScaleConnection` implements, by a refinement mapping: model-checked with one and two
   callers, and proved for every number of them in `ScaleConnectionRefinement`.
5. `Encoder`, `Parser`, `FrameStream`: from bytes in notifications to messages and state.
6. `WeightHistory`: the readings behind the flow rate and the fit.
7. `WeightHistoryProofs`: all its invariants, the fit among them.
8. In `ScaleConnectionRefinement` as well: the heartbeat's batch is never interleaved, beyond what the channel says.
9. `ScaleTimerProofs`: the types of the timer, and stale reports for every delay within the settle time.
10. `ScaleConnectionSessions`: the invariants that need the application's or the scale's discipline
    (`LinksAccountedFor`, `QuietWhenDisconnected`, `HandshakeFirst`, `RollbackClosesOwnClient`, `DisconnectIsClean`), each from
    as little of that discipline as it needs.
11. In `ScaleTimerProofs` as well: the local timer comes to agree with the scale's and trails it, for every delay within the settle time.
12. `FrameStreamProofs`: what is kept between notifications is one fragment, frames are extracted whole and in order, and
    the latest values are kept, for every set of frames.
13. `FrameStreamDisturbed`: the same on a link that damages frames and is lost, and with a callback that raises, as long as
    nothing but the frames sent decodes.
14. `ParserProofs`: the decoder undoes `Encode`, what its two sums cannot miss, for frames of every length, and what types its
    messages have, from whatever bytes. With those, in `FrameStreamProofs`, the types of `FrameStream`.

Left:

- The queue as the delay of `ScaleTimer` instead of `CommandDelay`: a module that composes
  `ScaleConnection` and the timer, for a backlog longer than the settle time.

## The modules

### ScaleConnection

An action is the code between two suspending awaits of one coroutine. `pc[p]` names the
await at which process `p` (a caller, `"heartbeat"` or `"worker"`) is suspended:

| `pc` | await |
|---|---|
| `idle` | the caller is in no call |
| `cooldown`, `scan`, `establish` | `connect()` at 307, 312, 322 |
| `notify`, `auth`, `subscribe` | `start_notify` with the sleep that follows, the auth write with its sleep, the last write (349-358) |
| `rollback` | `client.disconnect()` in the except clause (368) |
| `lock`, `put` | the queue lock, a full queue (390, 391 and 412-419) |
| `gather`, `join`, `closing` | `disconnect()` at 433, 436, 437; `closing` also the worker's at 278. `joined`: the join has been woken and has not run |
| `get`, `write`, `sleep` | the worker at 264, 266, 269; `sleep` also the heartbeat at 422 |
| `new`, `done`, `none` | a task created and not started, ended, never created |

A queue with room, a free lock and an empty gather do not suspend, so `Enqueue` has the
put in the same step as the call. A call that fails raises and ends: `idle`.
`cancelled` has the tasks whose `cancel()` was called and which have not seen it; they see it in
`HeartbeatCancelled` or `WorkerCancelled`, whose disjuncts are the `try` blocks that do or do not surround the await.

`connected`, `client`, `queue`, `lock` are the fields of that name. `unfinished` is the
queue's own count. `left` has the commands still to be put by the process that holds or awaits the lock.
`lastDisconnect` counts the disconnects the handler recorded and `cooled` those that are 15 s old, so that
`cooled < lastDisconnect` is `reconnect_delay > 0`. `own` is the local variable `client` of `connect()`, `aim` the
client an awaited BLE call belongs to. `heard` is history: the handshake writes each client's scale received.

The environment, modelled from its use:

- A client's link is `none`, `up`, `closing` (a process waits in its `disconnect()`), `unclosed` (that call
  raised a `BleakError`, which is only logged, or its process was cancelled in it: the link may still be up, and nothing in the
  code refers to its client any more) or `down`. It may drop at any moment. When it is down its disconnected callback is due (`due`)
  and runs at some later turn.
- Every BLE call returns or raises, whatever the state of the link, except that a call on a link that is known to be
  down fails.
- `ExclusiveLink`: the scale takes one central at a time, so a new link is not established while one is up, closing or unclosed, and the
  backend runs the callback of a link before it hands out the next client. The code checks neither; this is an assumption about scale
  and backend, and the runs that do not need it drop it.
- `StartsInTurn`: asyncio runs what is ready in order, so a task created after a
  cancellation was requested starts after it was seen. `LoopHasTurned`: a timer of 0.1 s or
  more ends later than the turn of the loop in progress, in which also the BLE calls return whose link has been reported
  lost. A `connect()` that sleeps behind `start_notify` or its auth write is in no such call: it sleeps on and makes its
  next write, to whatever `self._client` is by then.

`Calls` selects the calls the application makes: `connect`, `connect_no_tasks`
(`setup_tasks=False`), `command`, `auth`, `disconnect`, and `cancel`, the application cancelling its own call
at whatever await it is.

### ScaleTimer

The program's timer (`timer`: running, start, stop, pressed) and the scale's (`scale`: running, time), with
commands and notifications in flight between them. A tick is half a second, so the
settle time of 1.5 s is `SettleTime = 3`. `commands` stands for the queue and its worker: a command runs on the scale within
`CommandDelay` ticks of its put; a notification arrives within `FrameDelay`. `MayStall` lets the put
suspend, as it does when the queue is full: `start_stop_timer` and `reset_timer` have read `timer_running` by
then and act on it after. The handler of a message is one step: `Applied` is `_apply_message`, with
`StartTimer`, `UpdateTimer`, `SyncTimerRunning` and `HandleButton` the methods of those names. Settings carry
whether the timer runs; weights and timer reports carry its value; a stop button may carry it.
`Disconnect` is a `disconnect()` or a failed write, which clears `connected` before the handler runs, and `DeviceDisconnected` is the handler.

`stale` and `covered` are history: a notification is stale when an earlier command of the
program had not run as it was sent, and `covered` says what reports have told a settled program since the last change on either
side. Settings that still hold cover whether the timer runs, whatever the program believed before (`"running"`); a
report with the time covers that (`"time"`) if the program knows whether the timer runs. That the two agree is then for
`FollowsScale` to say, and lasts as long as nothing changes.

### CommandChannel

What the command path promises, without lock, tasks or clients: `pending`, the commands accepted and
not yet written, and `writing`. A batch (the heartbeat's commands, or one command of a caller) is accepted whole in one
step; the oldest command is written, one at a time, and leaves `pending` as its write begins; the oldest commands may be
discarded together (a drain); the end of the last batch may be withdrawn (a cancelled put).

In `ScaleConnection` a batch that does not fit enters the queue piece by piece, with drains, writes and
cancellations in between. The mapping makes this invisible: `accepted` is the queue and behind it what the
holder of the lock has still to put (`held`), so that a batch is accepted when its process gets the lock, and each later put is a
stutter. `writing` is `pc["worker"] = "write"`. `ImplementsChannel` is the channel's specification
under this mapping.

### Encoder, Parser and FrameStream

`Encoder` and `Parser` are functions on sequences of bytes, without state: `Encode` is `encode`, `Decode(bytes, s)` is
`decode` for the header found at `s`, and below it one operator per parser. An `AcaiaMessageError` is
the value `Error`, and its subclasses for frames that are not all there are the predicates `TooShort` and `TooLong`. A field that
a message may lack is a set of at most one value. Weights are in ten-thousandths of a gram and times in tenths of a
second, which makes the divisions by powers of ten exact. What an ack says is left out: nothing reads it. `Message` is
what `decode` may return: the types of `messages.py`, with the ranges that the bytes of a field leave.

`FrameStream` has the bytes on their way (`wire`) and what the handler keeps: `buffer` is `_last_short_msg`, `weight` and `device` are `_weight` and
`_device_state`. `Receive` is `on_bluetooth_data_received` with any number of the next bytes: `ExtractMessages` is the
generator's loop and `Pass` one pass of it, `NextFrames` the search of `_skip_to_next_frame`, `Applied` is `_apply_message` as far as
weight and settings go (the timer's part is in `ScaleTimer`). `CallbackRaises` is the same handler left by an exception of the application's callback: the generator
is dropped with the rest of the notification. The environment sends whole frames, sends a damaged one (cut short, with a
wrong length byte, or with one byte of its header or behind its length changed), and loses the link with what is on its way. Left
out are a changed command byte, which no sum covers, and several bytes changed at once. `coming`, `owed` and `applied` are history: where the undamaged frames on
the wire end, what those carried that have arrived, and what was applied. The frames of the instance are made from records
with `Encode`, and the message each stands for is written down independently of the decoder, after the captures of `tests/`.

### WeightHistory

`UpdateWeight` is `_update_weight`: `Recorded` appends, replaces or ignores a reading, `Recent` drops the old ones from the
front. `HasFlow`, `Covariance` and `Variance` are `flow_rate`, whose quotient is compared without dividing. Several readings may have
the same time. `session` is history: the number of the connection a reading is from.

A link ends with `LinkDrops`, and its callback `DeviceDisconnected` comes at any later moment; `LeavesConnected` is a `disconnect()` or
a failed write, which clears `connected` before either. `BeginConnect` is `connect()` up to its sleep: `Wakes` is the cooldown as the code
computes it, which waits for a disconnect that the callback has recorded and for no other. So a `connect()` that begins before the callback does not
wait, as `ConnEarlyReconnect` shows. `early` and its copy for the connection made, `hasty`, are history and mark that; of such a
connection `FlowWithinSession` says nothing, since its flow may be fitted across the gap, but it does of the ones after. One `connect()`
runs at a time, and the backend reports the end of a link before it hands out the next (`ExclusiveLink`).

### MC modules

`MCScaleConnection`, `MCScaleTimer`, `MCFrameStream` and `MCWeightHistory` name the frames and weights of the instances and the sets of calls, buttons and reports the
configurations choose from. Definitions marked `Mutant:` in the two specifications are plausible
bugs; `PROJECT.json` pairs each property with one that violates it. No specification uses them.

## The runs

| Run | Question | Result |
|---|---|---|
| `ConnOneCaller` | One caller, every call and cancellation, three clients in turn, links and writes failing: `QueueAccounting`, `LockDiscipline`, `BatchContiguous`, `DisconnectIsClean`, `LinksAccountedFor`, `HandshakeFirst`, `QuietWhenDisconnected`; `ImplementsChannel` | hold, 236,000 states |
| `ConnLiveness` | `disconnect()` returns, a command gets in, a live connection serves its queue, a dead one with tasks does not stay connected: `DisconnectCompletes`, `CommandReturns`, `CommandsServed`, `DeadLinkNoticed` | hold, 18,000 states |
| `ConnTwoCallers` | The queue and lock properties and `ImplementsChannel` with two overlapping callers, two `connect()` at once, any number of links | hold, 1.6 million states |
| `ConnConcurrentConnect` | `RollbackClosesOwnClient` | violated |
| `ConnEarlyReconnect` | `NoEarlyReconnect` | violated |
| `TimerSafety` | All buttons, settings and weights with a time, lost links, one caller: `FollowsScale`, `StaleReportsIgnored` | hold, 2.2 million states |
| `TimerLiveness` | Two callers, a queue that may be full, cancelled calls, lost links: `Converges` | holds, 347,000 states |
| `TimerNegative` | `NeverNegative` | violated |
| `TimerPresses` | `PressesTracked` | violated |
| `TimerStaleReport` | `StaleTimersIgnored` | violated |
| `FrameStream` | Frames of nine kinds over a link that cuts, damages (one frame, in the ways above) and loses, and a callback that raises: `EveryFrameOnce`, `OnlySentDecode`, `BufferIsFragment`, `LatestValues` | hold, 222,000 states |
| `WeightHistory` | Every series of readings over three connections, with and without the wait: `HistoryTracksWeight`, `FlowBetweenSlopes`, `FlowWithinSession` | hold, 3.3 million states |

Bounds of the connection runs:

- `MaxClients`: two or three clients are handed out, after which `connect()` only
  fails. A late callback or rollback needs an old and a new client; the third makes a reconnect after that possible.
- `QueueSize = 3` stands for 100: the batch of three fits exactly, so each of its puts
  can be the one that suspends, with commands before it.
- One caller has no races between its own calls, yet still races with both tasks, the callback and its
  cancellations. Two callers add those between calls; the properties of `ConnOneCaller` missing from
  `ConnTwoCallers` (`LinksAccountedFor`, `DisconnectIsClean`, `QuietWhenDisconnected`, `HandshakeFirst`) do not hold for every overlap of
  `connect()` and `disconnect()` calls, which the library does not keep apart (see `ConnConcurrentConnect`). For which
  overlaps they do hold is what the theorems of `ScaleConnectionSessions` say.
- `ConnLiveness` leaves out `auth` and `connect_no_tasks`. `auth` fills the queue of a scale that has no worker, and
  blocks. After `connect(setup_tasks=False)` there is no worker either, and nobody to notice a lost link: where the disconnected callback runs during
  the last write, `connected` is set behind it and stays, with no client, until the application calls `disconnect()` (a hazard listed at
  `scale.py:371`). `DeadLinkNoticed` states this exception.
- `ConnTwoCallers` does not check for deadlock: two overlapping connects can leave a connected scale
  without a worker (a hazard listed at `scale.py:381`), and the model then stops. The other connection runs do.

- `CommandsServed` rests on `ExclusiveLink`: without it a new connection can be made while the worker of
  the old one is still closing its client, `_setup_tasks` then keeps that worker, and the new connection has none.

Bounds of the frame run: three frames are sent, the first of every kind, the second a weight whose bytes contain a header or a key with a chain of records,
the third a bare key; one of the three may be damaged, and one link lost or one exception raised. A frame
interacts with what is left of the one before it and is found by the bytes of the one after it, so three
show what happens before, in and behind a gap. Notifications end anywhere: all cuts of up to 60 bytes into any number of pieces. The wrong
length bytes are 0, shorter than any frame, and 40, longer than a frame and the next together. `Settings`, `Timer` and weights
with a trailing time or a cut one come first only: what follows them does not depend on what they say.

Bounds of the weight run: the deque of 20, the window of 5 s, the cooldown of 15 s and the limit of 20 g/s are scaled
to 4, 2 s, 3 s and 3 g/s, so that in seven seconds the deque overflows, readings expire, a flow is over the limit, the variance is zero, and
a third connection is made: one may come without the wait and the one after it with it, or both with it. The five weights have steps within the
margin, beyond it and below zero. Both of these
runs end at a bound and do not check for deadlock.

Bounds of the timer runs: `MaxEvents = 4` calls, presses and drops; `MaxTime`, the clock stops there, 2.5 or 3 s of which the last
`SettleTime` see no new event (`Early`); `MaxFrames` notifications and `MaxCommands` commands in flight.
`CommandDelay + FrameDelay` is below `SettleTime`, which is what the settle time presumes of the code's queue; the effect of a full queue is in
`TimerLiveness`. The clock's bound ends every behaviour, so these runs do not check for deadlock. The three disagreements
about the timer take one or two events, so four leave room for a second command or press after each.

## Fairness

`FairSpec` of `ScaleConnection` has weak fairness of what the event loop runs when it is ready:
each suspended call, the heartbeat, the worker, the callback of a lost link, and the passing of
the cooldown. It is justified by asyncio (ready callbacks run in order), by bleak (its calls
end or time out, and it reports a lost link) and by time. Nothing forces the application to call anything, nor a link to drop,
nor a BLE call to succeed rather than fail.

`FairSpec` of `ScaleTimer` has weak fairness of the worker, of the arrival of a notification and of suspended calls, and
strong fairness of the clock and of the settings reply: a new-style scale is asked for its settings
each second, and other notifications in flight may now and then leave it no room, but not for ever.
`Converges` is about new-style scales for this reason: an older one never reports whether its timer runs.

## Where the code and its documentation disagree

Each is the counterexample of a run, with its source line and quotations in `PROJECT.json`:

1. `ConnConcurrentConnect`: two commands may each call `connect()`. When the first fails in
   its handshake, its except clause closes `self._client`, which by then is the second's client; its own stays
   connected without a reference.
2. `ConnEarlyReconnect`: the cooldown counts from `last_disconnect_time`, which only bleak's callback
   sets. After a failed write, or a `disconnect()` whose callback is still to come, `connect()` does not wait.
3. `TimerNegative`: `_start_timer` leaves `_timer_stop` set. A start button notification that
   crosses a start command resumes a running timer from the stale stop time, and `timer` is negative.
4. `TimerPresses`: a start and then a stop on the scale count as the two presses of
   `reset_on_power_button`, so the stop clears the time just measured.
5. `TimerStaleReport`: a `TimerMessage` is applied without asking `_scale_timer_state_is_current`, so
   one in flight overwrites what a command has just done.

## The proofs

`ScaleConnectionProofs` proves, for every set of callers, number of clients, queue size and choice of calls
(under the named assumptions of `ScaleConnection`: the callers are not named like the
tasks, `MaxClients` is a natural number, `QueueSize` a positive one):

- `TypeCorrect == Spec => []TypeOK`: among other things, the count of unfinished tasks
  never goes below zero, so `task_done()` never raises;
- `CommandsAcknowledgedOnce == Spec => []QueueAccounting`: `join()` waits for exactly the
  commands in the queue and the one being written;
- `LockKept == Spec => []LockDiscipline`: one holder, only the holder is blocked in a put, and no
  cancelled process keeps a place.

None is inductive alone. `TypeOK` needs the accounting (an acknowledgement subtracts one) and the lock
discipline (`Tail(lock)` is a sequence only if the lock is not empty). The accounting needs `QueueBound`, that the
queue is within its size, for otherwise `Puts` would count a put it does not make. The type of `links`
needs `AimOK`, that a process awaiting a BLE call aims at a real client. So the invariant is

    IInv == StoreType /\ QueueAccounting /\ QueueBound /\ LockDiscipline /\ RestType /\ AimOK

with `TypeOK <=> StoreType /\ RestType`. The argument: `InitIInv`, one lemma per action
(`...IInv`), each of which reduces the step to one of a few shapes proved once (`StoreStep`: nobody enters or leaves the
lock and the queue only shrinks; `PutsStep`: the holder puts; `LeaveStep`: a cancelled process leaves; `EnqueueStep`:
take the lock or join its waiters), then `NextIInv` by cases on `Next`, and the temporal step.

`ScaleConnectionRefinement` proves, from the same assumptions, `ChannelImplemented == Spec => ImplementsChannel`. What a step does to the
channel depends only on its way with queue and lock, so `Way` names the six there are: the queue is left
alone (`Quiet`), emptied (`Empties`) or loses its first command to the worker (`Takes`), and a process comes for the lock
(`Comes`), goes on (`GoesOn`) or gives it up (`GivesUp`). One lemma per action says which way it goes (`NextWay`); one per way that the
channel takes the matching step (`WayRefines`): nothing, `Discard`, `Begin`, `Accept`, nothing or `Accept`, and `Withdraw`. Beside `IInv` this
needs `LeftIsBatch`: whoever waits for the lock has a whole batch, whoever waits in a put has the end of one.

It also proves `BatchesContiguous == Spec => []BatchContiguous` along the same ways. The channel alone does not imply it, as a
batch's end may be withdrawn. The invariant `Batched` adds what prevents that from leaving a lone heartbeat in the
queue: a cancelled heartbeat task has none there (`CancelledLeftNone`), because `disconnect()`, the disconnected callback and the failed
write each drain the queue in the step in which they cancel the task, and a cancelled task puts nothing. `LeftOK`
says what each process has left, the task an end of its batch and a caller one command that is no heartbeat.

`ScaleConnectionSessions` proves the invariants that the library does not keep by itself, each from a hypothesis
that says what the application or the scale must do. The hypotheses are weaker than one caller: other calls may overlap.

| Theorem | Hypothesis | Why it is needed |
|---|---|---|
| `EveryLinkAccountedFor`: `LinksAccountedFor` | `ExclusiveLink`: one central at a time, and the callback of a link before the next client | two `connect()` calls overwrite each other's `_client`, and a callback clears it whosever it is |
| `QuietOnceDisconnected`: `QuietWhenDisconnected` | `[]OneConnect`: no two callers in `connect()` | the second `connect()` finds tasks running that the first one's failure does not end |
| `HandshakeBeforeCommands`: `HandshakeFirst` | `[]OneConnect` | the first `connect()` sets `connected` for a client the second has replaced |
| `RollbackClosesOwn`: `RollbackClosesOwnClient` | `[]OneConnect` | without it, the run `ConnConcurrentConnect` is the counterexample |
| `DisconnectsCleanly`: `DisconnectIsClean` | `[]DisconnectAlone`: during a `disconnect()` the other callers await nothing but a `disconnect()` or a rollback; `NoAuthBetween`: `auth()` is not called next to other callers | a `connect()` or a put in between starts tasks or leaves a command |
| `OneCallerAtATime`: the last four | one caller | then the hypotheses hold in every state |

A hypothesis `[]H` is about the behaviour, so these are theorems of `Spec /\ []H`; `OneCallerAtATime` is one of `Spec` alone, with exactly the
setting of `ConnOneCaller`. The argument is the same each time: the step lemma of an action says which of a few *ways*
the step goes (`LinkWay`: client and links; `CloserWay`: the processes in `client.disconnect()`; `SessionWay`: `connected`, tasks and cancellations; `HandshakeWay`: clients, what
they heard and what the worker aims at), and one lemma per way preserves the invariant. The invariants are

- `Settled` and `Closers`, for `LinksAccountedFor`: a link that is up, closing or unclosed, or a callback to come, belongs to the client
  established last; and each link that is being closed has a process waiting in `client.disconnect()`, for which no hypothesis is needed. What
  remains are the links left `unclosed` where that call raises or is cancelled, which the theorem says are the only ones;
- `Turnover`, for `QuietWhenDisconnected`: only running tasks are cancelled, `connect()` is at an await only while disconnected,
  and a task left behind in a disconnected scale is cancelled or in its last await (`closing`);
- `Shaken`, for the next two: a caller in its handshake has `self._client` for its own client and what the scale heard is what
  its await says; a connected scale, not yet left, heard both writes;
- `Leaves`, for `DisconnectIsClean`: a `disconnect()` at its `gather` waits for every task still running, each of them
  cancelled; behind it, nothing is running, queued or unacknowledged. So the `join()` behind the gather never waits. The steps of others are
  `Unseen`: they start no task, put nothing and set no client.

`ScaleTimerProofs` proves, under the assumptions named in `ScaleTimer` (delays and bounds are natural numbers):

- `TimerTypeCorrect == Spec => []TypeOK`. It needs `TimedOK`, that a timer report carries a time.
- `StaleReportsHarmless`: if calls are never suspended (`~MayStall`) and `CommandDelay + FrameDelay < SettleTime`, then
  `Spec => StaleReportsIgnored`. The invariant is `Timely`: commands and notifications are in the order of their
  times; the oldest has waited no longer than its delay allows; every command on its way was given by `lastCommand`, and a stale notification was sent within
  `CommandDelay` of it. So one that arrives does so within `CommandDelay + FrameDelay` of the last command, when
  `_scale_timer_state_is_current` is false. `~MayStall` is needed: the code sets `_last_timer_command` only behind the put, so between the
  two puts of `reset_timer` a report may undo the first (in the list of hazards).

It also proves `TimerFollowsScale == Spec => []FollowsScale` from the same two hypotheses, for every number of
callers, every delay and bound, and every choice of buttons and reports. `FollowsScale` is about the timer as it is, while
each notification in flight may set it again. The invariant `Following` is `Flight /\ Trails` with the types and `Timely`:

- `Flight`: stale notifications are ahead of fresh ones (`StaleFirst`); behind a fresh one no command is on
  its way (`FreshAlone`); the last fresh one still holds for the scale (`LastHolds`); those with no button between them agree with each other,
  each advanced by the time between them (`Agreeing`);
- `Trails`: if anything is covered, program and scale agree on whether the timer runs, no command and no stale notification is on its way, and every
  notification before the next button says the same (`Agrees`); if the time is, the timer is behind by no more than
  `FrameDelay`, and those notifications still hold for the scale (`Anchor`).

That they agree is a conclusion: the settings that are the first to cover anything find a program that may believe the opposite, and
`_sync_timer_running` is what brings the two together. Of a time reported while they disagree, before any settings, nothing is claimed: `_update_timer`
then takes a value that does not stay right. The settle time enters where a stale report would otherwise undo the agreement.

`WeightHistoryProofs` proves `HistoryBounded == Spec => []TypeOK`, `HistoryKept == Spec => []HistoryTracksWeight`,
`CooldownOutlastsHistory == Spec => []FlowWithinSession` and `FlowIsBetweenSlopes == Spec => []FlowBetweenSlopes`, for every limit, margin, set of weights, and window shorter than `ReconnectDelay`
(`DelayAssumption`). `HistoryKept` needs that times do not decrease along the history: only then does removing from the front
remove all that is old. `CooldownOutlastsHistory` needs `Ages`: once the callback has run, no reading is later than
`lastDisconnect`, so for a `connect()` that begins then every reading is `ReconnectDelay` old when it wakes; on the link that call makes, what is
of an earlier connection stays that old, and the first reading of the new one removes it. Nothing is assumed of the connections before: the
history may hold readings of several.

`FlowIsBetweenSlopes` needs no invariant but the types: it holds of every history, of any length. Suppose every slope between two readings
is greater than the fitted one. Then what is left of the weights after the fitted line is taken away (times the variance, so that all are
integers) rises strictly with the time. Two series that rise together have a positive covariance (`RiseTogether`, `InnerSpread`, `Spread`), but that of
the rest with the time is zero, which is what the fit is. The other bound is the same with the signs changed; `NoSteeperFit` has both. The
sums are folds: `SumsExist` and `FitSums` unfold them into prefix sums, and `UpTo` is the induction along
those, by the smallest counterexample, which `WFMin` of the library gives without an operator as a parameter.

`FrameStreamProofs` takes the frames the scale may send, how many they are, and the bounds as they come (`FramesAssumption`: frames are
sequences of at least four bytes). It proves

- `KeepsFragment == Spec => []BufferIsFragment`, with no further hypothesis: whatever is damaged, lost or left by an exception;
- `FramesOnce`: if every frame is whole (`WholeFrames`), then `Spec => [](Undisturbed => EveryFrameOnce)`, where `Undisturbed` says that so far
  nothing was damaged, no link was lost and no callback raised. A notification may still end at any byte;
- `StreamTypeCorrect == Spec => []TypeOK`, with no further hypothesis either: `_weight` is `None` or a weight that two bytes, a
  unit and a sign can express, `_device_state` is `None` or settings with a battery level of seven bits, and what was applied are messages,
  never an error. `DecodeTyped` is the lemma behind it, and the loop keeps its types as it keeps the fragment (`PassResult`);
- `LatestKept == Spec => [](EveryFrameOnce => LatestValues)`, again on every link: whatever was decoded and applied, the weight and
  the settings are the last ones of it. With `FramesOnce`, `LatestUndisturbed` follows.

`WholeFrames` is what makes a frame one: it claims its own length, decodes to its message, and no
beginning of it has another frame in it that decodes. The last is needed since `_skip_to_next_frame` looks for a frame behind the header of
one that is not all there, and would take one out of the middle of it.
`EncodedIsWhole` shows that it is nothing special: it holds of every frame that `Encode` makes, of any length, that decodes and that has no header behind
its own. That rests on `EncodedIsDecoded` of `ParserProofs`: the decoder finds all of such a frame, its sums are right, and what it parses is the payload that
was put in. Of frames with the bytes of a header inside, `FramesOnce` says something if they are whole, and TLC checks `EveryFrameOnce` with
one (`Embedded`) as the first frame or the second.

The loop is a recursive function, of which TLAPS knows nothing: `LoopExists` shows that there is one, since a pass looks only at
the passes behind it (`PassLooksBehind`), by the smallest number of bytes for which there is none. From there, `PassResult` says what a
pass yields if the others do, and `ExtractResult` that the loop keeps a fragment. For `FramesOnce` the invariant is `Line`: the frames that are `coming` lie behind
each other on the wire (`InLine`), their bytes are in the buffer and the wire (`Placed`), and only the first has any in the buffer. `FramesArrive` then says what
the loop makes of the buffer and the next `k` bytes: it finds each frame that ends with them (`OthersAreWhole`) where the one before it
ended, and keeps the first that does not (`LastIsCut`). For `LatestKept` the messages of a notification are folded: `AppliedFolds` and
`CarriedFolds` unfold both folds into their prefixes, along which `LatestStep` is the induction. It needs that
a decoded weight has a value (`DecodeWeighty`).

`FrameStreamDisturbed` proves `SentFramesOnce`: if every frame is sound (`SoundFrames`: it claims its own length and decodes to its message;
that nothing inside it decodes is part of the next hypothesis), then `Spec /\ []OnlySentDecode => [](EveryFrameOnce /\ LatestValues)`. This is the
property on the link as `Damages` has it: frames cut short, with another length, or with one byte of the header or behind the length changed,
links lost with half a frame in `_last_short_msg`, and exceptions in the middle of a notification. `OnlySentDecode` is what the sums are for: where a frame decodes in what is
kept and on its way, it is one of those sent and on their way, or it carries no state and has no byte of those. It is a hypothesis
because two sums of a byte each do not catch everything (of 65,536 damaged frames one may pass; `DamageIsCaught`, below, says what they do catch), and it is about the behaviour as a whole: TLC checks that it holds
in every state of the run `FrameStream`, with each of these damages, and a mutant that compares one sum only violates it.
The theorem says that nothing else matters: given the sums, the loop, the search for the next frame and the buffer lose nothing and
repeat nothing, however the bytes are cut.

The invariant is `Tracked`: the bytes of the frames `coming` are where the history says, with anything between them. `AmongArrived`
turns it into what the loop is given (`Among`): some of the frames are whole in it (`WholeIn`), behind them there are cut ones
(`CutIn`), and what else decodes is apart from them. `ExtractYields` is the induction over the passes, from the last one, for any number of the frames found
(`Between`): a header that is no frame's leads the loop no further than the next frame (`BehindError`, `BehindFrame`), a frame that
claims too much is passed over only for one that decodes (`BehindCut`), and what is kept has the beginning of every cut frame, also
if it is half a header (`UnframedYields`). `CarriedJoin` says that the folds over messages split where an exception cuts them.

`ParserProofs` is about `Encoder` and `Parser` alone, for frames of every length; `FrameStreamProofs` builds on it. Besides
`EncodedIsDecoded`, that the decoder undoes `encode`, it proves what the sums are good for. `DamageIsCaught`: take a frame that `encode` made and bytes that are as
many and claim that length; if of what one of the two sums is about (every second byte of the body, and the sum itself) exactly one
byte differs (`OneDiffers`), they are not decoded, whatever became of the bytes of the other sum, of the command and of the header. So any one
byte behind the length that arrives as any other value is caught (`OneByteIsCaught`), and so are two neighbours in the body. What is not caught is
the command byte, which no sum is about, and two changes of one sum that cancel. `AlternateSum` is a recursive function: `SumExists` shows that
there is one, `SumUnfolds` what it is, and `SumSame` and `SumDiffers` are inductions by steps of two: a sum behind the last difference is
the same, and one at or before the only difference is not, since bytes that differ do so modulo 256.

`DecodeTyped` says what may come out of `decode`, whatever went in: for any bytes, and a header anywhere in them with as many bytes behind it as it
claims, an error or a `Message`. `_walk_records` is recursive too; `WalkExists` and `ChainType` show, by induction from the end of the
payload, that it yields records whose bodies have the width of their tags, so that no field is read past its record.

## What is only model-checked, and what is not modelled

Only checked by TLC: the liveness properties (`Converges` and those of `ConnLiveness`: neither fairness nor ENABLED is within the
prover's reach) and `OnlySentDecode`, which depends on the frames sent: a damaged one may by chance contain a
frame that decodes, which those of the instance do not.

Not modelled:

- The table of commands in `encoder.py` (`Command`): constants.
- A frame whose command byte is damaged: it is not in the checksum, so the decoder cannot tell, and no property is about it.
- A frame of which several bytes are damaged at once: two changes may cancel in a sum. What the sums catch is `DamageIsCaught`.
- `notify_callback` in `ScaleConnection` and `ScaleTimer`, and the `callback` parameter of `connect()`: application code
  that changes no state of this class. An exception it raises in the middle of a notification is in `FrameStream`.
- How long `flow_rate` stays what it was once readings stop: it looks at no clock.
- `notification_handler` of `parser.py`, a sample that only logs.
- Steps of the wall clock, which `last_disconnect_time` is measured with.
- The characteristic and payload of a command, and the heartbeat's period: the heartbeat wakes at any
  time, which includes its period.
- Which exception a call raises, beyond whether it raises and what it leaves behind.
- Discovery and the scripts: I/O, without state of the library.
