--------------------------- MODULE ScaleConnection ---------------------------
(***************************************************************************)
(* The connection and command path of AcaiaScale: connect(), disconnect(), *)
(* the commands, the heartbeat and queue worker tasks, the command queue,  *)
(* the lock in front of it and the backend's disconnected callback.        *)
(*                                                                         *)
(* asyncio runs one coroutine at a time and switches only where an await   *)
(* suspends, so an action is the code between two suspending awaits of one *)
(* coroutine, and pc[p] names the await at which p is suspended.  An await *)
(* that does not suspend (a free lock, a queue with room) ends no action.  *)
(*                                                                         *)
(* External, modelled from how the code uses them: asyncio's Task.cancel,  *)
(* Lock, Queue and gather; bleak's clients, whose calls take time and may  *)
(* fail; the radio link, which may drop at any moment.                     *)
(***************************************************************************)
EXTENDS Naturals, Sequences, FiniteSets, SequencesExt

CONSTANTS Callers,        \* application coroutines that call the public API
          MaxClients,     \* bound: BLE clients establish_connection hands out
          QueueSize,      \* maxsize of the command queue
          NewStyle,       \* _is_new_style_scale
          Calls,          \* the calls the application makes
          ExclusiveLink   \* the scale accepts one central at a time, and the backend
                          \* reports the end of a link before it hands out the next

Tasks == {"heartbeat", "worker"}
ApiCalls == {"connect", "connect_no_tasks", "command", "auth", "disconnect", "cancel"}

ASSUME CallersAssumption == Callers \cap Tasks = {}
ASSUME MaxClientsAssumption == MaxClients \in Nat
ASSUME QueueSizeAssumption == QueueSize \in Nat \ {0}
ASSUME FlagsAssumption == NewStyle \in BOOLEAN /\ ExclusiveLink \in BOOLEAN
ASSUME CallsAssumption == Calls \subseteq ApiCalls

Procs   == Callers \cup Tasks
Clients == 1..MaxClients
NoClient == 0

Commands == {"auth", "heartbeat", "settings", "command"}

\* Where a process is suspended.
CallerAwaits == {"idle", "cooldown", "scan", "establish", "notify", "auth", "subscribe",
                 "rollback", "lock", "put", "gather", "join", "joined", "closing"}
TaskAwaits   == {"none", "new", "lock", "put", "sleep", "get", "write", "closing", "done"}
Awaits       == CallerAwaits \cup TaskAwaits

VARIABLES
    connected,       \* self.connected
    client,          \* self._client
    lastDisconnect,  \* self.last_disconnect_time: which disconnect it records, 0 for None
    cooled,          \* the latest disconnect that is _RECONNECT_DELAY old
    resolved,        \* address_or_ble_device is a BLEDevice
    queue,           \* self._queue
    unfinished,      \* its count of unfinished tasks
    lock,            \* self._add_to_queue_lock: the holder, then the waiters in order
    left,            \* the commands a process has still to put while it has or awaits the lock
    pc,
    cancelled,       \* tasks with a cancellation they have not yet seen
    gather,          \* the tasks disconnect() still waits for
    job,             \* what a caller does once connect() returns
    until,           \* the disconnect whose cooldown a caller sits out
    own,             \* connect()'s local client
    aim,             \* the client of the BLE call a process awaits
    links,           \* the radio link of each client
    established,     \* clients handed out so far
    due,             \* clients whose disconnected callback has still to run
    heard            \* the handshake writes each client's scale received

session == <<connected, client, lastDisconnect, cooled, resolved>>
store   == <<queue, unfinished, lock, left>>
control == <<pc, cancelled, gather>>
locals  == <<job, until, own, aim>>
radio   == <<links, established, due, heard>>
vars    == <<session, store, control, locals, radio>>

TypeOK ==
    /\ connected \in BOOLEAN
    /\ client \in Clients \cup {NoClient}
    /\ lastDisconnect \in Nat
    /\ cooled \in Nat
    /\ resolved \in BOOLEAN
    /\ queue \in Seq(Commands)
    /\ unfinished \in Nat
    /\ lock \in Seq(Procs)
    /\ left \in [Procs -> Seq(Commands)]
    /\ pc \in [Procs -> Awaits]
    /\ cancelled \in SUBSET Tasks
    /\ gather \in [Callers -> SUBSET Tasks]
    /\ job \in [Callers -> ApiCalls \cup {"none"}]
    /\ until \in [Callers -> Nat]
    /\ own \in [Callers -> Clients \cup {NoClient}]
    /\ aim \in [Procs -> Clients \cup {NoClient}]
    /\ links \in [Clients -> {"none", "up", "closing", "unclosed", "down"}]
    /\ established \in 0..MaxClients
    /\ due \in SUBSET Clients
    /\ heard \in [Clients -> SUBSET {"auth", "subscribe"}]

Init ==
    /\ connected = FALSE
    /\ client = NoClient
    /\ lastDisconnect = 0
    /\ cooled = 0
    /\ resolved \in BOOLEAN
    /\ queue = <<>>
    /\ unfinished = 0
    /\ lock = <<>>
    /\ left = [p \in Procs |-> <<>>]
    /\ pc = [p \in Procs |-> IF p \in Tasks THEN "none" ELSE "idle"]
    /\ cancelled = {}
    /\ gather = [p \in Callers |-> {}]
    /\ job = [p \in Callers |-> "none"]
    /\ until = [p \in Callers |-> 0]
    /\ own = [p \in Callers |-> NoClient]
    /\ aim = [p \in Procs |-> NoClient]
    /\ links = [c \in Clients |-> "none"]
    /\ established = 0
    /\ due = {}
    /\ heard = [c \in Clients |-> {}]

-----------------------------------------------------------------------------
(* The command queue.  q.join() wakes when the count of unfinished tasks     *)
(* reaches zero and stays awake if it grows again.                           *)

Full == Len(queue) >= QueueSize

\* The control points f once the count of unfinished tasks is n.
Joined(f, n) == [p \in Procs |-> IF f[p] = "join" /\ n = 0 THEN "joined" ELSE f[p]]

\* p holds the lock and puts the commands cmds until the queue is full; f has
\* the control points of the others, waiters are queued for the lock.
Puts(p, f, cmds, waiters) ==
    LET room == QueueSize - Len(queue)
        n    == IF Len(cmds) <= room THEN Len(cmds) ELSE room
    IN  /\ queue' = queue \o SubSeq(cmds, 1, n)
        /\ unfinished' = unfinished + n
        /\ left' = [left EXCEPT ![p] = SubSeq(cmds, n + 1, Len(cmds))]
        /\ \/ /\ n = Len(cmds)
              /\ lock' = waiters
              /\ pc' = [f EXCEPT ![p] = IF p = "heartbeat" THEN "sleep" ELSE "idle"]
           \/ /\ n < Len(cmds)
              /\ lock' = <<p>> \o waiters
              /\ pc' = [f EXCEPT ![p] = "put"]

\* Mutant: a caller puts without the lock when the queue has room.
EnqueueUnlocked(p, f, cmds) ==
    \/ /\ p \in Callers /\ ~Full
       /\ Puts(p, f, cmds, lock)
    \/ /\ lock = <<>> /\ (p \in Callers => Full)
       /\ Puts(p, f, cmds, <<>>)
    \/ /\ lock # <<>> /\ (p \in Callers => Full)
       /\ lock' = Append(lock, p)
       /\ left' = [left EXCEPT ![p] = cmds]
       /\ pc' = [f EXCEPT ![p] = "lock"]
       /\ UNCHANGED <<queue, unfinished>>

\* async with self._add_to_queue_lock: put each of cmds.
Enqueue(p, f, cmds) ==
    \/ /\ lock = <<>>
       /\ Puts(p, f, cmds, <<>>)
    \/ /\ lock # <<>>
       /\ lock' = Append(lock, p)
       /\ left' = [left EXCEPT ![p] = cmds]
       /\ pc' = [f EXCEPT ![p] = "lock"]
       /\ UNCHANGED <<queue, unfinished>>

\* p, cancelled while it has or awaits the lock, gives it up.
LeaveLock(p) ==
    \E i \in 1..Len(lock) :
        /\ lock[i] = p
        /\ lock' = RemoveAt(lock, i)
        /\ left' = [left EXCEPT ![p] = <<>>]

\* The lock reaches p, the first of its waiters.
LockAcquired(p) ==
    /\ pc[p] = "lock"
    /\ p \notin cancelled
    /\ lock[1] = p
    /\ Puts(p, pc, left[p], Tail(lock))
    /\ UNCHANGED <<session, cancelled, gather, locals, radio>>

\* A blocked put finds room.
PutResumes(p) ==
    /\ pc[p] = "put"
    /\ p \notin cancelled
    /\ ~Full
    /\ Puts(p, pc, left[p], Tail(lock))
    /\ UNCHANGED <<session, cancelled, gather, locals, radio>>

-----------------------------------------------------------------------------
(* Background tasks and the BLE client.                                      *)

\* _cancel_background_tasks: the tasks it cancels.
Pending == {t \in Tasks : pc[t] \notin {"none", "done"}}

\* Task t has ended.
Ended(t) ==
    /\ cancelled' = cancelled \ {t}
    /\ gather' = [p \in Callers |-> gather[p] \ {t}]

\* _disconnect_client on behalf of p: the reference goes before the await.
CloseClient(p, f, closing, finished) ==
    /\ client' = NoClient
    /\ IF client = NoClient
       THEN /\ pc' = [f EXCEPT ![p] = finished]
            /\ UNCHANGED <<aim, links>>
       ELSE /\ pc' = [f EXCEPT ![p] = closing]
            /\ aim' = [aim EXCEPT ![p] = client]
            /\ links' = [links EXCEPT ![client] = IF @ = "up" THEN "closing" ELSE @]

\* client.disconnect() on behalf of p raised, or p was cancelled in it: nothing
\* refers to the client any more, and its link may still be up.
LeaveUnclosed(p) == links' = [links EXCEPT ![aim[p]] = IF @ = "closing" THEN "unclosed" ELSE @]

\* client.disconnect() has closed the link, or it raised a BleakError, which is
\* only logged.
ClientClosed(p) ==
    LET c == aim[p]
    IN  \/ /\ links[c] = "closing"
           /\ links' = [links EXCEPT ![c] = "down"]
           /\ due' = due \cup {c}
        \/ /\ LeaveUnclosed(p)
           /\ UNCHANGED due

\* A task created after the other was cancelled starts after it: the event loop
\* runs what is ready in order.
StartsInTurn(t) == pc[t] = "new" => cancelled = {}

\* The awaits of a BLE call on aim[p], and those of them that no sleep follows.
BleAwaits == {"notify", "auth", "subscribe", "rollback", "closing", "write"}
BleCalls  == BleAwaits \ {"notify", "auth"}

\* A timer of 0.1 s or more ends later than the turn of the event loop in which
\* a new task starts, a cancelled one sees its cancellation, or the calls still
\* pending on a client return because the backend has reported its link lost.
\* A handshake that sleeps behind its call sleeps on.
LoopHasTurned ==
    /\ cancelled = {}
    /\ \A t \in Tasks : pc[t] # "new"
    /\ \A p \in Procs : pc[p] \in BleCalls => links[aim[p]] # "down" \/ aim[p] \in due

-----------------------------------------------------------------------------
(* connect().                                                                *)

AfterCooldown == IF resolved THEN "establish" ELSE "scan"

\* connect() for the sake of j, up to its first await.
BeginConnect(p, j) ==
    /\ ~connected
    /\ job' = [job EXCEPT ![p] = j]
    /\ \/ /\ cooled < lastDisconnect
          /\ pc' = [pc EXCEPT ![p] = "cooldown"]
          /\ until' = [until EXCEPT ![p] = lastDisconnect]
       \/ /\ cooled = lastDisconnect
          /\ pc' = [pc EXCEPT ![p] = AfterCooldown]
          /\ UNCHANGED until
    /\ UNCHANGED <<session, store, cancelled, gather, own, aim, radio>>

\* connect() gives up before it has a client, with an exception.
AbandonConnect(p) ==
    /\ pc' = [pc EXCEPT ![p] = "idle"]
    /\ job' = [job EXCEPT ![p] = "none"]
    /\ until' = [until EXCEPT ![p] = 0]

CooldownSlept(p) ==
    /\ pc[p] = "cooldown"
    /\ until[p] <= cooled
    /\ pc' = [pc EXCEPT ![p] = AfterCooldown]
    /\ until' = [until EXCEPT ![p] = 0]
    /\ UNCHANGED <<session, store, cancelled, gather, job, own, aim, radio>>

ScanFinds(p) ==
    /\ pc[p] = "scan"
    /\ resolved' = TRUE
    /\ pc' = [pc EXCEPT ![p] = "establish"]
    /\ UNCHANGED <<connected, client, lastDisconnect, cooled, store, cancelled, gather,
                   locals, radio>>

ConnectFails(p) ==
    /\ pc[p] \in {"scan", "establish"}
    /\ AbandonConnect(p)
    /\ UNCHANGED <<session, store, cancelled, gather, own, aim, radio>>

\* establish_connection returns client c; connect() stores it and subscribes.
Established(p) ==
    LET c == established + 1
    IN  /\ pc[p] = "establish"
        /\ c <= MaxClients
        /\ ExclusiveLink =>
             due = {} /\ \A d \in Clients : links[d] \in {"none", "down"}
        /\ established' = c
        /\ links' = [links EXCEPT ![c] = "up"]
        /\ client' = c
        /\ own' = [own EXCEPT ![p] = c]
        /\ aim' = [aim EXCEPT ![p] = c]
        /\ pc' = [pc EXCEPT ![p] = "notify"]
        /\ UNCHANGED <<connected, lastDisconnect, cooled, resolved, store, cancelled,
                       gather, job, until, due, heard>>

\* The except clause of connect(): it closes self._client, and raises.
Rollback(p) ==
    /\ CloseClient(p, pc, "rollback", "idle")
    /\ job' = [job EXCEPT ![p] = "none"]

\* _write_msg up to its await: a client that knows its link is down refuses.
HandshakeWrite(p, stage) ==
    \/ /\ client # NoClient
       /\ links[client] # "down"
       /\ pc' = [pc EXCEPT ![p] = stage]
       /\ aim' = [aim EXCEPT ![p] = client]
       /\ UNCHANGED <<connected, client, job, links>>
    \/ /\ client # NoClient
       /\ links[client] = "down"
       /\ connected' = FALSE
       /\ Rollback(p)
    \/ /\ client = NoClient
       /\ Rollback(p)
       /\ UNCHANGED connected

\* Mutant: the auth write is skipped.
NotifyStartedNoAuth(p) ==
    /\ pc[p] = "notify"
    /\ LoopHasTurned
    /\ HandshakeWrite(p, "subscribe")
    /\ UNCHANGED <<lastDisconnect, cooled, resolved, store, cancelled, gather, until, own,
                   established, due, heard>>

\* start_notify returns; 0.1 s later connect() writes the auth command.
NotifyStarted(p) ==
    /\ pc[p] = "notify"
    /\ LoopHasTurned
    /\ HandshakeWrite(p, "auth")
    /\ UNCHANGED <<lastDisconnect, cooled, resolved, store, cancelled, gather, until, own,
                   established, due, heard>>

\* The auth write returns; 0.1 s later connect() writes NOTIFICATION_REQUEST.
AuthWritten(p) ==
    /\ pc[p] = "auth"
    /\ LoopHasTurned
    /\ heard' = [heard EXCEPT ![aim[p]] = @ \cup {"auth"}]
    /\ HandshakeWrite(p, "subscribe")
    /\ UNCHANGED <<lastDisconnect, cooled, resolved, store, cancelled, gather, until, own,
                   established, due>>

\* start_notify or a write fails; only _write_msg clears connected.
HandshakeFails(p) ==
    /\ pc[p] \in {"notify", "auth", "subscribe"}
    /\ connected' = (connected /\ pc[p] = "notify")
    /\ Rollback(p)
    /\ UNCHANGED <<lastDisconnect, cooled, resolved, store, cancelled, gather, until, own,
                   established, due, heard>>

\* Mutant: a task is created unless there has been one.
WithTasksOnce(f) == [p \in Procs |-> IF p \in Tasks /\ f[p] = "none" THEN "new" ELSE f[p]]

\* _setup_tasks: a task is created unless its predecessor is still there.
WithTasks(f) ==
    [p \in Procs |-> IF p \in Tasks /\ f[p] \in {"none", "done"} THEN "new" ELSE f[p]]

\* The last write returns: connected, and the command that asked for it follows.
Subscribed(p) ==
    LET f == IF job[p] = "connect_no_tasks" THEN pc ELSE WithTasks(pc)
    IN  /\ pc[p] = "subscribe"
        /\ heard' = [heard EXCEPT ![aim[p]] = @ \cup {"subscribe"}]
        /\ connected' = TRUE
        /\ job' = [job EXCEPT ![p] = "none"]
        /\ own' = [own EXCEPT ![p] = NoClient]
        /\ \/ /\ job[p] = "command"
              /\ Enqueue(p, f, <<"command">>)
           \/ /\ job[p] # "command"
              /\ pc' = [f EXCEPT ![p] = "idle"]
              /\ UNCHANGED store
        /\ UNCHANGED <<client, lastDisconnect, cooled, resolved, cancelled, gather, until,
                       aim, links, established, due>>

RolledBack(p) ==
    /\ pc[p] = "rollback"
    /\ ClientClosed(p)
    /\ pc' = [pc EXCEPT ![p] = "idle"]
    /\ own' = [own EXCEPT ![p] = NoClient]
    /\ UNCHANGED <<session, store, cancelled, gather, job, until, aim, established, heard>>

-----------------------------------------------------------------------------
(* The public calls.                                                         *)

\* connect(setup_tasks=...); it returns at once when connected.
Connect(p) ==
    /\ pc[p] = "idle"
    /\ \E j \in Calls \cap {"connect", "connect_no_tasks"} : BeginConnect(p, j)

\* tare, start_stop_timer, reset_timer: _ensure_connected, then _enqueue_command.
SendCommand(p) ==
    /\ pc[p] = "idle"
    /\ "command" \in Calls
    /\ \/ BeginConnect(p, "command")
       \/ /\ connected
          /\ Enqueue(p, pc, <<"command">>)
          /\ UNCHANGED <<session, cancelled, gather, locals, radio>>

\* auth, send_weight_notification_request: no _ensure_connected.
Auth(p) ==
    /\ pc[p] = "idle"
    /\ "auth" \in Calls
    /\ Enqueue(p, pc, <<"auth">>)
    /\ UNCHANGED <<session, cancelled, gather, locals, radio>>

\* The second half of disconnect(): drain, join, _disconnect_client.
DrainAndJoin(p) ==
    LET n == unfinished - Len(queue)
    IN  /\ queue' = <<>>
        /\ unfinished' = n
        /\ \/ /\ n = 0
              /\ CloseClient(p, Joined(pc, n), "closing", "idle")
           \/ /\ n > 0
              /\ pc' = [pc EXCEPT ![p] = "join"]
              /\ UNCHANGED <<client, aim, links>>

Disconnect(p) ==
    /\ pc[p] = "idle"
    /\ "disconnect" \in Calls
    /\ connected' = FALSE
    /\ cancelled' = cancelled \cup Pending
    /\ gather' = [gather EXCEPT ![p] = Pending]
    /\ \/ /\ Pending = {}
          /\ DrainAndJoin(p)
       \/ /\ Pending # {}
          /\ queue' = <<>>
          /\ unfinished' = unfinished - Len(queue)
          /\ pc' = [Joined(pc, unfinished - Len(queue)) EXCEPT ![p] = "gather"]
          /\ UNCHANGED <<client, aim, links>>
    /\ UNCHANGED <<lastDisconnect, cooled, resolved, lock, left, job, until, own,
                   established, due, heard>>

\* Mutant: disconnect() does not await the tasks it cancelled.
GatheredEarly(p) ==
    /\ pc[p] = "gather"
    /\ DrainAndJoin(p)
    /\ UNCHANGED <<connected, lastDisconnect, cooled, resolved, lock, left, cancelled,
                   gather, job, until, own, established, due, heard>>

Gathered(p) ==
    /\ pc[p] = "gather"
    /\ gather[p] = {}
    /\ DrainAndJoin(p)
    /\ UNCHANGED <<connected, lastDisconnect, cooled, resolved, lock, left, cancelled,
                   gather, job, until, own, established, due, heard>>

JoinReturns(p) ==
    /\ pc[p] = "joined"
    /\ CloseClient(p, pc, "closing", "idle")
    /\ UNCHANGED <<connected, lastDisconnect, cooled, resolved, store, cancelled, gather,
                   job, until, own, established, due, heard>>

DisconnectReturns(p) ==
    /\ pc[p] = "closing"
    /\ ClientClosed(p)
    /\ pc' = [pc EXCEPT ![p] = "idle"]
    /\ UNCHANGED <<session, store, cancelled, gather, locals, established, heard>>

\* Mutant: connect() rolls back on an Exception, not on a CancelledError.
CancelCallNoRollback(p) ==
    /\ "cancel" \in Calls
    /\ pc[p] \in {"notify", "auth", "subscribe"}
    /\ AbandonConnect(p)
    /\ client' = IF client = own[p] THEN NoClient ELSE client
    /\ own' = [own EXCEPT ![p] = NoClient]
    /\ UNCHANGED <<connected, lastDisconnect, cooled, resolved, store, cancelled, gather,
                   aim, radio>>

\* Mutant: a caller cancelled while it waits for the lock keeps its place.
CancelCallKeepsLock(p) ==
    /\ "cancel" \in Calls
    /\ pc[p] \in {"lock", "put"}
    /\ pc' = [pc EXCEPT ![p] = "idle"]
    /\ UNCHANGED <<session, store, cancelled, gather, locals, radio>>

\* The application cancels its own call, for instance by a timeout around it.
CancelCall(p) ==
    /\ "cancel" \in Calls
    /\ \/ /\ pc[p] \in {"cooldown", "scan", "establish"}
          /\ AbandonConnect(p)
          /\ UNCHANGED <<session, store, cancelled, gather, own, aim, radio>>
       \/ /\ pc[p] \in {"notify", "auth", "subscribe"}
          /\ Rollback(p)
          /\ UNCHANGED <<connected, lastDisconnect, cooled, resolved, store, cancelled,
                         gather, until, own, established, due, heard>>
       \/ /\ pc[p] \in {"lock", "put"}
          /\ LeaveLock(p)
          /\ pc' = [pc EXCEPT ![p] = "idle"]
          /\ UNCHANGED <<session, queue, unfinished, cancelled, gather, locals, radio>>
       \/ /\ pc[p] \in {"gather", "join", "joined"}
          /\ pc' = [pc EXCEPT ![p] = "idle"]
          /\ gather' = [gather EXCEPT ![p] = {}]
          /\ UNCHANGED <<session, store, cancelled, locals, radio>>
       \/ /\ pc[p] \in {"rollback", "closing"}
          /\ pc' = [pc EXCEPT ![p] = "idle"]
          /\ own' = [own EXCEPT ![p] = NoClient]
          /\ LeaveUnclosed(p)
          /\ UNCHANGED <<session, store, cancelled, gather, job, until, aim, established, due,
                         heard>>

-----------------------------------------------------------------------------
(* send_heartbeats.                                                          *)

Batch == IF NewStyle THEN <<"auth", "heartbeat", "settings">> ELSE <<"heartbeat">>

\* Mutant: the heartbeat puts its commands without the lock.
HeartbeatWakesUnlocked ==
    /\ pc["heartbeat"] \in {"new", "sleep"} /\ "heartbeat" \notin cancelled /\ connected
    /\ Puts("heartbeat", pc, Batch, lock)
    /\ UNCHANGED <<session, cancelled, gather, locals, radio>>

HeartbeatWakes ==
    /\ pc["heartbeat"] \in {"new", "sleep"}
    /\ "heartbeat" \notin cancelled
    /\ StartsInTurn("heartbeat")
    /\ \/ /\ connected
          /\ Enqueue("heartbeat", pc, Batch)
          /\ UNCHANGED <<session, cancelled, gather, locals, radio>>
       \/ /\ ~connected
          /\ pc' = [pc EXCEPT !["heartbeat"] = "done"]
          /\ Ended("heartbeat")
          /\ UNCHANGED <<session, store, locals, radio>>

\* Mutant: a cancelled heartbeat does not release the lock.
HeartbeatCancelledKeepsLock ==
    /\ "heartbeat" \in cancelled
    /\ pc' = [pc EXCEPT !["heartbeat"] = "done"]
    /\ Ended("heartbeat")
    /\ connected' = (connected /\ pc["heartbeat"] \notin {"lock", "put"})
    /\ UNCHANGED <<client, lastDisconnect, cooled, resolved, store, locals, radio>>

\* The try block covers the lock and the puts, not the sleep.
HeartbeatCancelled ==
    /\ "heartbeat" \in cancelled
    /\ pc' = [pc EXCEPT !["heartbeat"] = "done"]
    /\ Ended("heartbeat")
    /\ \/ /\ pc["heartbeat"] \in {"lock", "put"}
          /\ connected' = FALSE
          /\ LeaveLock("heartbeat")
       \/ /\ pc["heartbeat"] \in {"new", "sleep"}
          /\ UNCHANGED <<connected, lock, left>>
    /\ UNCHANGED <<client, lastDisconnect, cooled, resolved, queue, unfinished, locals, radio>>

-----------------------------------------------------------------------------
(* process_queue.                                                            *)

\* The worker's except clause, one command taken and others left in the queue:
\* task_done, cancel the heartbeat, drain, disconnect.
WriteError(others) ==
    LET n == unfinished - 1 - Len(others)
    IN  /\ connected' = FALSE
        /\ queue' = <<>>
        /\ unfinished' = n
        /\ CloseClient("worker", Joined(pc, n), "closing", "done")
        /\ IF client = NoClient
           THEN /\ cancelled' = (cancelled \cup Pending) \ {"worker"}
                /\ gather' = [p \in Callers |-> gather[p] \ {"worker"}]
           ELSE /\ cancelled' = cancelled \cup (Pending \ {"worker"})
                /\ UNCHANGED gather

\* Mutant: without a client the command is dropped and the worker carries on.
TakeCommandIgnoringNoClient ==
    /\ queue # <<>>
    /\ client = NoClient
    /\ queue' = Tail(queue)
    /\ unfinished' = unfinished - 1
    /\ pc' = [Joined(pc, unfinished - 1) EXCEPT !["worker"] = "sleep"]
    /\ UNCHANGED <<session, lock, left, cancelled, gather, locals, radio>>

\* self._queue.get() returns, and _write_msg begins or fails at once.
TakeCommand ==
    /\ queue # <<>>
    /\ \/ /\ client # NoClient
          /\ links[client] # "down"
          /\ queue' = Tail(queue)
          /\ pc' = [pc EXCEPT !["worker"] = "write"]
          /\ aim' = [aim EXCEPT !["worker"] = client]
          /\ UNCHANGED <<connected, client, unfinished, cancelled, gather, links>>
       \/ /\ client # NoClient => links[client] = "down"
          /\ WriteError(Tail(queue))
    /\ UNCHANGED <<lastDisconnect, cooled, resolved, lock, left, job, until, own,
                   established, due, heard>>

\* The worker starts, or its sleep of 0.1 s ends: while self.connected.
WorkerLoops ==
    /\ pc["worker"] \in {"new", "sleep"}
    /\ "worker" \notin cancelled
    /\ StartsInTurn("worker")
    /\ \/ /\ connected
          /\ TakeCommand
       \/ /\ connected
          /\ queue = <<>>
          /\ pc' = [pc EXCEPT !["worker"] = "get"]
          /\ UNCHANGED <<session, store, cancelled, gather, locals, radio>>
       \/ /\ ~connected
          /\ pc' = [pc EXCEPT !["worker"] = "done"]
          /\ Ended("worker")
          /\ UNCHANGED <<session, store, locals, radio>>

\* A command arrives at the waiting worker.
WorkerTakes ==
    /\ pc["worker"] = "get"
    /\ "worker" \notin cancelled
    /\ TakeCommand

\* Mutant: the worker acknowledges its command twice.
WorkerWroteAcksTwice ==
    /\ pc["worker"] = "write"
    /\ "worker" \notin cancelled
    /\ unfinished' = unfinished - 2
    /\ pc' = [Joined(pc, unfinished - 2) EXCEPT !["worker"] = "sleep"]
    /\ UNCHANGED <<session, queue, lock, left, cancelled, gather, locals, radio>>

WorkerWrote ==
    /\ pc["worker"] = "write"
    /\ "worker" \notin cancelled
    /\ unfinished' = unfinished - 1
    /\ pc' = [Joined(pc, unfinished - 1) EXCEPT !["worker"] = "sleep"]
    /\ UNCHANGED <<session, queue, lock, left, cancelled, gather, locals, radio>>

WorkerWriteFails ==
    /\ pc["worker"] = "write"
    /\ "worker" \notin cancelled
    /\ WriteError(queue)
    /\ UNCHANGED <<lastDisconnect, cooled, resolved, lock, left, job, until, own,
                   established, due, heard>>

WorkerClosed ==
    /\ pc["worker"] = "closing"
    /\ "worker" \notin cancelled
    /\ ClientClosed("worker")
    /\ pc' = [pc EXCEPT !["worker"] = "done"]
    /\ Ended("worker")
    /\ UNCHANGED <<session, store, locals, established, heard>>

\* What a cancelled worker does to the link it was closing.
WorkerLeavesLink ==
    IF pc["worker"] = "closing" THEN LeaveUnclosed("worker") ELSE UNCHANGED links

\* Mutant: task_done is not in a finally clause.
WorkerCancelledNoAck ==
    /\ "worker" \in cancelled
    /\ Ended("worker")
    /\ connected' = (connected /\ pc["worker"] \in {"new", "closing"})
    /\ pc' = [pc EXCEPT !["worker"] = "done"]
    /\ WorkerLeavesLink
    /\ UNCHANGED <<client, lastDisconnect, cooled, resolved, store, locals, established, due,
                   heard>>

WorkerCancelled ==
    /\ "worker" \in cancelled
    /\ Ended("worker")
    /\ \/ /\ pc["worker"] \in {"new", "closing"}
          /\ pc' = [pc EXCEPT !["worker"] = "done"]
          /\ UNCHANGED <<connected, unfinished>>
       \/ /\ pc["worker"] \in {"get", "sleep"}
          /\ connected' = FALSE
          /\ pc' = [pc EXCEPT !["worker"] = "done"]
          /\ UNCHANGED unfinished
       \/ /\ pc["worker"] = "write"
          /\ connected' = FALSE
          /\ unfinished' = unfinished - 1
          /\ pc' = [Joined(pc, unfinished - 1) EXCEPT !["worker"] = "done"]
    /\ WorkerLeavesLink
    /\ UNCHANGED <<client, lastDisconnect, cooled, resolved, queue, lock, left, locals,
                   established, due, heard>>

-----------------------------------------------------------------------------
(* The radio, the backend and the clock.                                     *)

LinkDrops(c) ==
    /\ links[c] \in {"up", "closing", "unclosed"}
    /\ links' = [links EXCEPT ![c] = "down"]
    /\ due' = due \cup {c}
    /\ UNCHANGED <<session, store, control, locals, established, heard>>

\* Mutant: the handler leaves the background tasks alone.
DeviceDisconnectedKeepsTasks(c) ==
    /\ c \in due
    /\ due' = due \ {c}
    /\ connected' = FALSE
    /\ client' = NoClient
    /\ lastDisconnect' = lastDisconnect + 1
    /\ queue' = <<>>
    /\ unfinished' = unfinished - Len(queue)
    /\ pc' = Joined(pc, unfinished - Len(queue))
    /\ UNCHANGED <<cooled, resolved, lock, left, cancelled, gather, locals, links,
                   established, heard>>

\* Mutant: the handler empties the queue without acknowledging the commands.
DeviceDisconnectedNoAck(c) ==
    /\ c \in due
    /\ due' = due \ {c}
    /\ connected' = FALSE
    /\ client' = NoClient
    /\ lastDisconnect' = lastDisconnect + 1
    /\ cancelled' = cancelled \cup Pending
    /\ queue' = <<>>
    /\ UNCHANGED <<unfinished, pc, cooled, resolved, lock, left, gather, locals, links,
                   established, heard>>

\* device_disconnected_handler, called for client c.  It spares the worker
\* when the backend calls it from within the worker's client.disconnect().
DeviceDisconnected(c) ==
    LET n == unfinished - Len(queue)
    IN  /\ c \in due
        /\ due' = due \ {c}
        /\ connected' = FALSE
        /\ client' = NoClient
        /\ lastDisconnect' = lastDisconnect + 1
        /\ \/ cancelled' = cancelled \cup Pending
           \/ /\ pc["worker"] = "closing" /\ aim["worker"] = c
              /\ cancelled' = cancelled \cup (Pending \ {"worker"})
        /\ queue' = <<>>
        /\ unfinished' = n
        /\ pc' = Joined(pc, n)
        /\ UNCHANGED <<cooled, resolved, lock, left, gather, locals, links, established, heard>>

\* _RECONNECT_DELAY has passed since the next disconnect.
CooldownPasses ==
    /\ cooled < lastDisconnect
    /\ LoopHasTurned
    /\ cooled' = cooled + 1
    /\ UNCHANGED <<connected, client, lastDisconnect, resolved, store, control, locals, radio>>

-----------------------------------------------------------------------------
CallerResumes(p) ==
    \/ CooldownSlept(p) \/ ScanFinds(p) \/ ConnectFails(p) \/ Established(p)
    \/ NotifyStarted(p) \/ AuthWritten(p) \/ Subscribed(p) \/ HandshakeFails(p) \/ RolledBack(p)
    \/ LockAcquired(p) \/ PutResumes(p)
    \/ Gathered(p) \/ JoinReturns(p) \/ DisconnectReturns(p)

CallerCalls(p) == Connect(p) \/ SendCommand(p) \/ Auth(p) \/ Disconnect(p) \/ CancelCall(p)

Heartbeat ==
    \/ HeartbeatWakes \/ LockAcquired("heartbeat") \/ PutResumes("heartbeat")
    \/ HeartbeatCancelled

Worker ==
    \/ WorkerLoops \/ WorkerTakes \/ WorkerWrote \/ WorkerWriteFails \/ WorkerClosed
    \/ WorkerCancelled

Backend == CooldownPasses \/ \E c \in Clients : LinkDrops(c) \/ DeviceDisconnected(c)

Next ==
    \/ \E p \in Callers : CallerResumes(p) \/ CallerCalls(p)
    \/ Heartbeat
    \/ Worker
    \/ Backend

Spec == Init /\ [][Next]_vars

\* The event loop runs whatever is ready, BLE calls end one way or the other,
\* the backend reports a lost link, and time passes.  Nothing makes the
\* application call, or a link drop.
Fairness ==
    /\ \A p \in Callers : WF_vars(CallerResumes(p))
    /\ WF_vars(Heartbeat)
    /\ WF_vars(Worker)
    /\ WF_vars(CooldownPasses)
    /\ \A c \in Clients : WF_vars(DeviceDisconnected(c))

FairSpec == Spec /\ Fairness

-----------------------------------------------------------------------------
(* Safety.                                                                   *)

\* Every command put is acknowledged exactly once, by the worker after its
\* write or by a drain, whatever is cancelled, dropped or drained in between:
\* what q.join() in disconnect() counts on.
QueueAccounting ==
    unfinished = Len(queue) + (IF pc["worker"] = "write" THEN 1 ELSE 0)

\* The queue lock has one holder, only the holder is blocked in a put, and a
\* cancelled process leaves no trace in the lock: a leaked place would block
\* every later command.
LockDiscipline ==
    /\ \A i, j \in 1..Len(lock) : lock[i] = lock[j] => i = j
    /\ \A p \in Procs : pc[p] \in {"lock", "put"} <=> \E i \in 1..Len(lock) : lock[i] = p
    /\ \A p \in Procs : pc[p] = "put" => lock[1] = p

\* A new-style heartbeat is followed by its settings request, in the queue or
\* as the next put of the heartbeat task: no command comes in between.
BatchContiguous ==
    NewStyle =>
      \A i \in 1..Len(queue) : queue[i] = "heartbeat" =>
        IF i < Len(queue) THEN queue[i + 1] = "settings" ELSE left["heartbeat"] = <<"settings">>

\* What is put together under the lock.
Batches == {Batch, <<"auth">>, <<"command">>}

\* What the holder of the lock has still to put, behind what is in the queue.
held     == IF lock # <<>> /\ pc[lock[1]] = "put" THEN left[lock[1]] ELSE <<>>
accepted == queue \o held

Channel == INSTANCE CommandChannel WITH pending <- accepted, writing <- pc["worker"] = "write"

\* Queue, lock and worker implement the channel: batches are not interleaved,
\* also where a put blocks in the middle of one and the queue is drained or its
\* caller cancelled, and commands are written one at a time, in order, once.
ImplementsChannel == Channel!Spec

\* disconnect() has ended the tasks, emptied the queue and let go of the client
\* by the time it waits for the link to close.
DisconnectIsClean ==
    \A p \in Callers : pc[p] = "closing" =>
        /\ Pending = {} /\ queue = <<>> /\ unfinished = 0
        /\ ~connected /\ client = NoClient

\* A link that is up is that of self._client, and one that is being closed has a
\* process that waits in client.disconnect(): no failure, cancellation or callback
\* drops the last reference to a client without having called its disconnect(),
\* and it is not left again but by an exception or a cancellation in that call.
\* (Those leave a link "unclosed" that nothing in the code will close.)
LinksAccountedFor ==
    \A c \in Clients :
        /\ links[c] = "up" => client = c
        /\ links[c] = "closing" => \E p \in Procs : pc[p] \in {"rollback", "closing"} /\ aim[p] = c

\* The worker writes only to a client whose scale had both handshake writes,
\* also when the client was replaced since the command was queued.
HandshakeFirst ==
    pc["worker"] = "write" => heard[aim["worker"]] = {"auth", "subscribe"}

\* Once connected is False nothing writes or waits to write: both tasks have
\* ended, are about to, or are closing the client.
QuietWhenDisconnected ==
    ~connected => \A t \in Pending : t \in cancelled \/ pc[t] \in {"new", "closing"}

\* The except clause of connect() closes the client that connect() made.
RollbackClosesOwnClient ==
    \A p \in Callers : pc[p] = "rollback" => aim[p] = own[p]

\* No attempt to reconnect starts within _RECONNECT_DELAY of the loss of a link,
\* be it one whose disconnected callback the backend has still to call.
NoEarlyReconnect ==
    [][\A p \in Callers :
         pc[p] \in {"idle", "cooldown"} /\ pc'[p] \in {"scan", "establish"} =>
           cooled = lastDisconnect /\ due = {}]_vars

-----------------------------------------------------------------------------
(* Liveness.                                                                 *)

\* disconnect() returns: its gather and its join() end.
DisconnectCompletes ==
    \A p \in Callers : pc[p] \in {"gather", "join", "joined", "closing"} ~> pc[p] = "idle"

\* A command that waits for the lock or for room in the queue gets in.
CommandReturns == \A p \in Callers : pc[p] \in {"lock", "put"} ~> pc[p] = "idle"

\* A connection that has the tasks serves its queue: what is queued while
\* connected is written, drained or lost with the connection, so that no command
\* sits in a queue whose worker is gone.
CommandsServed ==
    (connected /\ queue # <<>>) ~> (pc["worker"] = "write" \/ queue = <<>> \/ ~connected)

\* A connection without a client, or with one whose link is down, does not
\* stay connected, if the application has connect() set up the tasks: it is they
\* who notice.  After connect(setup_tasks=False) nothing does: where the callback
\* runs during its last write, connected is set after and stays.
DeadLinkNoticed ==
    "connect_no_tasks" \notin Calls =>
        ((connected /\ (client = NoClient \/ links[client] = "down")) ~> ~connected)

=============================================================================
