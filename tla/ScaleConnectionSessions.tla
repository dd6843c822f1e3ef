----------------------- MODULE ScaleConnectionSessions -----------------------
(***************************************************************************)
(* From one session of the scale to the next, for every number of callers: *)
(* every link is accounted for, no task or command of an old session       *)
(* reaches into a new one, and disconnect() leaves nothing behind.         *)
(*                                                                         *)
(* Each holds under a discipline, stated as the theorem's hypothesis: the  *)
(* scale accepts one central at a time and the backend reports the end of  *)
(* its link before the next one (ExclusiveLink), the application has one   *)
(* connect() in flight (OneConnect), or nothing beside a disconnect()      *)
(* (DisconnectAlone).  Without OneConnect the code does break *)
(* RollbackClosesOwnClient; a single caller keeps both by itself.          *)
(*                                                                         *)
(* Each proof has the same three parts: the few ways in which any step     *)
(* changes the variables concerned (LinkWay, SessionWay, CloserWay,        *)
(* HandshakeWay, Unseen), the lemma that every action goes one of these ways, and the    *)
(* lemma that the ways keep the invariant.                                 *)
(***************************************************************************)
EXTENDS ScaleConnectionProofs

-----------------------------------------------------------------------------
(* The link that is up is that of self._client.                              *)

\* _disconnect_client takes the client away from self.
ClosesClient ==
    /\ client # NoClient /\ client' = NoClient
    /\ links' = [links EXCEPT ![client] = IF @ = "up" THEN "closing" ELSE @]
    /\ UNCHANGED <<established, due>>

\* The link of client c is lost, or closed by its disconnect().
LosesLink(c) ==
    /\ links[c] \in {"up", "closing", "unclosed"}
    /\ links' = [links EXCEPT ![c] = "down"]
    /\ due' = due \cup {c}
    /\ UNCHANGED <<client, established>>

\* The disconnect() of client c raised, or was cancelled.
LeavesUnclosed(c) ==
    /\ links' = [links EXCEPT ![c] = IF @ = "closing" THEN "unclosed" ELSE @]
    /\ UNCHANGED <<client, established, due>>

\* The backend has called the disconnected callback of client c.
CallsBack(c) ==
    /\ c \in due /\ due' = due \ {c}
    /\ client' = NoClient
    /\ UNCHANGED <<links, established>>

\* establish_connection hands out a client.
HandsOut ==
    LET c == established + 1
    IN  /\ c \in Clients
        /\ ExclusiveLink => due = {} /\ \A d \in Clients : links[d] \in {"none", "down"}
        /\ established' = c /\ client' = c
        /\ links' = [links EXCEPT ![c] = "up"]
        /\ UNCHANGED due

\* What a step does to the clients and their links.
LinkWay ==
    \/ UNCHANGED <<client, links, established, due>>
    \/ ClosesClient
    \/ \E c \in Clients : LosesLink(c) \/ LeavesUnclosed(c) \/ CallsBack(c)
    \/ HandsOut

\* Only the client handed out last has a link or a callback to come.
Settled ==
    \A c \in Clients :
        /\ c \in due => links[c] = "down"
        /\ links[c] \in {"up", "closing", "unclosed"} \/ c \in due => c = established
        /\ links[c] = "up" => client = c

LEMMA CloseWay ==
    ASSUME NEW p, NEW f, NEW closing, NEW finished, CloseClient(p, f, closing, finished),
           UNCHANGED <<established, due>>
    PROVE  LinkWay
  BY DEF CloseClient, LinkWay, ClosesClient

LEMMA ClosedWay ==
    ASSUME IInv, NEW p \in Procs, pc[p] \in BleAwaits, ClientClosed(p),
           UNCHANGED <<client, established>>
    PROVE  LinkWay
<1>1. aim[p] \in Clients
  BY DEF IInv, AimOK
<1> QED BY <1>1 DEF ClientClosed, LeaveUnclosed, LinkWay, LosesLink, LeavesUnclosed

\* A call or task cancelled in client.disconnect().
LEMMA LeaveWay ==
    ASSUME IInv, NEW p \in Procs, pc[p] \in BleAwaits, LeaveUnclosed(p),
           UNCHANGED <<client, established, due>>
    PROVE  LinkWay
<1>1. aim[p] \in Clients
  BY DEF IInv, AimOK
<1> QED BY <1>1 DEF LeaveUnclosed, LinkWay, LeavesUnclosed

LEMMA TakeCommandLinks ==
    ASSUME TakeCommand
    PROVE  LinkWay
<1>1. CASE UNCHANGED <<client, links>>
  BY <1>1 DEF TakeCommand, LinkWay
<1>2. CASE WriteError(Tail(queue))
  BY <1>2, CloseWay DEF WriteError, TakeCommand
<1> QED BY <1>1, <1>2 DEF TakeCommand

LEMMA CallerLinks ==
    ASSUME IInv, NEW p \in Callers, CallerResumes(p) \/ CallerCalls(p)
    PROVE  LinkWay
<1> USE ProcsFacts
<1>1. CASE CooldownSlept(p) \/ ScanFinds(p) \/ ConnectFails(p) \/ LockAcquired(p) \/ PutResumes(p)
           \/ Subscribed(p)
  BY <1>1 DEF CooldownSlept, ScanFinds, ConnectFails, LockAcquired, PutResumes, Subscribed,
     LinkWay, session, radio
<1>2. CASE Established(p)
  BY <1>2 DEF Established, LinkWay, HandsOut, IInv, RestType, Clients
<1>3. CASE NotifyStarted(p) \/ AuthWritten(p) \/ HandshakeFails(p)
  <2>1. UNCHANGED <<established, due>>
    BY <1>3 DEF NotifyStarted, AuthWritten, HandshakeFails
  <2>2. Rollback(p) \/ UNCHANGED <<client, links>>
    BY <1>3 DEF NotifyStarted, AuthWritten, HandshakeFails, HandshakeWrite
  <2>3. CASE Rollback(p)
    BY <2>1, <2>3, CloseWay DEF Rollback
  <2> QED BY <2>1, <2>2, <2>3 DEF LinkWay
<1>4. CASE RolledBack(p) \/ DisconnectReturns(p)
  BY <1>4, ClosedWay DEF RolledBack, DisconnectReturns, BleAwaits, session
<1>5. CASE Gathered(p) \/ JoinReturns(p) \/ Disconnect(p)
  <2>1. UNCHANGED <<established, due>>
    BY <1>5 DEF Gathered, JoinReturns, Disconnect
  <2>2. \/ \E f : CloseClient(p, f, "closing", "idle")
        \/ UNCHANGED <<client, links>>
    BY <1>5 DEF Gathered, JoinReturns, Disconnect, DrainAndJoin
  <2> QED BY <2>1, <2>2, CloseWay DEF LinkWay
<1>6. CASE Connect(p) \/ SendCommand(p) \/ Auth(p)
  BY <1>6 DEF Connect, SendCommand, Auth, BeginConnect, LinkWay, session, radio
<1>7. CASE CancelCall(p)
  <2>1. CASE Rollback(p) /\ UNCHANGED <<established, due>>
    BY <2>1, CloseWay DEF Rollback
  <2>2. CASE UNCHANGED <<client, radio>>
    BY <2>2 DEF LinkWay, radio
  <2>3. CASE pc[p] \in {"rollback", "closing"} /\ LeaveUnclosed(p) /\ UNCHANGED <<session, due, established>>
    BY <2>3, LeaveWay DEF BleAwaits, session
  <2> QED BY <1>7, <2>1, <2>2, <2>3 DEF CancelCall, session
<1> QED BY <1>1, <1>2, <1>3, <1>4, <1>5, <1>6, <1>7 DEF CallerResumes, CallerCalls

LEMMA TaskLinks ==
    ASSUME IInv, Heartbeat \/ Worker
    PROVE  LinkWay
<1> USE ProcsFacts
<1>1. CASE Heartbeat
  BY <1>1 DEF Heartbeat, HeartbeatWakes, LockAcquired, PutResumes, HeartbeatCancelled, LinkWay,
     session, radio
<1>2. CASE WorkerLoops \/ WorkerTakes
  <2>1. CASE TakeCommand
    BY <2>1, TakeCommandLinks
  <2>2. CASE UNCHANGED <<session, radio>>
    BY <2>2 DEF LinkWay, session, radio
  <2> QED BY <1>2, <2>1, <2>2 DEF WorkerLoops, WorkerTakes
<1>3. CASE WorkerWrote
  BY <1>3 DEF WorkerWrote, LinkWay, session, radio
<1>6. CASE WorkerCancelled
  <2>1. UNCHANGED <<client, established, due>> /\ WorkerLeavesLink
    BY <1>6 DEF WorkerCancelled
  <2>2. CASE pc["worker"] = "closing" /\ LeaveUnclosed("worker")
    BY <2>1, <2>2, LeaveWay DEF BleAwaits
  <2>3. CASE UNCHANGED links
    BY <2>1, <2>3 DEF LinkWay
  <2> QED BY <2>1, <2>2, <2>3 DEF WorkerLeavesLink
<1>4. CASE WorkerWriteFails
  BY <1>4, CloseWay DEF WorkerWriteFails, WriteError
<1>5. CASE WorkerClosed
  BY <1>5, ClosedWay DEF WorkerClosed, BleAwaits, session
<1> QED BY <1>1, <1>2, <1>3, <1>4, <1>5, <1>6 DEF Worker

\* Every step does one of these to the clients.
LEMMA NextLinks == IInv /\ [Next]_vars => LinkWay
<1> SUFFICES ASSUME IInv, [Next]_vars PROVE LinkWay
  OBVIOUS
<1>1. CASE \E p \in Callers : CallerResumes(p) \/ CallerCalls(p)
  BY <1>1, CallerLinks
<1>2. CASE Heartbeat \/ Worker
  BY <1>2, TaskLinks
<1>3. CASE Backend
  BY <1>3 DEF Backend, CooldownPasses, LinkDrops, DeviceDisconnected, LinkWay, LosesLink,
     LeavesUnclosed, CallsBack, radio, session
<1>4. CASE UNCHANGED vars
  BY <1>4 DEF LinkWay, vars, session, radio
<1> QED BY <1>1, <1>2, <1>3, <1>4 DEF Next

LEMMA WaySettled ==
    ASSUME ExclusiveLink, RestType, Settled, LinkWay
    PROVE  Settled'
<1> USE DEF Settled, RestType
<1>1. CASE UNCHANGED <<client, links, established, due>>
  BY <1>1
<1>2. CASE ClosesClient
  BY <1>2 DEF ClosesClient, NoClient, Clients
<1>3. CASE \E c \in Clients : LosesLink(c)
  BY <1>3 DEF LosesLink
<1>4. CASE \E c \in Clients : CallsBack(c)
  BY <1>4 DEF CallsBack
<1>5. CASE HandsOut
  BY <1>5 DEF HandsOut
<1>6. CASE \E c \in Clients : LeavesUnclosed(c)
  BY <1>6 DEF LeavesUnclosed
<1> QED BY <1>1, <1>2, <1>3, <1>4, <1>5, <1>6 DEF LinkWay

LEMMA InitSettled == Init => Settled
  BY DEF Init, Settled

LEMMA SettledStep ==
    ASSUME ExclusiveLink
    PROVE  IInv /\ Settled /\ [Next]_vars => Settled'
  BY NextLinks, WaySettled DEF IInv

-----------------------------------------------------------------------------
(* One connect() at a time: the tasks of a session end with it.              *)

ConnectAwaits    == {"cooldown", "scan", "establish", "notify", "auth", "subscribe"}
DisconnectAwaits == {"gather", "join", "joined", "closing"}

\* The application awaits a connect(), or a command that connects, before it
\* makes another such call.
OneConnect ==
    \A p, q \in Callers : pc[p] \in ConnectAwaits /\ pc[q] \in ConnectAwaits => p = q

\* Only tasks that run are cancelled.
CancelledRun == cancelled \subseteq Pending

\* A caller is in connect() only while self is not connected.
ConnectsUnconnected == \A p \in Callers : pc[p] \in ConnectAwaits => ~connected

\* Unless connected, every task is cancelled or in its last await ...
TasksLeave == ~connected => \A t \in Pending : t \in cancelled \/ pc[t] = "closing"

\* ... and no task of the session that begins is cancelled: those that were
\* have ended by the time of the first handshake write.
TasksStay ==
    /\ connected => \A t \in cancelled : pc[t] = "closing"
    /\ \A p \in Callers : pc[p] \in {"auth", "subscribe"} => \A t \in Pending : pc[t] = "closing"

Turnover == CancelledRun /\ ConnectsUnconnected /\ TasksLeave /\ TasksStay

\* q does nothing; it may be woken from the join().
Stays(q) == pc'[q] = pc[q] \/ (pc[q] = "join" /\ pc'[q] = "joined")

\* Caller p acts, within its session or outside any.
ActsAlone(p) ==
    /\ connected' = connected /\ cancelled' = cancelled
    /\ \A q \in Procs : q # p => Stays(q)
    /\ pc'[p] \in ConnectAwaits => ~connected
    /\ pc'[p] \in {"auth", "subscribe"} => \A t \in Pending : pc[t] = "closing"

\* connect() succeeds.
Connects(p) ==
    /\ connected' = TRUE /\ cancelled' = cancelled
    /\ pc[p] = "subscribe" /\ pc'[p] \notin ConnectAwaits
    /\ \A q \in Procs : q # p => pc'[q] = pc[q] \/ (pc[q] \in {"none", "done"} /\ pc'[q] = "new")

\* The session ends, and cancels the tasks it leaves behind.
Disconnects ==
    /\ connected' = FALSE /\ cancelled' \subseteq Pending'
    /\ \A t \in Pending' : t \in cancelled' \/ pc'[t] = "closing"
    /\ \A p \in Callers : pc'[p] \in ConnectAwaits => pc[p] = pc'[p]
    /\ \A t \in Tasks : Stays(t) \/ pc'[t] \in {"closing", "done"}

\* Task t ends.
TaskEnds(t) ==
    /\ connected' = connected /\ cancelled' = cancelled \ {t}
    /\ pc'[t] = "done" /\ \A q \in Procs : q # t => Stays(q)

\* Task t goes on, in a session.
TaskGoesOn(t) ==
    /\ connected /\ connected' = connected /\ cancelled' = cancelled
    /\ t \notin cancelled /\ pc'[t] \notin {"none", "done"}
    /\ \A q \in Procs : q # t => Stays(q)

\* What a step does to the session and its tasks.
SessionWay ==
    \/ UNCHANGED <<connected, cancelled, pc>>
    \/ \E p \in Callers : ActsAlone(p) \/ Connects(p)
    \/ Disconnects
    \/ \E t \in Tasks : TaskEnds(t) \/ TaskGoesOn(t)

LEMMA WayTurnover ==
    ASSUME pc' \in [Procs -> Awaits], cancelled \in SUBSET Tasks, connected \in BOOLEAN,
           OneConnect, Turnover, SessionWay
    PROVE  Turnover'
<1> USE DEF Turnover, CancelledRun, ConnectsUnconnected, TasksLeave, TasksStay, Pending, Stays
<1>0. Callers \subseteq Procs /\ Tasks \subseteq Procs /\ \A p \in Callers : p \notin Tasks
  BY CallersAssumption DEF Procs
<1>1. CASE UNCHANGED <<connected, cancelled, pc>>
  BY <1>1
<1>2. ASSUME NEW p \in Callers, ActsAlone(p) PROVE Turnover'
  BY <1>0, <1>2 DEF ActsAlone, ConnectAwaits
<1>3. ASSUME NEW p \in Callers, Connects(p) PROVE Turnover'
  BY <1>0, <1>3 DEF Connects, ConnectAwaits, OneConnect
<1>4. CASE Disconnects
  <2>1. CancelledRun' /\ ConnectsUnconnected' /\ TasksLeave'
    BY <1>0, <1>4 DEF Disconnects, ConnectAwaits
  <2>2. ASSUME NEW p \in Callers, pc'[p] \in {"auth", "subscribe"}, NEW t \in Tasks, t \in Pending'
        PROVE  pc'[t] = "closing"
    <3>1. pc[p] \in {"auth", "subscribe"}
      BY <1>4, <2>2 DEF Disconnects, ConnectAwaits
    <3>2. t \in Pending => pc[t] = "closing"
      BY <2>2, <3>1
    <3> QED BY <1>4, <2>2, <3>2 DEF Disconnects
  <2>3. TasksStay'
    BY <1>4, <2>2 DEF Disconnects
  <2> QED BY <2>1, <2>3
<1>5. ASSUME NEW t \in Tasks, TaskEnds(t) PROVE Turnover'
  BY <1>0, <1>5 DEF TaskEnds, ConnectAwaits
<1>6. ASSUME NEW t \in Tasks, TaskGoesOn(t) PROVE Turnover'
  BY <1>0, <1>6 DEF TaskGoesOn, ConnectAwaits
<1> QED BY <1>1, <1>2, <1>3, <1>4, <1>5, <1>6 DEF SessionWay

\* Steps of connect() that do not write, and calls outside it.
LEMMA ConnectSession ==
    ASSUME IInv, Turnover, NEW p \in Callers,
           \/ CooldownSlept(p) \/ ScanFinds(p) \/ ConnectFails(p) \/ Established(p)
           \/ Connect(p) \/ \E j \in ApiCalls : BeginConnect(p, j)
    PROVE  SessionWay
<1>1. p \in Procs /\ pc \in [Procs -> Awaits]
  BY ProcsFacts DEF IInv, Store, StoreType
<1>2. /\ pc' = [pc EXCEPT ![p] = pc'[p]]
      /\ pc'[p] \in {"cooldown", "scan", "establish", "notify", "idle"}
      /\ connected' = connected /\ cancelled' = cancelled
  BY <1>1 DEF CooldownSlept, ScanFinds, ConnectFails, AbandonConnect, Established, Connect,
     BeginConnect, AfterCooldown, session
<1>3. pc'[p] # "idle" => ~connected
  BY DEF CooldownSlept, ScanFinds, ConnectFails, AbandonConnect, Established, Connect,
     BeginConnect, Turnover, ConnectsUnconnected, ConnectAwaits
<1>4. \A q \in Procs : q # p => pc'[q] = pc[q]
  BY <1>1, <1>2
<1> QED BY <1>2, <1>3, <1>4 DEF SessionWay, ActsAlone, Stays, ConnectAwaits

\* The except clause of connect(): the caller closes its client, or is done.
LEMMA RollbackMoves ==
    ASSUME Store, NEW p \in Callers, Rollback(p)
    PROVE  pc'[p] \in {"rollback", "idle"} /\ \A q \in Procs : q # p => pc'[q] = pc[q]
<1>1. p \in Procs /\ pc \in [Procs -> Awaits]
  BY ProcsFacts DEF Store, StoreType
<1> QED BY <1>1 DEF Rollback, CloseClient

LEMMA HandshakeMoves ==
    ASSUME Store, NEW p \in Callers, NEW stage, HandshakeWrite(p, stage)
    PROVE  /\ pc'[p] \in {stage, "rollback", "idle"}
           /\ \A q \in Procs : q # p => pc'[q] = pc[q]
           /\ connected' = connected \/ connected' = FALSE
<1>1. p \in Procs /\ pc \in [Procs -> Awaits]
  BY ProcsFacts DEF Store, StoreType
<1> QED BY <1>1, RollbackMoves DEF HandshakeWrite

\* Steps of the handshake: it is not connected yet, and its first write waits
\* until the tasks of the last session have ended.
LEMMA HandshakeSession ==
    ASSUME IInv, Turnover, NEW p \in Callers,
           NotifyStarted(p) \/ AuthWritten(p) \/ HandshakeFails(p)
    PROVE  SessionWay
<1>1. pc[p] \in {"notify", "auth", "subscribe"} /\ cancelled' = cancelled
  BY DEF NotifyStarted, AuthWritten, HandshakeFails
<1>2. ~connected
  BY <1>1 DEF Turnover, ConnectsUnconnected, ConnectAwaits
<1>3. connected' = connected /\ \A q \in Procs : q # p => pc'[q] = pc[q]
  BY <1>2, HandshakeMoves, RollbackMoves
     DEF NotifyStarted, AuthWritten, HandshakeFails, IInv, RestType
<1>4. pc'[p] \in {"auth", "subscribe"} => \A t \in Pending : pc[t] = "closing"
  <2>1. CASE NotifyStarted(p)
    BY <1>2, <2>1 DEF NotifyStarted, LoopHasTurned, Turnover, TasksLeave
  <2>2. CASE AuthWritten(p)
    BY <2>2 DEF AuthWritten, Turnover, TasksStay
  <2>3. CASE HandshakeFails(p)
    BY <2>3, RollbackMoves DEF HandshakeFails, IInv
  <2> QED BY <2>1, <2>2, <2>3
<1> QED BY <1>1, <1>2, <1>3, <1>4 DEF SessionWay, ActsAlone, Stays

\* connect() succeeds: its command is put, or waits, while the new tasks start.
LEMMA SubscribedMoves ==
    ASSUME Store, NEW p \in Callers, Subscribed(p)
    PROVE  /\ pc'[p] \in {"idle", "lock", "put"}
           /\ \A q \in Procs : q # p =>
                \/ pc'[q] = pc[q]
                \/ q \in Tasks /\ pc[q] \in {"none", "done"} /\ pc'[q] = "new"
<1> USE ProcsFacts
<1> DEFINE f == IF job[p] = "connect_no_tasks" THEN pc ELSE WithTasks(pc)
<1>1. /\ f \in [Procs -> Awaits]
      /\ \A q \in Procs : f[q] # pc[q] =>
           q \in Tasks /\ f[q] = "new" /\ pc[q] \in {"none", "done"}
  BY WithTasksFacts DEF Store, StoreType
<1>2. \/ Enqueue(p, f, <<"command">>)
      \/ pc' = [f EXCEPT ![p] = "idle"]
  BY DEF Subscribed
<1> HIDE DEF f
<1>3. pc'[p] \in {"idle", "lock", "put"} /\ \A q \in Procs : q # p => pc'[q] = f[q]
  BY <1>1, <1>2 DEF Enqueue, Puts
<1> QED BY <1>1, <1>3

LEMMA SubscribedSession ==
    ASSUME IInv, NEW p \in Callers, Subscribed(p)
    PROVE  SessionWay
<1>1. pc[p] = "subscribe" /\ connected' = TRUE /\ cancelled' = cancelled
  BY DEF Subscribed
<1> QED BY <1>1, SubscribedMoves DEF IInv, SessionWay, Connects, ConnectAwaits

\* A process at the lock moves alone.
LEMMA EnqueueMoves ==
    ASSUME Store, NEW p \in Procs, NEW cmds, NEW w,
           Enqueue(p, pc, cmds) \/ Puts(p, pc, cmds, w)
    PROVE  /\ pc'[p] \in {"sleep", "idle", "lock", "put"}
           /\ \A q \in Procs : q # p => pc'[q] = pc[q]
<1>1. pc \in [Procs -> Awaits]
  BY DEF Store, StoreType
<1> QED BY <1>1 DEF Enqueue, Puts

\* Calls that put a command, and the ends of calls.
LEMMA CommandSession ==
    ASSUME IInv, Turnover, NEW p \in Callers,
           \/ LockAcquired(p) \/ PutResumes(p) \/ Auth(p) \/ SendCommand(p)
           \/ RolledBack(p) \/ DisconnectReturns(p) \/ CancelCall(p)
    PROVE  SessionWay
<1> USE ProcsFacts
<1>1. pc \in [Procs -> Awaits]
  BY DEF IInv, Store, StoreType
<1>2. CASE \E j \in ApiCalls : BeginConnect(p, j)
  BY <1>2, ConnectSession
<1>3. CASE \/ LockAcquired(p) \/ PutResumes(p) \/ Auth(p)
           \/ (Enqueue(p, pc, <<"command">>) /\ UNCHANGED <<session, cancelled>>)
  <2>1. connected' = connected /\ cancelled' = cancelled
    BY <1>3 DEF LockAcquired, PutResumes, Auth, session
  <2>2. \E cmds, w : Enqueue(p, pc, cmds) \/ Puts(p, pc, cmds, w)
    BY <1>3 DEF LockAcquired, PutResumes, Auth
  <2>3. /\ pc'[p] \in {"sleep", "idle", "lock", "put"}
        /\ \A q \in Procs : q # p => pc'[q] = pc[q]
    BY <2>2, EnqueueMoves DEF IInv
  <2> QED BY <2>1, <2>3 DEF SessionWay, ActsAlone, Stays, ConnectAwaits
<1>4. CASE CancelCall(p) /\ Rollback(p)
  <2>1. connected' = connected /\ cancelled' = cancelled
    BY <1>4 DEF CancelCall, session
  <2> QED BY <1>4, <2>1, RollbackMoves
          DEF IInv, SessionWay, ActsAlone, Stays, ConnectAwaits
<1>5. CASE /\ pc' = [pc EXCEPT ![p] = "idle"]
           /\ UNCHANGED <<session, cancelled>>
  BY <1>1, <1>5 DEF SessionWay, ActsAlone, Stays, ConnectAwaits, session
<1> QED BY <1>2, <1>3, <1>4, <1>5
        DEF SendCommand, RolledBack, DisconnectReturns, CancelCall, AbandonConnect, ApiCalls

\* disconnect() drains: joiners may wake, and p moves on.
LEMMA DrainMoves ==
    ASSUME Store, NEW p \in Callers, DrainAndJoin(p)
    PROVE  /\ pc'[p] \in {"idle", "closing", "join"}
           /\ \A q \in Procs : q # p => Stays(q)
<1> USE ProcsFacts
<1> DEFINE n == unfinished - Len(queue)
           f == Joined(pc, n)
<1>1. /\ f \in [Procs -> Awaits] /\ pc \in [Procs -> Awaits]
      /\ \A q \in Procs : f[q] # pc[q] => pc[q] = "join" /\ f[q] = "joined"
  BY JoinedFacts DEF Store, StoreType
<1>2. \/ CloseClient(p, f, "closing", "idle")
      \/ pc' = [pc EXCEPT ![p] = "join"]
  BY DEF DrainAndJoin
<1> HIDE DEF f
<1> QED BY <1>1, <1>2 DEF CloseClient, Stays

LEMMA DisconnectMoves ==
    ASSUME Store, NEW p \in Callers, Disconnect(p) \/ Gathered(p) \/ JoinReturns(p)
    PROVE  /\ pc'[p] \in DisconnectAwaits \cup {"idle"}
           /\ \A q \in Procs : q # p => Stays(q)
<1> USE ProcsFacts
<1>0. pc \in [Procs -> Awaits]
  BY DEF Store, StoreType
<1>1. CASE DrainAndJoin(p)
  BY <1>1, DrainMoves DEF DisconnectAwaits
<1>2. CASE CloseClient(p, pc, "closing", "idle")
  BY <1>0, <1>2 DEF CloseClient, Stays, DisconnectAwaits
<1>3. CASE pc' = [Joined(pc, unfinished - Len(queue)) EXCEPT ![p] = "gather"]
  <2> DEFINE f == Joined(pc, unfinished - Len(queue))
  <2>1. /\ f \in [Procs -> Awaits]
        /\ \A q \in Procs : f[q] # pc[q] => pc[q] = "join" /\ f[q] = "joined"
    BY <1>0, JoinedFacts
  <2>2. pc' = [f EXCEPT ![p] = "gather"]
    BY <1>3
  <2> HIDE DEF f
  <2> QED BY <2>1, <2>2 DEF Stays, DisconnectAwaits
<1> QED BY <1>1, <1>2, <1>3 DEF Gathered, JoinReturns, Disconnect

\* A caller moves itself, wakes joiners, and creates the tasks of a connection.
LEMMA CallerMoves ==
    ASSUME IInv, NEW p \in Callers, CallerResumes(p) \/ CallerCalls(p)
    PROVE  /\ \A q \in Procs : q # p => Stays(q) \/ (q \in Tasks /\ Subscribed(p))
           /\ pc'[p] \in DisconnectAwaits => Disconnect(p) \/ Gathered(p) \/ JoinReturns(p)
<1> USE ProcsFacts
<1>0. pc \in [Procs -> Awaits]
  BY DEF IInv, Store, StoreType
<1> DEFINE Moves ==
      /\ \A q \in Procs : q # p => Stays(q) \/ (q \in Tasks /\ Subscribed(p))
      /\ pc'[p] \in DisconnectAwaits => Disconnect(p) \/ Gathered(p) \/ JoinReturns(p)
<1>1. ASSUME NEW a, a \notin DisconnectAwaits, pc' = [pc EXCEPT ![p] = a] PROVE Moves
  BY <1>0, <1>1 DEF Stays
<1>2. CASE \E j : BeginConnect(p, j)
  BY <1>1, <1>2 DEF BeginConnect, AfterCooldown, DisconnectAwaits
<1>3. CASE \/ CooldownSlept(p) \/ ScanFinds(p) \/ ConnectFails(p) \/ Established(p)
           \/ RolledBack(p) \/ DisconnectReturns(p) \/ (CancelCall(p) /\ ~Rollback(p))
  BY <1>1, <1>3 DEF CooldownSlept, AfterCooldown, ScanFinds, ConnectFails, AbandonConnect,
     Established, RolledBack, DisconnectReturns, CancelCall, DisconnectAwaits
<1>4. CASE \/ NotifyStarted(p) \/ AuthWritten(p) \/ HandshakeFails(p)
           \/ (CancelCall(p) /\ Rollback(p))
  <2>1. /\ pc'[p] \in {"auth", "subscribe", "rollback", "idle"}
        /\ \A q \in Procs : q # p => pc'[q] = pc[q]
    BY <1>4, HandshakeMoves, RollbackMoves
       DEF NotifyStarted, AuthWritten, HandshakeFails, IInv
  <2> QED BY <2>1 DEF DisconnectAwaits, Stays
<1>5. CASE Subscribed(p)
  BY <1>5, SubscribedMoves DEF IInv, DisconnectAwaits, Stays
<1>6. CASE \/ LockAcquired(p) \/ PutResumes(p) \/ Auth(p) \/ Enqueue(p, pc, <<"command">>)
  <2>1. \E cmds, w : Enqueue(p, pc, cmds) \/ Puts(p, pc, cmds, w)
    BY <1>6 DEF LockAcquired, PutResumes, Auth
  <2>2. /\ pc'[p] \in {"sleep", "idle", "lock", "put"}
        /\ \A q \in Procs : q # p => pc'[q] = pc[q]
    BY <2>1, EnqueueMoves DEF IInv
  <2> QED BY <2>2 DEF DisconnectAwaits, Stays
<1>7. CASE Gathered(p) \/ JoinReturns(p) \/ Disconnect(p)
  BY <1>7, DisconnectMoves DEF IInv
<1> QED BY <1>2, <1>3, <1>4, <1>5, <1>6, <1>7
        DEF CallerResumes, CallerCalls, Connect, SendCommand

LEMMA DisconnectSession ==
    ASSUME IInv, Turnover, NEW p \in Callers, Disconnect(p) \/ Gathered(p) \/ JoinReturns(p)
    PROVE  SessionWay
<1>1. /\ pc'[p] \in DisconnectAwaits \cup {"idle"}
      /\ \A q \in Procs : q # p => Stays(q)
  BY DisconnectMoves DEF IInv
<1>2. CASE Gathered(p) \/ JoinReturns(p)
  BY <1>1, <1>2 DEF Gathered, JoinReturns, SessionWay, ActsAlone, DisconnectAwaits, ConnectAwaits
<1>3. CASE Disconnect(p)
  <2>1. connected' = FALSE /\ cancelled' = cancelled \cup Pending
    BY <1>3 DEF Disconnect
  <2>2. \A t \in Tasks : Stays(t)
    BY <1>1, CallersAssumption DEF Procs
  <2>3. Pending' = Pending
    BY <2>2 DEF Pending, Stays
  <2>4. \A q \in Callers : pc'[q] \in ConnectAwaits => pc[q] = pc'[q]
    BY <1>1 DEF Stays, DisconnectAwaits, ConnectAwaits, Procs
  <2> QED BY <2>1, <2>2, <2>3, <2>4 DEF SessionWay, Disconnects, Turnover, CancelledRun
<1> QED BY <1>2, <1>3

LEMMA HeartbeatSession ==
    ASSUME IInv, Turnover, Heartbeat
    PROVE  SessionWay
<1> USE ProcsFacts
<1>0. pc \in [Procs -> Awaits] /\ "heartbeat" \in Tasks
  BY DEF IInv, Store, StoreType, Tasks
<1>1. CASE \/ connected /\ HeartbeatWakes
           \/ LockAcquired("heartbeat") \/ PutResumes("heartbeat")
  <2>1. /\ pc["heartbeat"] \in {"new", "sleep", "lock", "put"} /\ "heartbeat" \notin cancelled
        /\ connected' = connected /\ cancelled' = cancelled
    BY <1>1 DEF HeartbeatWakes, LockAcquired, PutResumes, session
  <2>2. connected
    BY <1>0, <2>1 DEF Turnover, TasksLeave, Pending
  <2>3. \E cmds, w : Enqueue("heartbeat", pc, cmds) \/ Puts("heartbeat", pc, cmds, w)
    BY <1>1, <2>2 DEF HeartbeatWakes, LockAcquired, PutResumes
  <2>4. /\ pc'["heartbeat"] \in {"sleep", "idle", "lock", "put"}
        /\ \A q \in Procs : q # "heartbeat" => pc'[q] = pc[q]
    BY <2>3, EnqueueMoves DEF IInv
  <2> QED BY <1>0, <2>1, <2>2, <2>4 DEF SessionWay, TaskGoesOn, Stays
<1>2. CASE \/ ~connected /\ HeartbeatWakes
           \/ HeartbeatCancelled
  <2>1. connected' = connected
    BY <1>2 DEF HeartbeatWakes, HeartbeatCancelled, session, Turnover, TasksStay, IInv, RestType
  <2>2. pc' = [pc EXCEPT !["heartbeat"] = "done"] /\ cancelled' = cancelled \ {"heartbeat"}
    BY <1>2 DEF HeartbeatWakes, HeartbeatCancelled, Ended
  <2> QED BY <1>0, <2>1, <2>2 DEF SessionWay, TaskEnds, Stays
<1> QED BY <1>1, <1>2 DEF Heartbeat

\* The worker moves; a joiner may wake.
LEMMA WorkerMoves ==
    ASSUME Store, NEW n, NEW a,
           \/ pc' = [pc EXCEPT !["worker"] = a]
           \/ pc' = [Joined(pc, n) EXCEPT !["worker"] = a]
    PROVE  pc'["worker"] = a /\ \A q \in Procs : q # "worker" => Stays(q)
<1> DEFINE f == Joined(pc, n)
<1>1. /\ pc \in [Procs -> Awaits] /\ f \in [Procs -> Awaits] /\ "worker" \in Procs
      /\ \A q \in Procs : f[q] # pc[q] => pc[q] = "join" /\ f[q] = "joined"
  BY JoinedFacts, ProcsFacts DEF Store, StoreType
<1>2. pc' = [pc EXCEPT !["worker"] = a] \/ pc' = [f EXCEPT !["worker"] = a]
  OBVIOUS
<1> HIDE DEF f
<1> QED BY <1>1, <1>2 DEF Stays

LEMMA WriteErrorMoves ==
    ASSUME Store, NEW others, WriteError(others)
    PROVE  /\ pc'["worker"] = IF client = NoClient THEN "done" ELSE "closing"
           /\ \A q \in Procs : q # "worker" => Stays(q)
<1>1. CASE client = NoClient
  <2>1. pc' = [Joined(pc, unfinished - 1 - Len(others)) EXCEPT !["worker"] = "done"]
    BY <1>1 DEF WriteError, CloseClient
  <2> QED BY <1>1, <2>1, WorkerMoves
<1>2. CASE client # NoClient
  <2>1. pc' = [Joined(pc, unfinished - 1 - Len(others)) EXCEPT !["worker"] = "closing"]
    BY <1>2 DEF WriteError, CloseClient
  <2> QED BY <1>2, <2>1, WorkerMoves
<1> QED BY <1>1, <1>2

LEMMA WriteErrorSession ==
    ASSUME IInv, Turnover, NEW others, WriteError(others),
           pc["worker"] \notin {"none", "done"}
    PROVE  SessionWay
<1> USE ProcsFacts
<1>1. /\ pc'["worker"] = IF client = NoClient THEN "done" ELSE "closing"
      /\ \A q \in Procs : q # "worker" => Stays(q)
  BY WriteErrorMoves DEF IInv
<1>2. "worker" \in Pending /\ Pending \subseteq Tasks /\ Tasks \subseteq Procs
  BY DEF Pending, Tasks, Procs
<1>3. Pending' = IF client = NoClient THEN Pending \ {"worker"} ELSE Pending
  BY <1>1, <1>2 DEF Pending, Stays
<1>4. /\ client = NoClient => cancelled' = (cancelled \cup Pending) \ {"worker"}
      /\ client # NoClient => cancelled' = cancelled \cup (Pending \ {"worker"})
      /\ connected' = FALSE
  BY DEF WriteError
<1>5. cancelled' \subseteq Pending' /\ \A t \in Pending' : t \in cancelled' \/ pc'[t] = "closing"
  BY <1>1, <1>2, <1>3, <1>4 DEF Turnover, CancelledRun
<1>6. \A p \in Callers : pc'[p] \in ConnectAwaits => pc[p] = pc'[p]
  BY <1>1 DEF Stays, ConnectAwaits
<1> QED BY <1>1, <1>2, <1>4, <1>5, <1>6 DEF SessionWay, Disconnects

LEMMA WorkerSession ==
    ASSUME IInv, Turnover, Worker
    PROVE  SessionWay
<1> USE ProcsFacts
<1>0. pc \in [Procs -> Awaits] /\ "worker" \in Tasks
  BY DEF IInv, Store, StoreType, Tasks
<1>1. ASSUME NEW others, WriteError(others), WorkerLoops \/ WorkerTakes \/ WorkerWriteFails
      PROVE  SessionWay
  <2>1. pc["worker"] \notin {"none", "done"}
    BY <1>1 DEF WorkerLoops, WorkerTakes, WorkerWriteFails
  <2> QED BY <1>1, <2>1, WriteErrorSession
<1>2. ASSUME pc["worker"] \in {"new", "sleep", "get", "write"}, "worker" \notin cancelled,
             UNCHANGED <<connected, cancelled>>,
             NEW a \in {"get", "write", "sleep"}, NEW n,
             pc' = [pc EXCEPT !["worker"] = a] \/ pc' = [Joined(pc, n) EXCEPT !["worker"] = a]
      PROVE  SessionWay
  <2>1. connected
    BY <1>0, <1>2 DEF Turnover, TasksLeave, Pending
  <2>2. pc'["worker"] = a /\ \A q \in Procs : q # "worker" => Stays(q)
    BY <1>2, WorkerMoves DEF IInv
  <2> QED BY <1>0, <1>2, <2>1, <2>2 DEF SessionWay, TaskGoesOn
<1>3. ASSUME Ended("worker"), connected' = connected, NEW n,
             \/ pc' = [pc EXCEPT !["worker"] = "done"]
             \/ pc' = [Joined(pc, n) EXCEPT !["worker"] = "done"]
      PROVE  SessionWay
  <2>1. pc'["worker"] = "done" /\ \A q \in Procs : q # "worker" => Stays(q)
    BY <1>3, WorkerMoves DEF IInv
  <2> QED BY <1>0, <1>3, <2>1 DEF SessionWay, TaskEnds, Ended
<1>4. CASE WorkerLoops \/ WorkerTakes
  BY <1>1, <1>2, <1>3, <1>4 DEF WorkerLoops, WorkerTakes, TakeCommand, session
<1>5. CASE WorkerWrote
  BY <1>2, <1>5 DEF WorkerWrote, session
<1>6. CASE WorkerWriteFails
  BY <1>1, <1>6 DEF WorkerWriteFails
<1>7. CASE WorkerClosed
  BY <1>3, <1>7 DEF WorkerClosed, session
<1>8. CASE WorkerCancelled
  <2>1. connected' = connected
    BY <1>8 DEF WorkerCancelled, Turnover, TasksStay, IInv, RestType
  <2> QED BY <1>3, <1>8, <2>1 DEF WorkerCancelled
<1> QED BY <1>4, <1>5, <1>6, <1>7, <1>8 DEF Worker

\* device_disconnected_handler ends the session, whichever client it is for.
LEMMA CallbackSession ==
    ASSUME IInv, Turnover, NEW c \in Clients, DeviceDisconnected(c)
    PROVE  SessionWay
<1> DEFINE f == Joined(pc, unfinished - Len(queue))
<1>1. /\ f \in [Procs -> Awaits]
      /\ \A q \in Procs : f[q] # pc[q] => pc[q] = "join" /\ f[q] = "joined"
  BY JoinedFacts DEF IInv, Store, StoreType
<1>2. connected' = FALSE /\ pc' = f
  BY DEF DeviceDisconnected
<1> HIDE DEF f
<1>3. \A q \in Procs : Stays(q)
  BY <1>1, <1>2 DEF Stays
<1>4. Callers \subseteq Procs /\ Tasks \subseteq Procs
  BY DEF Procs
<1>5. Pending' = Pending
  BY <1>3, <1>4 DEF Pending, Stays
<1>6. \/ cancelled' = cancelled \cup Pending
      \/ pc["worker"] = "closing" /\ cancelled' = cancelled \cup (Pending \ {"worker"})
  BY DEF DeviceDisconnected
<1>7. cancelled' \subseteq Pending' /\ \A t \in Pending' : t \in cancelled' \/ pc'[t] = "closing"
  BY <1>3, <1>4, <1>5, <1>6 DEF Turnover, CancelledRun, Pending, Stays
<1>8. \A p \in Callers : pc'[p] \in ConnectAwaits => pc[p] = pc'[p]
  BY <1>3, <1>4 DEF Stays, ConnectAwaits
<1> QED BY <1>2, <1>3, <1>4, <1>7, <1>8 DEF SessionWay, Disconnects

LEMMA NextSession ==
    ASSUME IInv, Turnover, [Next]_vars
    PROVE  SessionWay
<1>1. CASE \E p \in Callers : CallerResumes(p) \/ CallerCalls(p)
  BY <1>1, ConnectSession, HandshakeSession, SubscribedSession, CommandSession,
     DisconnectSession DEF CallerResumes, CallerCalls
<1>2. CASE Heartbeat \/ Worker
  BY <1>2, HeartbeatSession, WorkerSession
<1>3. CASE \E c \in Clients : DeviceDisconnected(c)
  BY <1>3, CallbackSession
<1>4. CASE CooldownPasses \/ (\E c \in Clients : LinkDrops(c)) \/ UNCHANGED vars
  BY <1>4 DEF CooldownPasses, LinkDrops, vars, session, control, SessionWay
<1> QED BY <1>1, <1>2, <1>3, <1>4 DEF Next, Backend

LEMMA InitTurnover == Init => Turnover
  BY ProcsFacts DEF Init, Turnover, CancelledRun, ConnectsUnconnected, TasksLeave, TasksStay,
     Pending, Tasks, Procs, ConnectAwaits

LEMMA TurnoverStep == IInv /\ IInv' /\ Turnover /\ OneConnect /\ [Next]_vars => Turnover'
<1> SUFFICES ASSUME IInv, IInv', Turnover, OneConnect, [Next]_vars PROVE Turnover'
  OBVIOUS
<1>1. pc' \in [Procs -> Awaits] /\ cancelled \in SUBSET Tasks /\ connected \in BOOLEAN
  BY DEF IInv, Store, StoreType, RestType
<1> QED BY <1>1, NextSession, WayTurnover

\* An application that awaits one connect() before it makes the next never has
\* a task of an ended session running: once connected is False, each task has
\* its cancellation or is closing the client.
THEOREM QuietOnceDisconnected == Spec /\ []OneConnect => []QuietWhenDisconnected
<1>1. Turnover => QuietWhenDisconnected
  BY DEF Turnover, TasksLeave, QuietWhenDisconnected
<1> QED BY <1>1, InitIInv, NextIInv, InitTurnover, TurnoverStep, PTL DEF Spec

-----------------------------------------------------------------------------
(* Every link that is being closed has a process that waits for it.          *)

Closing == {"rollback", "closing"}

\* Every process other than those of S that is closing a client goes on.
ClosersGoOn(S) ==
    \A q \in Procs \ S : pc[q] \in Closing => pc'[q] = pc[q] /\ aim'[q] = aim[q]

\* Nothing begins to close a client but, at most, that of S.
NoneClosedBut(S) == \A c \in Clients \ S : links'[c] = "closing" => links[c] = "closing"

\* p calls disconnect() on self._client.
BeginsToClose(p) ==
    /\ pc'[p] \in Closing /\ aim'[p] = client
    /\ ClosersGoOn({p}) /\ pc[p] \notin Closing
    /\ NoneClosedBut({client})

\* p returns from disconnect(), or leaves it.
StopsClosing(p) ==
    /\ pc[p] \in Closing
    /\ ClosersGoOn({p})
    /\ NoneClosedBut({}) /\ links'[aim[p]] # "closing"

\* What a step does to the processes that are closing a client.
CloserWay ==
    \/ ClosersGoOn({}) /\ NoneClosedBut({})
    \/ \E p \in Procs : BeginsToClose(p) \/ StopsClosing(p)

\* Each link that is being closed has its process.
Closers ==
    \A c \in Clients : links[c] = "closing" => \E p \in Procs : pc[p] \in Closing /\ aim[p] = c

LEMMA WayClosers ==
    ASSUME Closers, CloserWay
    PROVE  Closers'
<1> SUFFICES ASSUME NEW c \in Clients, links'[c] = "closing"
             PROVE  \E p \in Procs : pc'[p] \in Closing /\ aim'[p] = c
  BY DEF Closers
<1>1. CASE ClosersGoOn({}) /\ NoneClosedBut({})
  BY <1>1 DEF ClosersGoOn, NoneClosedBut, Closers
<1>2. ASSUME NEW p \in Procs, BeginsToClose(p)
      PROVE  \E q \in Procs : pc'[q] \in Closing /\ aim'[q] = c
  <2>1. CASE c = client
    BY <1>2, <2>1 DEF BeginsToClose
  <2>2. CASE c # client
    <3>1. links[c] = "closing"
      BY <1>2, <2>2 DEF BeginsToClose, NoneClosedBut
    <3>2. PICK q \in Procs : pc[q] \in Closing /\ aim[q] = c
      BY <3>1 DEF Closers
    <3> QED BY <1>2, <3>2 DEF BeginsToClose, ClosersGoOn
  <2> QED BY <2>1, <2>2
<1>3. ASSUME NEW p \in Procs, StopsClosing(p)
      PROVE  \E q \in Procs : pc'[q] \in Closing /\ aim'[q] = c
  <2>1. links[c] = "closing" /\ c # aim[p]
    BY <1>3 DEF StopsClosing, NoneClosedBut
  <2>2. PICK q \in Procs : pc[q] \in Closing /\ aim[q] = c
    BY <2>1 DEF Closers
  <2> QED BY <1>3, <2>1, <2>2 DEF StopsClosing, ClosersGoOn
<1> QED BY <1>1, <1>2, <1>3 DEF CloserWay

\* A process that calls _disconnect_client.
LEMMA CloseCloser ==
    ASSUME IInv, NEW p \in Procs, NEW f \in [Procs -> Awaits], NEW closing \in Closing,
           NEW finished, CloseClient(p, f, closing, finished), pc[p] \notin Closing,
           \A q \in Procs : q # p => Stays(q)
    PROVE  CloserWay
<1> USE DEF ClosersGoOn, NoneClosedBut, Stays, Closing
<1>1. aim \in [Procs -> Clients \cup {NoClient}] /\ client \in Clients \cup {NoClient}
      /\ links \in [Clients -> {"none", "up", "closing", "unclosed", "down"}]
  BY DEF IInv, RestType
<1>2. CASE client = NoClient
  BY <1>2 DEF CloseClient, CloserWay
<1>3. CASE client # NoClient
  <2>1. pc'[p] \in Closing /\ aim' = [aim EXCEPT ![p] = client]
    BY <1>3 DEF CloseClient
  <2>2. links' = [links EXCEPT ![client] = IF @ = "up" THEN "closing" ELSE @]
    BY <1>3 DEF CloseClient
  <2>3. BeginsToClose(p)
    BY <1>1, <2>1, <2>2 DEF BeginsToClose
  <2> QED BY <2>3 DEF CloserWay
<1> QED BY <1>2, <1>3

\* A process whose client.disconnect() has returned, raised or been cancelled.
LEMMA StopCloser ==
    ASSUME IInv, NEW p \in Procs, pc[p] \in Closing, ClientClosed(p) \/ LeaveUnclosed(p),
           aim' = aim, \A q \in Procs : q # p => Stays(q)
    PROVE  CloserWay
<1>1. aim[p] \in Clients
  BY DEF IInv, AimOK, Closing, BleAwaits
<1>2. links \in [Clients -> {"none", "up", "closing", "unclosed", "down"}]
  BY DEF IInv, RestType
<1>3. NoneClosedBut({}) /\ links'[aim[p]] # "closing"
  BY <1>1, <1>2 DEF ClientClosed, LeaveUnclosed, NoneClosedBut
<1> QED BY <1>3 DEF CloserWay, StopsClosing, ClosersGoOn, Stays, Closing

\* A process that is not closing a client moves, and closes none.
LEMMA KeepCloser ==
    ASSUME NEW p \in Procs, pc[p] \notin Closing, NoneClosedBut({}),
           \A q \in Procs : q # p => aim'[q] = aim[q] /\ (Stays(q) \/ pc[q] \in {"none", "done"})
    PROVE  CloserWay
  BY DEF CloserWay, ClosersGoOn, Stays, Closing

LEMMA CallerClosers ==
    ASSUME IInv, NEW p \in Callers, CallerResumes(p) \/ CallerCalls(p)
    PROVE  CloserWay
<1> USE ProcsFacts
<1>0. /\ pc \in [Procs -> Awaits] /\ aim \in [Procs -> Clients \cup {NoClient}]
      /\ links \in [Clients -> {"none", "up", "closing", "unclosed", "down"}]
  BY DEF IInv, RestType, Store, StoreType
<1>1. CASE Subscribed(p)
  <2>1. pc[p] \notin Closing /\ aim' = aim /\ NoneClosedBut({})
    BY <1>1 DEF Subscribed, Closing, NoneClosedBut
  <2> QED BY <1>1, <2>1, SubscribedMoves, KeepCloser DEF IInv, Stays
<1> SUFFICES ASSUME ~Subscribed(p) PROVE CloserWay
  BY <1>1
<1>2. \A q \in Procs : q # p => Stays(q)
  BY CallerMoves
<1>3. ASSUME pc[p] \notin Closing, UNCHANGED <<aim, links>> PROVE CloserWay
  BY <1>2, <1>3, KeepCloser DEF NoneClosedBut
<1>4. CASE \E j \in ApiCalls : BeginConnect(p, j) /\ pc[p] = "idle"
  BY <1>3, <1>4 DEF BeginConnect, Closing, radio
<1>5. CASE \/ CooldownSlept(p) \/ ScanFinds(p) \/ ConnectFails(p) \/ LockAcquired(p)
           \/ PutResumes(p) \/ Auth(p)
  BY <1>3, <1>5 DEF CooldownSlept, ScanFinds, ConnectFails, LockAcquired, PutResumes, Auth,
     Closing, locals, radio
<1>6. CASE Connect(p) \/ SendCommand(p)
  BY <1>3, <1>6 DEF Connect, SendCommand, BeginConnect, Closing, locals, radio
<1>7. CASE Established(p)
  <2>1. pc[p] \notin Closing /\ NoneClosedBut({})
    BY <1>0, <1>7 DEF Established, Closing, NoneClosedBut
  <2>2. \A q \in Procs : q # p => aim'[q] = aim[q]
    BY <1>0, <1>7 DEF Established
  <2> QED BY <1>2, <2>1, <2>2, KeepCloser
<1>8. ASSUME Rollback(p), pc[p] \notin Closing PROVE CloserWay
  <2>1. CloseClient(p, pc, "rollback", "idle")
    BY <1>8 DEF Rollback
  <2> QED BY <1>0, <1>2, <1>8, <2>1, CloseCloser DEF Closing
<1>9. CASE NotifyStarted(p) \/ AuthWritten(p) \/ HandshakeFails(p)
  <2>1. pc[p] \notin Closing
    BY <1>9 DEF NotifyStarted, AuthWritten, HandshakeFails, Closing
  <2>2. Rollback(p) \/ (links' = links /\ \A q \in Procs : q # p => aim'[q] = aim[q])
    BY <1>0, <1>9 DEF NotifyStarted, AuthWritten, HandshakeFails, HandshakeWrite
  <2>3. CASE links' = links /\ \A q \in Procs : q # p => aim'[q] = aim[q]
    BY <1>2, <2>1, <2>3, KeepCloser DEF NoneClosedBut
  <2> QED BY <1>8, <2>1, <2>2, <2>3
<1>10. CASE RolledBack(p) \/ DisconnectReturns(p)
  <2>1. pc[p] \in Closing /\ ClientClosed(p) /\ aim' = aim
    BY <1>10 DEF RolledBack, DisconnectReturns, Closing, locals
  <2> QED BY <1>2, <2>1, StopCloser
<1>11. CASE CancelCall(p)
  <2>1. \/ pc[p] \notin Closing /\ UNCHANGED <<aim, links>>
        \/ pc[p] \notin Closing /\ Rollback(p)
        \/ pc[p] \in Closing /\ LeaveUnclosed(p) /\ aim' = aim
    BY <1>11 DEF CancelCall, Closing, locals, radio
  <2> QED BY <1>2, <1>3, <1>8, <2>1, StopCloser
<1>12. CASE Gathered(p) \/ JoinReturns(p) \/ Disconnect(p)
  <2>1. pc[p] \notin Closing
    BY <1>12 DEF Gathered, JoinReturns, Disconnect, Closing
  <2>2. \/ \E n : CloseClient(p, Joined(pc, n), "closing", "idle")
        \/ CloseClient(p, pc, "closing", "idle")
        \/ UNCHANGED <<aim, links>>
    BY <1>12 DEF Gathered, JoinReturns, Disconnect, DrainAndJoin
  <2>3. \A n : Joined(pc, n) \in [Procs -> Awaits]
    BY <1>0, JoinedFacts
  <2> QED BY <1>0, <1>2, <1>3, <2>1, <2>2, <2>3, CloseCloser DEF Closing
<1> QED BY <1>4, <1>5, <1>6, <1>7, <1>9, <1>10, <1>11, <1>12 DEF CallerResumes, CallerCalls

LEMMA TaskClosers ==
    ASSUME IInv, Heartbeat \/ Worker
    PROVE  CloserWay
<1> USE ProcsFacts
<1>0. /\ pc \in [Procs -> Awaits] /\ aim \in [Procs -> Clients \cup {NoClient}]
  BY DEF IInv, RestType, Store, StoreType
<1>1. CASE Heartbeat
  <2>1. UNCHANGED <<aim, links>> /\ pc["heartbeat"] \notin Closing
    BY <1>1 DEF Heartbeat, HeartbeatWakes, LockAcquired, PutResumes, HeartbeatCancelled,
       Closing, locals, radio
  <2>2. \/ pc' = [pc EXCEPT !["heartbeat"] = "done"]
        \/ \E cmds, w : Enqueue("heartbeat", pc, cmds) \/ Puts("heartbeat", pc, cmds, w)
    BY <1>1 DEF Heartbeat, HeartbeatWakes, LockAcquired, PutResumes, HeartbeatCancelled
  <2>3. \A q \in Procs : q # "heartbeat" => pc'[q] = pc[q]
    BY <1>0, <2>2, EnqueueMoves DEF IInv
  <2> QED BY <2>1, <2>3, KeepCloser DEF NoneClosedBut, Stays
<1>2. ASSUME pc["worker"] \notin Closing, links' = links,
             aim' = aim \/ aim' = [aim EXCEPT !["worker"] = client],
             \A q \in Procs : q # "worker" => Stays(q)
      PROVE  CloserWay
  BY <1>0, <1>2, KeepCloser DEF NoneClosedBut
<1>3. ASSUME NEW others, WriteError(others), pc["worker"] \notin Closing PROVE CloserWay
  <2>1. CloseClient("worker", Joined(pc, unfinished - 1 - Len(others)), "closing", "done")
    BY <1>3 DEF WriteError
  <2>2. Joined(pc, unfinished - 1 - Len(others)) \in [Procs -> Awaits]
    BY <1>0, JoinedFacts
  <2>3. \A q \in Procs : q # "worker" => Stays(q)
    BY <1>3, WriteErrorMoves DEF IInv
  <2> QED BY <1>3, <2>1, <2>2, <2>3, CloseCloser DEF Closing
<1>4. CASE WorkerLoops \/ WorkerTakes
  <2>1. pc["worker"] \notin Closing
    BY <1>4 DEF WorkerLoops, WorkerTakes, Closing
  <2>2. \/ WriteError(Tail(queue))
        \/ /\ links' = links
           /\ aim' = aim \/ aim' = [aim EXCEPT !["worker"] = client]
           /\ \E a : pc' = [pc EXCEPT !["worker"] = a]
    BY <1>4 DEF WorkerLoops, WorkerTakes, TakeCommand, locals, radio
  <2> QED BY <1>2, <1>3, <2>1, <2>2, WorkerMoves DEF IInv
<1>5. CASE WorkerWrote
  <2>1. \E n : pc' = [Joined(pc, n) EXCEPT !["worker"] = "sleep"]
    BY <1>5 DEF WorkerWrote
  <2> QED BY <1>2, <1>5, <2>1, WorkerMoves DEF IInv, WorkerWrote, Closing, locals, radio
<1>6. CASE WorkerWriteFails
  BY <1>3, <1>6 DEF WorkerWriteFails, Closing
<1>7. CASE WorkerClosed
  <2>1. \A q \in Procs : q # "worker" => Stays(q)
    BY <1>7, WorkerMoves DEF IInv, WorkerClosed
  <2> QED BY <1>7, <2>1, StopCloser DEF WorkerClosed, Closing, locals
<1>8. CASE WorkerCancelled
  <2>1. \E n : \/ pc' = [pc EXCEPT !["worker"] = "done"]
               \/ pc' = [Joined(pc, n) EXCEPT !["worker"] = "done"]
    BY <1>8 DEF WorkerCancelled
  <2>2. \A q \in Procs : q # "worker" => Stays(q)
    BY <2>1, WorkerMoves DEF IInv
  <2>3. CASE pc["worker"] = "closing"
    BY <1>8, <2>2, <2>3, StopCloser DEF WorkerCancelled, WorkerLeavesLink, Closing, locals
  <2>4. CASE pc["worker"] # "closing"
    BY <1>2, <1>8, <2>2, <2>4 DEF WorkerCancelled, WorkerLeavesLink, Closing, locals
  <2> QED BY <2>3, <2>4
<1> QED BY <1>1, <1>4, <1>5, <1>6, <1>7, <1>8 DEF Worker

LEMMA NextClosers == IInv /\ [Next]_vars => CloserWay
<1> SUFFICES ASSUME IInv, [Next]_vars PROVE CloserWay
  OBVIOUS
<1>0. /\ pc \in [Procs -> Awaits]
      /\ links \in [Clients -> {"none", "up", "closing", "unclosed", "down"}]
  BY DEF IInv, RestType, Store, StoreType
<1> USE DEF CloserWay, ClosersGoOn, NoneClosedBut, Closing
<1>1. CASE \E p \in Callers : CallerResumes(p) \/ CallerCalls(p)
  BY <1>1, CallerClosers
<1>2. CASE Heartbeat \/ Worker
  BY <1>2, TaskClosers
<1>3. CASE \E c \in Clients : DeviceDisconnected(c)
  BY <1>0, <1>3, JoinedFacts DEF DeviceDisconnected, locals
<1>4. CASE CooldownPasses \/ UNCHANGED vars
  BY <1>4 DEF CooldownPasses, vars, control, locals, radio
<1>5. CASE \E c \in Clients : LinkDrops(c)
  BY <1>0, <1>5 DEF LinkDrops, control, locals
<1> QED BY <1>1, <1>2, <1>3, <1>4, <1>5 DEF Next, Backend

LEMMA InitClosers == Init => Closers
  BY DEF Init, Closers

\* A scale that accepts one central at a time, with a backend that reports the
\* end of its link before it hands out the next, has no other link up than the
\* one of self._client; and every link on which client.disconnect() was called
\* has a process waiting in that call, or is down, or has been left by an
\* exception or a cancellation in it.
THEOREM EveryLinkAccountedFor ==
    ASSUME ExclusiveLink
    PROVE  Spec => []LinksAccountedFor
<1>1. IInv /\ Closers /\ [Next]_vars => Closers'
  BY NextClosers, WayClosers
<1>2. Settled /\ Closers => LinksAccountedFor
  BY DEF Settled, Closers, Closing, LinksAccountedFor
<1> QED BY <1>1, <1>2, InitIInv, NextIInv, InitSettled, SettledStep, InitClosers, PTL DEF Spec

-----------------------------------------------------------------------------
(* One connect() at a time: its client is the client, and had the handshake. *)

Handshake == {"notify", "auth", "subscribe"}
BothWrites == {"auth", "subscribe"}

\* A caller in the handshake or its except clause works on its own client.
OwnClient(p) ==
    /\ pc[p] \in Handshake => client \in {NoClient, aim[p]} /\ own[p] = aim[p]
    /\ pc[p] = "subscribe" => "auth" \in heard[aim[p]]
    /\ pc[p] = "rollback" => aim[p] = own[p]

\* The client of a connection had both writes.
ConnectedHeard == connected /\ client # NoClient => heard[client] = BothWrites

Shaken == (\A p \in Callers : OwnClient(p)) /\ ConnectedHeard /\ HandshakeFirst

\* q begins no step of connect() that has a client.
NoNewAim(q) ==
    \/ pc'[q] \notin Handshake \cup {"rollback"}
    \/ pc'[q] = pc[q] /\ aim'[q] = aim[q] /\ own'[q] = own[q]

\* The worker begins a write only with the client of the connection.
WorkerAims ==
    pc'["worker"] = "write" =>
      \/ pc["worker"] = "write" /\ aim'["worker"] = aim["worker"]
      \/ connected /\ client # NoClient /\ aim'["worker"] = client

\* Outside the handshake of p, and as it ends without a client.
KeepsClients ==
    /\ connected' => connected
    /\ client' \in {client, NoClient}
    /\ \A q \in Callers : NoNewAim(q)

\* p rolls back and closes the client.
RollsBack(p) ==
    /\ pc[p] \in Handshake /\ pc'[p] = "rollback" /\ ~connected'
    /\ client # NoClient /\ client' = NoClient /\ aim'[p] = client /\ own'[p] = own[p]
    /\ \A q \in Callers \ {p} : NoNewAim(q)

\* p gets its client.
GetsClient(p) ==
    /\ pc[p] = "establish" /\ pc'[p] = "notify" /\ ~connected'
    /\ aim'[p] = client' /\ own'[p] = client'
    /\ \A q \in Callers \ {p} : NoNewAim(q)

\* p begins a write of the handshake.
Writes(p) ==
    /\ pc[p] \in Handshake /\ pc'[p] \in {"auth", "subscribe"} /\ connected' = connected
    /\ client # NoClient /\ client' = client /\ aim'[p] = client /\ own'[p] = own[p]
    /\ pc'[p] = "subscribe" => "auth" \in heard'[aim[p]]
    /\ \A q \in Callers \ {p} : NoNewAim(q)

\* p has done both.
Completes(p) ==
    /\ pc[p] = "subscribe" /\ pc'[p] \notin Handshake \cup {"rollback"} /\ client' = client
    /\ "subscribe" \in heard'[aim[p]]
    /\ \A q \in Callers \ {p} : NoNewAim(q)

HandshakeWay ==
    /\ \A c \in Clients : heard[c] \subseteq heard'[c]
    /\ WorkerAims
    /\ \/ KeepsClients
       \/ \E p \in Callers : RollsBack(p) \/ GetsClient(p) \/ Writes(p) \/ Completes(p)

LEMMA WayShaken ==
    ASSUME RestType, RestType', AimOK, AimOK', OneConnect, Shaken, HandshakeWay
    PROVE  Shaken'
<1> USE DEF Handshake, BothWrites
<1>1. \A c \in Clients : /\ heard[c] \subseteq heard'[c]
                         /\ heard[c] = BothWrites => heard'[c] = BothWrites
  BY DEF HandshakeWay, RestType
<1>2. \A p \in Callers : /\ p \in Procs
                         /\ pc[p] \in BleAwaits => aim[p] \in Clients
                         /\ pc'[p] \in BleAwaits => aim'[p] \in Clients
  BY ProcsFacts DEF AimOK
<1>3. HandshakeFirst'
  <2>1. pc["worker"] \in BleAwaits => aim["worker"] \in Clients
    BY ProcsFacts DEF AimOK
  <2> QED BY <1>1, <2>1 DEF HandshakeWay, WorkerAims, Shaken, ConnectedHeard, HandshakeFirst,
          BleAwaits, RestType
<1>4. ASSUME NEW q \in Callers, NoNewAim(q), client' \in {client, NoClient}
      PROVE  OwnClient(q)'
  BY <1>1, <1>2, <1>4 DEF NoNewAim, Shaken, OwnClient, BleAwaits
<1>5. CASE KeepsClients
  <2>1. ConnectedHeard'
    BY <1>1, <1>5 DEF KeepsClients, Shaken, ConnectedHeard, RestType
  <2> QED BY <1>3, <1>4, <1>5, <2>1 DEF KeepsClients, Shaken
<1>6. ASSUME NEW p \in Callers, RollsBack(p) PROVE Shaken'
  <2>1. OwnClient(p)'
    BY <1>6 DEF RollsBack, Shaken, OwnClient
  <2> QED BY <1>3, <1>4, <1>6, <2>1 DEF RollsBack, Shaken, ConnectedHeard
<1>7. ASSUME NEW p \in Callers, GetsClient(p) PROVE Shaken'
  <2>1. OwnClient(p)'
    BY <1>7 DEF GetsClient, OwnClient
  <2>2. ASSUME NEW q \in Callers \ {p} PROVE OwnClient(q)'
    <3>1. pc[q] \notin Handshake
      BY <1>7, <2>2 DEF GetsClient, OneConnect, ConnectAwaits
    <3> QED BY <1>7, <3>1 DEF GetsClient, NoNewAim, Shaken, OwnClient
  <2> QED BY <1>3, <1>7, <2>1, <2>2 DEF GetsClient, Shaken, ConnectedHeard
<1>8. ASSUME NEW p \in Callers, Writes(p) PROVE Shaken'
  <2>1. OwnClient(p)'
    BY <1>8 DEF Writes, Shaken, OwnClient
  <2>2. ConnectedHeard'
    BY <1>1, <1>8 DEF Writes, Shaken, ConnectedHeard, RestType
  <2> QED BY <1>3, <1>4, <1>8, <2>1, <2>2 DEF Writes, Shaken
<1>9. ASSUME NEW p \in Callers, Completes(p) PROVE Shaken'
  <2>1. OwnClient(p)'
    BY <1>9 DEF Completes, OwnClient
  <2>2. client \in {NoClient, aim[p]} /\ "auth" \in heard[aim[p]] /\ aim[p] \in Clients
    BY <1>2, <1>9 DEF Completes, Shaken, OwnClient, BleAwaits
  <2>3. heard'[aim[p]] = BothWrites
    BY <1>1, <1>9, <2>2 DEF Completes, RestType
  <2>4. ConnectedHeard'
    BY <1>9, <2>2, <2>3 DEF Completes, ConnectedHeard
  <2> QED BY <1>3, <1>4, <1>9, <2>1, <2>4 DEF Completes, Shaken
<1> QED BY <1>5, <1>6, <1>7, <1>8, <1>9 DEF HandshakeWay

\* Those that do nothing, or are created, begin nothing.
LEMMA OthersAim ==
    ASSUME NEW p,
           \A q \in Procs : q # p => Stays(q) \/ pc'[q] = "new",
           \A q \in Procs : q # p => aim'[q] = aim[q],
           \A q \in Callers : q # p => own'[q] = own[q]
    PROVE  /\ \A q \in Callers \ {p} : NoNewAim(q)
           /\ p # "worker" => WorkerAims
  BY ProcsFacts DEF Stays, NoNewAim, WorkerAims, Handshake

\* One exception: p rolls back, or ends without a client.
LEMMA RollbackHandshake ==
    ASSUME IInv, NEW p \in Callers, pc[p] \in Handshake, Rollback(p), ~connected',
           \A c \in Clients : heard[c] \subseteq heard'[c], own' = own
    PROVE  HandshakeWay
<1>1. p \in Procs /\ p # "worker" /\ pc \in [Procs -> Awaits]
      /\ aim \in [Procs -> Clients \cup {NoClient}]
  BY ProcsFacts DEF IInv, Store, StoreType, RestType
<1>2. /\ client' = NoClient
      /\ \/ client = NoClient /\ pc' = [pc EXCEPT ![p] = "idle"] /\ aim' = aim
         \/ client # NoClient /\ pc' = [pc EXCEPT ![p] = "rollback"]
            /\ aim' = [aim EXCEPT ![p] = client]
  BY DEF Rollback, CloseClient
<1>3. \A q \in Procs : q # p => pc'[q] = pc[q] /\ aim'[q] = aim[q]
  BY <1>1, <1>2
<1>4. /\ \A q \in Callers \ {p} : NoNewAim(q)
      /\ WorkerAims
  BY <1>1, <1>3, OthersAim DEF Stays
<1>5. CASE client = NoClient
  BY <1>1, <1>2, <1>4, <1>5 DEF HandshakeWay, KeepsClients, NoNewAim, Handshake
<1>6. CASE client # NoClient
  BY <1>1, <1>2, <1>4, <1>6 DEF HandshakeWay, RollsBack
<1> QED BY <1>5, <1>6

LEMMA WritesHandshake ==
    ASSUME IInv, Turnover, Shaken, NEW p \in Callers,
           \/ NotifyStarted(p) \/ AuthWritten(p) \/ HandshakeFails(p)
           \/ (CancelCall(p) /\ Rollback(p) /\ pc[p] \in Handshake)
    PROVE  HandshakeWay
<1> USE DEF Handshake
<1>1. /\ p \in Procs /\ p # "worker" /\ pc \in [Procs -> Awaits]
      /\ aim \in [Procs -> Clients \cup {NoClient}]
      /\ heard \in [Clients -> SUBSET {"auth", "subscribe"}]
  BY ProcsFacts DEF IInv, Store, StoreType, RestType
<1>2. pc[p] \in Handshake
  BY DEF NotifyStarted, AuthWritten, HandshakeFails
<1>3. ~connected /\ aim[p] \in Clients
  BY <1>1, <1>2 DEF Turnover, ConnectsUnconnected, ConnectAwaits, IInv, AimOK, BleAwaits
<1>4. own' = own
  BY DEF NotifyStarted, AuthWritten, HandshakeFails, CancelCall
<1>5. /\ \A c \in Clients : heard[c] \subseteq heard'[c]
      /\ AuthWritten(p) => "auth" \in heard'[aim[p]]
  BY <1>1, <1>3 DEF NotifyStarted, AuthWritten, HandshakeFails, CancelCall
<1>6. CASE Rollback(p)
  <2>1. ~connected'
    BY <1>3 DEF NotifyStarted, AuthWritten, HandshakeFails, HandshakeWrite, CancelCall
  <2> QED BY <1>2, <1>4, <1>5, <1>6, <2>1, RollbackHandshake
<1>7. ASSUME NEW stage \in {"auth", "subscribe"}, stage = "subscribe" => AuthWritten(p),
             client # NoClient, pc' = [pc EXCEPT ![p] = stage],
             aim' = [aim EXCEPT ![p] = client], UNCHANGED <<connected, client>>
      PROVE  HandshakeWay
  <2>1. \A q \in Procs : q # p => pc'[q] = pc[q] /\ aim'[q] = aim[q]
    BY <1>1, <1>7
  <2>2. (\A q \in Callers \ {p} : NoNewAim(q)) /\ WorkerAims
    BY <1>1, <1>4, <2>1, OthersAim DEF Stays
  <2>3. Writes(p)
    BY <1>1, <1>2, <1>4, <1>5, <1>7, <2>2 DEF Writes
  <2> QED BY <1>5, <2>2, <2>3 DEF HandshakeWay
<1>8. CASE NotifyStarted(p)
  BY <1>6, <1>7, <1>8 DEF NotifyStarted, HandshakeWrite
<1>9. CASE AuthWritten(p)
  BY <1>6, <1>7, <1>9 DEF AuthWritten, HandshakeWrite
<1>10. CASE HandshakeFails(p) \/ (CancelCall(p) /\ Rollback(p))
  BY <1>6, <1>10 DEF HandshakeFails
<1> QED BY <1>8, <1>9, <1>10

LEMMA EstablishedHandshake ==
    ASSUME IInv, Turnover, NEW p \in Callers, Established(p)
    PROVE  HandshakeWay
<1>1. /\ p \in Procs /\ p # "worker" /\ pc \in [Procs -> Awaits]
      /\ aim \in [Procs -> Clients \cup {NoClient}]
      /\ own \in [Callers -> Clients \cup {NoClient}]
  BY ProcsFacts DEF IInv, Store, StoreType, RestType
<1>2. /\ pc[p] = "establish" /\ pc' = [pc EXCEPT ![p] = "notify"]
      /\ client' = established + 1
      /\ own' = [own EXCEPT ![p] = client'] /\ aim' = [aim EXCEPT ![p] = client']
      /\ heard' = heard /\ connected' = connected
  BY DEF Established
<1>3. ~connected
  BY <1>2 DEF Turnover, ConnectsUnconnected, ConnectAwaits
<1>4. \A q \in Procs : q # p => pc'[q] = pc[q] /\ aim'[q] = aim[q]
  BY <1>1, <1>2
<1>5. \A q \in Callers : q # p => own'[q] = own[q]
  BY <1>1, <1>2
<1>6. (\A q \in Callers \ {p} : NoNewAim(q)) /\ WorkerAims
  BY <1>1, <1>4, <1>5, OthersAim DEF Stays
<1>7. GetsClient(p)
  BY <1>1, <1>2, <1>3, <1>6 DEF GetsClient
<1> QED BY <1>2, <1>6, <1>7 DEF HandshakeWay

LEMMA SubscribedHandshake ==
    ASSUME IInv, NEW p \in Callers, Subscribed(p)
    PROVE  HandshakeWay
<1> USE ProcsFacts
<1>1. /\ pc'[p] \in {"idle", "lock", "put"}
      /\ \A q \in Procs : q # p => pc'[q] = pc[q] \/ pc'[q] = "new"
  BY SubscribedMoves DEF IInv
<1>2. aim[p] \in Clients /\ heard \in [Clients -> SUBSET {"auth", "subscribe"}]
      /\ own \in [Callers -> Clients \cup {NoClient}]
  BY DEF Subscribed, IInv, AimOK, BleAwaits, RestType
<1>3. (\A c \in Clients : heard[c] \subseteq heard'[c]) /\ "subscribe" \in heard'[aim[p]]
  BY <1>2 DEF Subscribed
<1>4. aim' = aim /\ client' = client /\ \A q \in Callers : q # p => own'[q] = own[q]
  BY <1>2 DEF Subscribed
<1>5. (\A q \in Callers \ {p} : NoNewAim(q)) /\ WorkerAims
  BY <1>1, <1>4, OthersAim DEF Stays
<1>6. Completes(p)
  BY <1>1, <1>3, <1>4, <1>5 DEF Subscribed, Completes, Handshake
<1> QED BY <1>3, <1>5, <1>6 DEF HandshakeWay

\* Any other step of a caller leaves it outside the handshake.
LEMMA CallerHandshake ==
    ASSUME IInv, Turnover, Shaken, NEW p \in Callers, CallerResumes(p) \/ CallerCalls(p)
    PROVE  HandshakeWay
<1> USE ProcsFacts
<1>1. /\ p \in Procs /\ p # "worker" /\ pc \in [Procs -> Awaits]
      /\ aim \in [Procs -> Clients \cup {NoClient}]
      /\ own \in [Callers -> Clients \cup {NoClient}]
  BY DEF IInv, Store, StoreType, RestType
<1>2. ASSUME pc'[p] \notin Handshake \cup {"rollback"},
             \A q \in Procs : q # p => Stays(q) /\ aim'[q] = aim[q],
             \A q \in Callers : q # p => own'[q] = own[q],
             connected' => connected, client' \in {client, NoClient}, heard' = heard
      PROVE  HandshakeWay
  <2>1. (\A q \in Callers \ {p} : NoNewAim(q)) /\ WorkerAims
    BY <1>1, <1>2, OthersAim
  <2> QED BY <1>2, <2>1 DEF HandshakeWay, KeepsClients, NoNewAim
<1>3. CASE \/ CooldownSlept(p) \/ ScanFinds(p) \/ ConnectFails(p)
           \/ Connect(p) \/ \E j \in ApiCalls : BeginConnect(p, j)
  <2>1. pc' = [pc EXCEPT ![p] = pc'[p]] /\ pc'[p] \in {"cooldown", "scan", "establish", "idle"}
    BY <1>1, <1>3 DEF CooldownSlept, ScanFinds, ConnectFails, AbandonConnect, Connect,
       BeginConnect, AfterCooldown
  <2>2. UNCHANGED <<connected, client, aim, own, heard>>
    BY <1>3 DEF CooldownSlept, ScanFinds, ConnectFails, Connect, BeginConnect, session, locals,
       radio
  <2>3. \A q \in Procs : q # p => pc'[q] = pc[q]
    BY <1>1, <2>1
  <2> QED BY <1>2, <2>1, <2>2, <2>3 DEF Stays, Handshake
<1>4. CASE \/ NotifyStarted(p) \/ AuthWritten(p) \/ HandshakeFails(p)
           \/ Established(p) \/ Subscribed(p)
  BY <1>4, WritesHandshake, EstablishedHandshake, SubscribedHandshake
<1>5. CASE \/ LockAcquired(p) \/ PutResumes(p) \/ Auth(p)
           \/ (Enqueue(p, pc, <<"command">>) /\ UNCHANGED <<session, locals, radio>>)
  <2>1. UNCHANGED <<connected, client, aim, own, heard>>
    BY <1>5 DEF LockAcquired, PutResumes, Auth, session, locals, radio
  <2>2. \E cmds, w : Enqueue(p, pc, cmds) \/ Puts(p, pc, cmds, w)
    BY <1>5 DEF LockAcquired, PutResumes, Auth
  <2>3. /\ pc'[p] \in {"sleep", "idle", "lock", "put"}
        /\ \A q \in Procs : q # p => pc'[q] = pc[q]
    BY <2>2, EnqueueMoves DEF IInv
  <2> QED BY <1>2, <2>1, <2>3 DEF Stays, Handshake
<1>6. CASE RolledBack(p) \/ DisconnectReturns(p)
  <2>1. /\ pc' = [pc EXCEPT ![p] = "idle"]
        /\ UNCHANGED <<connected, client, aim, heard>>
        /\ own' = own \/ own' = [own EXCEPT ![p] = NoClient]
    BY <1>6 DEF RolledBack, DisconnectReturns, session, locals
  <2> QED BY <1>1, <1>2, <2>1 DEF Stays, Handshake
<1>7. CASE Gathered(p) \/ JoinReturns(p) \/ Disconnect(p)
  <2>1. /\ pc'[p] \notin Handshake \cup {"rollback"}
        /\ \A q \in Procs : q # p => Stays(q)
    BY <1>7, DisconnectMoves DEF IInv, DisconnectAwaits, Handshake
  <2>2. /\ connected' => connected
        /\ heard' = heard /\ own' = own
        /\ client' \in {client, NoClient}
        /\ aim' = aim \/ aim' = [aim EXCEPT ![p] = client]
    BY <1>7 DEF Gathered, JoinReturns, Disconnect, DrainAndJoin, CloseClient
  <2> QED BY <1>1, <1>2, <2>1, <2>2
<1>8. CASE CancelCall(p) /\ ~(pc[p] \in Handshake /\ Rollback(p))
  <2>1. /\ pc' = [pc EXCEPT ![p] = "idle"]
        /\ UNCHANGED <<connected, client, aim, heard>>
        /\ own' = own \/ own' = [own EXCEPT ![p] = NoClient]
    BY <1>8 DEF CancelCall, AbandonConnect, session, locals, radio, Handshake
  <2> QED BY <1>1, <1>2, <2>1 DEF Stays, Handshake
<1>9. CASE CancelCall(p) /\ Rollback(p) /\ pc[p] \in Handshake
  BY <1>9, WritesHandshake
<1> QED BY <1>3, <1>4, <1>5, <1>6, <1>7, <1>8, <1>9
        DEF CallerResumes, CallerCalls, SendCommand, ApiCalls

\* The tasks and the backend take the client away, and hand out none.
LEMMA OtherHandshake ==
    ASSUME IInv, Turnover, Heartbeat \/ Worker \/ \E c \in Clients : DeviceDisconnected(c)
    PROVE  HandshakeWay
<1> USE ProcsFacts
<1>1. pc \in [Procs -> Awaits] /\ aim \in [Procs -> Clients \cup {NoClient}]
      /\ "worker" \in Tasks
  BY DEF IInv, Store, StoreType, RestType, Tasks
<1>2. ASSUME NEW t \in Procs, t \notin Callers,
             \A q \in Procs : q # t => Stays(q) /\ aim'[q] = aim[q], WorkerAims,
             connected' => connected, client' \in {client, NoClient}, UNCHANGED <<own, heard>>
      PROVE  HandshakeWay
  <2>1. \A q \in Callers : NoNewAim(q)
    BY <1>2 DEF Stays, NoNewAim, Handshake
  <2> QED BY <1>2, <2>1 DEF HandshakeWay, KeepsClients
<1>3. "heartbeat" \notin Callers /\ "worker" \notin Callers
  OBVIOUS
<1>4. CASE Heartbeat
  <2>1. /\ connected' => connected
        /\ UNCHANGED <<client, aim, own, heard>>
    BY <1>4 DEF Heartbeat, HeartbeatWakes, LockAcquired, PutResumes, HeartbeatCancelled,
       session, locals, radio
  <2>2. \/ \E cmds, w : Enqueue("heartbeat", pc, cmds) \/ Puts("heartbeat", pc, cmds, w)
        \/ pc' = [pc EXCEPT !["heartbeat"] = "done"]
    BY <1>4 DEF Heartbeat, HeartbeatWakes, LockAcquired, PutResumes, HeartbeatCancelled
  <2>3. \A q \in Procs : q # "heartbeat" => pc'[q] = pc[q]
    BY <1>1, <2>2, EnqueueMoves DEF IInv
  <2>4. WorkerAims
    BY <2>1, <2>3 DEF WorkerAims
  <2> QED BY <1>2, <1>3, <2>1, <2>3, <2>4 DEF Stays
<1>5. CASE Worker
  <2>1. /\ UNCHANGED <<own, heard>>
        /\ client' \in {client, NoClient}
        /\ connected' => connected
        /\ aim' = aim \/ aim' = [aim EXCEPT !["worker"] = client]
    BY <1>5 DEF Worker, WorkerLoops, WorkerTakes, TakeCommand, WriteError, CloseClient,
       WorkerWrote, WorkerWriteFails, WorkerClosed, WorkerCancelled, session, locals, radio
  <2>2. /\ \A q \in Procs : q # "worker" => Stays(q)
        /\ WorkerAims
    <3>1. ASSUME NEW others, WriteError(others)
          PROVE  (\A q \in Procs : q # "worker" => Stays(q)) /\ WorkerAims
      BY <3>1, WriteErrorMoves DEF WorkerAims, IInv
    <3>2. CASE /\ pc["worker"] \in {"new", "sleep", "get"} /\ "worker" \notin cancelled
               /\ pc' = [pc EXCEPT !["worker"] = "write"]
               /\ client # NoClient /\ aim' = [aim EXCEPT !["worker"] = client]
      <4>1. connected
        BY <1>1, <3>2 DEF Turnover, TasksLeave, Pending
      <4>2. \A q \in Procs : q # "worker" => Stays(q)
        BY <3>2, WorkerMoves DEF IInv
      <4> QED BY <1>1, <3>2, <4>1, <4>2 DEF WorkerAims
    <3>3. ASSUME NEW a \in {"get", "sleep", "done"}, NEW n,
                 \/ pc' = [pc EXCEPT !["worker"] = a]
                 \/ pc' = [Joined(pc, n) EXCEPT !["worker"] = a]
          PROVE  (\A q \in Procs : q # "worker" => Stays(q)) /\ WorkerAims
      BY <3>3, WorkerMoves DEF WorkerAims, IInv
    <3>4. CASE WorkerLoops \/ WorkerTakes
      BY <3>1, <3>2, <3>3, <3>4 DEF WorkerLoops, WorkerTakes, TakeCommand
    <3>5. CASE WorkerWrote \/ WorkerClosed \/ WorkerCancelled
      BY <3>3, <3>5 DEF WorkerWrote, WorkerClosed, WorkerCancelled
    <3>6. CASE WorkerWriteFails
      BY <3>1, <3>6 DEF WorkerWriteFails
    <3> QED BY <1>5, <3>4, <3>5, <3>6 DEF Worker
  <2> QED BY <1>1, <1>2, <1>3, <2>1, <2>2
<1>6. ASSUME NEW c \in Clients, DeviceDisconnected(c) PROVE HandshakeWay
  <2> DEFINE f == Joined(pc, unfinished - Len(queue))
  <2>1. /\ f \in [Procs -> Awaits]
        /\ \A q \in Procs : f[q] # pc[q] => pc[q] = "join" /\ f[q] = "joined"
    BY <1>1, JoinedFacts
  <2>2. pc' = f /\ ~connected' /\ client' = NoClient /\ UNCHANGED <<aim, own, heard>>
    BY <1>6 DEF DeviceDisconnected, locals
  <2> HIDE DEF f
  <2>3. \A q \in Procs : Stays(q)
    BY <2>1, <2>2 DEF Stays
  <2>4. WorkerAims
    BY <2>2, <2>3 DEF WorkerAims, Stays
  <2> QED BY <1>2, <1>3, <2>2, <2>3, <2>4
<1> QED BY <1>4, <1>5, <1>6

LEMMA NextHandshake ==
    ASSUME IInv, Turnover, Shaken, [Next]_vars
    PROVE  HandshakeWay
<1>1. CASE \E p \in Callers : CallerResumes(p) \/ CallerCalls(p)
  BY <1>1, CallerHandshake
<1>2. CASE \/ Heartbeat \/ Worker
           \/ \E c \in Clients : DeviceDisconnected(c)
  BY <1>2, OtherHandshake
<1>3. CASE CooldownPasses \/ (\E c \in Clients : LinkDrops(c)) \/ UNCHANGED vars
  <2>1. UNCHANGED <<connected, client, pc, aim, own, heard>>
    BY <1>3 DEF CooldownPasses, LinkDrops, vars, session, control, locals, radio
  <2> QED BY <2>1 DEF HandshakeWay, WorkerAims, KeepsClients, NoNewAim
<1> QED BY <1>1, <1>2, <1>3 DEF Next, Backend

LEMMA InitShaken == Init => Shaken
  BY ProcsFacts DEF Init, Shaken, OwnClient, ConnectedHeard, HandshakeFirst, Handshake, Tasks,
     Procs

LEMMA ShakenStep ==
    IInv /\ IInv' /\ Turnover /\ Shaken /\ OneConnect /\ [Next]_vars => Shaken'
  BY NextHandshake, WayShaken DEF IInv

\* Under the same discipline, the worker writes only to a client whose scale
\* had the auth and the notification request of connect(), also where a session
\* ended and another began since the command was queued.
THEOREM HandshakeBeforeCommands == Spec /\ []OneConnect => []HandshakeFirst
<1>1. Shaken => HandshakeFirst
  BY DEF Shaken
<1> QED BY <1>1, InitIInv, NextIInv, InitTurnover, TurnoverStep, InitShaken, ShakenStep, PTL
        DEF Spec

\* Under the same discipline, the except clause of connect(), which closes
\* self._client, closes the client that this connect() made.
THEOREM RollbackClosesOwn == Spec /\ []OneConnect => []RollbackClosesOwnClient
<1>1. Shaken => RollbackClosesOwnClient
  BY DEF Shaken, OwnClient, RollbackClosesOwnClient
<1> QED BY <1>1, InitIInv, NextIInv, InitTurnover, TurnoverStep, InitShaken, ShakenStep, PTL
        DEF Spec

-----------------------------------------------------------------------------
(* disconnect() by itself.                                                   *)

\* While a disconnect() runs the application awaits nothing but disconnect():
\* a connect() that gives up may still be closing its client.
DisconnectAlone ==
    \A p, q \in Callers : pc[p] \in DisconnectAwaits /\ p # q =>
        pc[q] \in DisconnectAwaits \cup {"idle", "rollback"}

\* auth() puts its command without a connection: it is not called in between.
NoAuthBetween == "auth" \notin Calls \/ \A p, q \in Callers : p = q

\* disconnect() waits for every task it left running, and finds no command
\* unacknowledged when they have ended: its join() never waits.
Leaving(p) ==
    pc[p] \in DisconnectAwaits =>
      /\ ~connected
      /\ pc[p] \in {"gather", "closing"}
      /\ pc[p] = "gather" => Pending \subseteq gather[p] /\ Pending \subseteq cancelled
      /\ pc[p] = "closing" => Pending = {} /\ queue = <<>> /\ unfinished = 0 /\ client = NoClient

Leaves == \A p \in Callers : Leaving(p)

\* A step that p, in its disconnect(), does not see.
Unseen(p) ==
    /\ connected' => connected
    /\ \A t \in Pending' : /\ t \in Pending
                           /\ pc[p] = "gather" /\ t \in gather[p] => t \in gather'[p]
                           /\ t \in cancelled => t \in cancelled'
    /\ Pending = {} /\ queue = <<>> /\ unfinished = 0 => queue' = <<>> /\ unfinished' = 0
    /\ client' \in {client, NoClient}

LEMMA UnseenLeaving ==
    ASSUME NEW p \in Callers, Leaving(p), pc'[p] = pc[p], Unseen(p)
    PROVE  Leaving(p)'
  BY DEF Leaving, Unseen

\* The tasks do nothing in a step of caller q but in the last one of connect().
LEMMA TasksStand ==
    ASSUME NEW q \in Callers, \A r \in Procs : r # q => Stays(r)
    PROVE  Pending' = Pending
  BY CallersAssumption DEF Pending, Stays, Procs

\* Nothing is put but by a task, or by a caller that has the lock or takes it.
LEMMA DrainUnseen ==
    ASSUME Store, NEW q \in Callers, DrainAndJoin(q)
    PROVE  /\ queue = <<>> /\ unfinished = 0 => queue' = <<>> /\ unfinished' = 0
           /\ client' \in {client, NoClient}
           /\ Pending' = Pending
  BY DrainMoves, TasksStand DEF DrainAndJoin, CloseClient

\* A step of another caller.
LEMMA CallerUnseen ==
    ASSUME IInv, NoAuthBetween, DisconnectAlone, DisconnectAlone', Leaves,
           NEW p \in Callers, pc[p] \in DisconnectAwaits, pc'[p] = pc[p],
           NEW q \in Callers, q # p, CallerResumes(q) \/ CallerCalls(q)
    PROVE  Unseen(p)
<1> USE ProcsFacts
<1>1. /\ pc[q] \in DisconnectAwaits \cup {"idle", "rollback"}
      /\ pc'[q] \in DisconnectAwaits \cup {"idle", "rollback"}
      /\ ~connected
  BY DEF DisconnectAlone, Leaves, Leaving
<1>2. /\ pc \in [Procs -> Awaits] /\ gather \in [Callers -> SUBSET Tasks]
  BY DEF IInv, Store, StoreType, RestType
<1>3. ~BeginConnect(q, "command") /\ ~Connect(q) /\ ~SendCommand(q)
  <2>1. \A j : ~BeginConnect(q, j)
    BY <1>1, <1>2 DEF BeginConnect, AfterCooldown, DisconnectAwaits
  <2> QED BY <1>1, <2>1 DEF Connect, SendCommand
<1>4. ~Auth(q)
  BY DEF NoAuthBetween, Auth
<1>5. CASE RolledBack(q) \/ DisconnectReturns(q) \/ CancelCall(q)
  <2>1. /\ pc' = [pc EXCEPT ![q] = "idle"]
        /\ UNCHANGED <<connected, client, queue, unfinished, cancelled>>
        /\ gather' = gather \/ gather' = [gather EXCEPT ![q] = {}]
    BY <1>1, <1>5 DEF RolledBack, DisconnectReturns, CancelCall, DisconnectAwaits, session, store
  <2>2. Pending' = Pending
    BY <1>2, <2>1, TasksStand DEF Stays
  <2> QED BY <1>2, <2>1, <2>2 DEF Unseen
<1>6. CASE Gathered(q)
  BY <1>6, DrainUnseen DEF Gathered, Unseen, IInv
<1>7. CASE JoinReturns(q)
  <2>1. Pending' = Pending
    BY <1>2, <1>7, TasksStand DEF JoinReturns, CloseClient, Stays
  <2> QED BY <1>7, <2>1 DEF JoinReturns, CloseClient, Unseen, store
<1>8. CASE Disconnect(q)
  <2>1. /\ ~connected' /\ cancelled' = cancelled \cup Pending
        /\ gather' = [gather EXCEPT ![q] = Pending]
    BY <1>8 DEF Disconnect
  <2>2. CASE DrainAndJoin(q)
    BY <1>2, <2>1, <2>2, DrainUnseen DEF Unseen, IInv
  <2>3. CASE /\ queue' = <<>> /\ unfinished' = unfinished - Len(queue)
             /\ UNCHANGED client
    <3>1. Pending' = Pending
      BY <1>8, DisconnectMoves, TasksStand DEF IInv
    <3> QED BY <1>2, <2>1, <2>3, <3>1 DEF Unseen
  <2> QED BY <1>8, <2>2, <2>3 DEF Disconnect
<1> QED BY <1>1, <1>3, <1>4, <1>5, <1>6, <1>7, <1>8
        DEF CallerResumes, CallerCalls, DisconnectAwaits, CooldownSlept, ScanFinds, ConnectFails,
            Established, NotifyStarted, AuthWritten, Subscribed, HandshakeFails, LockAcquired,
            PutResumes

\* A step of a task that runs, or of the backend.
LEMMA TaskUnseen ==
    ASSUME IInv, NEW p \in Callers, NEW t \in Tasks, pc[t] \notin {"none", "done"},
           \A q \in Procs : q # t => Stays(q),
           connected' => connected, client' \in {client, NoClient},
           \/ cancelled \subseteq cancelled' /\ gather' = gather
           \/ /\ pc'[t] = "done"
              /\ cancelled \ {t} \subseteq cancelled'
              /\ gather' = [q \in Callers |-> gather[q] \ {t}]
    PROVE  Unseen(p)
<1>1. Tasks \subseteq Procs /\ t \in Pending
  BY DEF Procs, Pending
<1>2. Pending' \subseteq Pending /\ (pc'[t] = "done" => t \notin Pending')
  BY <1>1 DEF Pending, Stays
<1> QED BY <1>1, <1>2 DEF Unseen

LEMMA BackendUnseen ==
    ASSUME IInv, NEW p \in Callers, Heartbeat \/ Worker \/ Backend \/ UNCHANGED vars
    PROVE  Unseen(p)
<1> USE ProcsFacts
<1>0. /\ pc \in [Procs -> Awaits] /\ Tasks \subseteq Procs
      /\ "heartbeat" \in Tasks /\ "worker" \in Tasks
  BY DEF IInv, Store, StoreType, Procs, Tasks
<1>1. CASE Heartbeat /\ ~HeartbeatCancelled
  <2>1. /\ pc["heartbeat"] \in {"new", "sleep", "lock", "put"}
        /\ connected' = connected /\ client' = client
    BY <1>1 DEF Heartbeat, HeartbeatWakes, LockAcquired, PutResumes, session
  <2>2. CASE /\ cancelled' = cancelled /\ gather' = gather
             /\ \E cmds, w : Enqueue("heartbeat", pc, cmds) \/ Puts("heartbeat", pc, cmds, w)
    <3>1. \A q \in Procs : q # "heartbeat" => pc'[q] = pc[q]
      BY <2>2, EnqueueMoves DEF IInv
    <3> QED BY <1>0, <2>1, <2>2, <3>1, TaskUnseen DEF Stays
  <2>3. CASE Ended("heartbeat") /\ pc' = [pc EXCEPT !["heartbeat"] = "done"]
    BY <1>0, <2>1, <2>3, TaskUnseen DEF Ended, Stays
  <2> QED BY <1>1, <2>2, <2>3 DEF Heartbeat, HeartbeatWakes, LockAcquired, PutResumes
<1>2. CASE HeartbeatCancelled
  <2>1. /\ pc["heartbeat"] \in {"lock", "put", "new", "sleep"}
        /\ connected' => connected
        /\ client' = client /\ Ended("heartbeat")
        /\ pc' = [pc EXCEPT !["heartbeat"] = "done"]
    BY <1>2 DEF HeartbeatCancelled
  <2> QED BY <1>0, <2>1, TaskUnseen DEF Ended, Stays
<1>3. ASSUME NEW others, WriteError(others), pc["worker"] \notin {"none", "done"}
      PROVE  Unseen(p)
  <2>1. /\ pc'["worker"] = IF client = NoClient THEN "done" ELSE "closing"
        /\ \A q \in Procs : q # "worker" => Stays(q)
    BY <1>3, WriteErrorMoves DEF IInv
  <2>2. ~connected' /\ client' = NoClient
    BY <1>3 DEF WriteError, CloseClient
  <2>3. \/ client = NoClient /\ cancelled \ {"worker"} \subseteq cancelled'
           /\ gather' = [q \in Callers |-> gather[q] \ {"worker"}]
        \/ client # NoClient /\ cancelled \subseteq cancelled' /\ gather' = gather
    BY <1>3 DEF WriteError
  <2> QED BY <1>0, <1>3, <2>1, <2>2, <2>3, TaskUnseen
<1>4. ASSUME NEW a, NEW n, pc["worker"] \notin {"none", "done"},
             \/ pc' = [pc EXCEPT !["worker"] = a]
             \/ pc' = [Joined(pc, n) EXCEPT !["worker"] = a],
             connected' => connected, client' = client,
             \/ cancelled' = cancelled /\ gather' = gather
             \/ a = "done" /\ Ended("worker")
      PROVE  Unseen(p)
  <2>1. pc'["worker"] = a /\ \A q \in Procs : q # "worker" => Stays(q)
    BY <1>4, WorkerMoves DEF IInv
  <2>2. \/ cancelled \subseteq cancelled' /\ gather' = gather
        \/ /\ pc'["worker"] = "done"
           /\ cancelled \ {"worker"} \subseteq cancelled'
           /\ gather' = [q \in Callers |-> gather[q] \ {"worker"}]
    BY <1>4, <2>1 DEF Ended
  <2> QED BY <1>0, <1>4, <2>1, <2>2, TaskUnseen
<1>5. CASE WorkerLoops \/ WorkerTakes
  <2>1. pc["worker"] \notin {"none", "done"}
    BY <1>5 DEF WorkerLoops, WorkerTakes
  <2> QED BY <1>3, <1>4, <1>5, <2>1 DEF WorkerLoops, WorkerTakes, TakeCommand, session
<1>6. CASE WorkerWrote \/ WorkerClosed \/ WorkerCancelled
  BY <1>4, <1>6 DEF WorkerWrote, WorkerClosed, WorkerCancelled, session
<1>7. CASE WorkerWriteFails
  BY <1>3, <1>7 DEF WorkerWriteFails
<1>8. ASSUME NEW c \in Clients, DeviceDisconnected(c) PROVE Unseen(p)
  <2> DEFINE f == Joined(pc, unfinished - Len(queue))
  <2>1. /\ f \in [Procs -> Awaits]
        /\ \A q \in Procs : f[q] # pc[q] => pc[q] = "join" /\ f[q] = "joined"
    BY <1>0, JoinedFacts
  <2>2. /\ pc' = f /\ ~connected' /\ client' = NoClient /\ cancelled \subseteq cancelled'
        /\ queue' = <<>> /\ unfinished' = unfinished - Len(queue) /\ gather' = gather
    BY <1>8 DEF DeviceDisconnected
  <2> HIDE DEF f
  <2>3. Pending' = Pending
    BY <1>0, <2>1, <2>2 DEF Pending
  <2> QED BY <2>2, <2>3 DEF Unseen
<1>9. CASE CooldownPasses \/ (\E c \in Clients : LinkDrops(c)) \/ UNCHANGED vars
  <2>1. UNCHANGED <<connected, client, queue, unfinished, pc, cancelled, gather>>
    BY <1>9 DEF CooldownPasses, LinkDrops, vars, session, control, store
  <2> QED BY <2>1 DEF Unseen, Pending
<1> QED BY <1>1, <1>2, <1>5, <1>6, <1>7, <1>8, <1>9 DEF Worker, Backend

\* p begins disconnect(), or goes on with it.
LEMMA DrainLeaving ==
    ASSUME IInv, NEW p \in Callers, DrainAndJoin(p), Pending = {}, ~connected'
    PROVE  Leaving(p)'
<1> USE ProcsFacts
<1>1. pc["worker"] # "write" /\ Len(queue) \in Nat
  <2>1. pc["worker"] \in {"none", "done"}
    BY DEF Pending, Tasks
  <2>2. Len(queue) \in Nat
    BY DEF IInv, Store, StoreType
  <2> QED BY <2>1, <2>2
<1>2. unfinished - Len(queue) = 0
  BY <1>1 DEF IInv, Store, QueueAccounting
<1>3. /\ queue' = <<>> /\ unfinished' = 0 /\ client' = NoClient
      /\ CloseClient(p, Joined(pc, 0), "closing", "idle")
  BY <1>2 DEF DrainAndJoin, CloseClient
<1>4. pc'[p] \in {"closing", "idle"}
  BY <1>3, JoinedFacts DEF CloseClient, IInv, Store, StoreType
<1>5. Pending' = {}
  BY DrainMoves, TasksStand DEF IInv
<1> QED BY <1>3, <1>4, <1>5 DEF Leaving, DisconnectAwaits

LEMMA OwnLeaving ==
    ASSUME IInv, Leaves, NEW p \in Callers, CallerResumes(p) \/ CallerCalls(p)
    PROVE  Leaving(p)'
<1> USE ProcsFacts
<1>0. pc \in [Procs -> Awaits] /\ gather \in [Callers -> SUBSET Tasks]
  BY DEF IInv, Store, StoreType, RestType
<1>1. CASE pc'[p] \notin DisconnectAwaits
  BY <1>1 DEF Leaving
<1>2. CASE Gathered(p)
  <2>1. ~connected' /\ Pending = {}
    BY <1>2 DEF Gathered, Leaves, Leaving, DisconnectAwaits
  <2> QED BY <1>2, <2>1, DrainLeaving DEF Gathered
<1>3. CASE JoinReturns(p)
  BY <1>3 DEF JoinReturns, Leaves, Leaving, DisconnectAwaits
<1>4. CASE Disconnect(p)
  <2>1. /\ ~connected' /\ cancelled' = cancelled \cup Pending
        /\ gather' = [gather EXCEPT ![p] = Pending]
    BY <1>4 DEF Disconnect
  <2>2. CASE Pending = {} /\ DrainAndJoin(p)
    BY <2>1, <2>2, DrainLeaving
  <2>3. CASE pc' = [Joined(pc, unfinished - Len(queue)) EXCEPT ![p] = "gather"]
    <3> DEFINE f == Joined(pc, unfinished - Len(queue))
    <3>1. /\ f \in [Procs -> Awaits]
          /\ \A r \in Procs : f[r] # pc[r] => pc[r] = "join" /\ f[r] = "joined"
      BY <1>0, JoinedFacts
    <3>2. pc' = [f EXCEPT ![p] = "gather"]
      BY <2>3
    <3> HIDE DEF f
    <3>3. Pending' = Pending /\ pc'[p] = "gather"
      BY <3>1, <3>2, TasksStand DEF Stays
    <3> QED BY <1>0, <2>1, <3>3 DEF Leaving
  <2> QED BY <1>4, <2>2, <2>3 DEF Disconnect
<1> QED BY <1>1, <1>2, <1>3, <1>4, CallerMoves

\* A step of a task or of the backend moves no caller, save to wake it from the join().
LEMMA TaskStands ==
    ASSUME IInv, NEW p \in Callers, Heartbeat \/ Worker \/ Backend \/ UNCHANGED vars
    PROVE  Stays(p)
<1> USE ProcsFacts
<1>1. CASE Heartbeat
  <2>1. \/ \E cmds, w : Enqueue("heartbeat", pc, cmds) \/ Puts("heartbeat", pc, cmds, w)
        \/ pc' = [pc EXCEPT !["heartbeat"] = "done"]
    BY <1>1 DEF Heartbeat, HeartbeatWakes, LockAcquired, PutResumes, HeartbeatCancelled
  <2> QED BY <2>1, EnqueueMoves DEF IInv, Store, StoreType, Stays
<1>2. ASSUME NEW others, WriteError(others) PROVE Stays(p)
  BY <1>2, WriteErrorMoves DEF IInv
<1>3. ASSUME NEW a, NEW n,
             \/ pc' = [pc EXCEPT !["worker"] = a]
             \/ pc' = [Joined(pc, n) EXCEPT !["worker"] = a]
      PROVE  Stays(p)
  BY <1>3, WorkerMoves DEF IInv
<1>4. CASE Worker
  BY <1>2, <1>3, <1>4 DEF Worker, WorkerLoops, WorkerTakes, TakeCommand, WorkerWrote,
     WorkerWriteFails, WorkerClosed, WorkerCancelled
<1>5. CASE \E c \in Clients : DeviceDisconnected(c)
  <2> DEFINE f == Joined(pc, unfinished - Len(queue))
  <2>1. pc \in [Procs -> Awaits]
    BY DEF IInv, Store, StoreType
  <2>2. \A q \in Procs : f[q] # pc[q] => pc[q] = "join" /\ f[q] = "joined"
    BY <2>1, JoinedFacts
  <2>3. pc' = f
    BY <1>5 DEF DeviceDisconnected
  <2> HIDE DEF f
  <2> QED BY <2>2, <2>3 DEF Stays
<1>6. CASE CooldownPasses \/ (\E c \in Clients : LinkDrops(c)) \/ UNCHANGED vars
  BY <1>6 DEF CooldownPasses, LinkDrops, vars, control, Stays
<1> QED BY <1>1, <1>4, <1>5, <1>6 DEF Backend

LEMMA LeavesStep ==
    IInv /\ NoAuthBetween /\ DisconnectAlone /\ DisconnectAlone' /\ Leaves /\ [Next]_vars
      => Leaves'
<1> SUFFICES ASSUME IInv, NoAuthBetween, DisconnectAlone, DisconnectAlone', Leaves, [Next]_vars,
                    NEW p \in Callers
             PROVE  Leaving(p)'
  BY DEF Leaves
<1>1. ASSUME Unseen(p), Stays(p) PROVE Leaving(p)'
  <2>1. CASE pc'[p] = pc[p]
    BY <1>1, <2>1, UnseenLeaving DEF Leaves
  <2>2. CASE pc[p] = "join"
    BY <2>2 DEF Leaves, Leaving, DisconnectAwaits
  <2> QED BY <1>1, <2>1, <2>2 DEF Stays
<1>2. CASE Heartbeat \/ Worker \/ Backend \/ UNCHANGED vars
  BY <1>1, <1>2, BackendUnseen, TaskStands
<1>3. CASE CallerResumes(p) \/ CallerCalls(p)
  BY <1>3, OwnLeaving
<1>4. ASSUME NEW q \in Callers, q # p, CallerResumes(q) \/ CallerCalls(q) PROVE Leaving(p)'
  <2>1. Stays(p)
    BY <1>4, CallerMoves, ProcsFacts, CallersAssumption
  <2>2. CASE pc'[p] \in DisconnectAwaits
    <3>1. pc'[p] = pc[p]
      BY <2>1, <2>2 DEF Stays, Leaves, Leaving, DisconnectAwaits
    <3> QED BY <1>1, <1>4, <2>1, <2>2, <3>1, CallerUnseen
  <2> QED BY <2>2 DEF Leaving
<1> QED BY <1>2, <1>3, <1>4 DEF Next

\* Called by itself, disconnect() has ended both tasks, emptied the queue,
\* acknowledged every command and let go of the client by the time it waits for
\* the link to close, whatever callbacks, failures and cancellations come in
\* between; no join() is left waiting.
THEOREM DisconnectsCleanly ==
    ASSUME NoAuthBetween
    PROVE  Spec /\ []DisconnectAlone => []DisconnectIsClean
<1>1. Init => Leaves
  BY ProcsFacts, CallersAssumption DEF Init, Leaves, Leaving, DisconnectAwaits, Procs
<1>2. Leaves => DisconnectIsClean
  BY DEF Leaves, Leaving, DisconnectIsClean, DisconnectAwaits
<1> QED BY <1>1, <1>2, LeavesStep, InitIInv, NextIInv, PTL DEF Spec

-----------------------------------------------------------------------------
(* One caller.                                                               *)

\* An application that makes one call at a time needs no further discipline:
\* after any calls, cancelled anywhere, in any order, all four hold.
THEOREM OneCallerAtATime ==
    ASSUME \A p, q \in Callers : p = q
    PROVE  Spec => /\ []QuietWhenDisconnected /\ []HandshakeFirst
                   /\ []RollbackClosesOwnClient /\ []DisconnectIsClean
<1>1. OneConnect /\ DisconnectAlone
  BY DEF OneConnect, DisconnectAlone
<1>2. NoAuthBetween
  BY DEF NoAuthBetween
<1>3. Spec /\ []DisconnectAlone => []DisconnectIsClean
  BY <1>2, DisconnectsCleanly
<1> QED BY <1>1, <1>3, QuietOnceDisconnected, HandshakeBeforeCommands, RollbackClosesOwn, PTL

=============================================================================
