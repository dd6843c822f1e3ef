------------------------ MODULE ScaleConnectionProofs ------------------------
(***************************************************************************)
(* For every number of callers and clients, every queue size and every     *)
(* choice of calls: ScaleConnection keeps its types, acknowledges every    *)
(* queued command exactly once and keeps the discipline of the queue lock. *)
(*                                                                         *)
(* None of the three is inductive alone.  The count of unfinished tasks    *)
(* stays a natural number because of the accounting; Tail(lock) is a       *)
(* sequence because a process that has the lock is in it; a put adds what  *)
(* it counts because the queue is never over its size; and a link closes   *)
(* only for a client that exists because a process that awaits a BLE call  *)
(* aims at one.  IInv is the conjunction.                                  *)
(***************************************************************************)
EXTENDS ScaleConnection, SequenceTheorems, TLAPS

USE CallersAssumption, MaxClientsAssumption, QueueSizeAssumption

\* The conjuncts of TypeOK that the command path writes, and the others.
StoreType ==
    /\ queue \in Seq(Commands)
    /\ unfinished \in Nat
    /\ lock \in Seq(Procs)
    /\ left \in [Procs -> Seq(Commands)]
    /\ pc \in [Procs -> Awaits]

RestType ==
    /\ connected \in BOOLEAN
    /\ client \in Clients \cup {NoClient}
    /\ lastDisconnect \in Nat
    /\ cooled \in Nat
    /\ resolved \in BOOLEAN
    /\ cancelled \in SUBSET Tasks
    /\ gather \in [Callers -> SUBSET Tasks]
    /\ job \in [Callers -> ApiCalls \cup {"none"}]
    /\ until \in [Callers -> Nat]
    /\ own \in [Callers -> Clients \cup {NoClient}]
    /\ aim \in [Procs -> Clients \cup {NoClient}]
    /\ links \in [Clients -> {"none", "up", "closing", "unclosed", "down"}]
    /\ established \in 0..MaxClients
    /\ due \in SUBSET Clients
    /\ heard \in [Clients -> SUBSET {"auth", "subscribe"}]

QueueBound == Len(queue) <= QueueSize

AimOK == \A p \in Procs : pc[p] \in BleAwaits => aim[p] \in Clients

Store == StoreType /\ QueueAccounting /\ QueueBound /\ LockDiscipline

IInv == Store /\ RestType /\ AimOK

\* p moves from g[p] to f[p] without entering or leaving the lock.
SameLockUse(f, g) ==
    \A p \in Procs : f[p] # g[p] => f[p] \notin {"lock", "put"} /\ g[p] \notin {"lock", "put"}

\* The control points f move no process but p into or out of the lock or a write.
OthersStay(p, f) ==
    \A q \in Procs : q # p /\ f[q] # pc[q] =>
        f[q] \notin {"lock", "put", "write"} /\ pc[q] \notin {"lock", "put", "write"}

\* The sequence w has the processes other than p that hold or await the lock,
\* each once, and none of them is in a put.
Waiters(p, w) ==
    /\ \A i, j \in 1..Len(w) : w[i] = w[j] => i = j
    /\ \A q \in Procs : (q # p /\ pc[q] \in {"lock", "put"}) <=> \E i \in 1..Len(w) : w[i] = q
    /\ \A q \in Procs : q # p => pc[q] # "put"

-----------------------------------------------------------------------------
LEMMA TypeSplit == TypeOK <=> StoreType /\ RestType
  BY DEF TypeOK, StoreType, RestType

LEMMA ProcsFacts ==
    /\ "heartbeat" \in Procs /\ "worker" \in Procs
    /\ \A p \in Callers : p \in Procs /\ p # "heartbeat" /\ p # "worker"
  BY DEF Procs, Tasks

\* The initial states.
LEMMA InitIInv == Init => IInv
<1> SUFFICES ASSUME Init PROVE IInv
  OBVIOUS
<1>1. StoreType
  <2>1. pc \in [Procs -> Awaits]
    BY DEF Init, Awaits, CallerAwaits, TaskAwaits
  <2> QED BY <2>1 DEF Init, StoreType
<1>2. RestType
  <2>1. established \in 0..MaxClients
    BY DEF Init
  <2> QED BY <2>1 DEF Init, RestType
<1>3. QueueAccounting /\ QueueBound
  BY DEF Init, QueueAccounting, QueueBound, Procs, Tasks
<1>4. LockDiscipline
  BY DEF Init, LockDiscipline, Procs, Tasks
<1>5. AimOK
  BY DEF Init, AimOK, BleAwaits, Procs, Tasks
<1> QED BY <1>1, <1>2, <1>3, <1>4, <1>5 DEF IInv, Store

-----------------------------------------------------------------------------
(* Sequences.                                                                *)

\* A sequence without its i-th element.
LEMMA RemoveAtFacts ==
    ASSUME NEW S, NEW s \in Seq(S), NEW i \in 1..Len(s)
    PROVE  /\ RemoveAt(s, i) \in Seq(S)
           /\ Len(RemoveAt(s, i)) = Len(s) - 1
           /\ \A j \in 1..(Len(s) - 1) :
                RemoveAt(s, i)[j] = IF j < i THEN s[j] ELSE s[j + 1]
<1> DEFINE a == SubSeq(s, 1, i - 1)
           b == SubSeq(s, i + 1, Len(s))
<1>1. Len(s) \in Nat /\ \A j \in 1..Len(s) : s[j] \in S
  OBVIOUS
<1>2. a \in Seq(S) /\ Len(a) = i - 1 /\ \A j \in 1..(i - 1) : a[j] = s[j]
  <2>1. \A j \in 1..(i - 1) : s[j] \in S
    BY <1>1
  <2> QED BY <1>1, <2>1, SubSeqProperties
<1>3. b \in Seq(S) /\ Len(b) = Len(s) - i /\ \A j \in 1..(Len(s) - i) : b[j] = s[j + i]
  <2>1. \A j \in (i + 1)..Len(s) : s[j] \in S
    BY <1>1
  <2>2. /\ b \in Seq(S)
        /\ Len(b) = IF i + 1 <= Len(s) THEN Len(s) - (i + 1) + 1 ELSE 0
        /\ \A j \in 1..(Len(s) - (i + 1) + 1) : b[j] = s[i + 1 + j - 1]
    BY <1>1, <2>1, SubSeqProperties
  <2> QED BY <1>1, <2>2
<1>4. /\ a \o b \in Seq(S)
      /\ Len(a \o b) = Len(a) + Len(b)
      /\ \A j \in 1..(Len(a) + Len(b)) :
           (a \o b)[j] = IF j <= Len(a) THEN a[j] ELSE b[j - Len(a)]
  BY <1>2, <1>3, ConcatProperties
<1>5. RemoveAt(s, i) = a \o b
  BY DEF RemoveAt
<1> HIDE DEF a, b
<1>6. ASSUME NEW j \in 1..(Len(s) - 1)
      PROVE  (a \o b)[j] = IF j < i THEN s[j] ELSE s[j + 1]
  <2>1. CASE j < i
    BY <2>1, <1>1, <1>2, <1>3, <1>4
  <2>2. CASE ~(j < i)
    <3>1. (a \o b)[j] = b[j - (i - 1)] /\ j - (i - 1) \in 1..(Len(s) - i)
      BY <2>2, <1>1, <1>2, <1>3, <1>4
    <3>2. b[j - (i - 1)] = s[j - (i - 1) + i]
      BY <3>1, <1>3
    <3> QED BY <2>2, <3>1, <3>2, <1>1
  <2> QED BY <2>1, <2>2
<1> QED BY <1>1, <1>2, <1>3, <1>4, <1>5, <1>6

\* A prefix and the suffix that follows it.
LEMMA SplitFacts ==
    ASSUME NEW S, NEW s \in Seq(S), NEW n \in 0..Len(s)
    PROVE  /\ SubSeq(s, 1, n) \in Seq(S) /\ Len(SubSeq(s, 1, n)) = n
           /\ SubSeq(s, n + 1, Len(s)) \in Seq(S)
<1>1. Len(s) \in Nat
  OBVIOUS
<1>2. SubSeq(s, 1, n) \in Seq(S) /\ Len(SubSeq(s, 1, n)) = n
  BY <1>1
<1>3. SubSeq(s, n + 1, Len(s)) \in Seq(S)
  BY <1>1
<1> QED BY <1>2, <1>3

-----------------------------------------------------------------------------
(* Steps of the command path.                                                *)

\* The processes that move neither enter nor leave the lock, and the queue
\* only shrinks.
LEMMA StoreStep ==
    ASSUME Store,
           lock' = lock, left' = left,
           pc' \in [Procs -> Awaits], SameLockUse(pc', pc),
           queue' \in Seq(Commands), Len(queue') <= Len(queue),
           unfinished' = Len(queue') + (IF pc'["worker"] = "write" THEN 1 ELSE 0)
    PROVE  Store'
<1>1. StoreType'
  BY DEF Store, StoreType
<1>2. QueueAccounting'
  BY DEF QueueAccounting
<1>3. QueueBound'
  BY DEF Store, StoreType, QueueBound
<1>4. LockDiscipline'
  BY DEF Store, LockDiscipline, SameLockUse
<1> QED BY <1>1, <1>2, <1>3, <1>4 DEF Store

\* p leaves the lock, the others stay where they are.
LEMMA LeaveStep ==
    ASSUME Store, NEW p \in Procs, LeaveLock(p), NEW a \in Awaits, a \notin {"lock", "put", "write"},
           p # "worker", pc' = [pc EXCEPT ![p] = a],
           queue' = queue, unfinished' = unfinished
    PROVE  Store'
<1> USE ProcsFacts
<1>1. PICK i \in 1..Len(lock) : /\ lock[i] = p
                                /\ lock' = RemoveAt(lock, i)
                                /\ left' = [left EXCEPT ![p] = <<>>]
  BY DEF LeaveLock
<1>2. /\ lock' \in Seq(Procs)
      /\ Len(lock') = Len(lock) - 1
      /\ \A j \in 1..(Len(lock) - 1) : lock'[j] = IF j < i THEN lock[j] ELSE lock[j + 1]
  BY <1>1, RemoveAtFacts DEF Store, StoreType
<1>3. StoreType'
  BY <1>1, <1>2 DEF Store, StoreType
<1>4. QueueAccounting' /\ QueueBound'
  BY DEF Store, StoreType, QueueAccounting, QueueBound
<1>5. LockDiscipline'
  <2>1. Len(lock) \in Nat
    BY DEF Store, StoreType
  <2>2. \A j, k \in 1..Len(lock') : lock'[j] = lock'[k] => j = k
    BY <1>1, <1>2, <2>1 DEF Store, LockDiscipline
  <2>3. \A q \in Procs : pc'[q] \in {"lock", "put"} <=> \E j \in 1..Len(lock') : lock'[j] = q
    <3> SUFFICES ASSUME NEW q \in Procs
                 PROVE  pc'[q] \in {"lock", "put"} <=> \E j \in 1..Len(lock') : lock'[j] = q
      OBVIOUS
    <3>1. CASE q = p
      <4>1. pc'[q] \notin {"lock", "put"}
        BY <3>1 DEF Store, StoreType
      <4>2. ASSUME NEW j \in 1..Len(lock'), lock'[j] = q PROVE FALSE
        <5>1. CASE j < i
          <6>1. lock[j] = lock[i] /\ j \in 1..Len(lock)
            BY <5>1, <4>2, <3>1, <1>1, <1>2, <2>1
          <6> QED BY <6>1, <5>1 DEF Store, LockDiscipline
        <5>2. CASE ~(j < i)
          <6>1. lock[j + 1] = lock[i] /\ j + 1 \in 1..Len(lock)
            BY <5>2, <4>2, <3>1, <1>1, <1>2, <2>1
          <6> QED BY <6>1, <5>2, <2>1 DEF Store, LockDiscipline
        <5> QED BY <5>1, <5>2
      <4> QED BY <4>1, <4>2
    <3>2. CASE q # p
      <4>1. pc'[q] = pc[q]
        BY <3>2 DEF Store, StoreType
      <4>2. ASSUME NEW j \in 1..Len(lock), lock[j] = q
            PROVE  \E k \in 1..Len(lock') : lock'[k] = q
        <5>1. CASE j < i
          <6>1. j \in 1..Len(lock') /\ lock'[j] = q
            BY <5>1, <4>2, <1>2, <2>1
          <6> QED BY <6>1
        <5>2. CASE j > i
          <6>1. j - 1 \in 1..Len(lock')
            BY <5>2, <1>2, <2>1
          <6>2. lock'[j - 1] = q
            BY <5>2, <4>2, <1>2, <2>1, <6>1
          <6> QED BY <6>1, <6>2
        <5> QED BY <5>1, <5>2, <4>2, <3>2, <1>1, <2>1
      <4>3. ASSUME NEW k \in 1..Len(lock'), lock'[k] = q
            PROVE  \E j \in 1..Len(lock) : lock[j] = q
        BY <4>3, <1>2, <2>1
      <4> QED BY <4>1, <4>2, <4>3 DEF Store, LockDiscipline
    <3> QED BY <3>1, <3>2
  <2>4. \A q \in Procs : pc'[q] = "put" => lock'[1] = q
    <3> SUFFICES ASSUME NEW q \in Procs, pc'[q] = "put" PROVE lock'[1] = q
      OBVIOUS
    <3>1. q # p /\ pc[q] = "put"
      BY DEF Store, StoreType
    <3>2. lock[1] = q /\ \E j \in 1..Len(lock) : lock[j] = q
      BY <3>1 DEF Store, LockDiscipline
    <3>3. i # 1 /\ 1 \in 1..(Len(lock) - 1)
      BY <3>1, <3>2, <1>1, <2>1
    <3> QED BY <3>2, <3>3, <1>2, <2>1
  <2> QED BY <2>2, <2>3, <2>4 DEF LockDiscipline
<1> QED BY <1>3, <1>4, <1>5 DEF Store

\* The commands that fit go to the end of the queue.
LEMMA AppendedFacts ==
    ASSUME NEW s \in Seq(Commands), NEW c \in Seq(Commands), NEW n \in 0..Len(c)
    PROVE  s \o SubSeq(c, 1, n) \in Seq(Commands) /\ Len(s \o SubSeq(c, 1, n)) = Len(s) + n
<1> DEFINE a == SubSeq(c, 1, n)
<1>1. a \in Seq(Commands) /\ Len(a) = n
  BY SplitFacts
<1> HIDE DEF a
<1>2. s \o a \in Seq(Commands) /\ Len(s \o a) = Len(s) + n
  BY <1>1, ConcatProperties
<1> QED BY <1>2 DEF a

\* p, whose turn it is, puts what it has to put.
LEMMA PutsStep ==
    ASSUME Store, NEW p \in Procs, p # "worker",
           NEW f \in [Procs -> Awaits], OthersStay(p, f),
           NEW cmds \in Seq(Commands), NEW w \in Seq(Procs), Waiters(p, w),
           Puts(p, f, cmds, w)
    PROVE  /\ Store'
           /\ pc'[p] \in {"sleep", "idle", "put"}
           /\ \A q \in Procs : q # p => pc'[q] = f[q]
<1>0. /\ \A q \in Procs : q # p /\ f[q] # pc[q] =>
           f[q] \notin {"lock", "put", "write"} /\ pc[q] \notin {"lock", "put", "write"}
      /\ \A i, j \in 1..Len(w) : w[i] = w[j] => i = j
      /\ \A q \in Procs : (q # p /\ pc[q] \in {"lock", "put"}) <=> \E i \in 1..Len(w) : w[i] = q
      /\ \A q \in Procs : q # p => pc[q] # "put"
  BY DEF OthersStay, Waiters
<1> USE <1>0
<1> USE ProcsFacts
<1> DEFINE room == QueueSize - Len(queue)
           n    == IF Len(cmds) <= room THEN Len(cmds) ELSE room
<1>1. n \in 0..Len(cmds) /\ n <= room /\ Len(queue) \in Nat
  BY DEF Store, StoreType, QueueBound
<1>2. /\ queue' = queue \o SubSeq(cmds, 1, n)
      /\ unfinished' = unfinished + n
      /\ left' = [left EXCEPT ![p] = SubSeq(cmds, n + 1, Len(cmds))]
  BY DEF Puts
<1>3. \/ /\ lock' = w
         /\ pc' = [f EXCEPT ![p] = IF p = "heartbeat" THEN "sleep" ELSE "idle"]
      \/ /\ lock' = <<p>> \o w
         /\ pc' = [f EXCEPT ![p] = "put"]
  BY DEF Puts
<1> HIDE DEF n
<1>4. SubSeq(cmds, 1, n) \in Seq(Commands) /\ Len(SubSeq(cmds, 1, n)) = n
      /\ SubSeq(cmds, n + 1, Len(cmds)) \in Seq(Commands)
  BY <1>1, SplitFacts
<1>5. queue' \in Seq(Commands) /\ Len(queue') = Len(queue) + n
  <2>1. queue \in Seq(Commands)
    BY DEF Store, StoreType
  <2> QED BY <1>1, <1>2, <2>1, AppendedFacts
<1>6. pc' \in [Procs -> Awaits] /\ pc'["worker"] = f["worker"]
  BY <1>3 DEF Awaits, CallerAwaits, TaskAwaits
<1>7. /\ <<p>> \o w \in Seq(Procs)
      /\ Len(<<p>> \o w) = Len(w) + 1
      /\ \A i \in 1..(Len(w) + 1) : (<<p>> \o w)[i] = IF i = 1 THEN p ELSE w[i - 1]
  <2>1. <<p>> \in Seq(Procs) /\ Len(<<p>>) = 1 /\ <<p>>[1] = p
    OBVIOUS
  <2>2. /\ <<p>> \o w \in Seq(Procs)
        /\ Len(<<p>> \o w) = Len(<<p>>) + Len(w)
        /\ \A i \in 1..(Len(<<p>>) + Len(w)) :
             (<<p>> \o w)[i] = IF i <= Len(<<p>>) THEN <<p>>[i] ELSE w[i - Len(<<p>>)]
    BY <2>1, ConcatProperties
  <2> QED BY <2>1, <2>2
<1>8. StoreType'
  <2>1. unfinished' \in Nat
    BY <1>1, <1>2 DEF Store, StoreType
  <2>2. left' \in [Procs -> Seq(Commands)]
    BY <1>2, <1>4 DEF Store, StoreType
  <2>3. lock' \in Seq(Procs)
    BY <1>3, <1>7
  <2> QED BY <2>1, <2>2, <2>3, <1>5, <1>6 DEF StoreType
<1>9. QueueAccounting' /\ QueueBound'
  <2>1. pc'["worker"] = "write" <=> pc["worker"] = "write"
    BY <1>6
  <2>2. unfinished' = unfinished + n
    BY <1>2
  <2>3. QueueBound'
    BY <1>1, <1>5 DEF QueueBound
  <2>4. n \in Nat /\ unfinished = Len(queue) + (IF pc["worker"] = "write" THEN 1 ELSE 0)
    BY <1>1 DEF Store, QueueAccounting
  <2>5. QueueAccounting'
    <3>1. CASE pc["worker"] = "write"
      BY <3>1, <2>1, <2>2, <2>4, <1>1, <1>5 DEF QueueAccounting
    <3>2. CASE pc["worker"] # "write"
      <4>1. unfinished = Len(queue)
        BY <3>2, <2>4, <1>1
      <4>2. unfinished' = Len(queue')
        BY <4>1, <2>2, <1>5
      <4>3. Len(queue') \in Nat
        BY <1>5
      <4> QED BY <4>2, <4>3, <3>2, <2>1 DEF QueueAccounting
    <3> QED BY <3>1, <3>2
  <2> QED BY <2>3, <2>5
<1>10. pc'[p] \in {"sleep", "idle", "put"} /\ \A q \in Procs : q # p => pc'[q] = f[q]
  BY <1>3
<1>11. LockDiscipline'
  <2>0. Len(w) \in Nat
    OBVIOUS
  <2>1. \A q \in Procs : q # p => (pc'[q] \in {"lock", "put"} <=> pc[q] \in {"lock", "put"})
                                /\ pc'[q] # "put"
    BY <1>10
  <2>2. CASE lock' = w /\ pc'[p] \in {"sleep", "idle"}
    BY <2>2, <2>1 DEF LockDiscipline
  <2>3. CASE lock' = <<p>> \o w /\ pc'[p] = "put"
    <3>1. \A i, j \in 1..Len(lock') : lock'[i] = lock'[j] => i = j
      <4> SUFFICES ASSUME NEW i \in 1..Len(lock'), NEW j \in 1..Len(lock'), lock'[i] = lock'[j]
                   PROVE  i = j
        OBVIOUS
      <4>1. \A k \in 1..Len(w) : w[k] # p
        BY <2>0
      <4>2. CASE i = 1 \/ j = 1
        BY <4>1, <4>2, <2>3, <1>7, <2>0
      <4>3. CASE i # 1 /\ j # 1
        <5>1. w[i - 1] = w[j - 1] /\ i - 1 \in 1..Len(w) /\ j - 1 \in 1..Len(w)
          BY <4>3, <2>3, <1>7, <2>0
        <5>2. i - 1 = j - 1
          BY <5>1, Zenon
        <5> QED BY <5>2
      <4> QED BY <4>2, <4>3
    <3>2. \A q \in Procs : pc'[q] \in {"lock", "put"} <=> \E i \in 1..Len(lock') : lock'[i] = q
      <4> SUFFICES ASSUME NEW q \in Procs
                   PROVE  pc'[q] \in {"lock", "put"} <=> \E i \in 1..Len(lock') : lock'[i] = q
        OBVIOUS
      <4>1. CASE q = p
        <5>1. lock'[1] = p /\ 1 \in 1..Len(lock')
          BY <2>3, <1>7, <2>0
        <5> QED BY <4>1, <5>1, <2>3
      <4>2. CASE q # p
        <5>1. ASSUME NEW k \in 1..Len(w), w[k] = q
              PROVE  \E i \in 1..Len(lock') : lock'[i] = q
          <6>1. k + 1 \in 1..Len(lock') /\ lock'[k + 1] = q
            BY <5>1, <2>3, <1>7, <2>0
          <6> QED BY <6>1
        <5>2. ASSUME NEW i \in 1..Len(lock'), lock'[i] = q
              PROVE  \E k \in 1..Len(w) : w[k] = q
          <6>1. i - 1 \in 1..Len(w) /\ w[i - 1] = q
            BY <5>2, <4>2, <2>3, <1>7, <2>0
          <6> QED BY <6>1
        <5> QED BY <5>1, <5>2, <2>1, <4>2
      <4> QED BY <4>1, <4>2
    <3>3. \A q \in Procs : pc'[q] = "put" => lock'[1] = q
      BY <2>1, <2>3, <1>7, <2>0
    <3> QED BY <3>1, <3>2, <3>3 DEF LockDiscipline
  <2> QED BY <2>2, <2>3, <1>3
<1> QED BY <1>8, <1>9, <1>10, <1>11 DEF Store

\* async with the lock: p puts at once or joins the waiters.
LEMMA EnqueueStep ==
    ASSUME Store, NEW p \in Procs, p # "worker", pc[p] \notin {"lock", "put"},
           NEW f \in [Procs -> Awaits], OthersStay(p, f),
           NEW cmds \in Seq(Commands),
           Enqueue(p, f, cmds)
    PROVE  /\ Store'
           /\ pc'[p] \in {"sleep", "idle", "lock", "put"}
           /\ \A q \in Procs : q # p => pc'[q] = f[q]
<1> USE ProcsFacts
<1>1. CASE lock = <<>> /\ Puts(p, f, cmds, <<>>)
  <2> DEFINE w == <<>>
  <2>1. w \in Seq(Procs) /\ Len(w) = 0 /\ Puts(p, f, cmds, w)
    BY <1>1
  <2>2. \A q \in Procs : pc[q] \notin {"lock", "put"}
    BY <1>1 DEF Store, LockDiscipline
  <2> HIDE DEF w
  <2>3. \A i, j \in 1..Len(w) : w[i] = w[j] => i = j
    BY <2>1
  <2>4. \A q \in Procs :
          (q # p /\ pc[q] \in {"lock", "put"}) <=> \E i \in 1..Len(w) : w[i] = q
    BY <2>1, <2>2
  <2>5. \A q \in Procs : q # p => pc[q] # "put"
    BY <2>2
  <2>6. Waiters(p, w)
    BY <2>3, <2>4, <2>5 DEF Waiters
  <2> QED BY <2>1, <2>6, PutsStep
<1>2. CASE /\ lock # <<>>
           /\ lock' = Append(lock, p)
           /\ left' = [left EXCEPT ![p] = cmds]
           /\ pc' = [f EXCEPT ![p] = "lock"]
           /\ UNCHANGED <<queue, unfinished>>
  <2>1. Len(lock) \in Nat /\ Len(lock) > 0
    BY <1>2 DEF Store, StoreType
  <2>2. /\ lock' \in Seq(Procs) /\ Len(lock') = Len(lock) + 1
        /\ \A i \in 1..Len(lock) : lock'[i] = lock[i]
        /\ lock'[Len(lock) + 1] = p
    BY <1>2, AppendProperties DEF Store, StoreType
  <2>3. pc' \in [Procs -> Awaits] /\ pc'[p] = "lock" /\ \A q \in Procs : q # p => pc'[q] = f[q]
    BY <1>2 DEF Awaits, CallerAwaits, TaskAwaits
  <2>4. StoreType'
    BY <1>2, <2>2, <2>3 DEF Store, StoreType
  <2>5. pc'["worker"] = "write" <=> pc["worker"] = "write"
    BY <2>3 DEF OthersStay
  <2>6. QueueAccounting' /\ QueueBound'
    BY <1>2, <2>5 DEF Store, QueueAccounting, QueueBound
  <2>7. \A i \in 1..Len(lock) : lock[i] # p
    BY DEF Store, LockDiscipline
  <2>8. \A q \in Procs : q # p => (pc'[q] \in {"lock", "put"} <=> pc[q] \in {"lock", "put"})
                              /\ (pc'[q] = "put" <=> pc[q] = "put")
    BY <2>3 DEF OthersStay
  <2>9. LockDiscipline'
    <3>1. \A i, j \in 1..Len(lock') : lock'[i] = lock'[j] => i = j
      BY <2>1, <2>2, <2>7 DEF Store, LockDiscipline
    <3>2. \A q \in Procs : pc'[q] \in {"lock", "put"} <=> \E i \in 1..Len(lock') : lock'[i] = q
      <4> SUFFICES ASSUME NEW q \in Procs
                   PROVE  pc'[q] \in {"lock", "put"} <=> \E i \in 1..Len(lock') : lock'[i] = q
        OBVIOUS
      <4>1. CASE q = p
        BY <4>1, <2>1, <2>2, <2>3
      <4>2. CASE q # p
        <5>1. (\E i \in 1..Len(lock') : lock'[i] = q) <=> \E i \in 1..Len(lock) : lock[i] = q
          BY <4>2, <2>1, <2>2
        <5> QED BY <5>1, <4>2, <2>8 DEF Store, LockDiscipline
      <4> QED BY <4>1, <4>2
    <3>3. \A q \in Procs : pc'[q] = "put" => lock'[1] = q
      BY <2>1, <2>2, <2>3, <2>8 DEF Store, LockDiscipline
    <3> QED BY <3>1, <3>2, <3>3 DEF LockDiscipline
  <2> QED BY <2>3, <2>4, <2>6, <2>9 DEF Store
<1> QED BY <1>1, <1>2 DEF Enqueue

\* Behind p, the first in the lock, come the other processes in it.
LEMMA TailWaiters ==
    ASSUME Store, NEW p \in Procs, pc[p] \in {"lock", "put"}, lock[1] = p
    PROVE  Tail(lock) \in Seq(Procs) /\ Waiters(p, Tail(lock))
<1>1. lock # <<>> /\ Len(lock) \in Nat /\ Len(lock) > 0
  BY DEF Store, StoreType, LockDiscipline
<1>2. /\ Tail(lock) \in Seq(Procs) /\ Len(Tail(lock)) = Len(lock) - 1
      /\ \A i \in 1..Len(Tail(lock)) : Tail(lock)[i] = lock[i + 1]
  BY <1>1, HeadTailProperties DEF Store, StoreType
<1> DEFINE w == Tail(lock)
<1> HIDE DEF w
<1>3. /\ w \in Seq(Procs) /\ Len(w) = Len(lock) - 1
      /\ \A i \in 1..Len(w) : w[i] = lock[i + 1]
  BY <1>2 DEF w
<1>4. \A i, j \in 1..Len(w) : w[i] = w[j] => i = j
  <2> SUFFICES ASSUME NEW i \in 1..Len(w), NEW j \in 1..Len(w), w[i] = w[j] PROVE i = j
    OBVIOUS
  <2>1. i + 1 \in 1..Len(lock) /\ j + 1 \in 1..Len(lock) /\ lock[i + 1] = lock[j + 1]
    BY <1>1, <1>3
  <2>2. i + 1 = j + 1
    BY <2>1 DEF Store, LockDiscipline
  <2> QED BY <2>2, <1>1, <1>3
<1>5. ASSUME NEW q \in Procs
      PROVE  (q # p /\ pc[q] \in {"lock", "put"}) <=> \E i \in 1..Len(w) : w[i] = q
  <2>1. ASSUME q # p, NEW i \in 1..Len(lock), lock[i] = q
        PROVE  \E k \in 1..Len(w) : w[k] = q
    <3>1. i - 1 \in 1..Len(w) /\ w[i - 1] = lock[i]
      BY <2>1, <1>1, <1>3
    <3> QED BY <3>1, <2>1
  <2>2. ASSUME NEW k \in 1..Len(w), w[k] = q
        PROVE  q # p /\ \E i \in 1..Len(lock) : lock[i] = q
    <3>1. k + 1 \in 1..Len(lock) /\ lock[k + 1] = q /\ k + 1 # 1
      BY <2>2, <1>1, <1>3
    <3>2. 1 \in 1..Len(lock)
      BY <1>1
    <3> QED BY <3>1, <3>2 DEF Store, LockDiscipline
  <2> QED BY <2>1, <2>2 DEF Store, LockDiscipline
<1>6. \A q \in Procs : q # p => pc[q] # "put"
  BY DEF Store, LockDiscipline
<1>7. Waiters(p, w)
  BY <1>4, <1>5, <1>6 DEF Waiters
<1> QED BY <1>3, <1>7 DEF w

\* p is first in the lock and puts what it has left; the others move on.
LEMMA TurnStep ==
    ASSUME Store, NEW p \in Procs, p # "worker", pc[p] \in {"lock", "put"}, lock[1] = p,
           Puts(p, pc, left[p], Tail(lock))
    PROVE  /\ Store'
           /\ pc'[p] \in {"sleep", "idle", "put"}
           /\ \A q \in Procs : q # p => pc'[q] = pc[q]
<1>1. left[p] \in Seq(Commands) /\ pc \in [Procs -> Awaits]
  BY DEF Store, StoreType
<1>2. OthersStay(p, pc)
  BY DEF OthersStay
<1>3. Tail(lock) \in Seq(Procs) /\ Waiters(p, Tail(lock))
  BY TailWaiters
<1> QED BY <1>1, <1>2, <1>3, PutsStep

-----------------------------------------------------------------------------
(* Steps of the other variables.                                             *)

\* A joiner wakes, nothing else moves.
LEMMA JoinedFacts ==
    ASSUME NEW f \in [Procs -> Awaits], NEW n
    PROVE  /\ Joined(f, n) \in [Procs -> Awaits]
           /\ \A q \in Procs : Joined(f, n)[q] # f[q] => f[q] = "join" /\ Joined(f, n)[q] = "joined"
  BY DEF Joined, Awaits, CallerAwaits

\* No process begins a BLE call.
LEMMA AimStep ==
    ASSUME AimOK, aim' = aim, \A q \in Procs : pc'[q] # pc[q] => pc'[q] \notin BleAwaits
    PROVE  AimOK'
  BY DEF AimOK

\* _disconnect_client by p.
LEMMA CloseStep ==
    ASSUME RestType, AimOK, NEW p \in Procs, NEW f \in [Procs -> Awaits],
           \A q \in Procs : q # p /\ f[q] # pc[q] => f[q] \notin BleAwaits,
           NEW closing \in Awaits, NEW finished \in Awaits, finished \notin BleAwaits,
           CloseClient(p, f, closing, finished)
    PROVE  /\ client' \in Clients \cup {NoClient}
           /\ aim' \in [Procs -> Clients \cup {NoClient}]
           /\ links' \in [Clients -> {"none", "up", "closing", "unclosed", "down"}]
           /\ pc' \in [Procs -> Awaits]
           /\ pc'[p] \in {closing, finished}
           /\ \A q \in Procs : q # p => pc'[q] = f[q]
           /\ AimOK'
<1>1. CASE client = NoClient
  BY <1>1 DEF CloseClient, RestType, AimOK
<1>2. CASE client # NoClient
  <2>1. client \in Clients
    BY <1>2 DEF RestType
  <2>2. /\ client' = NoClient
        /\ pc' = [f EXCEPT ![p] = closing]
        /\ aim' = [aim EXCEPT ![p] = client]
        /\ links' = [links EXCEPT ![client] = IF @ = "up" THEN "closing" ELSE @]
    BY <1>2 DEF CloseClient
  <2>3. links' \in [Clients -> {"none", "up", "closing", "unclosed", "down"}]
    BY <2>1, <2>2 DEF RestType
  <2>4. AimOK'
    BY <2>1, <2>2 DEF RestType, AimOK
  <2> QED BY <2>1, <2>2, <2>3, <2>4 DEF RestType
<1> QED BY <1>1, <1>2

\* client.disconnect() raises or is cancelled.
LEMMA UnclosedStep ==
    ASSUME RestType, AimOK, NEW p \in Procs, pc[p] \in BleAwaits, LeaveUnclosed(p)
    PROVE  links' \in [Clients -> {"none", "up", "closing", "unclosed", "down"}]
<1>1. aim[p] \in Clients
  BY DEF AimOK
<1> QED BY <1>1 DEF LeaveUnclosed, RestType

\* client.disconnect() returns to p.
LEMMA ClosedStep ==
    ASSUME RestType, AimOK, NEW p \in Procs, pc[p] \in BleAwaits, ClientClosed(p)
    PROVE  /\ links' \in [Clients -> {"none", "up", "closing", "unclosed", "down"}]
           /\ due' \in SUBSET Clients
<1>1. aim[p] \in Clients /\ due \in SUBSET Clients
  BY DEF AimOK, RestType
<1>2. CASE LeaveUnclosed(p) /\ UNCHANGED due
  BY <1>1, <1>2, UnclosedStep
<1>3. CASE /\ links' = [links EXCEPT ![aim[p]] = "down"]
           /\ due' = due \cup {aim[p]}
  BY <1>1, <1>3 DEF RestType
<1> QED BY <1>2, <1>3 DEF ClientClosed

-----------------------------------------------------------------------------
(* One lemma per action.                                                     *)

LEMMA LockAcquiredIInv ==
    ASSUME IInv, NEW p \in Procs, p # "worker", LockAcquired(p) \/ PutResumes(p)
    PROVE  IInv'
<1>1. pc[p] \in {"lock", "put"} /\ lock[1] = p /\ Puts(p, pc, left[p], Tail(lock))
  BY DEF LockAcquired, PutResumes, IInv, Store, LockDiscipline
<1>2. /\ Store'
      /\ pc'[p] \in {"sleep", "idle", "put"}
      /\ \A q \in Procs : q # p => pc'[q] = pc[q]
  BY <1>1, TurnStep DEF IInv
<1>3. RestType'
  BY DEF LockAcquired, PutResumes, IInv, RestType, session, locals, radio
<1>4. AimOK'
  <2>1. aim' = aim
    BY DEF LockAcquired, PutResumes, locals
  <2>2. \A q \in Procs : pc'[q] # pc[q] => pc'[q] \notin BleAwaits
    BY <1>2 DEF BleAwaits
  <2> QED BY <2>1, <2>2, AimStep DEF IInv
<1> QED BY <1>2, <1>3, <1>4 DEF IInv

\* connect() up to its client: only the caller's own locals change.
LEMMA BeginConnectIInv ==
    ASSUME IInv, NEW p \in Callers, NEW j \in ApiCalls, pc[p] = "idle", BeginConnect(p, j)
    PROVE  IInv'
<1> USE ProcsFacts
<1>1. PICK a \in {"cooldown", "scan", "establish"} : pc' = [pc EXCEPT ![p] = a]
  BY DEF BeginConnect, AfterCooldown
<1>2. RestType'
  BY DEF BeginConnect, IInv, RestType, session, radio
<1>3. Store'
  BY <1>1, StoreStep DEF BeginConnect, IInv, Store, StoreType, QueueAccounting, SameLockUse,
     store, Awaits, CallerAwaits
<1>4. AimOK'
  <2>1. aim' = aim
    BY DEF BeginConnect
  <2>2. \A q \in Procs : pc'[q] # pc[q] => pc'[q] \notin BleAwaits
    BY <1>1 DEF BleAwaits, IInv, Store, StoreType
  <2> QED BY <2>1, <2>2, AimStep DEF IInv
<1> QED BY <1>2, <1>3, <1>4 DEF IInv

\* p moves between awaits that are neither in the lock nor in a write.
LEMMA MoveStep ==
    ASSUME Store, NEW p \in Procs, NEW a \in Awaits,
           a \notin {"lock", "put", "write"}, pc[p] \notin {"lock", "put", "write"},
           pc' = [pc EXCEPT ![p] = a], UNCHANGED store
    PROVE  Store'
<1> USE ProcsFacts
<1>1. pc' \in [Procs -> Awaits] /\ SameLockUse(pc', pc)
  BY DEF Store, StoreType, SameLockUse
<1>2. pc'["worker"] = "write" <=> pc["worker"] = "write"
  BY DEF Store, StoreType
<1>3. queue' = queue /\ unfinished' = unfinished /\ lock' = lock /\ left' = left
  BY DEF store
<1>4. queue' \in Seq(Commands) /\ Len(queue') <= Len(queue)
  BY <1>3 DEF Store, StoreType
<1>5. unfinished' = Len(queue') + (IF pc'["worker"] = "write" THEN 1 ELSE 0)
  BY <1>2, <1>3 DEF Store, QueueAccounting
<1> QED BY <1>1, <1>3, <1>4, <1>5, StoreStep

\* p moves to an await that is no BLE call.
LEMMA MoveAim ==
    ASSUME AimOK, Store, NEW p \in Procs, NEW a \in Awaits \ BleAwaits,
           pc' = [pc EXCEPT ![p] = a], aim' = aim
    PROVE  AimOK'
<1>1. \A q \in Procs : pc'[q] # pc[q] => pc'[q] \notin BleAwaits
  BY DEF Store, StoreType
<1> QED BY <1>1, AimStep

LEMMA CooldownSleptIInv ==
    ASSUME IInv, NEW p \in Callers, CooldownSlept(p)
    PROVE  IInv'
<1> USE ProcsFacts
<1>1. PICK a \in {"scan", "establish"} : pc' = [pc EXCEPT ![p] = a]
  BY DEF CooldownSlept, AfterCooldown
<1>2. RestType'
  BY DEF CooldownSlept, IInv, RestType, session, radio
<1>3. Store'
  BY <1>1, MoveStep DEF CooldownSlept, IInv, Awaits, CallerAwaits
<1>4. AimOK'
  BY <1>1, MoveAim DEF CooldownSlept, IInv, Awaits, CallerAwaits, BleAwaits
<1> QED BY <1>2, <1>3, <1>4 DEF IInv

LEMMA ScanFindsIInv ==
    ASSUME IInv, NEW p \in Callers, ScanFinds(p)
    PROVE  IInv'
<1> USE ProcsFacts
<1>1. RestType'
  BY DEF ScanFinds, IInv, RestType, locals, radio
<1>2. Store'
  BY MoveStep DEF ScanFinds, IInv, Awaits, CallerAwaits
<1>3. AimOK'
  BY MoveAim DEF ScanFinds, IInv, Awaits, CallerAwaits, BleAwaits, locals
<1> QED BY <1>1, <1>2, <1>3 DEF IInv

LEMMA ConnectFailsIInv ==
    ASSUME IInv, NEW p \in Callers, ConnectFails(p)
    PROVE  IInv'
<1> USE ProcsFacts
<1>1. RestType'
  BY DEF ConnectFails, AbandonConnect, IInv, RestType, session, radio
<1>2. Store'
  BY MoveStep DEF ConnectFails, AbandonConnect, IInv, Awaits, CallerAwaits
<1>3. AimOK'
  BY MoveAim DEF ConnectFails, AbandonConnect, IInv, Awaits, CallerAwaits, BleAwaits
<1> QED BY <1>1, <1>2, <1>3 DEF IInv

LEMMA EstablishedIInv ==
    ASSUME IInv, NEW p \in Callers, Established(p)
    PROVE  IInv'
<1> USE ProcsFacts
<1>1. established + 1 \in Clients /\ established + 1 \in 0..MaxClients
  BY DEF Established, IInv, RestType, Clients
<1>2. RestType'
  BY <1>1 DEF Established, IInv, RestType
<1>3. Store'
  BY MoveStep DEF Established, IInv, Awaits, CallerAwaits
<1>4. AimOK'
  BY <1>1 DEF Established, IInv, AimOK, Store, StoreType, RestType
<1> QED BY <1>2, <1>3, <1>4 DEF IInv

\* The except clause of connect(), run by p.
LEMMA RollbackStep ==
    ASSUME IInv, NEW p \in Callers, pc[p] \in {"notify", "auth", "subscribe"}, Rollback(p),
           UNCHANGED store
    PROVE  /\ client' \in Clients \cup {NoClient}
           /\ aim' \in [Procs -> Clients \cup {NoClient}]
           /\ links' \in [Clients -> {"none", "up", "closing", "unclosed", "down"}]
           /\ job' \in [Callers -> ApiCalls \cup {"none"}]
           /\ Store'
           /\ AimOK'
<1> USE ProcsFacts
<1>1. CloseClient(p, pc, "rollback", "idle") /\ job' = [job EXCEPT ![p] = "none"]
  BY DEF Rollback
<1>2. "rollback" \in Awaits /\ "idle" \in Awaits /\ "idle" \notin BleAwaits
  BY DEF Awaits, CallerAwaits, BleAwaits
<1>3. \A q \in Procs : q # p /\ pc[q] # pc[q] => pc[q] \notin BleAwaits
  OBVIOUS
<1>4. /\ client' \in Clients \cup {NoClient}
      /\ aim' \in [Procs -> Clients \cup {NoClient}]
      /\ links' \in [Clients -> {"none", "up", "closing", "unclosed", "down"}]
      /\ AimOK'
  BY <1>1, <1>2, <1>3, CloseStep DEF IInv, Store, StoreType
<1>5. PICK a \in {"rollback", "idle"} : pc' = [pc EXCEPT ![p] = a]
  BY <1>1 DEF CloseClient
<1>6. Store'
  BY <1>5, MoveStep DEF IInv, Awaits, CallerAwaits
<1>7. job' \in [Callers -> ApiCalls \cup {"none"}]
  BY <1>1 DEF IInv, RestType
<1> QED BY <1>4, <1>6, <1>7

\* _write_msg in connect(), begun by p.
LEMMA HandshakeWriteStep ==
    ASSUME IInv, NEW p \in Callers, pc[p] \in {"notify", "auth"},
           NEW stage \in {"auth", "subscribe"}, HandshakeWrite(p, stage), UNCHANGED store
    PROVE  /\ connected' \in BOOLEAN
           /\ client' \in Clients \cup {NoClient}
           /\ aim' \in [Procs -> Clients \cup {NoClient}]
           /\ links' \in [Clients -> {"none", "up", "closing", "unclosed", "down"}]
           /\ job' \in [Callers -> ApiCalls \cup {"none"}]
           /\ Store'
           /\ AimOK'
<1> USE ProcsFacts
<1>1. CASE /\ client # NoClient
           /\ pc' = [pc EXCEPT ![p] = stage]
           /\ aim' = [aim EXCEPT ![p] = client]
           /\ UNCHANGED <<connected, client, job, links>>
  <2>1. client \in Clients
    BY <1>1 DEF IInv, RestType
  <2>2. Store'
    BY <1>1, MoveStep DEF IInv, Awaits, CallerAwaits
  <2>3. AimOK'
    BY <1>1, <2>1 DEF IInv, AimOK, RestType, Store, StoreType
  <2> QED BY <1>1, <2>1, <2>2, <2>3 DEF IInv, RestType
<1>2. CASE Rollback(p) /\ connected' \in {FALSE, connected}
  BY <1>2, RollbackStep DEF IInv, RestType
<1> QED BY <1>1, <1>2 DEF HandshakeWrite

LEMMA NotifyStartedIInv ==
    ASSUME IInv, NEW p \in Callers, NotifyStarted(p)
    PROVE  IInv'
<1>1. pc[p] = "notify" /\ HandshakeWrite(p, "auth") /\ UNCHANGED store
  BY DEF NotifyStarted
<1>2. /\ connected' \in BOOLEAN
      /\ client' \in Clients \cup {NoClient}
      /\ aim' \in [Procs -> Clients \cup {NoClient}]
      /\ links' \in [Clients -> {"none", "up", "closing", "unclosed", "down"}]
      /\ job' \in [Callers -> ApiCalls \cup {"none"}]
      /\ Store' /\ AimOK'
  BY <1>1, HandshakeWriteStep
<1>3. RestType'
  BY <1>2 DEF NotifyStarted, IInv, RestType
<1> QED BY <1>2, <1>3 DEF IInv

\* One more handshake write heard by the client p aims at.
LEMMA HeardStep ==
    ASSUME RestType, NEW c, NEW m \in {"auth", "subscribe"},
           heard' = [heard EXCEPT ![c] = @ \cup {m}]
    PROVE  heard' \in [Clients -> SUBSET {"auth", "subscribe"}]
  BY DEF RestType

LEMMA AuthWrittenIInv ==
    ASSUME IInv, NEW p \in Callers, AuthWritten(p)
    PROVE  IInv'
<1>1. pc[p] = "auth" /\ HandshakeWrite(p, "subscribe") /\ UNCHANGED store
  BY DEF AuthWritten
<1>2. /\ connected' \in BOOLEAN
      /\ client' \in Clients \cup {NoClient}
      /\ aim' \in [Procs -> Clients \cup {NoClient}]
      /\ links' \in [Clients -> {"none", "up", "closing", "unclosed", "down"}]
      /\ job' \in [Callers -> ApiCalls \cup {"none"}]
      /\ Store' /\ AimOK'
  BY <1>1, HandshakeWriteStep
<1>3. heard' \in [Clients -> SUBSET {"auth", "subscribe"}]
  BY HeardStep DEF AuthWritten, IInv
<1>4. RestType'
  BY <1>2, <1>3 DEF AuthWritten, IInv, RestType
<1> QED BY <1>2, <1>4 DEF IInv

LEMMA HandshakeFailsIInv ==
    ASSUME IInv, NEW p \in Callers, HandshakeFails(p)
    PROVE  IInv'
<1>1. pc[p] \in {"notify", "auth", "subscribe"} /\ Rollback(p) /\ UNCHANGED store
  BY DEF HandshakeFails
<1>2. /\ client' \in Clients \cup {NoClient}
      /\ aim' \in [Procs -> Clients \cup {NoClient}]
      /\ links' \in [Clients -> {"none", "up", "closing", "unclosed", "down"}]
      /\ job' \in [Callers -> ApiCalls \cup {"none"}]
      /\ Store' /\ AimOK'
  BY <1>1, RollbackStep
<1>3. connected' \in BOOLEAN
  BY DEF HandshakeFails
<1>4. RestType'
  BY <1>2, <1>3 DEF HandshakeFails, IInv, RestType
<1> QED BY <1>2, <1>4 DEF IInv

\* The tasks that connect() creates.
LEMMA WithTasksFacts ==
    ASSUME Store
    PROVE  /\ WithTasks(pc) \in [Procs -> Awaits]
           /\ \A q \in Procs : WithTasks(pc)[q] # pc[q] =>
                q \in Tasks /\ WithTasks(pc)[q] = "new" /\ pc[q] \in {"none", "done"}
  BY DEF WithTasks, Store, StoreType, Awaits, CallerAwaits, TaskAwaits

LEMMA SubscribedIInv ==
    ASSUME IInv, NEW p \in Callers, Subscribed(p)
    PROVE  IInv'
<1> USE ProcsFacts
<1> DEFINE f == IF job[p] = "connect_no_tasks" THEN pc ELSE WithTasks(pc)
<1>1. /\ f \in [Procs -> Awaits]
      /\ \A q \in Procs : f[q] # pc[q] => f[q] = "new" /\ pc[q] \in {"none", "done"}
  BY WithTasksFacts DEF IInv, Store, StoreType
<1>2. f[p] = pc[p] /\ pc[p] = "subscribe"
  BY WithTasksFacts DEF Subscribed, IInv, Procs
<1>3. \/ Enqueue(p, f, <<"command">>)
      \/ pc' = [f EXCEPT ![p] = "idle"] /\ UNCHANGED store
  BY DEF Subscribed
<1>4. aim' = aim
  BY DEF Subscribed
<1> HIDE DEF f
<1>5. RestType'
  <2>1. heard' \in [Clients -> SUBSET {"auth", "subscribe"}]
    BY HeardStep DEF Subscribed, IInv
  <2> QED BY <2>1 DEF Subscribed, IInv, RestType
<1>6. CASE Enqueue(p, f, <<"command">>)
  <2>1. OthersStay(p, f)
    BY <1>1 DEF OthersStay
  <2>2. <<"command">> \in Seq(Commands)
    BY DEF Commands
  <2>3. /\ Store'
        /\ pc'[p] \in {"sleep", "idle", "lock", "put"}
        /\ \A q \in Procs : q # p => pc'[q] = f[q]
    BY <1>1, <1>2, <1>6, <2>1, <2>2, EnqueueStep DEF IInv
  <2>4. AimOK'
    <3>1. \A q \in Procs : pc'[q] # pc[q] => pc'[q] \notin BleAwaits
      BY <1>1, <2>3 DEF BleAwaits
    <3> QED BY <3>1, <1>4, AimStep DEF IInv
  <2> QED BY <1>5, <2>3, <2>4 DEF IInv
<1>7. CASE pc' = [f EXCEPT ![p] = "idle"] /\ UNCHANGED store
  <2>1. pc' \in [Procs -> Awaits] /\ pc'[p] = "idle" /\ \A q \in Procs : q # p => pc'[q] = f[q]
    BY <1>1, <1>7 DEF Awaits, CallerAwaits
  <2>2. SameLockUse(pc', pc)
    BY <1>1, <1>2, <2>1 DEF SameLockUse
  <2>3. pc'["worker"] = "write" <=> pc["worker"] = "write"
    BY <1>1, <2>1
  <2>4. Store'
    BY <1>7, <2>1, <2>2, <2>3, StoreStep DEF IInv, Store, StoreType, QueueAccounting, store
  <2>5. AimOK'
    <3>1. \A q \in Procs : pc'[q] # pc[q] => pc'[q] \notin BleAwaits
      BY <1>1, <2>1 DEF BleAwaits
    <3> QED BY <3>1, <1>4, AimStep DEF IInv
  <2> QED BY <1>5, <2>4, <2>5 DEF IInv
<1> QED BY <1>3, <1>6, <1>7

LEMMA RolledBackIInv ==
    ASSUME IInv, NEW p \in Callers, RolledBack(p) \/ DisconnectReturns(p)
    PROVE  IInv'
<1> USE ProcsFacts
<1>1. /\ pc[p] \in {"rollback", "closing"} /\ ClientClosed(p)
      /\ pc' = [pc EXCEPT ![p] = "idle"] /\ UNCHANGED store /\ aim' = aim
  BY DEF RolledBack, DisconnectReturns, locals
<1>2. links' \in [Clients -> {"none", "up", "closing", "unclosed", "down"}] /\ due' \in SUBSET Clients
  BY <1>1, ClosedStep DEF BleAwaits, IInv
<1>3. RestType'
  BY <1>2 DEF RolledBack, DisconnectReturns, IInv, RestType, session, locals
<1>4. Store'
  BY <1>1, MoveStep DEF IInv, Awaits, CallerAwaits
<1>5. AimOK'
  BY <1>1, MoveAim DEF IInv, Awaits, CallerAwaits, BleAwaits
<1> QED BY <1>3, <1>4, <1>5 DEF IInv

LEMMA ConnectIInv ==
    ASSUME IInv, NEW p \in Callers, Connect(p)
    PROVE  IInv'
<1>1. PICK j \in ApiCalls : BeginConnect(p, j)
  BY CallsAssumption DEF Connect, ApiCalls
<1> QED BY <1>1, BeginConnectIInv DEF Connect

\* A command put, or waiting for the lock, on behalf of a caller that was idle.
LEMMA EnqueueIInv ==
    ASSUME IInv, NEW p \in Procs, p # "worker", pc[p] \notin {"lock", "put"},
           NEW cmds \in Seq(Commands), Enqueue(p, pc, cmds),
           UNCHANGED <<session, cancelled, gather, locals, radio>>
    PROVE  IInv'
<1>1. OthersStay(p, pc)
  BY DEF OthersStay
<1>2. /\ Store'
      /\ pc'[p] \in {"sleep", "idle", "lock", "put"}
      /\ \A q \in Procs : q # p => pc'[q] = pc[q]
  BY <1>1, EnqueueStep DEF IInv, Store, StoreType
<1>3. RestType'
  BY DEF IInv, RestType, session, locals, radio
<1>4. AimOK'
  <2>1. \A q \in Procs : pc'[q] # pc[q] => pc'[q] \notin BleAwaits
    BY <1>2 DEF BleAwaits
  <2> QED BY <2>1, AimStep DEF IInv, locals
<1> QED BY <1>2, <1>3, <1>4 DEF IInv

LEMMA SendCommandIInv ==
    ASSUME IInv, NEW p \in Callers, SendCommand(p)
    PROVE  IInv'
<1> USE ProcsFacts
<1>1. CASE BeginConnect(p, "command")
  BY <1>1, BeginConnectIInv DEF SendCommand, ApiCalls
<1>2. CASE /\ Enqueue(p, pc, <<"command">>)
           /\ UNCHANGED <<session, cancelled, gather, locals, radio>>
  <2>1. <<"command">> \in Seq(Commands)
    BY DEF Commands
  <2> QED BY <1>2, <2>1, EnqueueIInv DEF SendCommand
<1> QED BY <1>1, <1>2 DEF SendCommand

LEMMA AuthIInv ==
    ASSUME IInv, NEW p \in Callers, Auth(p)
    PROVE  IInv'
<1> USE ProcsFacts
<1>1. <<"auth">> \in Seq(Commands)
  BY DEF Commands
<1> QED BY <1>1, EnqueueIInv DEF Auth

\* The queue is drained; p and woken joiners move outside lock and write.
LEMMA DrainStep ==
    ASSUME Store, queue' = <<>>, unfinished' = unfinished - Len(queue),
           lock' = lock, left' = left, pc' \in [Procs -> Awaits],
           \A q \in Procs : pc'[q] # pc[q] =>
             pc'[q] \notin {"lock", "put", "write"} /\ pc[q] \notin {"lock", "put", "write"}
    PROVE  Store'
<1> USE ProcsFacts
<1>1. SameLockUse(pc', pc)
  BY DEF SameLockUse
<1>2. pc'["worker"] = "write" <=> pc["worker"] = "write"
  OBVIOUS
<1>3. Len(queue) \in Nat /\ queue' \in Seq(Commands) /\ Len(queue') = 0
  BY DEF Store, StoreType
<1>4. unfinished' = IF pc'["worker"] = "write" THEN 1 ELSE 0
  BY <1>2, <1>3 DEF Store, QueueAccounting
<1>5. unfinished' = Len(queue') + (IF pc'["worker"] = "write" THEN 1 ELSE 0)
  BY <1>3, <1>4
<1> QED BY <1>1, <1>3, <1>5, StoreStep

\* The second half of disconnect().
LEMMA DrainAndJoinStep ==
    ASSUME IInv, NEW p \in Callers, pc[p] \in {"idle", "gather"}, DrainAndJoin(p),
           UNCHANGED <<lock, left>>
    PROVE  /\ client' \in Clients \cup {NoClient}
           /\ aim' \in [Procs -> Clients \cup {NoClient}]
           /\ links' \in [Clients -> {"none", "up", "closing", "unclosed", "down"}]
           /\ Store' /\ AimOK'
<1> USE ProcsFacts
<1> DEFINE n == unfinished - Len(queue)
           f == Joined(pc, n)
<1>1. queue' = <<>> /\ unfinished' = n
  BY DEF DrainAndJoin
<1>2. /\ f \in [Procs -> Awaits]
      /\ \A q \in Procs : f[q] # pc[q] => pc[q] = "join" /\ f[q] = "joined"
  BY JoinedFacts DEF IInv, Store, StoreType
<1>3. CASE CloseClient(p, f, "closing", "idle")
  <2> HIDE DEF f
  <2>1. "closing" \in Awaits /\ "idle" \in Awaits /\ "idle" \notin BleAwaits
    BY DEF Awaits, CallerAwaits, BleAwaits
  <2>2. \A q \in Procs : q # p /\ f[q] # pc[q] => f[q] \notin BleAwaits
    BY <1>2 DEF BleAwaits
  <2>3. /\ client' \in Clients \cup {NoClient}
        /\ aim' \in [Procs -> Clients \cup {NoClient}]
        /\ links' \in [Clients -> {"none", "up", "closing", "unclosed", "down"}]
        /\ pc' \in [Procs -> Awaits]
        /\ pc'[p] \in {"closing", "idle"}
        /\ \A q \in Procs : q # p => pc'[q] = f[q]
        /\ AimOK'
    BY <1>2, <1>3, <2>1, <2>2, CloseStep DEF IInv
  <2>4. Store'
    BY <1>1, <1>2, <2>3, DrainStep DEF IInv
  <2> QED BY <2>3, <2>4
<1>4. CASE pc' = [pc EXCEPT ![p] = "join"] /\ UNCHANGED <<client, aim, links>>
  <2>1. pc' \in [Procs -> Awaits] /\ \A q \in Procs : pc'[q] # pc[q] => q = p /\ pc'[q] = "join"
    BY <1>4 DEF IInv, Store, StoreType, Awaits, CallerAwaits
  <2>2. Store'
    BY <1>1, <2>1, DrainStep DEF IInv
  <2>3. AimOK'
    BY <1>4, <2>1, AimStep DEF IInv, BleAwaits
  <2> QED BY <1>4, <2>2, <2>3 DEF IInv, RestType
<1> QED BY <1>3, <1>4 DEF DrainAndJoin

LEMMA PendingFacts == Pending \subseteq Tasks
  BY DEF Pending

LEMMA DisconnectIInv ==
    ASSUME IInv, NEW p \in Callers, Disconnect(p)
    PROVE  IInv'
<1> USE ProcsFacts
<1>1. /\ client' \in Clients \cup {NoClient}
      /\ aim' \in [Procs -> Clients \cup {NoClient}]
      /\ links' \in [Clients -> {"none", "up", "closing", "unclosed", "down"}]
      /\ Store' /\ AimOK'
  <2>1. CASE DrainAndJoin(p)
    BY <2>1, DrainAndJoinStep DEF Disconnect
  <2>2. CASE /\ queue' = <<>>
             /\ unfinished' = unfinished - Len(queue)
             /\ pc' = [Joined(pc, unfinished - Len(queue)) EXCEPT ![p] = "gather"]
             /\ UNCHANGED <<client, aim, links>>
    <3> DEFINE f == Joined(pc, unfinished - Len(queue))
    <3>1. /\ f \in [Procs -> Awaits]
          /\ \A q \in Procs : f[q] # pc[q] => pc[q] = "join" /\ f[q] = "joined"
      BY JoinedFacts DEF IInv, Store, StoreType
    <3>2. pc' = [f EXCEPT ![p] = "gather"] /\ pc[p] = "idle"
      BY <2>2 DEF Disconnect
    <3> HIDE DEF f
    <3>3. /\ pc' \in [Procs -> Awaits]
          /\ \A q \in Procs : pc'[q] # pc[q] =>
               pc'[q] \in {"gather", "joined"} /\ pc[q] \in {"idle", "join"}
      BY <3>1, <3>2 DEF Awaits, CallerAwaits
    <3>4. Store'
      BY <2>2, <3>3, DrainStep DEF IInv, Disconnect
    <3>5. AimOK'
      BY <2>2, <3>3, AimStep DEF IInv, BleAwaits
    <3> QED BY <2>2, <3>4, <3>5 DEF IInv, RestType
  <2> QED BY <2>1, <2>2 DEF Disconnect
<1>2. RestType'
  BY <1>1, PendingFacts DEF Disconnect, IInv, RestType
<1> QED BY <1>1, <1>2 DEF IInv

LEMMA GatheredIInv ==
    ASSUME IInv, NEW p \in Callers, Gathered(p)
    PROVE  IInv'
<1>1. /\ client' \in Clients \cup {NoClient}
      /\ aim' \in [Procs -> Clients \cup {NoClient}]
      /\ links' \in [Clients -> {"none", "up", "closing", "unclosed", "down"}]
      /\ Store' /\ AimOK'
  BY DrainAndJoinStep DEF Gathered
<1>2. RestType'
  BY <1>1 DEF Gathered, IInv, RestType
<1> QED BY <1>1, <1>2 DEF IInv

LEMMA JoinReturnsIInv ==
    ASSUME IInv, NEW p \in Callers, JoinReturns(p)
    PROVE  IInv'
<1> USE ProcsFacts
<1>1. CloseClient(p, pc, "closing", "idle") /\ pc[p] = "joined" /\ UNCHANGED store
  BY DEF JoinReturns
<1>2. "closing" \in Awaits /\ "idle" \in Awaits /\ "idle" \notin BleAwaits
  BY DEF Awaits, CallerAwaits, BleAwaits
<1>3. \A q \in Procs : q # p /\ pc[q] # pc[q] => pc[q] \notin BleAwaits
  OBVIOUS
<1>4. /\ client' \in Clients \cup {NoClient}
      /\ aim' \in [Procs -> Clients \cup {NoClient}]
      /\ links' \in [Clients -> {"none", "up", "closing", "unclosed", "down"}]
      /\ AimOK'
  BY <1>1, <1>2, <1>3, CloseStep DEF IInv, Store, StoreType
<1>5. PICK a \in {"closing", "idle"} : pc' = [pc EXCEPT ![p] = a]
  BY <1>1 DEF CloseClient
<1>6. Store'
  BY <1>1, <1>2, <1>5, MoveStep DEF IInv
<1>7. RestType'
  BY <1>4 DEF JoinReturns, IInv, RestType
<1> QED BY <1>4, <1>6, <1>7 DEF IInv

LEMMA CancelCallIInv ==
    ASSUME IInv, NEW p \in Callers, CancelCall(p)
    PROVE  IInv'
<1> USE ProcsFacts
<1>0. "idle" \in Awaits /\ "idle" \notin BleAwaits
  BY DEF Awaits, CallerAwaits, BleAwaits
<1>1. CASE /\ pc[p] \in {"cooldown", "scan", "establish"}
           /\ AbandonConnect(p)
           /\ UNCHANGED <<session, store, cancelled, gather, own, aim, radio>>
  <2>1. RestType'
    BY <1>1 DEF AbandonConnect, IInv, RestType, session, radio
  <2>2. Store'
    BY <1>0, <1>1, MoveStep DEF AbandonConnect, IInv
  <2>3. AimOK'
    BY <1>0, <1>1, MoveAim DEF AbandonConnect, IInv
  <2> QED BY <2>1, <2>2, <2>3 DEF IInv
<1>2. CASE /\ pc[p] \in {"notify", "auth", "subscribe"}
           /\ Rollback(p)
           /\ UNCHANGED <<connected, lastDisconnect, cooled, resolved, store, cancelled,
                          gather, until, own, established, due, heard>>
  <2>1. /\ client' \in Clients \cup {NoClient}
        /\ aim' \in [Procs -> Clients \cup {NoClient}]
        /\ links' \in [Clients -> {"none", "up", "closing", "unclosed", "down"}]
        /\ job' \in [Callers -> ApiCalls \cup {"none"}]
        /\ Store' /\ AimOK'
    BY <1>2, RollbackStep
  <2>2. RestType'
    BY <1>2, <2>1 DEF IInv, RestType
  <2> QED BY <2>1, <2>2 DEF IInv
<1>3. CASE /\ pc[p] \in {"lock", "put"}
           /\ LeaveLock(p)
           /\ pc' = [pc EXCEPT ![p] = "idle"]
           /\ UNCHANGED <<session, queue, unfinished, cancelled, gather, locals, radio>>
  <2>1. RestType'
    BY <1>3 DEF IInv, RestType, session, locals, radio
  <2>2. Store'
    BY <1>0, <1>3, LeaveStep DEF IInv
  <2>3. AimOK'
    BY <1>0, <1>3, MoveAim DEF IInv, locals
  <2> QED BY <2>1, <2>2, <2>3 DEF IInv
<1>4. CASE /\ pc[p] \in {"gather", "join", "joined"}
           /\ pc' = [pc EXCEPT ![p] = "idle"]
           /\ gather' = [gather EXCEPT ![p] = {}]
           /\ UNCHANGED <<session, store, cancelled, locals, radio>>
  <2>1. RestType'
    BY <1>4 DEF IInv, RestType, session, locals, radio
  <2>2. Store'
    BY <1>0, <1>4, MoveStep DEF IInv
  <2>3. AimOK'
    BY <1>0, <1>4, MoveAim DEF IInv, locals
  <2> QED BY <2>1, <2>2, <2>3 DEF IInv
<1>5. CASE /\ pc[p] \in {"rollback", "closing"}
           /\ pc' = [pc EXCEPT ![p] = "idle"]
           /\ own' = [own EXCEPT ![p] = NoClient]
           /\ LeaveUnclosed(p)
           /\ UNCHANGED <<session, store, cancelled, gather, job, until, aim, established, due,
                          heard>>
  <2>0. links' \in [Clients -> {"none", "up", "closing", "unclosed", "down"}]
    BY <1>5, UnclosedStep, ProcsFacts DEF IInv, BleAwaits
  <2>1. RestType'
    BY <1>5, <2>0 DEF IInv, RestType, session
  <2>2. Store'
    BY <1>0, <1>5, MoveStep DEF IInv
  <2>3. AimOK'
    BY <1>0, <1>5, MoveAim DEF IInv
  <2> QED BY <2>1, <2>2, <2>3 DEF IInv
<1> QED BY <1>1, <1>2, <1>3, <1>4, <1>5 DEF CancelCall

-----------------------------------------------------------------------------
(* The tasks, the backend and the clock.                                     *)

\* Task t ends.
LEMMA EndedFacts ==
    ASSUME RestType, NEW t, Ended(t)
    PROVE  cancelled' \in SUBSET Tasks /\ gather' \in [Callers -> SUBSET Tasks]
  BY DEF RestType, Ended

LEMMA HeartbeatWakesIInv ==
    ASSUME IInv, HeartbeatWakes
    PROVE  IInv'
<1> USE ProcsFacts
<1>1. CASE /\ connected
           /\ Enqueue("heartbeat", pc, Batch)
           /\ UNCHANGED <<session, cancelled, gather, locals, radio>>
  <2>1. Batch \in Seq(Commands)
    <3>1. CASE NewStyle
      BY <3>1 DEF Batch, Commands
    <3>2. CASE ~NewStyle
      BY <3>2 DEF Batch, Commands
    <3> QED BY <3>1, <3>2
  <2> QED BY <1>1, <2>1, EnqueueIInv DEF HeartbeatWakes
<1>2. CASE /\ ~connected
           /\ pc' = [pc EXCEPT !["heartbeat"] = "done"]
           /\ Ended("heartbeat")
           /\ UNCHANGED <<session, store, locals, radio>>
  <2>1. RestType'
    BY <1>2, EndedFacts DEF IInv, RestType, session, locals, radio
  <2>2. Store'
    BY <1>2, MoveStep DEF HeartbeatWakes, IInv, Awaits, TaskAwaits
  <2>3. AimOK'
    BY <1>2, MoveAim DEF IInv, Awaits, TaskAwaits, BleAwaits, locals
  <2> QED BY <2>1, <2>2, <2>3 DEF IInv
<1> QED BY <1>1, <1>2 DEF HeartbeatWakes

LEMMA HeartbeatCancelledIInv ==
    ASSUME IInv, HeartbeatCancelled
    PROVE  IInv'
<1> USE ProcsFacts
<1>0. "done" \in Awaits \ BleAwaits
  BY DEF Awaits, TaskAwaits, BleAwaits
<1>1. /\ pc' = [pc EXCEPT !["heartbeat"] = "done"] /\ Ended("heartbeat") /\ aim' = aim
      /\ queue' = queue /\ unfinished' = unfinished
  BY DEF HeartbeatCancelled, locals
<1>2. connected' \in BOOLEAN
  BY DEF HeartbeatCancelled, IInv, RestType
<1>3. RestType'
  BY <1>1, <1>2, EndedFacts DEF HeartbeatCancelled, IInv, RestType, locals, radio
<1>4. AimOK'
  BY <1>0, <1>1, MoveAim DEF IInv
<1>5. Store'
  <2>1. CASE LeaveLock("heartbeat")
    BY <1>0, <1>1, <2>1, LeaveStep DEF IInv
  <2>2. CASE pc["heartbeat"] \in {"new", "sleep"} /\ UNCHANGED <<lock, left>>
    BY <1>0, <1>1, <2>2, MoveStep DEF IInv, store
  <2> QED BY <2>1, <2>2 DEF HeartbeatCancelled
<1> QED BY <1>3, <1>4, <1>5 DEF IInv

\* The worker moves outside the lock, joiners wake, the queue only shrinks.
LEMMA WorkerStep ==
    ASSUME Store, pc["worker"] \notin {"lock", "put"},
           lock' = lock, left' = left,
           pc' \in [Procs -> Awaits], pc'["worker"] \notin {"lock", "put"},
           \A q \in Procs : q # "worker" /\ pc'[q] # pc[q] => pc[q] = "join" /\ pc'[q] = "joined",
           queue' \in Seq(Commands), Len(queue') <= Len(queue),
           unfinished' = Len(queue') + (IF pc'["worker"] = "write" THEN 1 ELSE 0)
    PROVE  Store'
<1>1. SameLockUse(pc', pc)
  BY DEF SameLockUse
<1> QED BY <1>1, StoreStep

\* The worker's except clause, when the other commands are all that is left.
LEMMA WriteErrorIInv ==
    ASSUME IInv, pc["worker"] \in {"new", "sleep", "get", "write"}, NEW others,
           unfinished - 1 - Len(others) = 0, WriteError(others),
           UNCHANGED <<lastDisconnect, cooled, resolved, lock, left, job, until, own,
                       established, due, heard>>
    PROVE  IInv'
<1> USE ProcsFacts
<1> DEFINE f == Joined(pc, 0)
<1>1. /\ f \in [Procs -> Awaits]
      /\ \A q \in Procs : f[q] # pc[q] => pc[q] = "join" /\ f[q] = "joined"
  BY JoinedFacts DEF IInv, Store, StoreType
<1>2. /\ queue' = <<>> /\ unfinished' = 0 /\ connected' = FALSE
      /\ CloseClient("worker", f, "closing", "done")
  BY DEF WriteError
<1> HIDE DEF f
<1>3. "closing" \in Awaits /\ "done" \in Awaits /\ "done" \notin BleAwaits
  BY DEF Awaits, TaskAwaits, BleAwaits
<1>4. \A q \in Procs : q # "worker" /\ f[q] # pc[q] => f[q] \notin BleAwaits
  BY <1>1 DEF BleAwaits
<1>5. /\ client' \in Clients \cup {NoClient}
      /\ aim' \in [Procs -> Clients \cup {NoClient}]
      /\ links' \in [Clients -> {"none", "up", "closing", "unclosed", "down"}]
      /\ pc' \in [Procs -> Awaits]
      /\ pc'["worker"] \in {"closing", "done"}
      /\ \A q \in Procs : q # "worker" => pc'[q] = f[q]
      /\ AimOK'
  BY <1>1, <1>2, <1>3, <1>4, CloseStep DEF IInv
<1>6. Store'
  <2>1. \A q \in Procs : q # "worker" /\ pc'[q] # pc[q] => pc[q] = "join" /\ pc'[q] = "joined"
    BY <1>1, <1>5
  <2>2. queue' \in Seq(Commands) /\ Len(queue') = 0 /\ Len(queue) \in Nat
    BY <1>2 DEF IInv, Store, StoreType
  <2>3. unfinished' = Len(queue') + (IF pc'["worker"] = "write" THEN 1 ELSE 0)
    BY <1>2, <1>5, <2>2
  <2> QED BY <1>5, <2>1, <2>2, <2>3, WorkerStep DEF IInv
<1>7. cancelled' \in SUBSET Tasks /\ gather' \in [Callers -> SUBSET Tasks]
  BY PendingFacts DEF WriteError, IInv, RestType
<1>8. RestType'
  BY <1>2, <1>5, <1>7 DEF IInv, RestType
<1> QED BY <1>5, <1>6, <1>8 DEF IInv

LEMMA TakeCommandIInv ==
    ASSUME IInv, pc["worker"] \in {"new", "sleep", "get"}, TakeCommand
    PROVE  IInv'
<1> USE ProcsFacts
<1>1. /\ Len(queue) \in Nat /\ Len(queue) > 0
      /\ Tail(queue) \in Seq(Commands) /\ Len(Tail(queue)) = Len(queue) - 1
  BY HeadTailProperties DEF TakeCommand, IInv, Store, StoreType
<1>2. unfinished = Len(queue)
  <2>1. pc["worker"] # "write"
    OBVIOUS
  <2>2. unfinished = Len(queue) + 0
    BY <2>1 DEF IInv, Store, QueueAccounting
  <2> QED BY <1>1, <2>2
<1>3. CASE /\ client # NoClient
           /\ queue' = Tail(queue)
           /\ pc' = [pc EXCEPT !["worker"] = "write"]
           /\ aim' = [aim EXCEPT !["worker"] = client]
           /\ UNCHANGED <<connected, client, unfinished, cancelled, gather, links>>
  <2>1. client \in Clients
    BY <1>3 DEF IInv, RestType
  <2>2. /\ pc' \in [Procs -> Awaits] /\ pc'["worker"] = "write"
        /\ \A q \in Procs : q # "worker" => pc'[q] = pc[q]
    BY <1>3 DEF IInv, Store, StoreType, Awaits, TaskAwaits
  <2>3. queue' \in Seq(Commands) /\ Len(queue') = Len(queue) - 1 /\ unfinished' = unfinished
    BY <1>1, <1>3
  <2>4. unfinished' = Len(queue') + (IF pc'["worker"] = "write" THEN 1 ELSE 0)
    BY <1>1, <1>2, <2>2, <2>3
  <2>5. Store'
    BY <1>1, <2>2, <2>3, <2>4, WorkerStep DEF TakeCommand, IInv
  <2>6. RestType'
    BY <1>3, <2>1 DEF TakeCommand, IInv, RestType
  <2>7. AimOK'
    BY <1>3, <2>1, <2>2 DEF IInv, RestType, AimOK
  <2> QED BY <2>5, <2>6, <2>7 DEF IInv
<1>4. CASE WriteError(Tail(queue))
  <2> DEFINE others == Tail(queue)
  <2>1. unfinished - 1 - Len(others) = 0
    BY <1>1, <1>2
  <2> HIDE DEF others
  <2>2. WriteError(others)
    BY <1>4 DEF others
  <2> QED BY <2>1, <2>2, WriteErrorIInv DEF TakeCommand
<1> QED BY <1>3, <1>4 DEF TakeCommand

\* The worker ends without a command taken.
LEMMA WorkerEndsIInv ==
    ASSUME IInv, pc["worker"] \in {"new", "sleep", "get", "closing"},
           pc' = [pc EXCEPT !["worker"] = "done"], Ended("worker"),
           connected' \in BOOLEAN, links' \in [Clients -> {"none", "up", "closing", "unclosed", "down"}],
           due' \in SUBSET Clients,
           UNCHANGED <<client, lastDisconnect, cooled, resolved, store, locals, established,
                       heard>>
    PROVE  IInv'
<1> USE ProcsFacts
<1>1. RestType'
  BY EndedFacts DEF IInv, RestType, locals
<1>2. Store'
  BY MoveStep DEF IInv, Awaits, TaskAwaits
<1>3. AimOK'
  BY MoveAim DEF IInv, Awaits, TaskAwaits, BleAwaits, locals
<1> QED BY <1>1, <1>2, <1>3 DEF IInv

LEMMA WorkerLoopsIInv ==
    ASSUME IInv, WorkerLoops
    PROVE  IInv'
<1> USE ProcsFacts
<1>1. CASE TakeCommand
  BY <1>1, TakeCommandIInv DEF WorkerLoops
<1>2. CASE /\ pc' = [pc EXCEPT !["worker"] = "get"]
           /\ UNCHANGED <<session, store, cancelled, gather, locals, radio>>
  <2>1. RestType'
    BY <1>2 DEF IInv, RestType, session, locals, radio
  <2>2. Store'
    BY <1>2, MoveStep DEF WorkerLoops, IInv, Awaits, TaskAwaits
  <2>3. AimOK'
    BY <1>2, MoveAim DEF IInv, Awaits, TaskAwaits, BleAwaits, locals
  <2> QED BY <2>1, <2>2, <2>3 DEF IInv
<1>3. CASE /\ pc' = [pc EXCEPT !["worker"] = "done"]
           /\ Ended("worker")
           /\ UNCHANGED <<session, store, locals, radio>>
  BY <1>3, WorkerEndsIInv DEF WorkerLoops, IInv, RestType, session, radio
<1> QED BY <1>1, <1>2, <1>3 DEF WorkerLoops

LEMMA WorkerTakesIInv ==
    ASSUME IInv, WorkerTakes
    PROVE  IInv'
  BY TakeCommandIInv DEF WorkerTakes

\* The worker, done with its command, acknowledges it and moves to a.
LEMMA AcknowledgeStep ==
    ASSUME IInv, pc["worker"] = "write", NEW a \in Awaits,
           a \notin BleAwaits, a \notin {"lock", "put", "write"},
           unfinished' = unfinished - 1,
           pc' = [Joined(pc, unfinished - 1) EXCEPT !["worker"] = a],
           queue' = queue, lock' = lock, left' = left, aim' = aim
    PROVE  Store' /\ AimOK'
<1> USE ProcsFacts
<1> DEFINE n == unfinished - 1
           f == Joined(pc, n)
<1>1. /\ f \in [Procs -> Awaits]
      /\ \A q \in Procs : f[q] # pc[q] => pc[q] = "join" /\ f[q] = "joined"
  BY JoinedFacts DEF IInv, Store, StoreType
<1>2. pc' = [f EXCEPT !["worker"] = a]
  OBVIOUS
<1> HIDE DEF f
<1>3. /\ pc' \in [Procs -> Awaits] /\ pc'["worker"] = a
      /\ \A q \in Procs : q # "worker" => pc'[q] = f[q]
  <2>1. f \in [Procs -> Awaits] /\ "worker" \in Procs
    BY <1>1
  <2>2. pc' \in [Procs -> Awaits]
    BY <1>2, <2>1
  <2>3. pc'["worker"] = a
    BY <1>2, <2>1
  <2>4. \A q \in Procs : q # "worker" => pc'[q] = f[q]
    BY <1>2, <2>1
  <2> QED BY <2>2, <2>3, <2>4
<1>4. \A q \in Procs : q # "worker" /\ pc'[q] # pc[q] => pc[q] = "join" /\ pc'[q] = "joined"
  BY <1>1, <1>3
<1>5. unfinished = Len(queue) + 1 /\ Len(queue) \in Nat /\ queue' \in Seq(Commands)
  BY DEF IInv, Store, StoreType, QueueAccounting
<1>6. unfinished' = Len(queue') + (IF pc'["worker"] = "write" THEN 1 ELSE 0)
  BY <1>3, <1>5
<1>7. Store'
  BY <1>3, <1>4, <1>5, <1>6, WorkerStep DEF IInv
<1>8. AimOK'
  <2>1. \A q \in Procs : pc'[q] # pc[q] => pc'[q] \notin BleAwaits
    BY <1>3, <1>4 DEF BleAwaits
  <2> QED BY <2>1, AimStep DEF IInv
<1> QED BY <1>7, <1>8

LEMMA WorkerWroteIInv ==
    ASSUME IInv, WorkerWrote
    PROVE  IInv'
<1>1. Store' /\ AimOK'
  BY AcknowledgeStep DEF WorkerWrote, Awaits, TaskAwaits, BleAwaits, locals
<1>2. RestType'
  BY DEF WorkerWrote, IInv, RestType, session, locals, radio
<1> QED BY <1>1, <1>2 DEF IInv

LEMMA WorkerWriteFailsIInv ==
    ASSUME IInv, WorkerWriteFails
    PROVE  IInv'
<1>1. unfinished = Len(queue) + 1 /\ Len(queue) \in Nat
  BY DEF WorkerWriteFails, IInv, Store, StoreType, QueueAccounting
<1>2. unfinished - 1 - Len(queue) = 0
  BY <1>1
<1> QED BY <1>2, WriteErrorIInv DEF WorkerWriteFails

LEMMA WorkerClosedIInv ==
    ASSUME IInv, WorkerClosed
    PROVE  IInv'
<1> USE ProcsFacts
<1>1. links' \in [Clients -> {"none", "up", "closing", "unclosed", "down"}] /\ due' \in SUBSET Clients
  BY ClosedStep DEF WorkerClosed, IInv, BleAwaits
<1>2. connected' \in BOOLEAN
  BY DEF WorkerClosed, IInv, RestType, session
<1> QED BY <1>1, <1>2, WorkerEndsIInv DEF WorkerClosed, session

LEMMA WorkerCancelledIInv ==
    ASSUME IInv, WorkerCancelled
    PROVE  IInv'
<1>1. connected' \in BOOLEAN /\ Ended("worker")
  BY DEF WorkerCancelled, IInv, RestType
<1>0. links' \in [Clients -> {"none", "up", "closing", "unclosed", "down"}] /\ due' \in SUBSET Clients
  <2>1. CASE pc["worker"] = "closing"
    BY <2>1, UnclosedStep, ProcsFacts DEF WorkerCancelled, WorkerLeavesLink, IInv, BleAwaits, RestType
  <2>2. CASE pc["worker"] # "closing"
    BY <2>2 DEF WorkerCancelled, WorkerLeavesLink, IInv, RestType
  <2> QED BY <2>1, <2>2
<1>2. CASE /\ pc["worker"] \in {"new", "closing", "get", "sleep"}
           /\ pc' = [pc EXCEPT !["worker"] = "done"]
           /\ UNCHANGED unfinished
  BY <1>0, <1>1, <1>2, WorkerEndsIInv DEF WorkerCancelled, store
<1>3. CASE /\ pc["worker"] = "write"
           /\ unfinished' = unfinished - 1
           /\ pc' = [Joined(pc, unfinished - 1) EXCEPT !["worker"] = "done"]
  <2>1. Store' /\ AimOK'
    BY <1>3, AcknowledgeStep DEF WorkerCancelled, Awaits, TaskAwaits, BleAwaits, locals
  <2>2. RestType'
    BY <1>0, <1>1, EndedFacts DEF WorkerCancelled, IInv, RestType, locals
  <2> QED BY <2>1, <2>2 DEF IInv
<1> QED BY <1>2, <1>3 DEF WorkerCancelled

LEMMA LinkDropsIInv ==
    ASSUME IInv, NEW c \in Clients, LinkDrops(c)
    PROVE  IInv'
<1>1. UNCHANGED <<queue, unfinished, lock, left, pc, aim>>
  BY DEF LinkDrops, store, control, locals
<1>2. Store' /\ AimOK'
  BY <1>1 DEF IInv, Store, StoreType, QueueAccounting, QueueBound, LockDiscipline, AimOK
<1>3. RestType'
  BY DEF LinkDrops, IInv, RestType, session, control, locals
<1> QED BY <1>2, <1>3 DEF IInv

LEMMA DeviceDisconnectedIInv ==
    ASSUME IInv, NEW c \in Clients, DeviceDisconnected(c)
    PROVE  IInv'
<1> USE ProcsFacts
<1>1. /\ queue' = <<>> /\ unfinished' = unfinished - Len(queue)
      /\ pc' = Joined(pc, unfinished - Len(queue))
      /\ lock' = lock /\ left' = left /\ aim' = aim
  BY DEF DeviceDisconnected, locals
<1>2. /\ pc' \in [Procs -> Awaits]
      /\ \A q \in Procs : pc'[q] # pc[q] => pc[q] = "join" /\ pc'[q] = "joined"
  <2>1. pc \in [Procs -> Awaits]
    BY DEF IInv, Store, StoreType
  <2>2. pc' = Joined(pc, unfinished - Len(queue))
    BY <1>1
  <2> QED BY <2>1, <2>2, JoinedFacts
<1>3. Store'
  BY <1>1, <1>2, DrainStep DEF IInv
<1>4. AimOK'
  <2>1. \A q \in Procs : pc'[q] # pc[q] => pc'[q] \notin BleAwaits
    BY <1>2 DEF BleAwaits
  <2> QED BY <1>1, <2>1, AimStep DEF IInv
<1>5. cancelled' \in SUBSET Tasks
  BY PendingFacts DEF DeviceDisconnected, IInv, RestType
<1>6. /\ connected' \in BOOLEAN /\ client' \in Clients \cup {NoClient}
      /\ lastDisconnect' \in Nat /\ due' \in SUBSET Clients
  <2>1. /\ connected' = FALSE /\ client' = NoClient
        /\ lastDisconnect' = lastDisconnect + 1 /\ due' = due \ {c}
    BY DEF DeviceDisconnected
  <2>2. lastDisconnect \in Nat /\ due \in SUBSET Clients
    BY DEF IInv, RestType
  <2>3. connected' \in BOOLEAN
    BY <2>1
  <2>4. lastDisconnect' \in Nat
    BY <2>1, <2>2
  <2>5. due' \in SUBSET Clients
    BY <2>1, <2>2
  <2> QED BY <2>1, <2>3, <2>4, <2>5
<1>7. UNCHANGED <<cooled, resolved, gather, job, until, own, aim, links, established, heard>>
  BY DEF DeviceDisconnected, locals
<1>8. RestType'
  BY <1>5, <1>6, <1>7 DEF IInv, RestType
<1> QED BY <1>3, <1>4, <1>8 DEF IInv

LEMMA CooldownPassesIInv ==
    ASSUME IInv, CooldownPasses
    PROVE  IInv'
<1>1. UNCHANGED <<queue, unfinished, lock, left, pc, aim>>
  BY DEF CooldownPasses, store, control, locals
<1>2. Store' /\ AimOK'
  BY <1>1 DEF IInv, Store, StoreType, QueueAccounting, QueueBound, LockDiscipline, AimOK
<1>3. RestType'
  BY DEF CooldownPasses, IInv, RestType, control, locals, radio
<1> QED BY <1>2, <1>3 DEF IInv

LEMMA StutterIInv == IInv /\ UNCHANGED vars => IInv'
  BY DEF IInv, Store, StoreType, RestType, QueueAccounting, QueueBound, LockDiscipline, AimOK,
     vars, session, store, control, locals, radio

-----------------------------------------------------------------------------
(* The theorems.                                                             *)

\* Every step keeps IInv: a step of a caller, of a task or of the backend.
LEMMA NextIInv == IInv /\ [Next]_vars => IInv'
<1> SUFFICES ASSUME IInv, [Next]_vars PROVE IInv'
  OBVIOUS
<1>1. CASE \E p \in Callers : CallerResumes(p)
  <2> SUFFICES ASSUME NEW p \in Callers, CallerResumes(p) PROVE IInv'
    BY <1>1
  <2>1. p \in Procs /\ p # "worker"
    BY ProcsFacts
  <2>2. CASE CooldownSlept(p) \/ ScanFinds(p) \/ ConnectFails(p) \/ Established(p)
    BY <2>2, CooldownSleptIInv, ScanFindsIInv, ConnectFailsIInv, EstablishedIInv
  <2>3. CASE NotifyStarted(p) \/ AuthWritten(p) \/ Subscribed(p) \/ HandshakeFails(p)
    BY <2>3, NotifyStartedIInv, AuthWrittenIInv, SubscribedIInv, HandshakeFailsIInv
  <2>4. CASE RolledBack(p) \/ DisconnectReturns(p)
    BY <2>4, RolledBackIInv
  <2>5. CASE LockAcquired(p) \/ PutResumes(p)
    BY <2>1, <2>5, LockAcquiredIInv
  <2>6. CASE Gathered(p) \/ JoinReturns(p)
    BY <2>6, GatheredIInv, JoinReturnsIInv
  <2> QED BY <2>2, <2>3, <2>4, <2>5, <2>6 DEF CallerResumes
<1>2. CASE \E p \in Callers : CallerCalls(p)
  BY <1>2, ConnectIInv, SendCommandIInv, AuthIInv, DisconnectIInv, CancelCallIInv
     DEF CallerCalls
<1>3. CASE Heartbeat
  <2>1. CASE LockAcquired("heartbeat") \/ PutResumes("heartbeat")
    BY <2>1, ProcsFacts, LockAcquiredIInv
  <2> QED BY <1>3, <2>1, HeartbeatWakesIInv, HeartbeatCancelledIInv DEF Heartbeat
<1>4. CASE Worker
  BY <1>4, WorkerLoopsIInv, WorkerTakesIInv, WorkerWroteIInv, WorkerWriteFailsIInv,
     WorkerClosedIInv, WorkerCancelledIInv DEF Worker
<1>5. CASE Backend
  BY <1>5, CooldownPassesIInv, LinkDropsIInv, DeviceDisconnectedIInv DEF Backend
<1>6. CASE UNCHANGED vars
  BY <1>6, StutterIInv
<1> QED BY <1>1, <1>2, <1>3, <1>4, <1>5, <1>6 DEF Next

\* Every variable of the connection and command path keeps its type, whatever
\* is called, cancelled or lost; in particular the count of unfinished
\* commands never falls below zero, where task_done() would raise.
THEOREM TypeCorrect == Spec => []TypeOK
<1>1. IInv => TypeOK
  BY TypeSplit DEF IInv, Store
<1> QED BY <1>1, InitIInv, NextIInv, PTL DEF Spec

\* Every command put on the queue is acknowledged exactly once: by the worker
\* after its write, failed or cancelled, or by a drain.  The join() in
\* disconnect() ends when the queue is empty and nothing is being written.
THEOREM CommandsAcknowledgedOnce == Spec => []QueueAccounting
<1>1. IInv => QueueAccounting
  BY DEF IInv, Store
<1> QED BY <1>1, InitIInv, NextIInv, PTL DEF Spec

\* The queue lock is held by one process at a time, by whoever is blocked in a
\* put, and by nobody who was cancelled.
THEOREM LockKept == Spec => []LockDiscipline
<1>1. IInv => LockDiscipline
  BY DEF IInv, Store
<1> QED BY <1>1, InitIInv, NextIInv, PTL DEF Spec

=============================================================================
