---------------------- MODULE ScaleConnectionRefinement ----------------------
(***************************************************************************)
(* For every number of callers and clients and every queue size,           *)
(* ScaleConnection implements CommandChannel: commands put together enter  *)
(* the channel together, and are written one at a time, in order, once.    *)
(*                                                                         *)
(* A step of the code is a step of the channel by what it does to the      *)
(* queue and to the lock (Way): one lemma for each way, then one per       *)
(* action, which says which way it goes.  Beside IInv it needs LeftIsBatch:*)
(* what a process in the lock has left is a batch or, once it has put      *)
(* some, the end of one.                                                   *)
(*                                                                         *)
(* The channel does not say that no command comes between a heartbeat and  *)
(* its settings request, as it lets a cancelled process withdraw the end of*)
(* its batch.  That the heartbeat task leaves none of its batch behind     *)
(* (BatchesContiguous) rests on who cancels it: each of them empties the   *)
(* queue in the same step, and a cancelled task puts no more.              *)
(***************************************************************************)
EXTENDS ScaleConnectionProofs

USE CallersAssumption, MaxClientsAssumption, QueueSizeAssumption

\* s is what is left of a batch from some command on.
EndOfBatch(s) == \E b \in Batches : \E i \in 1..Len(b) : s = SubSeq(b, i, Len(b))

LeftIsBatch ==
    \A p \in Procs : /\ pc[p] = "lock" => left[p] \in Batches
                     /\ pc[p] = "put" => EndOfBatch(left[p])

\* The worker writes a command.
Writing == pc["worker"] = "write"

\* What a step does to the channel, and that it keeps LeftIsBatch.
ChannelStep == [Channel!Next]_(Channel!vars)
Refines     == ChannelStep /\ LeftIsBatch'

\* What p puts together.
OwnBatches(p) == IF p = "heartbeat" THEN {Batch} ELSE {<<"auth">>, <<"command">>}

\* The ways of a step with queue and lock.  Who moves does so outside the lock:
\* the queue is left alone, emptied, or loses its first command to the worker;
OutsideLock == UNCHANGED <<lock, left>> /\ SameLockUse(pc', pc)

Quiet   == queue' = queue /\ OutsideLock /\ (Writing' => Writing) /\ cancelled' \subseteq cancelled
Empties == queue' = <<>> /\ OutsideLock /\ (Writing' => Writing)
Takes   == /\ queue # <<>> /\ queue' = Tail(queue) /\ OutsideLock /\ ~Writing /\ Writing'
           /\ cancelled' = cancelled

\* or a process comes for the lock, goes on where it waited, or gives it up.
Comes(p, f, b) ==
    /\ pc[p] \notin {"lock", "put"} /\ OthersStay(p, f)
    /\ Enqueue(p, f, b)
    /\ p \in Tasks => p \notin cancelled
    /\ cancelled' = cancelled

GoesOn(p) == LockAcquired(p) \/ PutResumes(p)

GivesUp(p, a) ==
    /\ a \notin {"lock", "put", "write"}
    /\ LeaveLock(p) /\ queue' = queue /\ pc' = [pc EXCEPT ![p] = a]
    /\ p \in Tasks => p \in cancelled
    /\ cancelled' \subseteq cancelled

AtLock(p) ==
    \/ \E f \in [Procs -> Awaits] : \E b \in OwnBatches(p) : Comes(p, f, b)
    \/ GoesOn(p)
    \/ \E a \in Awaits : GivesUp(p, a)

Way == Quiet \/ Empties \/ Takes \/ \E p \in Procs \ {"worker"} : AtLock(p)

-----------------------------------------------------------------------------
(* The steps of the channel.                                                 *)

LEMMA QuietChannel ==
    ASSUME accepted' = accepted, Writing' <=> Writing
    PROVE  ChannelStep
<1>1. (pc["worker"] = "write")' = (pc["worker"] = "write")
  BY DEF Writing
<1> QED BY <1>1 DEF ChannelStep, Channel!vars

LEMMA AcceptChannel ==
    ASSUME NEW b \in Batches, accepted' = accepted \o b, Writing' <=> Writing
    PROVE  ChannelStep
<1>1. (pc["worker"] = "write")' = (pc["worker"] = "write")
  BY DEF Writing
<1>2. Channel!Accept
  BY <1>1 DEF Channel!Accept
<1> QED BY <1>2 DEF ChannelStep, Channel!Next

LEMMA BeginChannel ==
    ASSUME accepted # <<>>, accepted' = Tail(accepted), ~Writing, Writing'
    PROVE  ChannelStep
<1>1. (pc["worker"] = "write")' = TRUE /\ ~(pc["worker"] = "write")
  BY DEF Writing
<1>2. Channel!Begin
  BY <1>1 DEF Channel!Begin
<1> QED BY <1>2 DEF ChannelStep, Channel!Next

LEMMA EndChannel ==
    ASSUME accepted' = accepted, Writing, ~Writing'
    PROVE  ChannelStep
<1>1. (pc["worker"] = "write")' = FALSE /\ pc["worker"] = "write"
  BY DEF Writing
<1>2. Channel!End
  BY <1>1 DEF Channel!End
<1> QED BY <1>2 DEF ChannelStep, Channel!Next

LEMMA DiscardChannel ==
    ASSUME NEW n \in 1..Len(accepted), accepted' = SubSeq(accepted, n + 1, Len(accepted)),
           Writing' => Writing
    PROVE  ChannelStep
<1>1. (pc["worker"] = "write")' \in {pc["worker"] = "write", FALSE}
  BY DEF Writing
<1>2. Channel!Discard
  BY <1>1 DEF Channel!Discard
<1> QED BY <1>2 DEF ChannelStep, Channel!Next

LEMMA WithdrawChannel ==
    ASSUME NEW s, EndOfBatch(s), accepted = accepted' \o s, Writing' <=> Writing
    PROVE  ChannelStep
<1>1. (pc["worker"] = "write")' = (pc["worker"] = "write")
  BY DEF Writing
<1>2. PICK b \in Batches : \E i \in 1..Len(b) : s = SubSeq(b, i, Len(b))
  BY DEF EndOfBatch
<1>3. DOMAIN b = 1..Len(b)
  BY DEF Batches, Batch
<1>4. Channel!Withdraw
  BY <1>1, <1>2, <1>3 DEF Channel!Withdraw
<1> QED BY <1>4 DEF ChannelStep, Channel!Next

-----------------------------------------------------------------------------
(* Batches and what is left of them.                                         *)

LEMMA BatchFacts == \A b \in Batches : b \in Seq(Commands) /\ Len(b) \in Nat \ {0} /\ EndOfBatch(b)
<1> SUFFICES ASSUME NEW b \in Batches
             PROVE  b \in Seq(Commands) /\ Len(b) \in Nat \ {0} /\ EndOfBatch(b)
  OBVIOUS
<1>1. b \in Seq(Commands) /\ Len(b) \in Nat \ {0}
  <2>1. CASE b = <<"auth", "heartbeat", "settings">>
    BY <2>1 DEF Commands
  <2>2. CASE b = <<"heartbeat">>
    BY <2>2 DEF Commands
  <2>3. CASE b = <<"auth">>
    BY <2>3 DEF Commands
  <2>4. CASE b = <<"command">>
    BY <2>4 DEF Commands
  <2> QED BY <2>1, <2>2, <2>3, <2>4 DEF Batches, Batch
<1>2. b = SubSeq(b, 1, Len(b))
  BY <1>1, SubSeqFull
<1>3. 1 \in 1..Len(b)
  BY <1>1
<1> QED BY <1>1, <1>2, <1>3 DEF EndOfBatch

\* What is left after n more puts is again the end of a batch.
LEMMA EndOfEnd ==
    ASSUME NEW s, EndOfBatch(s), NEW n \in Nat, n < Len(s)
    PROVE  EndOfBatch(SubSeq(s, n + 1, Len(s)))
<1>0. PICK b \in Batches : \E i \in 1..Len(b) : s = SubSeq(b, i, Len(b))
  BY DEF EndOfBatch
<1>1. PICK i \in 1..Len(b) : s = SubSeq(b, i, Len(b))
  BY <1>0
<1>2. b \in Seq(Commands) /\ Len(b) \in Nat \ {0}
  BY BatchFacts
<1>3. s \in Seq(Commands) /\ Len(s) = Len(b) - i + 1
  BY <1>1, <1>2
<1>4. SubSeq(SubSeq(b, i, Len(b)), n + 1, Len(s)) = SubSeq(b, i + (n + 1) - 1, i + Len(s) - 1)
  <2>1. n + 1 \in 1..(Len(b) - i + 1) /\ Len(s) \in 1..(Len(b) - i + 1) /\ Len(b) \in 1..Len(b)
    BY <1>2, <1>3
  <2> QED BY <1>1, <1>2, <1>3, <2>1, SubSeqOfSubSeq
<1>5. i + (n + 1) - 1 = i + n /\ i + Len(s) - 1 = Len(b) /\ i + n \in 1..Len(b)
  BY <1>2, <1>3
<1> QED BY <1>1, <1>4, <1>5 DEF EndOfBatch

LEMMA EndFacts ==
    ASSUME NEW s, EndOfBatch(s)
    PROVE  s \in Seq(Commands) /\ Len(s) \in Nat \ {0}
<1>0. PICK b \in Batches : \E i \in 1..Len(b) : s = SubSeq(b, i, Len(b))
  BY DEF EndOfBatch
<1>1. PICK i \in 1..Len(b) : s = SubSeq(b, i, Len(b))
  BY <1>0
<1>2. b \in Seq(Commands) /\ Len(b) \in Nat \ {0}
  BY BatchFacts
<1> QED BY <1>1, <1>2

-----------------------------------------------------------------------------
(* The ways, step by step.  held depends on lock, control points and left.   *)

LEMMA HeldFacts ==
    ASSUME StoreType
    PROVE  /\ held \in Seq(Commands) /\ accepted \in Seq(Commands)
           /\ queue \in Seq(Commands) /\ Len(queue) \in Nat
           /\ lock # <<>> => lock[1] \in Procs
<1>1. lock # <<>> => lock[1] \in Procs
  BY DEF StoreType
<1>2. held \in Seq(Commands)
  <2>1. <<>> \in Seq(Commands)
    OBVIOUS
  <2> QED BY <1>1, <2>1 DEF StoreType, held
<1> QED BY <1>1, <1>2, ConcatProperties DEF StoreType, accepted

\* Neither the lock nor those in it change.
LEMMA HeldStays ==
    ASSUME StoreType, LeftIsBatch, lock' = lock, left' = left, SameLockUse(pc', pc)
    PROVE  held' = held /\ LeftIsBatch'
<1>1. \A p \in Procs : /\ pc'[p] = "put" <=> pc[p] = "put"
                       /\ pc'[p] = "lock" <=> pc[p] = "lock"
  BY DEF SameLockUse
<1>2. held' = held
  BY <1>1, HeldFacts DEF held
<1>3. LeftIsBatch'
  BY <1>1 DEF LeftIsBatch, EndOfBatch, Batches
<1> QED BY <1>2, <1>3

\* The queue too is left alone: quiet, or the end of a write.
LEMMA QuietStep ==
    ASSUME StoreType, LeftIsBatch, UNCHANGED <<queue, lock, left>>, SameLockUse(pc', pc),
           Writing' => Writing
    PROVE  Refines
<1>1. accepted' = accepted /\ LeftIsBatch'
  BY HeldStays DEF accepted
<1> QED BY <1>1, QuietChannel, EndChannel DEF Refines

\* The queue is emptied: its commands are the oldest of the channel's.
LEMMA EmptyStep ==
    ASSUME StoreType, LeftIsBatch, queue' = <<>>, UNCHANGED <<lock, left>>,
           SameLockUse(pc', pc), Writing' => Writing
    PROVE  Refines
<1>1. held' = held /\ LeftIsBatch'
  BY HeldStays
<1>2. CASE queue = <<>>
  BY <1>2, QuietStep
<1>3. CASE queue # <<>>
  <2>1. /\ Len(queue) \in Nat \ {0} /\ queue \in Seq(Commands) /\ held \in Seq(Commands)
        /\ Len(held) \in Nat
    BY <1>3, HeldFacts
  <2>2. Len(accepted) = Len(queue) + Len(held) /\ accepted = queue \o held
    BY <2>1, ConcatProperties DEF accepted
  <2>3. accepted' = held
    BY <1>1, <2>1, ConcatEmptySeq DEF accepted
  <2>4. SubSeq(accepted, Len(queue) + 1, Len(accepted)) = held
    <3>1. CASE held = <<>>
      BY <3>1, <2>1, <2>2, SubSeqEmpty
    <3>2. CASE held # <<>>
      <4>1. Len(held) \in Nat \ {0}
        BY <2>1, <3>2
      <4>2. /\ Len(queue) + 1 \in Len(queue) + 1 .. Len(queue) + Len(held)
            /\ Len(queue) + Len(held) \in Len(queue) + 1 .. Len(queue) + Len(held)
        BY <2>1, <4>1
      <4>3. SubSeq(queue \o held, Len(queue) + 1, Len(queue) + Len(held))
              = SubSeq(held, Len(queue) + 1 - Len(queue), Len(queue) + Len(held) - Len(queue))
        BY <2>1, <4>2, SubSeqOfConcat2
      <4>4. Len(queue) + 1 - Len(queue) = 1 /\ Len(queue) + Len(held) - Len(queue) = Len(held)
        BY <2>1
      <4> QED BY <2>1, <2>2, <4>3, <4>4, SubSeqFull
    <3> QED BY <3>1, <3>2
  <2>5. Len(queue) \in 1..Len(accepted)
    BY <2>1, <2>2
  <2>6. ChannelStep
    BY <2>3, <2>4, <2>5, DiscardChannel
  <2> QED BY <1>1, <2>6 DEF Refines
<1> QED BY <1>2, <1>3

\* The worker takes the first command.
LEMMA TakeStep ==
    ASSUME StoreType, LeftIsBatch, queue # <<>>, queue' = Tail(queue), UNCHANGED <<lock, left>>,
           SameLockUse(pc', pc), ~Writing, Writing'
    PROVE  Refines
<1>1. held' = held /\ LeftIsBatch'
  BY HeldStays
<1>2. queue \in Seq(Commands) /\ held \in Seq(Commands) /\ Len(queue) \in Nat \ {0}
      /\ Len(held) \in Nat
  BY HeldFacts
<1>3. /\ Tail(queue) \in Seq(Commands) /\ Len(Tail(queue)) = Len(queue) - 1
      /\ \A i \in 1..Len(Tail(queue)) : Tail(queue)[i] = queue[i + 1]
  BY <1>2, HeadTailProperties
<1>4. /\ queue \o held \in Seq(Commands) /\ Len(queue \o held) = Len(queue) + Len(held)
      /\ \A i \in 1..(Len(queue) + Len(held)) :
           (queue \o held)[i] = IF i <= Len(queue) THEN queue[i] ELSE held[i - Len(queue)]
  BY <1>2, ConcatProperties
<1>5. queue \o held # <<>>
  BY <1>2, <1>4
<1>6. /\ Tail(queue \o held) \in Seq(Commands)
      /\ Len(Tail(queue \o held)) = Len(queue) + Len(held) - 1
      /\ \A i \in 1..(Len(queue) + Len(held) - 1) : Tail(queue \o held)[i] = (queue \o held)[i + 1]
  BY <1>2, <1>4, <1>5, HeadTailProperties
<1>7. /\ Tail(queue) \o held \in Seq(Commands)
      /\ Len(Tail(queue) \o held) = Len(queue) - 1 + Len(held)
      /\ \A i \in 1..(Len(queue) - 1 + Len(held)) :
           (Tail(queue) \o held)[i] = IF i <= Len(queue) - 1 THEN Tail(queue)[i]
                                      ELSE held[i - (Len(queue) - 1)]
  BY <1>2, <1>3, ConcatProperties
<1>8. ASSUME NEW i \in 1..(Len(queue) + Len(held) - 1)
      PROVE  (Tail(queue) \o held)[i] = Tail(queue \o held)[i]
  <2>1. CASE i <= Len(queue) - 1
    BY <2>1, <1>2, <1>3, <1>4, <1>6, <1>7
  <2>2. CASE ~(i <= Len(queue) - 1)
    <3>1. i - (Len(queue) - 1) = i + 1 - Len(queue) /\ ~(i + 1 <= Len(queue))
          /\ i + 1 \in 1..(Len(queue) + Len(held)) /\ i \in 1..(Len(queue) - 1 + Len(held))
      BY <2>2, <1>2
    <3>2. (Tail(queue) \o held)[i] = held[i + 1 - Len(queue)]
      BY <3>1, <2>2, <1>7
    <3>3. Tail(queue \o held)[i] = held[i + 1 - Len(queue)]
      BY <3>1, <1>4, <1>6
    <3> QED BY <3>2, <3>3
  <2> QED BY <2>1, <2>2
<1>9. Tail(queue) \o held = Tail(queue \o held)
  BY <1>2, <1>6, <1>7, <1>8, SeqEqual
<1>10. ChannelStep
  BY <1>1, <1>5, <1>9, BeginChannel DEF accepted
<1> QED BY <1>1, <1>10 DEF Refines

\* p puts of cmds what fits: the rest is behind it in the channel at once.
LEMMA PutsAccepts ==
    ASSUME Store, LeftIsBatch, NEW p \in Procs, p # "worker",
           NEW f \in [Procs -> Awaits], OthersStay(p, f),
           NEW cmds, EndOfBatch(cmds), NEW w \in Seq(Procs), Waiters(p, w),
           Puts(p, f, cmds, w)
    PROVE  accepted' = queue \o cmds /\ (Writing' <=> Writing) /\ LeftIsBatch'
<1> USE ProcsFacts
<1> DEFINE room == QueueSize - Len(queue)
           n    == IF Len(cmds) <= room THEN Len(cmds) ELSE room
<1>0. cmds \in Seq(Commands) /\ Len(cmds) \in Nat \ {0}
  BY EndFacts
<1>1. n \in 0..Len(cmds) /\ Len(queue) \in Nat /\ queue \in Seq(Commands)
  BY <1>0 DEF Store, StoreType, QueueBound
<1>2. /\ queue' = queue \o SubSeq(cmds, 1, n)
      /\ left' = [left EXCEPT ![p] = SubSeq(cmds, n + 1, Len(cmds))]
  BY DEF Puts
<1>3. \/ /\ n = Len(cmds)
         /\ lock' = w
         /\ pc' = [f EXCEPT ![p] = IF p = "heartbeat" THEN "sleep" ELSE "idle"]
      \/ /\ n < Len(cmds)
         /\ lock' = <<p>> \o w
         /\ pc' = [f EXCEPT ![p] = "put"]
  BY DEF Puts
<1> HIDE DEF n
<1>4. pc'[p] \in {"sleep", "idle", "put"} /\ \A q \in Procs : q # p => pc'[q] = f[q]
  BY <1>3
<1>5. \A q \in Procs : q # p /\ pc'[q] \in {"lock", "put", "write"} => pc'[q] = pc[q]
  BY <1>4 DEF OthersStay
<1>6. Writing' <=> Writing
  BY <1>4 DEF Writing, OthersStay
<1>7. \A q \in Procs : q # p => pc'[q] # "put"
  BY <1>5 DEF Waiters
<1>8. CASE n = Len(cmds) /\ lock' = w /\ pc'[p] # "put"
  <2>1. lock' # <<>> => lock'[1] \in Procs
    BY <1>8
  <2>2. held' = <<>>
    BY <1>7, <1>8, <2>1 DEF held
  <2>3. queue' = queue \o cmds
    BY <1>0, <1>2, <1>8, SubSeqFull
  <2>4. queue \o cmds \in Seq(Commands)
    BY <1>0, <1>1, ConcatProperties
  <2>5. accepted' = queue \o cmds
    BY <2>2, <2>3, <2>4, ConcatEmptySeq DEF accepted
  <2>6. LeftIsBatch'
    <3> SUFFICES ASSUME NEW q \in Procs
                 PROVE  /\ pc'[q] = "lock" => left'[q] \in Batches
                        /\ pc'[q] = "put" => EndOfBatch(left'[q])
      BY DEF LeftIsBatch, EndOfBatch, Batches
    <3>1. pc'[q] # "put" /\ (pc'[q] = "lock" => q # p /\ pc[q] = "lock")
      BY <1>4, <1>5, <1>7, <1>8
    <3>2. q # p => left'[q] = left[q]
      BY <1>2 DEF Store, StoreType
    <3> QED BY <3>1, <3>2 DEF LeftIsBatch
  <2> QED BY <2>5, <2>6, <1>6
<1>9. CASE n < Len(cmds) /\ lock' = <<p>> \o w /\ pc'[p] = "put"
  <2>1. lock' # <<>> /\ lock'[1] = p
    <3>1. <<p>> \in Seq(Procs) /\ Len(<<p>>) = 1 /\ <<p>>[1] = p
      OBVIOUS
    <3>2. /\ Len(<<p>> \o w) = Len(<<p>>) + Len(w) /\ Len(w) \in Nat
          /\ \A i \in 1..(Len(<<p>>) + Len(w)) :
               (<<p>> \o w)[i] = IF i <= Len(<<p>>) THEN <<p>>[i] ELSE w[i - Len(<<p>>)]
      BY <3>1, ConcatProperties
    <3>3. (<<p>> \o w)[1] = p /\ Len(<<p>> \o w) > 0
      BY <3>1, <3>2
    <3> QED BY <1>9, <3>3
  <2>2. left'[p] = SubSeq(cmds, n + 1, Len(cmds))
    BY <1>2 DEF Store, StoreType
  <2>3. held' = SubSeq(cmds, n + 1, Len(cmds))
    BY <1>9, <2>1, <2>2 DEF held
  <2>4. SubSeq(cmds, 1, n) \in Seq(Commands) /\ SubSeq(cmds, n + 1, Len(cmds)) \in Seq(Commands)
    BY <1>0, <1>1, SplitFacts
  <2>5. SubSeq(cmds, 1, n) \o SubSeq(cmds, n + 1, Len(cmds)) = cmds
    <3>1. /\ 1 \in 1..(Len(cmds) + 1) /\ n \in (1 - 1)..Len(cmds) /\ Len(cmds) \in n..Len(cmds)
      BY <1>0, <1>1
    <3>2. SubSeq(cmds, 1, n) \o SubSeq(cmds, n + 1, Len(cmds)) = SubSeq(cmds, 1, Len(cmds))
      BY <1>0, <3>1, ConcatAdjacentSubSeq
    <3> QED BY <1>0, <3>2, SubSeqFull
  <2>6. accepted' = queue \o cmds
    <3>1. accepted' = (queue \o SubSeq(cmds, 1, n)) \o SubSeq(cmds, n + 1, Len(cmds))
      BY <1>2, <2>3 DEF accepted
    <3>2. (queue \o SubSeq(cmds, 1, n)) \o SubSeq(cmds, n + 1, Len(cmds))
            = queue \o (SubSeq(cmds, 1, n) \o SubSeq(cmds, n + 1, Len(cmds)))
      <4> DEFINE a == SubSeq(cmds, 1, n)
                 z == SubSeq(cmds, n + 1, Len(cmds))
      <4>1. a \in Seq(Commands) /\ z \in Seq(Commands)
        BY <2>4
      <4> HIDE DEF a, z
      <4>2. queue \in Seq(Commands)
        BY <1>1
      <4>3. (queue \o a) \o z = queue \o (a \o z)
        BY <4>1, <4>2, ConcatAssociative
      <4> QED BY <4>3 DEF a, z
    <3> QED BY <3>1, <3>2, <2>5
  <2>7. EndOfBatch(left'[p])
    BY <1>1, <1>9, <2>2, EndOfEnd
  <2>8. LeftIsBatch'
    <3> SUFFICES ASSUME NEW q \in Procs
                 PROVE  /\ pc'[q] = "lock" => left'[q] \in Batches
                        /\ pc'[q] = "put" => EndOfBatch(left'[q])
      BY DEF LeftIsBatch, EndOfBatch, Batches
    <3>1. CASE q = p
      BY <3>1, <1>9, <2>7
    <3>2. CASE q # p
      <4>1. pc'[q] # "put" /\ (pc'[q] = "lock" => pc[q] = "lock") /\ left'[q] = left[q]
        BY <3>2, <1>2, <1>5, <1>7 DEF Store, StoreType
      <4> QED BY <4>1 DEF LeftIsBatch
    <3> QED BY <3>1, <3>2
  <2> QED BY <2>6, <2>8, <1>6
<1> QED BY <1>3, <1>4, <1>8, <1>9

\* async with the lock: a batch is accepted, or waits for the lock unseen.
LEMMA EnqueueRefines ==
    ASSUME Store, LeftIsBatch, NEW p \in Procs, p # "worker", pc[p] \notin {"lock", "put"},
           NEW f \in [Procs -> Awaits], OthersStay(p, f),
           NEW b \in Batches, Enqueue(p, f, b)
    PROVE  Refines
<1> USE ProcsFacts
<1>1. CASE lock = <<>> /\ Puts(p, f, b, <<>>)
  <2> DEFINE w == <<>>
  <2>1. w \in Seq(Procs) /\ Len(w) = 0 /\ Puts(p, f, b, w)
    BY <1>1
  <2>2. \A q \in Procs : pc[q] \notin {"lock", "put"}
    BY <1>1 DEF Store, LockDiscipline
  <2> HIDE DEF w
  <2>3. Waiters(p, w)
    BY <2>1, <2>2 DEF Waiters
  <2>4. EndOfBatch(b)
    BY BatchFacts
  <2>5. accepted' = queue \o b /\ (Writing' <=> Writing) /\ LeftIsBatch'
    BY <2>1, <2>3, <2>4, PutsAccepts
  <2>6. held = <<>>
    BY <1>1 DEF held
  <2>7. accepted = queue
    BY <2>6, ConcatEmptySeq, HeldFacts DEF accepted, Store
  <2>8. ChannelStep
    BY <2>5, <2>7, AcceptChannel
  <2> QED BY <2>5, <2>8 DEF Refines
<1>2. CASE /\ lock # <<>>
           /\ lock' = Append(lock, p)
           /\ left' = [left EXCEPT ![p] = b]
           /\ pc' = [f EXCEPT ![p] = "lock"]
           /\ UNCHANGED <<queue, unfinished>>
  <2>1. Len(lock) \in Nat \ {0} /\ lock[1] \in Procs
    BY <1>2, HeldFacts DEF Store, StoreType
  <2>2. lock' # <<>> /\ lock'[1] = lock[1]
    <3>1. /\ Append(lock, p) # <<>>
          /\ \A i \in 1..Len(lock) : Append(lock, p)[i] = lock[i]
      BY AppendProperties DEF Store, StoreType
    <3>2. 1 \in 1..Len(lock)
      BY <2>1
    <3> QED BY <1>2, <3>1, <3>2
  <2>3. lock[1] # p
    BY <2>1 DEF Store, LockDiscipline
  <2>4. pc'[p] = "lock" /\ left'[p] = b
        /\ \A q \in Procs : q # p => pc'[q] = f[q] /\ left'[q] = left[q]
    BY <1>2 DEF Store, StoreType
  <2>5. \A q \in Procs : q # p => /\ pc'[q] = "put" <=> pc[q] = "put"
                                  /\ pc'[q] = "lock" <=> pc[q] = "lock"
                                  /\ pc'[q] = "write" <=> pc[q] = "write"
    BY <2>4 DEF OthersStay
  <2>6. held' = held
    BY <1>2, <2>1, <2>2, <2>3, <2>4, <2>5 DEF held
  <2>7. accepted' = accepted /\ (Writing' <=> Writing)
    BY <1>2, <2>5, <2>6 DEF accepted, Writing
  <2>8. LeftIsBatch'
    <3> SUFFICES ASSUME NEW q \in Procs
                 PROVE  /\ pc'[q] = "lock" => left'[q] \in Batches
                        /\ pc'[q] = "put" => EndOfBatch(left'[q])
      BY DEF LeftIsBatch, EndOfBatch, Batches
    <3>1. CASE q = p
      BY <3>1, <2>4
    <3>2. CASE q # p
      BY <3>2, <2>4, <2>5 DEF LeftIsBatch
    <3> QED BY <3>1, <3>2
  <2> QED BY <2>7, <2>8, QuietChannel DEF Refines
<1> QED BY <1>1, <1>2 DEF Enqueue

\* The lock reaches p, and its batch is accepted; or p goes on, unseen.
LEMMA TurnRefines ==
    ASSUME Store, LeftIsBatch, NEW p \in Procs, p # "worker", LockAcquired(p) \/ PutResumes(p)
    PROVE  Refines
<1>1. pc[p] \in {"lock", "put"} /\ lock[1] = p /\ Puts(p, pc, left[p], Tail(lock))
  BY DEF LockAcquired, PutResumes, Store, LockDiscipline
<1>2. Tail(lock) \in Seq(Procs) /\ Waiters(p, Tail(lock))
  BY <1>1, TailWaiters
<1>3. EndOfBatch(left[p])
  BY <1>1, BatchFacts DEF LeftIsBatch
<1>4. OthersStay(p, pc) /\ pc \in [Procs -> Awaits]
  BY DEF OthersStay, Store, StoreType
<1>5. accepted' = queue \o left[p] /\ (Writing' <=> Writing) /\ LeftIsBatch'
  BY <1>1, <1>2, <1>3, <1>4, PutsAccepts
<1>6. lock # <<>>
  BY <1>1 DEF Store, LockDiscipline
<1>7. CASE pc[p] = "lock"
  <2>1. held = <<>>
    BY <1>1, <1>7 DEF held
  <2>2. accepted = queue
    BY <2>1, ConcatEmptySeq, HeldFacts DEF accepted, Store
  <2>3. left[p] \in Batches
    BY <1>7 DEF LeftIsBatch
  <2> QED BY <1>5, <2>2, <2>3, AcceptChannel DEF Refines
<1>8. CASE pc[p] = "put"
  <2>1. accepted = queue \o left[p]
    BY <1>1, <1>6, <1>8 DEF accepted, held
  <2> QED BY <1>5, <2>1, QuietChannel DEF Refines
<1> QED BY <1>1, <1>7, <1>8

\* p, cancelled, gives up the lock: what it has left of its batch is withdrawn.
LEMMA LeaveRefines ==
    ASSUME Store, LeftIsBatch, NEW p \in Procs, p # "worker", LeaveLock(p), queue' = queue,
           NEW a \in Awaits, a \notin {"lock", "put", "write"}, pc' = [pc EXCEPT ![p] = a]
    PROVE  Refines
<1> USE ProcsFacts
<1>1. PICK i \in 1..Len(lock) : /\ lock[i] = p
                                /\ lock' = RemoveAt(lock, i)
                                /\ left' = [left EXCEPT ![p] = <<>>]
  BY DEF LeaveLock
<1>2. Len(lock) \in Nat /\ lock # <<>> /\ pc[p] \in {"lock", "put"} /\ lock[1] \in Procs
  <2>1. Len(lock) \in Nat /\ lock # <<>>
    BY <1>1 DEF Store, StoreType
  <2>2. pc[p] \in {"lock", "put"}
    BY <1>1 DEF Store, LockDiscipline
  <2> QED BY <2>1, <2>2, HeldFacts DEF Store
<1>3. /\ Len(lock') = Len(lock) - 1 /\ lock' \in Seq(Procs)
      /\ \A j \in 1..(Len(lock) - 1) : lock'[j] = IF j < i THEN lock[j] ELSE lock[j + 1]
  BY <1>1, RemoveAtFacts DEF Store, StoreType
<1>4. /\ pc'[p] = a /\ left'[p] = <<>>
      /\ \A q \in Procs : q # p => pc'[q] = pc[q] /\ left'[q] = left[q]
  BY <1>1 DEF Store, StoreType
<1>5. LeftIsBatch'
  <2> SUFFICES ASSUME NEW q \in Procs
               PROVE  /\ pc'[q] = "lock" => left'[q] \in Batches
                      /\ pc'[q] = "put" => EndOfBatch(left'[q])
    BY DEF LeftIsBatch, EndOfBatch, Batches
  <2> QED BY <1>4 DEF LeftIsBatch
<1>6. Writing' <=> Writing
  BY <1>4 DEF Writing
<1>7. CASE i = 1
  <2>1. \A q \in Procs : q # p => pc[q] # "put"
    BY <1>1, <1>7 DEF Store, LockDiscipline
  <2>2. lock' # <<>> => lock'[1] \in Procs
    BY <1>3
  <2>3. held' = <<>>
    BY <1>4, <2>1, <2>2 DEF held
  <2>4. accepted' = queue
    BY <2>3, ConcatEmptySeq DEF accepted, Store, StoreType
  <2>5. CASE pc[p] = "put"
    <3>1. accepted = accepted' \o left[p]
      BY <1>1, <1>2, <1>7, <2>4, <2>5 DEF accepted, held
    <3>2. EndOfBatch(left[p])
      BY <2>5 DEF LeftIsBatch
    <3> QED BY <1>5, <1>6, <3>1, <3>2, WithdrawChannel DEF Refines
  <2>6. CASE pc[p] = "lock"
    <3>1. held = <<>>
      BY <1>1, <1>7, <2>6 DEF held
    <3>2. accepted' = accepted
      BY <2>4, <3>1, ConcatEmptySeq DEF accepted, Store, StoreType
    <3> QED BY <1>5, <1>6, <3>2, QuietChannel DEF Refines
  <2> QED BY <1>2, <2>5, <2>6
<1>8. CASE i # 1
  <2>1. 1 \in 1..(Len(lock) - 1) /\ 1 < i
    BY <1>2, <1>8
  <2>2. lock'[1] = lock[1] /\ lock' # <<>>
    BY <1>3, <2>1
  <2>3. lock[1] # p
    BY <1>1, <1>2, <1>8 DEF Store, LockDiscipline
  <2>4. held' = held
    BY <1>2, <1>4, <2>2, <2>3 DEF held
  <2> QED BY <1>5, <1>6, <2>4, QuietChannel DEF Refines, accepted
<1> QED BY <1>7, <1>8

-----------------------------------------------------------------------------
(* Moves outside the lock.                                                   *)

\* p moves from f[p] to a, where f at most wakes joiners.
LEMMA MovesOutside ==
    ASSUME Store, NEW p \in Procs, pc[p] \notin {"lock", "put"},
           NEW a \in Awaits, a \notin {"lock", "put", "write"},
           NEW n, pc' = [pc EXCEPT ![p] = a] \/ pc' = [Joined(pc, n) EXCEPT ![p] = a]
    PROVE  SameLockUse(pc', pc) /\ (Writing' => Writing)
<1> USE ProcsFacts
<1> DEFINE f == Joined(pc, n)
<1>1. /\ f \in [Procs -> Awaits]
      /\ \A q \in Procs : f[q] # pc[q] => pc[q] = "join" /\ f[q] = "joined"
  BY JoinedFacts DEF Store, StoreType
<1> HIDE DEF f
<1>2. pc' = [pc EXCEPT ![p] = a] \/ pc' = [f EXCEPT ![p] = a]
  BY DEF f
<1>3. pc'[p] = a /\ \A q \in Procs : q # p => pc'[q] \in {pc[q], f[q]}
  BY <1>1, <1>2 DEF Store, StoreType
<1>4. \A q \in Procs : q # p /\ pc'[q] # pc[q] => pc[q] = "join" /\ pc'[q] = "joined"
  BY <1>1, <1>3
<1>5. SameLockUse(pc', pc)
  BY <1>3, <1>4 DEF SameLockUse
<1>6. Writing' => Writing
  BY <1>3, <1>4 DEF Writing
<1> QED BY <1>5, <1>6

LEMMA MoveWay ==
    ASSUME Store, NEW p \in Procs, pc[p] \notin {"lock", "put"},
           NEW a \in Awaits, a \notin {"lock", "put", "write"},
           pc' = [pc EXCEPT ![p] = a], UNCHANGED store, cancelled' \subseteq cancelled
    PROVE  Way
<1>1. SameLockUse(pc', pc) /\ (Writing' => Writing)
  BY MovesOutside
<1> QED BY <1>1 DEF store, Way, Quiet, OutsideLock

LEMMA ComesWay ==
    ASSUME NEW p \in Procs \ {"worker"}, NEW f \in [Procs -> Awaits], NEW b \in OwnBatches(p),
           Comes(p, f, b)
    PROVE  Way
  BY DEF Way, AtLock

LEMMA GivesUpWay ==
    ASSUME NEW p \in Procs \ {"worker"}, NEW a \in Awaits, GivesUp(p, a)
    PROVE  Way
  BY DEF Way, AtLock

LEMMA EmptiesWay ==
    ASSUME queue' = <<>>, UNCHANGED <<lock, left>>, SameLockUse(pc', pc), Writing' => Writing
    PROVE  Way
  BY DEF Way, Empties, OutsideLock

LEMMA CloseMoves ==
    ASSUME NEW p, NEW f, NEW x, NEW y, CloseClient(p, f, x, y)
    PROVE  pc' = [f EXCEPT ![p] = x] \/ pc' = [f EXCEPT ![p] = y]
  BY DEF CloseClient

\* The awaits an action may lead to outside the lock.
LEMMA OutsideFacts ==
    \A a \in {"idle", "cooldown", "scan", "establish", "notify", "auth", "subscribe", "rollback",
              "gather", "join", "joined", "closing", "sleep", "get", "done"} :
        a \in Awaits /\ a \notin {"lock", "put", "write"}
  BY DEF Awaits, CallerAwaits, TaskAwaits

-----------------------------------------------------------------------------
(* One lemma per kind of action.                                             *)

LEMMA ConnectWay ==
    ASSUME Store, NEW p \in Callers,
           \/ CooldownSlept(p) \/ ScanFinds(p) \/ ConnectFails(p) \/ Established(p)
           \/ NotifyStarted(p) \/ AuthWritten(p) \/ HandshakeFails(p) \/ RolledBack(p)
           \/ JoinReturns(p) \/ DisconnectReturns(p)
    PROVE  Way
<1> USE ProcsFacts
<1>1. pc[p] \notin {"lock", "put"} /\ UNCHANGED store /\ cancelled' = cancelled
  BY DEF CooldownSlept, ScanFinds, ConnectFails, Established, NotifyStarted, AuthWritten,
         HandshakeFails, RolledBack, JoinReturns, DisconnectReturns
<1>2. \E a \in {"idle", "scan", "establish", "notify", "auth", "subscribe", "rollback", "closing"} :
          pc' = [pc EXCEPT ![p] = a]
  <2>1. CASE CooldownSlept(p) \/ ScanFinds(p) \/ ConnectFails(p) \/ Established(p)
    BY <2>1 DEF CooldownSlept, AfterCooldown, ScanFinds, ConnectFails, AbandonConnect, Established
  <2>2. CASE RolledBack(p) \/ DisconnectReturns(p)
    BY <2>2 DEF RolledBack, DisconnectReturns
  <2>3. CASE HandshakeFails(p) \/ JoinReturns(p)
    BY <2>3, CloseMoves DEF HandshakeFails, Rollback, JoinReturns
  <2>4. CASE NotifyStarted(p) \/ AuthWritten(p)
    <3>1. PICK stage \in {"auth", "subscribe"} : HandshakeWrite(p, stage)
      BY <2>4 DEF NotifyStarted, AuthWritten
    <3>2. CASE pc' = [pc EXCEPT ![p] = stage]
      BY <3>2
    <3>3. CASE Rollback(p)
      BY <3>3, CloseMoves DEF Rollback
    <3> QED BY <3>1, <3>2, <3>3 DEF HandshakeWrite
  <2> QED BY <2>1, <2>2, <2>3, <2>4
<1> QED BY <1>1, <1>2, OutsideFacts, MoveWay

LEMMA SubscribedWay ==
    ASSUME Store, NEW p \in Callers, Subscribed(p)
    PROVE  Way
<1> USE ProcsFacts
<1> DEFINE f == IF job[p] = "connect_no_tasks" THEN pc ELSE WithTasks(pc)
<1>1. /\ f \in [Procs -> Awaits]
      /\ \A q \in Procs : f[q] # pc[q] => f[q] = "new" /\ pc[q] \in {"none", "done"}
  BY WithTasksFacts DEF Store, StoreType
<1>2. pc[p] = "subscribe" /\ cancelled' = cancelled
  BY DEF Subscribed
<1>3. \/ Enqueue(p, f, <<"command">>)
      \/ pc' = [f EXCEPT ![p] = "idle"] /\ UNCHANGED store
  BY DEF Subscribed
<1> HIDE DEF f
<1>4. CASE Enqueue(p, f, <<"command">>)
  <2>1. OthersStay(p, f) /\ <<"command">> \in OwnBatches(p) /\ p \notin Tasks
    BY <1>1 DEF OthersStay, OwnBatches, Tasks
  <2>2. Comes(p, f, <<"command">>)
    BY <1>2, <1>4, <2>1 DEF Comes
  <2> QED BY <1>1, <2>1, <2>2, ComesWay
<1>5. CASE pc' = [f EXCEPT ![p] = "idle"] /\ UNCHANGED store
  <2>1. pc'[p] = "idle" /\ \A q \in Procs : q # p => pc'[q] = f[q]
    BY <1>1, <1>5
  <2>2. SameLockUse(pc', pc) /\ (Writing' => Writing)
    BY <1>1, <1>2, <2>1 DEF SameLockUse, Writing
  <2> QED BY <1>2, <1>5, <2>2 DEF store, Way, Quiet, OutsideLock
<1> QED BY <1>3, <1>4, <1>5

LEMMA BeginConnectWay ==
    ASSUME Store, NEW p \in Callers, NEW j, pc[p] = "idle", BeginConnect(p, j)
    PROVE  Way
<1> USE ProcsFacts
<1>1. PICK a \in {"cooldown", "scan", "establish"} : pc' = [pc EXCEPT ![p] = a]
  BY DEF BeginConnect, AfterCooldown
<1> QED BY <1>1, OutsideFacts, MoveWay DEF BeginConnect

LEMMA CommandWay ==
    ASSUME Store, NEW p \in Callers, Connect(p) \/ SendCommand(p) \/ Auth(p)
    PROVE  Way
<1> USE ProcsFacts
<1>1. pc[p] = "idle" /\ OthersStay(p, pc) /\ pc \in [Procs -> Awaits]
  BY DEF Connect, SendCommand, Auth, OthersStay, Store, StoreType
<1>2. CASE \E j : BeginConnect(p, j)
  BY <1>1, <1>2, BeginConnectWay
<1>3. CASE cancelled' = cancelled /\ \E b \in OwnBatches(p) : Enqueue(p, pc, b)
  <2>1. PICK b \in OwnBatches(p) : Enqueue(p, pc, b)
    BY <1>3
  <2>2. p \notin Tasks
    BY DEF Tasks
  <2>3. Comes(p, pc, b)
    BY <1>1, <1>3, <2>1, <2>2 DEF Comes
  <2> QED BY <1>1, <2>3, ComesWay
<1> QED BY <1>2, <1>3 DEF Connect, SendCommand, Auth, OwnBatches

\* disconnect(), up to its join.
LEMMA DisconnectWay ==
    ASSUME Store, NEW p \in Callers, Disconnect(p) \/ Gathered(p)
    PROVE  Way
<1> USE ProcsFacts
<1>1. pc[p] \in {"idle", "gather"} /\ queue' = <<>> /\ UNCHANGED <<lock, left>>
  BY DEF Disconnect, Gathered, DrainAndJoin
<1>2. PICK a \in {"idle", "gather", "join", "closing"} :
          \/ pc' = [pc EXCEPT ![p] = a]
          \/ pc' = [Joined(pc, unfinished - Len(queue)) EXCEPT ![p] = a]
  <2>1. CASE DrainAndJoin(p)
    BY <2>1, CloseMoves DEF DrainAndJoin
  <2> QED BY <2>1 DEF Disconnect, Gathered
<1>3. SameLockUse(pc', pc) /\ (Writing' => Writing)
  BY <1>1, <1>2, OutsideFacts, MovesOutside
<1> QED BY <1>1, <1>3, EmptiesWay

LEMMA CancelCallWay ==
    ASSUME Store, NEW p \in Callers, CancelCall(p)
    PROVE  Way
<1> USE ProcsFacts
<1>0. cancelled' = cancelled /\ p \notin Tasks
  BY DEF CancelCall, Tasks
<1>1. CASE LeaveLock(p) /\ pc' = [pc EXCEPT ![p] = "idle"] /\ queue' = queue
  <2>1. "idle" \in Awaits /\ GivesUp(p, "idle")
    BY <1>0, <1>1, OutsideFacts DEF GivesUp
  <2> QED BY <2>1, GivesUpWay
<1>2. CASE /\ pc[p] \notin {"lock", "put"} /\ UNCHANGED store
           /\ \E a \in {"idle", "rollback"} : pc' = [pc EXCEPT ![p] = a]
  BY <1>0, <1>2, OutsideFacts, MoveWay
<1>3. CASE pc[p] \in {"notify", "auth", "subscribe"} /\ Rollback(p) /\ UNCHANGED store
  <2>1. pc' = [pc EXCEPT ![p] = "rollback"] \/ pc' = [pc EXCEPT ![p] = "idle"]
    BY <1>3, CloseMoves DEF Rollback
  <2> QED BY <1>2, <1>3, <2>1
<1> QED BY <1>1, <1>2, <1>3 DEF CancelCall, AbandonConnect

LEMMA HeartbeatWay ==
    ASSUME Store, HeartbeatWakes \/ HeartbeatCancelled
    PROVE  Way
<1> USE ProcsFacts
<1>0. "heartbeat" \in Procs \ {"worker"} /\ "heartbeat" \in Tasks
  BY DEF Procs, Tasks
<1>1. CASE /\ Enqueue("heartbeat", pc, Batch) /\ pc["heartbeat"] \in {"new", "sleep"}
           /\ "heartbeat" \notin cancelled /\ cancelled' = cancelled
  <2>1. OthersStay("heartbeat", pc) /\ pc \in [Procs -> Awaits] /\ Batch \in OwnBatches("heartbeat")
    BY DEF OthersStay, Store, StoreType, OwnBatches
  <2>2. Comes("heartbeat", pc, Batch)
    BY <1>1, <2>1 DEF Comes
  <2> QED BY <1>0, <2>1, <2>2, ComesWay
<1>2. CASE /\ pc' = [pc EXCEPT !["heartbeat"] = "done"] /\ UNCHANGED store
           /\ pc["heartbeat"] \in {"new", "sleep"} /\ cancelled' \subseteq cancelled
  BY <1>0, <1>2, OutsideFacts, MoveWay
<1>3. CASE /\ LeaveLock("heartbeat") /\ pc' = [pc EXCEPT !["heartbeat"] = "done"] /\ queue' = queue
           /\ "heartbeat" \in cancelled /\ cancelled' \subseteq cancelled
  <2>1. "done" \in Awaits /\ GivesUp("heartbeat", "done")
    BY <1>3, OutsideFacts DEF GivesUp
  <2> QED BY <1>0, <2>1, GivesUpWay
<1>4. Ended("heartbeat") => cancelled' \subseteq cancelled
  BY DEF Ended
<1> QED BY <1>1, <1>2, <1>3, <1>4 DEF HeartbeatWakes, HeartbeatCancelled, store

\* A write that could not begin, or failed: the worker drains the queue.
LEMMA WriteErrorWay ==
    ASSUME Store, pc["worker"] \in {"new", "sleep", "get", "write"},
           NEW others, WriteError(others), UNCHANGED <<lock, left>>
    PROVE  Way
<1> USE ProcsFacts
<1> DEFINE f == Joined(pc, unfinished - 1 - Len(others))
<1>1. queue' = <<>> /\ CloseClient("worker", f, "closing", "done")
  BY DEF WriteError
<1>2. pc' = [f EXCEPT !["worker"] = "closing"] \/ pc' = [f EXCEPT !["worker"] = "done"]
  BY <1>1, CloseMoves
<1>3. SameLockUse(pc', pc) /\ (Writing' => Writing)
  BY <1>2, OutsideFacts, MovesOutside
<1> QED BY <1>1, <1>3, EmptiesWay

LEMMA TakeCommandWay ==
    ASSUME Store, pc["worker"] \in {"new", "sleep", "get"}, TakeCommand
    PROVE  Way
<1> USE ProcsFacts
<1>1. UNCHANGED <<lock, left>> /\ queue # <<>>
  BY DEF TakeCommand
<1>2. CASE /\ queue' = Tail(queue) /\ pc' = [pc EXCEPT !["worker"] = "write"]
           /\ cancelled' = cancelled
  <2>1. pc'["worker"] = "write" /\ \A q \in Procs : q # "worker" => pc'[q] = pc[q]
    BY <1>2 DEF Store, StoreType
  <2>2. SameLockUse(pc', pc) /\ ~Writing /\ Writing'
    BY <2>1 DEF SameLockUse, Writing
  <2> QED BY <1>1, <1>2, <2>2 DEF Way, Takes, OutsideLock
<1>3. CASE WriteError(Tail(queue))
  BY <1>1, <1>3, WriteErrorWay
<1> QED BY <1>2, <1>3 DEF TakeCommand

LEMMA WorkerWay ==
    ASSUME Store, Worker
    PROVE  Way
<1> USE ProcsFacts
<1>1. CASE TakeCommand /\ pc["worker"] \in {"new", "sleep", "get"}
  BY <1>1, TakeCommandWay
<1>2. CASE WorkerWriteFails
  BY <1>2, WriteErrorWay DEF WorkerWriteFails
<1>3. CASE /\ pc["worker"] \notin {"lock", "put"} /\ UNCHANGED <<queue, lock, left>>
           /\ \E a \in {"sleep", "get", "done"} :
                \/ pc' = [pc EXCEPT !["worker"] = a]
                \/ pc' = [Joined(pc, unfinished - 1) EXCEPT !["worker"] = a]
           /\ cancelled' \subseteq cancelled
  <2>1. SameLockUse(pc', pc) /\ (Writing' => Writing)
    BY <1>3, OutsideFacts, MovesOutside
  <2> QED BY <1>3, <2>1 DEF Way, Quiet, OutsideLock
<1>4. Ended("worker") => cancelled' \subseteq cancelled
  BY DEF Ended
<1> QED BY <1>1, <1>2, <1>3, <1>4
        DEF Worker, WorkerLoops, WorkerTakes, WorkerWrote, WorkerClosed, WorkerCancelled,
            store

LEMMA BackendWay ==
    ASSUME Store, Backend
    PROVE  Way
<1> USE ProcsFacts
<1>1. CASE UNCHANGED <<queue, lock, left, pc, cancelled>>
  BY <1>1 DEF Way, Quiet, OutsideLock, SameLockUse, Writing
<1>2. CASE \E c \in Clients : DeviceDisconnected(c)
  <2>1. /\ queue' = <<>> /\ UNCHANGED <<lock, left>>
        /\ pc' = Joined(pc, unfinished - Len(queue))
    BY <1>2 DEF DeviceDisconnected
  <2>2. \A q \in Procs : pc'[q] # pc[q] => pc[q] = "join" /\ pc'[q] = "joined"
    <3>1. pc \in [Procs -> Awaits]
      BY DEF Store, StoreType
    <3>2. pc' = Joined(pc, unfinished - Len(queue))
      BY <2>1
    <3> QED BY <3>1, <3>2, JoinedFacts
  <2>3. SameLockUse(pc', pc) /\ (Writing' => Writing)
    BY <2>2 DEF SameLockUse, Writing
  <2> QED BY <2>1, <2>3, EmptiesWay
<1> QED BY <1>1, <1>2 DEF Backend, CooldownPasses, LinkDrops, store, control

-----------------------------------------------------------------------------
(* The theorem.                                                              *)

LEMMA InitRefines == Init => Channel!Init /\ LeftIsBatch
<1> SUFFICES ASSUME Init PROVE Channel!Init /\ LeftIsBatch
  OBVIOUS
<1> USE ProcsFacts
<1>1. queue = <<>> /\ lock = <<>> /\ \A p \in Procs : pc[p] \in {"none", "idle"}
  BY DEF Init
<1>2. accepted = <<>>
  BY <1>1, ConcatEmptySeq, EmptySeq DEF accepted, held
<1>3. (pc["worker"] = "write") = FALSE
  BY <1>1
<1>4. LeftIsBatch
  BY <1>1 DEF LeftIsBatch
<1> QED BY <1>2, <1>3, <1>4 DEF Channel!Init

LEMMA NextWay ==
    ASSUME Store, Next PROVE Way
<1> USE ProcsFacts
<1>1. ASSUME NEW p \in Callers, CallerResumes(p) PROVE Way
  <2>1. p \in Procs \ {"worker"}
    OBVIOUS
  <2>2. CASE LockAcquired(p) \/ PutResumes(p)
    BY <2>1, <2>2 DEF Way, AtLock, GoesOn
  <2> QED BY <1>1, <2>2, ConnectWay, SubscribedWay, DisconnectWay DEF CallerResumes
<1>2. ASSUME NEW p \in Callers, CallerCalls(p) PROVE Way
  BY <1>2, CommandWay, DisconnectWay, CancelCallWay DEF CallerCalls
<1>3. CASE Heartbeat
  <2>1. "heartbeat" \in Procs \ {"worker"}
    OBVIOUS
  <2>2. CASE LockAcquired("heartbeat") \/ PutResumes("heartbeat")
    BY <2>1, <2>2 DEF Way, AtLock, GoesOn
  <2> QED BY <1>3, <2>2, HeartbeatWay DEF Heartbeat
<1>4. CASE Worker
  BY <1>4, WorkerWay
<1>5. CASE Backend
  BY <1>5, BackendWay
<1> QED BY <1>1, <1>2, <1>3, <1>4, <1>5 DEF Next

\* Every way is one of the channel.
LEMMA WayRefines ==
    ASSUME Store, LeftIsBatch, Way PROVE Refines
<1> USE ProcsFacts
<1>1. CASE Quiet
  BY <1>1, QuietStep DEF Quiet, OutsideLock, Store
<1>2. CASE Empties
  BY <1>2, EmptyStep DEF Empties, OutsideLock, Store
<1>3. CASE Takes
  BY <1>3, TakeStep DEF Takes, OutsideLock, Store
<1>4. ASSUME NEW p \in Procs \ {"worker"}, AtLock(p) PROVE Refines
  <2>1. p \in Procs /\ p # "worker" /\ OwnBatches(p) \subseteq Batches
    BY DEF OwnBatches, Batches
  <2>2. ASSUME NEW f \in [Procs -> Awaits], NEW b \in OwnBatches(p), Comes(p, f, b) PROVE Refines
    BY <2>1, <2>2, EnqueueRefines DEF Comes
  <2>3. CASE GoesOn(p)
    BY <2>1, <2>3, TurnRefines DEF GoesOn
  <2>4. ASSUME NEW a \in Awaits, GivesUp(p, a) PROVE Refines
    BY <2>1, <2>4, LeaveRefines DEF GivesUp
  <2> QED BY <1>4, <2>2, <2>3, <2>4 DEF AtLock
<1> QED BY <1>1, <1>2, <1>3, <1>4 DEF Way

LEMMA NextRefines == IInv /\ LeftIsBatch /\ [Next]_vars => Refines
<1> SUFFICES ASSUME IInv, LeftIsBatch, [Next]_vars PROVE Refines
  OBVIOUS
<1>1. Store
  BY DEF IInv
<1>2. CASE Next
  BY <1>1, <1>2, NextWay, WayRefines
<1>3. CASE UNCHANGED vars
  BY <1>1, <1>3, QuietStep DEF Store, SameLockUse, Writing, vars, store, control
<1> QED BY <1>2, <1>3

\* For every number of callers and every queue size, queue, lock and worker
\* implement the channel: batches are accepted as one and never interleaved, and
\* commands are written one at a time, in their order, at most once, whatever
\* blocks, is cancelled or drained on the way.
THEOREM ChannelImplemented == Spec => ImplementsChannel
<1>1. Init => Channel!Init
  BY InitRefines
<1>2. IInv /\ LeftIsBatch /\ [Next]_vars => LeftIsBatch' /\ [Channel!Next]_(Channel!vars)
  BY NextRefines DEF Refines, ChannelStep
<1> QED BY <1>1, <1>2, InitRefines, InitIInv, NextIInv, PTL
        DEF Spec, ImplementsChannel, Channel!Spec

-----------------------------------------------------------------------------
(* No command comes between a heartbeat and its settings request.          *)

Triple == <<"auth", "heartbeat", "settings">>

\* s is one of the three ends of the heartbeat's batch.
EndOfTriple(s) ==
    /\ s \in Seq(Commands) /\ Len(s) \in 1..3
    /\ \A j \in 1..Len(s) : s[j] = Triple[3 - Len(s) + j]

\* What a process in the lock has left: one command, or the end of the batch.
LeftOK ==
    \A p \in Procs : pc[p] \in {"lock", "put"} =>
        IF p = "heartbeat" THEN EndOfTriple(left[p])
        ELSE left[p] \in Seq(Commands) /\ Len(left[p]) = 1 /\ left[p][1] # "heartbeat"

\* A heartbeat in the queue has its settings request behind it, or it is the
\* last and the task's next put is the request.
Paired ==
    \A i \in 1..Len(queue) : queue[i] = "heartbeat" =>
        IF i < Len(queue) THEN queue[i + 1] = "settings"
        ELSE pc["heartbeat"] = "put" /\ Len(left["heartbeat"]) = 1

\* A cancelled heartbeat task has nothing in the queue.
CancelledLeftNone ==
    "heartbeat" \in cancelled => \A i \in 1..Len(queue) : queue[i] # "heartbeat"

Batched == LeftOK /\ Paired /\ CancelledLeftNone

-----------------------------------------------------------------------------
LEMMA TripleFacts ==
    /\ Triple \in Seq(Commands) /\ Len(Triple) = 3
    /\ Triple[1] = "auth" /\ Triple[2] = "heartbeat" /\ Triple[3] = "settings"
  BY DEF Triple, Commands

\* An end ends in the settings request, preceded by the heartbeat alone.
LEMMA EndOfTripleFacts ==
    ASSUME NEW s, EndOfTriple(s)
    PROVE  /\ Len(s) = 1 => s[1] = "settings"
           /\ \A j \in 1..Len(s) : s[j] = "heartbeat" =>
                j + 1 = Len(s) /\ s[j + 1] = "settings"
<1>1. CASE Len(s) = 1
  <2>1. s[1] = "settings"
    BY <1>1, TripleFacts DEF EndOfTriple
  <2> QED BY <1>1, <2>1
<1>2. CASE Len(s) = 2
  <2>1. s[1] = "heartbeat" /\ s[2] = "settings"
    BY <1>2, TripleFacts DEF EndOfTriple
  <2> QED BY <1>2, <2>1
<1>3. CASE Len(s) = 3
  <2>1. s[1] = "auth" /\ s[2] = "heartbeat" /\ s[3] = "settings"
    BY <1>3, TripleFacts DEF EndOfTriple
  <2> QED BY <1>3, <2>1
<1> QED BY <1>1, <1>2, <1>3 DEF EndOfTriple

LEMMA EndOfTripleTail ==
    ASSUME NEW s, EndOfTriple(s), NEW n \in Nat, n < Len(s)
    PROVE  EndOfTriple(SubSeq(s, n + 1, Len(s)))
<1>1. s \in Seq(Commands) /\ Len(s) \in 1..3
  BY DEF EndOfTriple
<1> DEFINE t == SubSeq(s, n + 1, Len(s))
<1>2. /\ t \in Seq(Commands) /\ Len(t) = Len(s) - n
      /\ \A j \in 1..(Len(s) - n) : t[j] = s[n + j]
  <2>1. \A j \in (n + 1)..Len(s) : s[j] \in Commands
    BY <1>1
  <2>2. /\ t \in Seq(Commands)
        /\ Len(t) = IF n + 1 <= Len(s) THEN Len(s) - (n + 1) + 1 ELSE 0
        /\ \A j \in 1..(Len(s) - (n + 1) + 1) : t[j] = s[n + 1 + j - 1]
    BY <1>1, <2>1, SubSeqProperties
  <2> QED BY <1>1, <2>2
<1> HIDE DEF t
<1>3. ASSUME NEW j \in 1..Len(t) PROVE t[j] = Triple[3 - Len(t) + j]
  <2>1. j \in 1..(Len(s) - n) /\ n + j \in 1..Len(s)
        /\ 3 - Len(s) + (n + j) = 3 - Len(t) + j
    BY <1>1, <1>2
  <2>2. s[n + j] = Triple[3 - Len(s) + (n + j)]
    BY <2>1 DEF EndOfTriple
  <2> QED BY <1>2, <2>1, <2>2
<1>4. Len(t) \in 1..3
  <2>1. Len(t) = Len(s) - n /\ Len(s) \in 1..3 /\ n \in Nat /\ n < Len(s)
    BY <1>1, <1>2
  <2> DEFINE k == Len(s)
             l == Len(t)
  <2>2. l = k - n /\ k \in 1..3 /\ n < k
    BY <2>1
  <2> HIDE DEF k, l
  <2>3. l \in 1..3
    BY <2>2
  <2> QED BY <2>3 DEF l
<1>5. EndOfTriple(t)
  BY <1>2, <1>3, <1>4 DEF EndOfTriple
<1> QED BY <1>5 DEF t

\* What p has to put, as LeftOK says of one in the lock.
PutOK(p, cmds) ==
    IF p = "heartbeat" THEN EndOfTriple(cmds)
    ELSE cmds \in Seq(Commands) /\ Len(cmds) = 1 /\ cmds[1] # "heartbeat"

\* p, whose turn it is, puts what fits: on from where it stopped, if it did.
LEMMA PutsPaired ==
    ASSUME Store, Batched, NEW p \in Procs, p # "worker", p = "heartbeat" => p \notin cancelled,
           NEW f \in [Procs -> Awaits], OthersStay(p, f),
           NEW cmds, PutOK(p, cmds), p = "heartbeat" /\ pc[p] = "put" => cmds = left[p],
           NEW w \in Seq(Procs), Waiters(p, w),
           Puts(p, f, cmds, w), cancelled' = cancelled
    PROVE  Batched'
<1> USE ProcsFacts
<1> DEFINE room == QueueSize - Len(queue)
           n    == IF Len(cmds) <= room THEN Len(cmds) ELSE room
<1>0. cmds \in Seq(Commands) /\ Len(cmds) \in 1..3
  BY DEF PutOK, EndOfTriple
<1>1. n \in 0..Len(cmds) /\ Len(queue) \in Nat /\ queue \in Seq(Commands)
  BY <1>0 DEF Store, StoreType, QueueBound
<1>2. /\ queue' = queue \o SubSeq(cmds, 1, n)
      /\ left' = [left EXCEPT ![p] = SubSeq(cmds, n + 1, Len(cmds))]
  BY DEF Puts
<1>3. \/ /\ n = Len(cmds)
         /\ pc' = [f EXCEPT ![p] = IF p = "heartbeat" THEN "sleep" ELSE "idle"]
      \/ /\ n < Len(cmds)
         /\ pc' = [f EXCEPT ![p] = "put"]
  BY DEF Puts
<1> HIDE DEF n
<1>4. /\ pc'[p] \in {"sleep", "idle", "put"} /\ (pc'[p] = "put" <=> n < Len(cmds))
      /\ \A q \in Procs : q # p => pc'[q] = f[q]
  BY <1>0, <1>1, <1>3
<1>5. \A q \in Procs : q # p => /\ pc[q] # "put" /\ pc'[q] # "put"
                                /\ pc'[q] = "lock" <=> pc[q] = "lock"
                                /\ left'[q] = left[q]
  <2>1. \A q \in Procs : q # p => left'[q] = left[q] /\ pc[q] # "put"
    BY <1>2 DEF Store, StoreType, Waiters
  <2> QED BY <1>4, <2>1 DEF OthersStay
<1>6. /\ queue' \in Seq(Commands) /\ Len(queue') = Len(queue) + n
      /\ \A i \in 1..(Len(queue) + n) :
           queue'[i] = IF i <= Len(queue) THEN queue[i] ELSE cmds[i - Len(queue)]
  <2> DEFINE x == SubSeq(cmds, 1, n)
  <2>1. x \in Seq(Commands) /\ Len(x) = n /\ \A i \in 1..n : x[i] = cmds[i]
    BY <1>0, <1>1
  <2> HIDE DEF x
  <2>2. /\ queue \o x \in Seq(Commands) /\ Len(queue \o x) = Len(queue) + Len(x)
        /\ \A i \in 1..(Len(queue) + Len(x)) :
             (queue \o x)[i] = IF i <= Len(queue) THEN queue[i] ELSE x[i - Len(queue)]
    <3>1. queue \in Seq(Commands) /\ x \in Seq(Commands)
      BY <1>1, <2>1
    <3> QED BY <3>1, ConcatProperties
  <2>3. queue' = queue \o x
    BY <1>2 DEF x
  <2>4. \A i \in 1..(Len(queue) + n) : ~(i <= Len(queue)) => i - Len(queue) \in 1..n
    BY <1>0, <1>1
  <2> QED BY <2>1, <2>2, <2>3, <2>4
<1>7. left'[p] = SubSeq(cmds, n + 1, Len(cmds)) /\ Len(left'[p]) = Len(cmds) - n
  <2>1. left'[p] = SubSeq(cmds, n + 1, Len(cmds))
    BY <1>2 DEF Store, StoreType
  <2>2. Len(SubSeq(cmds, n + 1, Len(cmds))) = Len(cmds) - n
    BY <1>0, <1>1
  <2> QED BY <2>1, <2>2
<1>8. pc'[p] = "put" => PutOK(p, left'[p])
  <2>1. CASE p = "heartbeat" /\ n < Len(cmds)
    <3>1. EndOfTriple(cmds) /\ n \in Nat
      BY <1>0, <1>1, <2>1 DEF PutOK
    <3>2. EndOfTriple(SubSeq(cmds, n + 1, Len(cmds)))
      BY <2>1, <3>1, EndOfTripleTail
    <3> QED BY <1>7, <2>1, <3>2 DEF PutOK
  <2>2. CASE p # "heartbeat" /\ n < Len(cmds)
    <3>0. Len(cmds) = 1
      BY <2>2 DEF PutOK
    <3>1. n = 0
      BY <1>1, <2>2, <3>0
    <3>2. left'[p] = cmds
      BY <1>0, <1>7, <3>1, SubSeqFull
    <3> QED BY <2>2, <3>2 DEF PutOK
  <2> QED BY <1>4, <2>1, <2>2
<1>9. LeftOK'
  <2> SUFFICES ASSUME NEW q \in Procs, pc'[q] \in {"lock", "put"} PROVE PutOK(q, left'[q])
    BY DEF LeftOK, PutOK, EndOfTriple
  <2>1. CASE q = p
    BY <1>4, <1>8, <2>1
  <2>2. CASE q # p
    BY <1>5, <2>2 DEF Batched, LeftOK, PutOK
  <2> QED BY <2>1, <2>2
\* The last of the queue is a heartbeat only if p is the task and goes on from there.
<1>10. ASSUME Len(queue) # 0, queue[Len(queue)] = "heartbeat"
       PROVE  p = "heartbeat" /\ Len(cmds) = 1 /\ cmds[1] = "settings"
  <2>1. Len(queue) \in 1..Len(queue)
    BY <1>1, <1>10
  <2>2. pc["heartbeat"] = "put" /\ Len(left["heartbeat"]) = 1
    BY <1>10, <2>1 DEF Batched, Paired
  <2>3. p = "heartbeat"
    BY <1>5, <2>2
  <2>4. EndOfTriple(cmds) /\ Len(cmds) = 1
    BY <2>2, <2>3 DEF PutOK
  <2> QED BY <2>3, <2>4, EndOfTripleFacts
<1>11. Paired'
  <2> SUFFICES ASSUME NEW i \in 1..(Len(queue) + n), queue'[i] = "heartbeat"
               PROVE  IF i < Len(queue) + n THEN queue'[i + 1] = "settings"
                      ELSE pc'["heartbeat"] = "put" /\ Len(left'["heartbeat"]) = 1
    BY <1>6 DEF Paired
  <2>1. CASE i < Len(queue)
    <3>1. i \in 1..Len(queue) /\ i + 1 \in 1..(Len(queue) + n) /\ i + 1 <= Len(queue)
          /\ i < Len(queue) + n
      BY <1>0, <1>1, <2>1
    <3>2. queue[i] = "heartbeat"
      BY <1>6, <3>1
    <3>3. queue[i + 1] = "settings"
      BY <2>1, <3>1, <3>2 DEF Batched, Paired
    <3> QED BY <1>6, <3>1, <3>3
  <2>2. CASE i = Len(queue)
    <3>1. queue[i] = "heartbeat" /\ Len(queue) # 0
      BY <1>1, <1>6, <2>2
    <3>2. p = "heartbeat" /\ Len(cmds) = 1 /\ cmds[1] = "settings"
      BY <1>10, <2>2, <3>1
    <3>3. CASE n = 0
      <4>1. ~(i < Len(queue) + n) /\ n < Len(cmds) /\ Len(cmds) - n = 1
        BY <1>1, <2>2, <3>2, <3>3
      <4> QED BY <1>4, <1>7, <3>2, <4>1
    <3>4. CASE n # 0
      <4>1. i + 1 \in 1..(Len(queue) + n) /\ ~(i + 1 <= Len(queue)) /\ i + 1 - Len(queue) = 1
            /\ i < Len(queue) + n
        BY <1>0, <1>1, <2>2, <3>4
      <4>2. queue'[i + 1] = cmds[1]
        BY <1>6, <4>1
      <4> QED BY <3>2, <4>1, <4>2
    <3> QED BY <3>3, <3>4
  <2>3. CASE i > Len(queue)
    <3> DEFINE j == i - Len(queue)
    <3>1. j \in 1..n /\ j \in 1..Len(cmds) /\ ~(i <= Len(queue))
      BY <1>0, <1>1, <2>3
    <3>2. cmds[j] = "heartbeat"
      BY <1>6, <3>1
    <3>3. p = "heartbeat"
      BY <1>0, <3>1, <3>2 DEF PutOK
    <3>4. j + 1 = Len(cmds) /\ cmds[j + 1] = "settings"
      <4> HIDE DEF j
      <4>1. EndOfTriple(cmds)
        BY <3>3 DEF PutOK
      <4> QED BY <3>1, <3>2, <4>1, EndOfTripleFacts
    <3>5. CASE j < n
      <4>1. i + 1 \in 1..(Len(queue) + n) /\ ~(i + 1 <= Len(queue)) /\ i + 1 - Len(queue) = j + 1
            /\ i < Len(queue) + n
        BY <1>0, <1>1, <2>3, <3>5
      <4>2. queue'[i + 1] = cmds[j + 1]
        BY <1>6, <4>1
      <4> QED BY <3>4, <4>1, <4>2
    <3>6. CASE j = n
      <4>1. ~(i < Len(queue) + n) /\ n < Len(cmds) /\ Len(cmds) - n = 1
        BY <1>0, <1>1, <3>4, <3>6
      <4> QED BY <1>4, <1>7, <3>3, <4>1
    <3>7. j < n \/ j = n
      <4>1. n \in Nat /\ j \in Nat /\ j <= n
        BY <1>0, <1>1, <3>1
      <4> HIDE DEF j
      <4> QED BY <4>1
    <3> QED BY <3>5, <3>6, <3>7
  <2> QED BY <1>0, <1>1, <2>1, <2>2, <2>3
<1>12. CancelledLeftNone'
  <2> SUFFICES ASSUME "heartbeat" \in cancelled, NEW i \in 1..(Len(queue) + n)
               PROVE  queue'[i] # "heartbeat"
    BY <1>6 DEF CancelledLeftNone
  <2>1. p # "heartbeat" /\ Len(cmds) = 1 /\ cmds[1] # "heartbeat"
    BY DEF PutOK
  <2>2. CASE i <= Len(queue)
    <3>1. i \in 1..Len(queue)
      BY <1>1, <2>2
    <3> QED BY <1>6, <2>2, <3>1 DEF Batched, CancelledLeftNone
  <2>3. CASE ~(i <= Len(queue))
    <3>1. i - Len(queue) = 1
      BY <1>0, <1>1, <2>1, <2>3
    <3> QED BY <1>6, <2>1, <2>3, <3>1
  <2> QED BY <2>2, <2>3
<1> QED BY <1>9, <1>11, <1>12 DEF Batched

\* The way of p through the lock.
LEMMA ComesBatched ==
    ASSUME NewStyle, Store, Batched, NEW p \in Procs, p # "worker",
           NEW f \in [Procs -> Awaits], NEW b \in OwnBatches(p), Comes(p, f, b)
    PROVE  Batched'
<1> USE ProcsFacts
<1>1. PutOK(p, b)
  <2>1. CASE p = "heartbeat"
    <3>1. b = Triple
      BY <2>1 DEF OwnBatches, Batch, Triple
    <3>2. EndOfTriple(Triple)
      BY TripleFacts DEF EndOfTriple
    <3> QED BY <2>1, <3>1, <3>2 DEF PutOK
  <2>2. CASE p # "heartbeat"
    <3>1. b = <<"auth">> \/ b = <<"command">>
      BY <2>2 DEF OwnBatches
    <3>2. /\ <<"auth">> \in Seq(Commands) /\ Len(<<"auth">>) = 1 /\ <<"auth">>[1] = "auth"
          /\ <<"command">> \in Seq(Commands) /\ Len(<<"command">>) = 1 /\ <<"command">>[1] = "command"
      BY DEF Commands
    <3> QED BY <2>2, <3>1, <3>2 DEF PutOK
  <2> QED BY <2>1, <2>2
<1>2. /\ pc[p] \notin {"lock", "put"} /\ OthersStay(p, f) /\ cancelled' = cancelled
      /\ p = "heartbeat" => p \notin cancelled
  BY DEF Comes, Tasks
<1>3. CASE lock = <<>> /\ Puts(p, f, b, <<>>)
  <2> DEFINE w == <<>>
  <2>1. w \in Seq(Procs) /\ Len(w) = 0 /\ Puts(p, f, b, w)
    BY <1>3
  <2>2. \A q \in Procs : pc[q] \notin {"lock", "put"}
    BY <1>3 DEF Store, LockDiscipline
  <2> HIDE DEF w
  <2>3. Waiters(p, w)
    BY <2>1, <2>2 DEF Waiters
  <2> QED BY <1>1, <1>2, <2>1, <2>3, PutsPaired
<1>4. CASE /\ left' = [left EXCEPT ![p] = b]
           /\ pc' = [f EXCEPT ![p] = "lock"]
           /\ UNCHANGED queue
  <2>1. pc'[p] = "lock" /\ left'[p] = b
        /\ \A q \in Procs : q # p => pc'[q] = f[q] /\ left'[q] = left[q]
    BY <1>4 DEF Store, StoreType
  <2>2. \A q \in Procs : q # p => /\ pc'[q] = "put" <=> pc[q] = "put"
                                  /\ pc'[q] = "lock" <=> pc[q] = "lock"
    BY <1>2, <2>1 DEF OthersStay
  <2>3. LeftOK'
    <3> SUFFICES ASSUME NEW q \in Procs, pc'[q] \in {"lock", "put"} PROVE PutOK(q, left'[q])
      BY DEF LeftOK, PutOK, EndOfTriple
    <3>1. CASE q = p
      BY <1>1, <2>1, <3>1
    <3>2. CASE q # p
      BY <2>1, <2>2, <3>2 DEF Batched, LeftOK, PutOK
    <3> QED BY <3>1, <3>2
  <2>4. pc["heartbeat"] = "put" => pc'["heartbeat"] = "put" /\ left'["heartbeat"] = left["heartbeat"]
    BY <1>2, <2>1, <2>2
  <2>5. Paired'
    BY <1>4, <2>4 DEF Batched, Paired
  <2>6. CancelledLeftNone'
    BY <1>2, <1>4 DEF Batched, CancelledLeftNone
  <2> QED BY <2>3, <2>5, <2>6 DEF Batched
<1> QED BY <1>3, <1>4 DEF Comes, Enqueue

LEMMA GoesOnBatched ==
    ASSUME NewStyle, Store, Batched, NEW p \in Procs, p # "worker", GoesOn(p)
    PROVE  Batched'
<1>1. /\ pc[p] \in {"lock", "put"} /\ lock[1] = p /\ Puts(p, pc, left[p], Tail(lock))
      /\ p \notin cancelled /\ cancelled' = cancelled
  BY DEF GoesOn, LockAcquired, PutResumes, Store, LockDiscipline
<1>2. Tail(lock) \in Seq(Procs) /\ Waiters(p, Tail(lock))
  BY <1>1, TailWaiters
<1>3. PutOK(p, left[p])
  BY <1>1 DEF Batched, LeftOK, PutOK
<1>4. OthersStay(p, pc) /\ pc \in [Procs -> Awaits]
  BY DEF OthersStay, Store, StoreType
<1> QED BY <1>1, <1>2, <1>3, <1>4, PutsPaired

\* The task gives up the lock only when it was cancelled.
LEMMA GivesUpBatched ==
    ASSUME NewStyle, Store, Batched, NEW p \in Procs, p # "worker", NEW a \in Awaits, GivesUp(p, a)
    PROVE  Batched'
<1> USE ProcsFacts
<1>1. /\ queue' = queue /\ pc' = [pc EXCEPT ![p] = a] /\ a \notin {"lock", "put", "write"}
      /\ left' = [left EXCEPT ![p] = <<>>] /\ cancelled' \subseteq cancelled
      /\ p = "heartbeat" => p \in cancelled
  BY DEF GivesUp, LeaveLock, Tasks
<1>2. pc'[p] = a /\ \A q \in Procs : q # p => pc'[q] = pc[q] /\ left'[q] = left[q]
  BY <1>1 DEF Store, StoreType
<1>3. LeftOK'
  <2> SUFFICES ASSUME NEW q \in Procs, pc'[q] \in {"lock", "put"} PROVE PutOK(q, left'[q])
    BY DEF LeftOK, PutOK, EndOfTriple
  <2> QED BY <1>1, <1>2 DEF Batched, LeftOK, PutOK
<1>4. Paired'
  <2>1. CASE p = "heartbeat"
    BY <1>1, <2>1 DEF Batched, CancelledLeftNone, Paired
  <2>2. CASE p # "heartbeat"
    BY <1>1, <1>2, <2>2 DEF Batched, Paired
  <2> QED BY <2>1, <2>2
<1>5. CancelledLeftNone'
  BY <1>1 DEF Batched, CancelledLeftNone
<1> QED BY <1>3, <1>4, <1>5 DEF Batched

\* Outside the lock the queue at most loses its first commands.
LEMMA OutsideBatched ==
    ASSUME NewStyle, Store, Batched, Quiet \/ Empties \/ Takes
    PROVE  Batched'
<1> USE ProcsFacts
<1>1. UNCHANGED <<lock, left>> /\ SameLockUse(pc', pc)
  BY DEF Quiet, Empties, Takes, OutsideLock
<1>2. \A q \in Procs : /\ pc'[q] = "put" <=> pc[q] = "put"
                       /\ pc'[q] = "lock" <=> pc[q] = "lock"
  BY <1>1 DEF SameLockUse
<1>3. LeftOK'
  <2> SUFFICES ASSUME NEW q \in Procs, pc'[q] \in {"lock", "put"} PROVE PutOK(q, left'[q])
    BY DEF LeftOK, PutOK, EndOfTriple
  <2> QED BY <1>1, <1>2 DEF Batched, LeftOK, PutOK
<1>4. CASE queue' = queue /\ cancelled' \subseteq cancelled
  BY <1>1, <1>2, <1>3, <1>4 DEF Batched, Paired, CancelledLeftNone
<1>5. CASE queue' = <<>>
  <2>1. Len(queue') = 0
    BY <1>5
  <2> QED BY <1>3, <2>1 DEF Batched, Paired, CancelledLeftNone
<1>6. CASE queue # <<>> /\ queue' = Tail(queue) /\ cancelled' = cancelled
  <2>1. /\ Len(queue) \in Nat \ {0} /\ Len(queue') = Len(queue) - 1
        /\ \A i \in 1..Len(queue') : queue'[i] = queue[i + 1]
    <3>1. queue \in Seq(Commands) /\ Len(queue) \in Nat \ {0}
      BY <1>6 DEF Store, StoreType
    <3> QED BY <1>6, <3>1, HeadTailProperties
  <2>2. \A i \in 1..Len(queue') :
          i + 1 \in 1..Len(queue) /\ (i < Len(queue') <=> i + 1 < Len(queue))
    BY <2>1
  <2>3. Paired'
    <3> SUFFICES ASSUME NEW i \in 1..Len(queue'), queue'[i] = "heartbeat"
                 PROVE  IF i < Len(queue') THEN queue'[i + 1] = "settings"
                        ELSE pc'["heartbeat"] = "put" /\ Len(left'["heartbeat"]) = 1
      BY DEF Paired
    <3>1. queue[i + 1] = "heartbeat"
      BY <2>1
    <3>2. CASE i < Len(queue')
      <4>1. i + 1 \in 1..Len(queue') /\ i + 1 \in 1..Len(queue) /\ i + 1 < Len(queue)
        BY <2>1, <2>2, <3>2
      <4>2. queue[(i + 1) + 1] = "settings"
        BY <3>1, <4>1 DEF Batched, Paired
      <4> QED BY <2>1, <3>2, <4>1, <4>2
    <3>3. CASE ~(i < Len(queue'))
      <4>1. i + 1 \in 1..Len(queue) /\ ~(i + 1 < Len(queue))
        BY <2>2, <3>3
      <4>2. pc["heartbeat"] = "put" /\ Len(left["heartbeat"]) = 1
        BY <3>1, <4>1 DEF Batched, Paired
      <4> QED BY <1>1, <1>2, <3>3, <4>2
    <3> QED BY <3>2, <3>3
  <2>4. CancelledLeftNone'
    BY <1>6, <2>1, <2>2 DEF Batched, CancelledLeftNone
  <2> QED BY <1>3, <2>3, <2>4 DEF Batched
<1> QED BY <1>4, <1>5, <1>6 DEF Quiet, Empties, Takes

LEMMA InitBatched == Init => Batched
<1> SUFFICES ASSUME Init PROVE Batched
  OBVIOUS
<1>1. queue = <<>> /\ cancelled = {} /\ \A p \in Procs : pc[p] \in {"none", "idle"}
  BY DEF Init
<1>2. Len(queue) = 0
  BY <1>1
<1> QED BY <1>1, <1>2 DEF Batched, LeftOK, Paired, CancelledLeftNone

LEMMA NextBatched == NewStyle /\ IInv /\ Batched /\ [Next]_vars => Batched'
<1> SUFFICES ASSUME NewStyle, IInv, Batched, [Next]_vars PROVE Batched'
  OBVIOUS
<1>1. Store
  BY DEF IInv
<1>2. ASSUME NEW p \in Procs \ {"worker"}, AtLock(p) PROVE Batched'
  BY <1>1, <1>2, ComesBatched, GoesOnBatched, GivesUpBatched DEF AtLock
<1>3. CASE Next
  BY <1>1, <1>2, <1>3, NextWay, OutsideBatched DEF Way
<1>4. CASE UNCHANGED vars
  <2>1. Quiet
    BY <1>4 DEF Quiet, OutsideLock, SameLockUse, Writing, vars, store, control
  <2> QED BY <1>1, <2>1, OutsideBatched
<1> QED BY <1>3, <1>4

\* A new-style scale never sees a command between a heartbeat and its settings
\* request: not where the queue is full in the middle of the batch, not where
\* the task is cancelled there, and not after any number of reconnects.
THEOREM BatchesContiguous == Spec => []BatchContiguous
<1>1. Init => (NewStyle => Batched)
  BY InitBatched
<1>2. IInv /\ (NewStyle => Batched) /\ [Next]_vars => (NewStyle => Batched)'
  BY NextBatched
<1>3. IInv /\ (NewStyle => Batched) => BatchContiguous
  <2> SUFFICES ASSUME IInv, NewStyle, Batched,
                      NEW i \in 1..Len(queue), queue[i] = "heartbeat", ~(i < Len(queue))
               PROVE  left["heartbeat"] = <<"settings">>
    BY DEF BatchContiguous, Batched, Paired
  <2> DEFINE s == left["heartbeat"]
  <2>1. pc["heartbeat"] = "put" /\ Len(s) = 1
    BY DEF Batched, Paired
  <2>2. EndOfTriple(s)
    BY <2>1, ProcsFacts DEF Batched, LeftOK
  <2> HIDE DEF s
  <2>3. s \in Seq(Commands) /\ s[1] = "settings"
    BY <2>1, <2>2, EndOfTripleFacts DEF EndOfTriple
  <2>4. s = <<"settings">>
    BY <2>1, <2>3
  <2> QED BY <2>4 DEF s
<1> QED BY <1>1, <1>2, <1>3, InitIInv, NextIInv, PTL DEF Spec

=============================================================================
