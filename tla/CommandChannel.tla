---------------------------- MODULE CommandChannel ----------------------------
(***************************************************************************)
(* What the command queue, its lock and the worker promise together, with  *)
(* none of their parts: a batch of commands is accepted as a whole and in  *)
(* one step, commands are written one at a time in the order of their      *)
(* acceptance and none is written twice.  Commands may be lost, but only   *)
(* the oldest ones together, or what a cancelled call has not put yet.     *)
(***************************************************************************)
EXTENDS Naturals, Sequences

CONSTANT Batches      \* the sequences of commands that are accepted as one

VARIABLES pending,    \* the commands accepted and not yet written
          writing     \* a command is being written

vars == <<pending, writing>>

Init == pending = <<>> /\ writing = FALSE

Accept ==
    /\ \E b \in Batches : pending' = pending \o b
    /\ UNCHANGED writing

Begin ==
    /\ pending # <<>> /\ ~writing
    /\ pending' = Tail(pending)
    /\ writing' = TRUE

End ==
    /\ writing
    /\ writing' = FALSE
    /\ UNCHANGED pending

\* The n oldest commands are dropped; a write may end with them.
Discard ==
    /\ \E n \in 1..Len(pending) : pending' = SubSeq(pending, n + 1, Len(pending))
    /\ writing' \in {writing, FALSE}

\* The end of a batch is taken back, from its i-th command on.
Withdraw ==
    /\ \E b \in Batches : \E i \in DOMAIN b : pending = pending' \o SubSeq(b, i, Len(b))
    /\ UNCHANGED writing

Next == Accept \/ Begin \/ End \/ Discard \/ Withdraw

Spec == Init /\ [][Next]_vars

===============================================================================
