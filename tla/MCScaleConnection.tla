------------------------- MODULE MCScaleConnection -------------------------
(***************************************************************************)
(* Instances of ScaleConnection for TLC.  Nothing tells two callers apart, *)
(* so runs of invariants may use them as a symmetry set.                   *)
(***************************************************************************)
EXTENDS ScaleConnection

AllCalls == ApiCalls

\* The calls of an application that lets connect() set up the tasks: without
\* them, nothing empties the queue, and nothing notices that the link is gone.
TaskCalls == ApiCalls \ {"connect_no_tasks", "auth"}

\* Callers that may overlap.
OverlappingCalls == {"command", "disconnect", "cancel"}

CallerSymmetry == Permutations(Callers)

=============================================================================
