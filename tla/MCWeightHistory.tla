--------------------------- MODULE MCWeightHistory ---------------------------
(***************************************************************************)
(* An instance of WeightHistory for TLC: the source's 20 readings, 5 s,    *)
(* 20 g/s and 15 s scaled down so that each limit is met, and weights that *)
(* allow a rise, noise and a decrease beyond it.                           *)
(***************************************************************************)
EXTENDS WeightHistory

MCWeights == {-3, 0, 1, 2, 9}

===============================================================================
