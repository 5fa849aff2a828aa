------------------------------- MODULE MCFiles -------------------------------
(* Files on a small instance; workers may be swapped.                       *)
EXTENDS Files, TLC

Swaps == Permutations(Worker)
=============================================================================
