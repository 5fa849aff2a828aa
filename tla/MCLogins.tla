------------------------------ MODULE MCLogins ------------------------------
(* Logins on a small instance.  Workers do the same and nothing here is    *)
(* about liveness, so that they may be swapped.                            *)
EXTENDS Logins, TLC

Swaps == Permutations(Worker)
=============================================================================
