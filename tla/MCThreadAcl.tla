---------------------------- MODULE MCThreadAcl ----------------------------
(* ThreadAcl on small instances.  Users are interchangeable except for     *)
(* being platform admins, workers are interchangeable.                     *)
EXTENDS ThreadAcl, TLC

Symmetry == Permutations(User \ PlatformAdmin) \cup Permutations(Worker)
=============================================================================
