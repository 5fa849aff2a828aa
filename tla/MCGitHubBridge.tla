--------------------------- MODULE MCGitHubBridge ---------------------------
(* GitHubBridge on a small instance; workers and files may be swapped.     *)
EXTENDS GitHubBridge, TLC

Swaps == Permutations(Worker) \cup Permutations(Path)
=============================================================================
