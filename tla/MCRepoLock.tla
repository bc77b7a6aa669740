----------------------------- MODULE MCRepoLock -----------------------------
(* RepoLock on a small instance, with the bugs its properties must catch.   *)
EXTENDS RepoLock, TLC

Symmetry == Permutations(Procs) \cup Permutations(Pids)
=============================================================================
