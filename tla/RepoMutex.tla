----------------------------- MODULE RepoMutex -----------------------------
(***************************************************************************)
(* What locks.py promises its callers and nothing more: at most one luxe   *)
(* process is inside `with acquire_repo_lock(...)` for a repository, and   *)
(* the place becomes free when that process leaves the block or dies.      *)
(* RepoLock refines this specification.                                    *)
(***************************************************************************)
CONSTANT Procs    \* the processes that may want the repository

VARIABLE inside   \* the processes inside the with-block

Init == inside = {}

\* The with-block is entered: only when nobody is in it.
Enter(p) == inside = {} /\ inside' = {p}

\* The with-block is left: normally, by an exception, or by the process dying.
Leave(p) == p \in inside /\ inside' = inside \ {p}

Next == \E p \in Procs : Enter(p) \/ Leave(p)

Spec == Init /\ [][Next]_inside
=============================================================================
