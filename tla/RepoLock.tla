------------------------------ MODULE RepoLock ------------------------------
(***************************************************************************)
(* The per-repository lock of src/luxe/locks.py: an flock on a lockfile    *)
(* that is never unlinked, plus the JSON record (pid, run id) the holder   *)
(* writes into it so that a refused process can say who is in the way.     *)
(*                                                                         *)
(* The kernel's part (flock, process death, pid allocation) is modelled    *)
(* from how the code uses it: the lock is owned by an open file, it is     *)
(* released by LOCK_UN, by closing the file and by the death of the        *)
(* process, and a pid may be given again to a later process.               *)
(***************************************************************************)
EXTENDS Integers

CONSTANTS Procs,   \* slots in which luxe processes of one repository run
          Pids,    \* the process ids the kernel hands out
          NoProc,  \* no process owns the flock
          NoPid    \* an empty, torn or missing lockfile record (pid -1)

ASSUME ConstantsAssumption ==
  /\ NoProc \notin Procs
  /\ NoPid \notin Pids

VARIABLES at,      \* [Procs -> where the process is in acquire_repo_lock]
          pid,     \* [Procs -> its process id; NoPid when it is not running]
          flock,   \* the process whose open file owns the flock
          info,    \* the pid recorded in the lockfile
          seen     \* [Procs -> the pid its _read_lock_info returned]

lockVars == <<at, pid, flock, info, seen>>

\* Inside the window in which the code owns the flock.
Owning == {"writing", "truncated", "held"}
Waiting == {"denied", "checking", "retrying"}
Places == {"gone", "idle", "refused"} \cup Owning \cup Waiting

Live(x) == \E p \in Procs : at[p] # "gone" /\ pid[p] = x

TypeOK ==
  /\ at \in [Procs -> Places]
  /\ pid \in [Procs -> Pids \cup {NoPid}]
  /\ flock \in Procs \cup {NoProc}
  /\ info \in Pids \cup {NoPid}
  /\ seen \in [Procs -> Pids \cup {NoPid}]

LockInit ==
  /\ at = [p \in Procs |-> "gone"]
  /\ pid = [p \in Procs |-> NoPid]
  /\ flock = NoProc
  /\ info = NoPid
  /\ seen = [p \in Procs |-> NoPid]

Goto(p, where) == at' = [at EXCEPT ![p] = where]

\* The kernel starts a luxe process under a pid no live process has.
Spawn(p) ==
  /\ at[p] = "gone"
  /\ \E x \in Pids : ~Live(x) /\ pid' = [pid EXCEPT ![p] = x]
  /\ Goto(p, "idle")
  /\ UNCHANGED <<flock, info, seen>>

\* The first flock(LOCK_EX | LOCK_NB): it succeeds exactly when nobody owns it.
TryFlock(p) ==
  /\ at[p] = "idle"
  /\ \/ /\ flock = NoProc
        /\ flock' = p
        /\ Goto(p, "writing")
     \/ /\ flock # NoProc
        /\ Goto(p, "denied")
        /\ UNCHANGED flock
  /\ UNCHANGED <<pid, info, seen>>

\* _read_lock_info: whatever the file holds now, NoPid when it does not parse.
ReadLockInfo(p) ==
  /\ at[p] = "denied"
  /\ seen' = [seen EXCEPT ![p] = info]
  /\ Goto(p, "checking")
  /\ UNCHANGED <<pid, flock, info>>

\* Only a record that names a dead process earns the second attempt.
CheckHolderAlive(p) ==
  /\ at[p] = "checking"
  /\ Goto(p, IF seen[p] # NoPid /\ ~Live(seen[p]) THEN "retrying" ELSE "refused")
  /\ UNCHANGED <<pid, flock, info, seen>>

\* Mutant of RetryFlock: takes the lock of a holder it believes dead.
RetryFlockBreaks(p) ==
  /\ at[p] = "retrying" /\ flock' = p /\ Goto(p, "writing")
  /\ UNCHANGED <<pid, info, seen>>

\* The second flock; still owned means LockHeld with the record read before.
RetryFlock(p) ==
  /\ at[p] = "retrying"
  /\ \/ /\ flock = NoProc
        /\ flock' = p
        /\ Goto(p, "writing")
     \/ /\ flock # NoProc
        /\ Goto(p, "refused")
        /\ UNCHANGED flock
  /\ UNCHANGED <<pid, info, seen>>

\* Mutant of Truncate: the record is emptied when the file is opened, before
\* the flock is tried (mode "w"), here by a process that was denied it.
TruncateOnOpen(p) ==
  /\ at[p] \in {"denied", "writing"}
  /\ info' = NoPid
  /\ at' = [at EXCEPT ![p] = IF at[p] = "denied" THEN "checking" ELSE "truncated"]
  /\ UNCHANGED <<pid, flock, seen>>

\* os.ftruncate: the record of the previous holder is gone.
Truncate(p) ==
  /\ at[p] = "writing"
  /\ info' = NoPid
  /\ Goto(p, "truncated")
  /\ UNCHANGED <<pid, flock, seen>>

\* os.write + os.fsync, then the body of the with-block runs.
WriteInfo(p) ==
  /\ at[p] = "truncated"
  /\ info' = pid[p]
  /\ Goto(p, "held")
  /\ UNCHANGED <<pid, flock, seen>>

\* ftruncate, write or fsync raises (disk full), an fsync after the record is
\* in: the outer finally closes the file, which releases the flock, and the
\* exception ends the acquisition.
WriteFails(p) ==
  /\ at[p] \in {"writing", "truncated"}
  /\ flock' = NoProc
  /\ info' \in {info} \cup IF at[p] = "truncated" THEN {pid[p]} ELSE {}
  /\ Goto(p, "idle")
  /\ UNCHANGED <<pid, seen>>

\* The with-block ends, normally or by an exception: LOCK_UN and close. The
\* record stays in the file.
Release(p) ==
  /\ at[p] = "held"
  /\ flock' = NoProc
  /\ Goto(p, "idle")
  /\ UNCHANGED <<pid, info, seen>>

\* The process ends or is killed; the kernel closes its files.
Exit(p) ==
  /\ at[p] # "gone"
  /\ Goto(p, "gone")
  /\ pid' = [pid EXCEPT ![p] = NoPid]
  /\ seen' = [seen EXCEPT ![p] = NoPid]
  /\ flock' = IF flock = p THEN NoProc ELSE flock
  /\ UNCHANGED info

\* The steps of acquire_repo_lock itself, which no one has to ask for twice.
Acquire(p) ==
  \/ ReadLockInfo(p) \/ CheckHolderAlive(p) \/ RetryFlock(p)
  \/ Truncate(p) \/ WriteInfo(p)

LockNext == \E p \in Procs :
  Spawn(p) \/ TryFlock(p) \/ Acquire(p) \/ WriteFails(p) \/ Release(p) \/ Exit(p)

LockSpec == LockInit /\ [][LockNext]_lockVars

----------------------------------------------------------------------------
(* Properties *)

\* No live process is ever left owning the flock outside acquire_repo_lock's
\* own lines 101-139, whatever failed in between (the two finally blocks), and
\* no two processes are in there at once.
OwnerIsInside == \A p \in Procs : flock = p <=> at[p] \in Owning

\* While a process is inside the with-block the lockfile names it: nobody who
\* was refused, failed or died in the meantime has touched the record
\* ("truncated and rewritten on acquisition", locks.py:87).
RecordNamesHolder == \A p \in Procs : at[p] = "held" => info = pid[p]

\* The with-block as callers see it: who is inside.
Inside == {p \in Procs : at[p] = "held"}

Mutex == INSTANCE RepoMutex WITH inside <- Inside

\* The flock protocol implements the mutual exclusion callers rely on.
RefinesMutex == Mutex!Spec
=============================================================================
