------------------------------- MODULE Maintain -------------------------------
(***************************************************************************)
(* `luxe maintain` (src/luxe/maintain.py) runs on one repository: the      *)
(* preflight, the repository lock, the agent's work on the tree, the       *)
(* step-limit label, the cleanup turn, the PR cycle of PRCycle, and the    *)
(* teardown that gives the lock back however the run ended. `luxe pr`      *)
(* resumes the cycle later, without the lock.                              *)
(*                                                                         *)
(* The lock is RepoMutex, which RepoLock implements.                       *)
(***************************************************************************)
EXTENDS PRCycle

CONSTANT NoRun   \* nobody holds the lock

ASSUME NoRunAssumption == NoRun \notin Runs

VARIABLES stage,  \* [Runs -> how far the run is in maintain_pipeline]
          lock    \* the run inside acquire_repo_lock

vars == <<prvars, stage, lock>>

Stages == {"new", "planned", "ready", "agent", "labelled", "cleaned", "pr", "exited"}

\* The guarded block, which ends in _teardown.
Guarded == {"agent", "labelled", "cleaned", "pr"}

MaintainTypeOK ==
  /\ PRTypeOK
  /\ stage \in [Runs -> Stages]
  /\ lock \in Runs \cup {NoRun}

Init ==
  /\ PRInit
  /\ stage = [r \in Runs |-> "new"]
  /\ lock = NoRun

Reach(r, s) == stage' = [stage EXCEPT ![r] = s]

----------------------------------------------------------------------------
(* preflight and lock *)

\* plan_branch_name: the first name that is free locally and on the remote.
Free(n) == tip[n] = Absent /\ pushed[n] = Absent
Planned(n) == Free(n) /\ \A m \in Names : Free(m) => n <= m

\* assert_gh_auth, assert_clean_tree, plan_branch_name, detect_test_command:
\* before the lock. (--allow-dirty skips the second.)
PlanBranch(r) ==
  /\ stage[r] = "new"
  /\ tree = {}
  /\ \E n \in Names, t \in TestCommands :
        Planned(n) /\ job' = [job EXCEPT ![r] = [NewJob EXCEPT !.branch = n, !.tests = t]]
  /\ Reach(r, "planned")
  /\ UNCHANGED <<repo, hub, disk, mem, pc, unsaved, opts, tested, lock>>

\* head_sha, recorded as RunSpec.base_sha by init_run_dir: before the lock too.
ReadHead(r) ==
  /\ stage[r] = "planned"
  /\ job' = [job EXCEPT ![r].base = tip[head]]
  /\ Reach(r, "ready")
  /\ UNCHANGED <<repo, hub, disk, mem, pc, unsaved, opts, tested, lock>>

\* Mutant of AcquireLock: LockHeld is reported and the run goes on.
AcquireLockWarns(r) ==
  /\ stage[r] = "ready"
  /\ lock' = IF lock = NoRun THEN r ELSE lock
  /\ Reach(r, "agent")
  /\ UNCHANGED prvars

\* _acquire_lock: LockHeld ends the run with exit 3.
AcquireLock(r) ==
  /\ stage[r] = "ready"
  /\ \/ lock = NoRun /\ lock' = r /\ Reach(r, "agent")
     \/ lock # NoRun /\ Reach(r, "exited") /\ UNCHANGED lock
  /\ UNCHANGED prvars

----------------------------------------------------------------------------
(* the guarded block *)

\* The agent writes files; nothing makes it leave what it finds alone.
AgentWrites(r) ==
  /\ stage[r] = "agent"
  /\ tree' = tree \cup {r}
  /\ UNCHANGED <<head, tip, hub, cycle, stage, lock>>

\* The agent runs `git add -A; git commit` through bash.
AgentCommits(r) ==
  /\ stage[r] = "agent"
  /\ tree # {}
  /\ CheckOut(head, tip[head] \cup tree)
  /\ tree' = {}
  /\ UNCHANGED <<hub, cycle, stage, lock>>

\* _step_limit: a run that hit max_steps with a change on disk is labelled,
\* unless its finish pass ended on its own.
StepLimit(r) ==
  /\ stage[r] = "agent"
  /\ \E limited \in BOOLEAN :
       /\ limited => tree # {} \/ tip[head] # job[r].base
       /\ job' = [job EXCEPT ![r].incomplete = limited]
  /\ Reach(r, "labelled")
  /\ UNCHANGED <<repo, hub, disk, mem, pc, unsaved, opts, tested, lock>>

\* _cleanup_turn: the model may drop uncommitted files the run created.
CleanupTurn(r) ==
  /\ stage[r] = "labelled"
  /\ tree' \in {tree, tree \ {r}}
  /\ Reach(r, "cleaned")
  /\ UNCHANGED <<head, tip, hub, cycle, lock>>

StartPR(r) ==
  /\ stage[r] = "cleaned"
  /\ OpenPR(r)
  /\ Reach(r, "pr")
  /\ UNCHANGED lock

\* Mutant of Teardown: the lock covers the agent but not the PR cycle.
TeardownBeforePR(r) ==
  /\ stage[r] \in Guarded
  /\ lock' = NoRun
  /\ Reach(r, "exited")
  /\ UNCHANGED prvars

\* Mutant of Teardown: the exit for "no mutations" bypasses it.
TeardownUnlessEmpty(r) ==
  /\ stage[r] \in Guarded /\ ~Running(r) /\ mem[r].steps["commit"] # "empty"
  /\ lock' = NoRun
  /\ Reach(r, "exited")
  /\ UNCHANGED prvars

\* _teardown, the finally of the guarded block: after the PR cycle ended, with
\* or without its error, or when anything before it raised.
Teardown(r) ==
  /\ stage[r] \in Guarded
  /\ ~Running(r)
  /\ lock' = NoRun
  /\ Reach(r, "exited")
  /\ UNCHANGED prvars

\* The process is killed; the kernel gives the flock back.
Die(r) ==
  /\ "crash" \in Faults
  /\ stage[r] \in Guarded
  /\ IF Running(r) THEN Crash(r) ELSE UNCHANGED prvars
  /\ lock' = NoRun
  /\ Reach(r, "exited")

\* `luxe pr`, and its death.
ResumePR(r) == stage[r] = "exited" /\ Resume(r) /\ UNCHANGED <<stage, lock>>
ResumedDies(r) == stage[r] = "exited" /\ Crash(r) /\ UNCHANGED <<stage, lock>>

\* luxe_maintain over MCP (cli/maint.py): the agent on the same tree, with no
\* preflight, no lock and no PR; what it writes is like a user's edit.
Serve ==
  /\ "served" \in Faults
  /\ tree' = tree \cup {User}
  /\ UNCHANGED <<head, tip, hub, cycle, stage, lock>>

UserMoves == Moved /\ UNCHANGED <<stage, lock>>

Cycle(r) == PRStep(r) /\ UNCHANGED <<stage, lock>>

\* What a started run does of its own accord.
RunStep(r) ==
  \/ AcquireLock(r) \/ StepLimit(r) \/ CleanupTurn(r) \/ StartPR(r)
  \/ Cycle(r) \/ Teardown(r)

Next ==
  \/ \E r \in Runs :
       \/ PlanBranch(r) \/ ReadHead(r) \/ RunStep(r)
       \/ AgentWrites(r) \/ AgentCommits(r)
       \/ Die(r) \/ ResumePR(r) \/ ResumedDies(r)
  \/ Serve \/ UserMoves

\* A process that runs keeps running: max_steps ends the agent, every git and
\* gh call is bounded by a timeout, watch_ci by its deadline.
Progress == \A r \in Runs : WF_vars(RunStep(r))

Spec == Init /\ [][Next]_vars /\ Progress

----------------------------------------------------------------------------
(* Properties *)

\* A PR whose tests failed is opened as a draft, and only green CI makes it
\* ready (pr.py:747-748, 823-828): no resume forgets the verdict.
FailingTestsStayDraft ==
  [][\A r \in Runs : prs[r] # "ready" /\ prs'[r] = "ready" /\ mem[r].passed = "fail"
       => mem'[r].ci = "passed"]_vars

\* What the step has left behind outside the process.
Happened(r, step) ==
  CASE step = "commit" -> tip[job[r].branch] # Absent
    [] step = "push"   -> pushed[job[r].branch] # Absent
    [] step = "create" -> prs[r] # "none"

\* The ledger on disk and the world are never more than one step apart: a step
\* recorded as done has happened, and by the time a step has happened the one
\* before it is recorded. That is what makes a resume start at the right step.
LedgerTracksTheWorld ==
  \A r \in Runs : Loadable(disk[r]) =>
    /\ \A s \in {"commit", "push", "create"} : IsDone(disk[r], s) => Happened(r, s)
    /\ Happened(r, "push") => IsDone(disk[r], "test")
    /\ Happened(r, "create") => IsDone(disk[r], "push")
    /\ IsDone(disk[r], "test") => IsDone(disk[r], "commit")
    /\ IsDone(disk[r], "watch_ci") => IsDone(disk[r], "create")

\* The runs in the guarded block use the lock the way RepoMutex allows, which is
\* what RepoLock implements: one at a time, free again after any exit.
InLock == {r \in Runs : stage[r] \in Guarded}
RepoLocking == INSTANCE RepoMutex WITH Procs <- Runs, inside <- InLock
RunsExcludeEachOther == RepoLocking!Spec

\* While a run is inside the repository lock nobody else adds to its tree.
OnlyHolderWrites ==
  [][lock # NoRun /\ lock' = lock => tree' \subseteq tree \cup {lock}]_vars

\* A run pushes exactly the tree its tests ran on, as long as it has the
\* repository to itself: the lock keeps other runs out, and nothing keeps out
\* the user, `luxe serve` and `luxe pr`, which take no lock.
TestedIsWhatShips ==
  [][\A r \in Runs : pc[r] = "push" /\ pushed' # pushed /\ mem'[r] # mem[r]
       /\ job[r].tests => pushed'[job[r].branch] = tested[r]]_vars

\* However a run ends, it gives the lock back.
LockIsReleased == \A r \in Runs : lock = r ~> lock # r

\* What keeps a process from the success it could have had, and a resume that
\* was told to stop early.
Setback(r) ==
  \/ Die(r) \/ ResumedDies(r)
  \/ ResumePR(r) /\ opts'[r].push_only
  \/ pc[r] = "push" /\ CanPush(job[r].branch) /\ mem'[r].steps["push"] = "failed"
  \/ pc[r] = "create" /\ CanCreate(job[r].branch) /\ mem'[r].steps["create"] = "failed"

\* Network and machine recover at some time, and the user starts `luxe pr`
\* again as long as a step is not recorded as done.
Persistence ==
  /\ <>[][\A r \in Runs : ~Setback(r)]_vars
  /\ \A r \in Runs : WF_vars(ResumePR(r))

PersistentSpec == Spec /\ Persistence

\* Once the run's work is committed and the ledger says so, its pull request is
\* opened, whatever is refused, lost or killed on the way; only a torn
\* pr_state.json stops it ("`luxe pr <run-id>` picks up where it left off",
\* README.md:332-334).
Committed(r) ==
  /\ Loadable(disk[r]) /\ IsDone(disk[r], "commit")
  /\ {} \notin {tip[job[r].branch], pushed[job[r].branch]}
EventuallyOpened ==
  \A r \in Runs : Committed(r) ~> prs[r] # "none" \/ disk[r] = Torn

=============================================================================
