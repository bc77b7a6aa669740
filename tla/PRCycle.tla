------------------------------- MODULE PRCycle -------------------------------
(***************************************************************************)
(* The PR cycle of src/luxe/pr.py over the step ledger of                  *)
(* src/luxe/run_state.py: commit, test, push, create, watch_ci, each       *)
(* checkpointed in pr_state.json, resumable with `luxe pr <run-id>` after  *)
(* a failure, a crash or a lost answer of git or gh.                       *)
(*                                                                         *)
(* A commit history is abstracted to the set of works it contains: what a  *)
(* run's agent wrote (named by the run) and what the user wrote. One work  *)
(* is an ancestor of another history when it is a subset of it.            *)
(***************************************************************************)
EXTENDS Naturals, FiniteSets

CONSTANTS Runs,       \* maintain runs of one repository, all with the same goal
          User,       \* the author of edits no run made
          Base,       \* the branch checked out before any run
          MaxBranch,  \* bound on plan_branch_name's numbering: b, b-2, ...
          Missing, Torn,  \* pr_state.json absent, or not parseable
          DraftOnTestFailure, ReadyOnGreen,  \* PRConfig
          TestCommands, \* what detect_test_command may find: TRUE is "a command"
          WatchFlags,   \* the values of --watch-ci users start processes with
          Faults      \* what the environment may do: a subset of FaultKinds

FaultKinds == {"refused",  \* a git or gh command fails and changes nothing
               "lost",     \* it takes effect but the answer is a failure (timeout)
               "status",   \* `git status` itself fails
               "crash",    \* the luxe process dies between two steps
               "torn",     \* it dies while pr_state.json is being rewritten
               "no_url",   \* gh opens the PR but its answer holds no /pull/<n>
               "moved",    \* the user edits, commits or checks out another branch
               "resumed",  \* the user starts `luxe pr` on a run that ended
               "served"}   \* `luxe serve --unsafe` runs the agent on the same tree

ASSUME PRAssumption ==
  /\ User \notin Runs
  /\ Base \notin Runs \cup {User}
  /\ MaxBranch \in Nat
  /\ DraftOnTestFailure \in BOOLEAN
  /\ ReadyOnGreen \in BOOLEAN
  /\ TestCommands \subseteq BOOLEAN
  /\ WatchFlags \subseteq BOOLEAN
  /\ Faults \subseteq FaultKinds

Names == 1 .. MaxBranch             \* branch names plan_branch_name can return
Branches == Names \cup {Base}
Works == Runs \cup {User}

Absent == {Base}                    \* no such branch: not a set of works
Histories == (SUBSET Works) \cup {Absent}

Steps == {"commit", "test", "push", "create", "watch_ci"}
StepStatus == {"", "failed", "empty", "done", "skipped"}  \* "empty": NoMutationsError
Verdicts == {"unknown", "pass", "fail"}      \* PRState.test_passed
CIVerdicts == {"", "passed", "failed", "timeout"}

\* PRState without what never changes in it (branch_name, test_command: see
\* Jobs). `number` says whether pr_number was parsed from gh's answer, `ci` is
\* the verdict in the watch_ci step's detail.
PRState == [passed : Verdicts, draft : BOOLEAN, incomplete : BOOLEAN,
            number : BOOLEAN, ci : CIVerdicts, steps : [Steps -> StepStatus]]

NewState == [passed |-> "unknown", draft |-> FALSE, incomplete |-> FALSE,
             number |-> FALSE, ci |-> "", steps |-> [s \in Steps |-> ""]]

\* What the pipeline hands to open_pr: RunSpec.base_sha (as the history at that
\* commit), the planned branch, whether a test command was detected, and the
\* step-limit label.
Jobs == [branch : Names \cup {0}, base : SUBSET Works, tests : BOOLEAN,
         incomplete : BOOLEAN]

Options == [push_only : BOOLEAN, watch : BOOLEAN]

NewJob == [branch |-> 0, base |-> {}, tests |-> FALSE, incomplete |-> FALSE]

ASSUME FileAssumption == Missing \notin PRState /\ Torn \notin PRState /\ Missing # Torn

Files == PRState \cup {Missing, Torn}

VARIABLES
  \* the local repository
  head,     \* the branch checked out
  tip,      \* [Branches -> history of the branch]
  tree,     \* works with uncommitted changes in the working tree
  \* GitHub
  pushed,   \* [Names -> history of the remote branch]
  prs,      \* [Runs -> state of the pull request the run opened]
  \* each run's PR cycle
  job,      \* [Runs -> what the run was asked to ship]
  disk,     \* [Runs -> pr_state.json]
  mem,      \* [Runs -> the PRState its process holds]
  pc,       \* [Runs -> the step its process is at; "idle": no process]
  unsaved,  \* [Runs -> save_pr_state is the next thing its process does]
  opts,     \* [Runs -> the flags its process was started with]
  tested    \* history: [Runs -> what was checked out when its tests ran]

repo == <<head, tip, tree>>
hub == <<pushed, prs>>
cycle == <<job, disk, mem, pc, unsaved, opts, tested>>
prvars == <<head, tip, tree, pushed, prs, job, disk, mem, pc, unsaved, opts, tested>>

Running(r) == pc[r] # "idle" \/ unsaved[r]
Loadable(f) == f \notin {Missing, Torn}

\* PRState.is_done
IsDone(s, step) == s.steps[step] \in {"done", "skipped"}

PRTypeOK ==
  /\ head \in Branches
  /\ tip \in [Branches -> Histories]
  /\ tree \in SUBSET Works
  /\ pushed \in [Names -> Histories]
  /\ prs \in [Runs -> {"none", "draft", "ready"}]
  /\ job \in [Runs -> Jobs]
  /\ disk \in [Runs -> Files]
  /\ mem \in [Runs -> PRState]
  /\ pc \in [Runs -> Steps \cup {"idle"}]
  /\ unsaved \in [Runs -> BOOLEAN]
  /\ opts \in [Runs -> Options]
  /\ tested \in [Runs -> Histories]

PRInit ==
  /\ head = Base
  /\ tip = [b \in Branches |-> IF b = Base THEN {} ELSE Absent]
  /\ tree = {}
  /\ pushed = [b \in Names |-> Absent]
  /\ prs = [r \in Runs |-> "none"]
  /\ job = [r \in Runs |-> NewJob]
  /\ disk = [r \in Runs |-> Missing]
  /\ mem = [r \in Runs |-> NewState]
  /\ pc = [r \in Runs |-> "idle"]
  /\ unsaved = [r \in Runs |-> FALSE]
  /\ opts = [r \in Runs |-> [push_only |-> FALSE, watch |-> FALSE]]
  /\ tested = [r \in Runs |-> Absent]

----------------------------------------------------------------------------
(* The bookkeeping every step shares. *)

\* --push-only stops after the push, and only --watch-ci goes on to watch.
StopsAfter(r, step) ==
  \/ step = "push" /\ opts[r].push_only
  \/ step = "create" /\ ~opts[r].watch
  \/ step = "watch_ci"

AfterStep(r, step) ==
  IF StopsAfter(r, step) THEN "idle"
  ELSE IF step = "commit" THEN "test"
  ELSE IF step = "test" THEN "push"
  ELSE IF step = "push" THEN "create" ELSE "watch_ci"

\* A process may take a step only when what it did before is checkpointed and
\* the ledger does not say the step is already done.
At(r, step) == pc[r] = step /\ ~unsaved[r] /\ ~IsDone(mem[r], step)

\* Mutant of Conclude: no save_pr_state after the push.
ConcludeUnsavedPush(r, step, status, state) ==
  /\ mem' = [mem EXCEPT ![r] = [state EXCEPT !.steps[step] = status]]
  /\ pc' = [pc EXCEPT ![r] = IF status \in {"failed", "empty"} THEN "idle"
                                                               ELSE AfterStep(r, step)]
  /\ unsaved' = [unsaved EXCEPT ![r] = step # "push"]
  /\ UNCHANGED <<job, disk, opts>>

\* The step ends with this status; the checkpoint is written next.
Conclude(r, step, status, state) ==
  /\ mem' = [mem EXCEPT ![r] = [state EXCEPT !.steps[step] = status]]
  /\ pc' = [pc EXCEPT ![r] = IF status \in {"failed", "empty"} THEN "idle" ELSE AfterStep(r, step)]
  /\ unsaved' = [unsaved EXCEPT ![r] = TRUE]
  /\ UNCHANGED <<job, disk, opts>>

\* A command of the step fails, with or without effect: PRError is raised, the
\* step is recorded as failed and the process exits after the checkpoint.
Fails(r, step, state) == Conclude(r, step, "failed", state)

\* Mutant of SkipDone: a step that is done ends the cycle.
SkipDoneEnds(r) ==
  /\ pc[r] # "idle" /\ ~unsaved[r] /\ IsDone(mem[r], pc[r])
  /\ pc' = [pc EXCEPT ![r] = "idle"]
  /\ UNCHANGED <<repo, hub, job, disk, mem, unsaved, opts, tested>>

\* `if not state.is_done(step)`: a resumed cycle passes the step by.
SkipDone(r) ==
  /\ pc[r] # "idle" /\ ~unsaved[r] /\ IsDone(mem[r], pc[r])
  /\ pc' = [pc EXCEPT ![r] = AfterStep(r, pc[r])]
  /\ UNCHANGED <<repo, hub, job, disk, mem, unsaved, opts, tested>>

\* save_pr_state: pr_state.json becomes the state in memory.
Save(r) ==
  /\ unsaved[r]
  /\ disk' = [disk EXCEPT ![r] = mem[r]]
  /\ unsaved' = [unsaved EXCEPT ![r] = FALSE]
  /\ UNCHANGED <<repo, hub, job, mem, pc, opts, tested>>

----------------------------------------------------------------------------
(* commit *)

\* What `git status --porcelain` says: its failure reads as a clean tree.
SeenDirty == {tree # {}} \cup IF "status" \in Faults THEN {FALSE} ELSE {}

\* _commits_ahead_of_base, counted on whatever is checked out.
Ahead(r) == job[r].base \subseteq tip[head] /\ job[r].base # tip[head]

\* Where the run's branch starts when it is checked out: an existing branch
\* keeps its history, a new one is created from HEAD.
Start(b) == IF tip[b] = Absent THEN tip[head] ELSE tip[b]

CheckOut(b, history) == head' = b /\ tip' = [tip EXCEPT ![b] = history]

NothingToCommit(r) ==
  /\ At(r, "commit")
  /\ FALSE \in SeenDirty /\ ~Ahead(r)
  /\ Conclude(r, "commit", "empty", mem[r])
  /\ UNCHANGED <<repo, hub, tested>>

\* The agent committed by itself and left the tree clean: HEAD is shipped.
ShipHead(r) ==
  /\ At(r, "commit")
  /\ FALSE \in SeenDirty /\ Ahead(r)
  /\ CheckOut(job[r].branch, Start(job[r].branch))
  /\ Conclude(r, "commit", "done", mem[r])
  /\ UNCHANGED <<tree, hub, tested>>

\* git add -A and git commit: everything in the tree, whoever wrote it.
CommitTree(r) ==
  /\ At(r, "commit")
  /\ tree # {}
  /\ CheckOut(job[r].branch, Start(job[r].branch) \cup tree)
  /\ tree' = {}
  /\ Conclude(r, "commit", "done", mem[r])
  /\ UNCHANGED <<hub, tested>>

\* The checkout fails, or the add or the commit (a hook, no identity) does
\* after the branch has been checked out.
CommitRefused(r) ==
  /\ At(r, "commit")
  /\ "refused" \in Faults
  /\ \/ (tree # {} \/ Ahead(r)) /\ UNCHANGED <<head, tip>>
     \/ tree # {} /\ CheckOut(job[r].branch, Start(job[r].branch))
  /\ Fails(r, "commit", mem[r])
  /\ UNCHANGED <<tree, hub, tested>>

----------------------------------------------------------------------------
(* test, push *)

\* The suite runs on whatever is checked out; a timeout is a failure.
RunTests(r) ==
  /\ At(r, "test")
  /\ job[r].tests
  /\ \E v \in {"pass", "fail"} :
        Conclude(r, "test", "done", [mem[r] EXCEPT !.passed = v])
  /\ tested' = [tested EXCEPT ![r] = tip[head] \cup tree]
  /\ UNCHANGED <<repo, hub>>

SkipTests(r) ==
  /\ At(r, "test")
  /\ ~job[r].tests
  /\ Conclude(r, "test", "skipped", [mem[r] EXCEPT !.passed = "unknown"])
  /\ UNCHANGED <<repo, hub, tested>>

\* git push of the run's branch, fast-forward only.
CanPush(b) == tip[b] # Absent /\ (pushed[b] = Absent \/ pushed[b] \subseteq tip[b])

Push(r) ==
  LET b == job[r].branch IN
  /\ At(r, "push")
  /\ CanPush(b)
  /\ pushed' = [pushed EXCEPT ![b] = tip[b]]
  /\ \/ Conclude(r, "push", "done", mem[r])
     \/ "lost" \in Faults /\ Fails(r, "push", mem[r])
  /\ UNCHANGED <<repo, prs, tested>>

PushRefused(r) ==
  /\ At(r, "push")
  /\ "refused" \in Faults \/ ~CanPush(job[r].branch)
  /\ Fails(r, "push", mem[r])
  /\ UNCHANGED <<repo, hub, tested>>

----------------------------------------------------------------------------
(* create, watch_ci *)

\* Mutant of WithDraft: the test verdict is forgotten.
WithDraftOfLabel(s) == [s EXCEPT !.draft = s.incomplete]

\* is_draft, decided and recorded before gh is called.
WithDraft(s) ==
  [s EXCEPT !.draft = s.incomplete \/ (s.passed = "fail" /\ DraftOnTestFailure)]

\* gh opens a PR for a pushed branch that is ahead of the default branch and
\* has none; otherwise it answers with an error.
CanCreate(b) ==
  /\ pushed[b] \notin {Absent, {}}
  /\ \A q \in Runs : prs[q] # "none" => job[q].branch # b

Create(r) ==
  LET s == WithDraft(mem[r]) IN
  /\ At(r, "create")
  /\ CanCreate(job[r].branch)
  /\ prs' = [prs EXCEPT ![r] = IF s.draft THEN "draft" ELSE "ready"]
  /\ \/ Conclude(r, "create", "done", [s EXCEPT !.number = TRUE])
     \/ "no_url" \in Faults /\ Conclude(r, "create", "done", s)
     \/ "lost" \in Faults /\ Fails(r, "create", s)
  /\ UNCHANGED <<repo, pushed, tested>>

CreateRefused(r) ==
  /\ At(r, "create")
  /\ "refused" \in Faults \/ ~CanCreate(job[r].branch)
  /\ Fails(r, "create", WithDraft(mem[r]))
  /\ UNCHANGED <<repo, hub, tested>>

\* `gh pr ready [--undo]`, whose result nobody reads.
SetPR(r, state) ==
  \/ prs' = [prs EXCEPT ![r] = state]
  \/ "refused" \in Faults /\ UNCHANGED prs

NoNumber(r) ==
  /\ At(r, "watch_ci")
  /\ ~mem[r].number
  /\ Conclude(r, "watch_ci", "skipped", mem[r])
  /\ UNCHANGED <<repo, hub, tested>>

\* Mutant of Green: green CI promotes every draft.
GreenPromotesAll(r) ==
  /\ At(r, "watch_ci") /\ mem[r].number
  /\ SetPR(r, "ready")
  /\ Conclude(r, "watch_ci", "done", [mem[r] EXCEPT !.ci = "passed", !.draft = FALSE])
  /\ UNCHANGED <<repo, pushed, tested>>

Green(r) ==
  LET promote == ReadyOnGreen /\ mem[r].draft /\ ~mem[r].incomplete IN
  /\ At(r, "watch_ci")
  /\ mem[r].number
  /\ IF promote THEN SetPR(r, "ready") ELSE UNCHANGED prs
  /\ Conclude(r, "watch_ci", "done",
              [mem[r] EXCEPT !.ci = "passed", !.draft = mem[r].draft /\ ~promote])
  /\ UNCHANGED <<repo, pushed, tested>>

Red(r) ==
  /\ At(r, "watch_ci")
  /\ mem[r].number
  /\ IF mem[r].draft THEN UNCHANGED prs ELSE SetPR(r, "draft")
  /\ Conclude(r, "watch_ci", "done", [mem[r] EXCEPT !.ci = "failed", !.draft = TRUE])
  /\ UNCHANGED <<repo, pushed, tested>>

WatchTimesOut(r) ==
  /\ At(r, "watch_ci")
  /\ mem[r].number
  /\ Conclude(r, "watch_ci", "done", [mem[r] EXCEPT !.ci = "timeout"])
  /\ UNCHANGED <<repo, hub, tested>>

----------------------------------------------------------------------------
(* The processes, and what happens to them *)

\* open_pr at the end of a run: a fresh ledger, checkpointed before any step.
OpenPR(r) ==
  /\ ~Running(r) /\ disk[r] = Missing
  /\ mem' = [mem EXCEPT ![r] = [NewState EXCEPT !.incomplete = job[r].incomplete]]
  /\ \E w \in WatchFlags :
       opts' = [opts EXCEPT ![r] = [push_only |-> FALSE, watch |-> w]]
  /\ pc' = [pc EXCEPT ![r] = "commit"]
  /\ unsaved' = [unsaved EXCEPT ![r] = TRUE]
  /\ UNCHANGED <<repo, hub, job, disk, tested>>

\* `luxe pr <run-id> [--push-only] [--watch-ci]`: the ledger on disk, from the
\* first step it does not record as done. No lock, no look at the repository.
Resume(r) ==
  /\ "resumed" \in Faults
  /\ ~Running(r) /\ Loadable(disk[r])
  /\ mem' = [mem EXCEPT ![r] = disk[r]]
  /\ \E p \in BOOLEAN, w \in WatchFlags :
        opts' = [opts EXCEPT ![r] = [push_only |-> p, watch |-> w]]
  /\ pc' = [pc EXCEPT ![r] = "commit"]
  /\ UNCHANGED <<repo, hub, job, disk, unsaved, tested>>

\* The process dies: what it had not checkpointed is lost, and a checkpoint
\* being rewritten (write_text truncates first) can be left torn.
Crash(r) ==
  /\ "crash" \in Faults
  /\ Running(r)
  /\ \/ UNCHANGED disk
     \/ "torn" \in Faults /\ unsaved[r] /\ disk' = [disk EXCEPT ![r] = Torn]
  /\ pc' = [pc EXCEPT ![r] = "idle"]
  /\ unsaved' = [unsaved EXCEPT ![r] = FALSE]
  /\ mem' = [mem EXCEPT ![r] = NewState]
  /\ UNCHANGED <<repo, hub, job, opts, tested>>

\* The user edits a file, commits everything, or checks out another branch
\* (the uncommitted changes come along).
Moved ==
  /\ "moved" \in Faults
  /\ \/ tree' = tree \cup {User} /\ UNCHANGED <<head, tip>>
     \/ CheckOut(head, tip[head] \cup tree \cup {User}) /\ tree' = {}
     \/ head' \in {b \in Branches : tip[b] # Absent} /\ UNCHANGED <<tip, tree>>
  /\ UNCHANGED <<hub, cycle>>

\* The steps a PR-cycle process takes of its own accord.
PRStep(r) ==
  \/ Save(r) \/ SkipDone(r)
  \/ NothingToCommit(r) \/ ShipHead(r) \/ CommitTree(r) \/ CommitRefused(r)
  \/ RunTests(r) \/ SkipTests(r)
  \/ Push(r) \/ PushRefused(r)
  \/ Create(r) \/ CreateRefused(r)
  \/ NoNumber(r) \/ Green(r) \/ Red(r) \/ WatchTimesOut(r)

----------------------------------------------------------------------------
(* Property *)

\* A run labelled incomplete (it stopped at the step limit with a change on
\* disk) never ends up as a PR that is ready for review: not by its own test
\* verdict, not by green CI, not after any number of resumes
\* (pr.py:747 and 826, "sticky", 874).
IncompleteNeverReady == \A r \in Runs : job[r].incomplete => prs[r] # "ready"

=============================================================================
