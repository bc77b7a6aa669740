---------------------------- MODULE Maintain_proofs ----------------------------
(***************************************************************************)
(* `luxe maintain` and the lock it takes.                                  *)
(*                                                                         *)
(* First RepoLock, for any number of processes and pids: what it keeps,    *)
(* and that callers may take it for RepoMutex. Then Maintain, which takes  *)
(* it as RepoMutex, and its PR cycle, for any number of runs and branches: *)
(* types, the label that keeps a half-done run out of review, the ledger a *)
(* resume starts from, and what the repository lock gives. The two systems *)
(* share no variable; RepoMutex is where they meet.                        *)
(*                                                                         *)
(* PRInv is about the PR cycle, whatever the environment may do. IInv adds *)
(* what the pipeline knows: before its PR cycle a run has no process, no   *)
(* ledger and no pull request, so the label can still be set; after        *)
(* preflight its branch is planned; and the lock is held by exactly the    *)
(* run in the guarded block.                                               *)
(*                                                                         *)
(* Ledgers relates what a process knows, what it saved and what git and    *)
(* GitHub have; ShipInv what a run committed, tested and is to push.       *)
(***************************************************************************)
EXTENDS Maintain, RepoLock, TLAPS

-----------------------------------------------------------------------------
(***************************************************************************)
(* The lock: its invariants, and that it implements RepoMutex. LockInv is  *)
(* inductive because the invariants lean on each other: that no one else   *)
(* can touch the record while a process holds (RecordNamesHolder) needs    *)
(* that only the owner of the flock is past the line that takes it         *)
(* (OwnerIsInside).                                                        *)
(***************************************************************************)

LockInv == TypeOK /\ OwnerIsInside /\ RecordNamesHolder

\* No process is past the first flock and no one owns it when the lockfile is
\* first opened.
LEMMA LockStarts == LockInit => LockInv
  BY ConstantsAssumption DEF LockInit, LockInv, TypeOK, OwnerIsInside, RecordNamesHolder,
                               Owning, Waiting, Places

\* Every step of every process keeps the types.
LEMMA LockStepTypes == TypeOK /\ [LockNext]_lockVars => TypeOK'
<1> SUFFICES ASSUME TypeOK, [LockNext]_lockVars PROVE TypeOK'
  OBVIOUS
<1> USE DEF TypeOK, Owning, Waiting, Places, Goto
<1>1. CASE UNCHANGED lockVars
  BY <1>1 DEF lockVars
<1>2. ASSUME NEW p \in Procs, Spawn(p) PROVE TypeOK'
  BY <1>2 DEF Spawn
<1>3. ASSUME NEW p \in Procs, TryFlock(p) PROVE TypeOK'
  BY <1>3 DEF TryFlock
<1>4. ASSUME NEW p \in Procs, Acquire(p) PROVE TypeOK'
  <2>1. CASE ReadLockInfo(p)
    BY <2>1 DEF ReadLockInfo
  <2>2. CASE CheckHolderAlive(p)
    BY <2>2 DEF CheckHolderAlive
  <2>3. CASE RetryFlock(p)
    BY <2>3 DEF RetryFlock
  <2>4. CASE Truncate(p)
    BY <2>4 DEF Truncate
  <2>5. CASE WriteInfo(p)
    BY <2>5 DEF WriteInfo
  <2> QED
    BY <1>4, <2>1, <2>2, <2>3, <2>4, <2>5 DEF Acquire
<1>5. ASSUME NEW p \in Procs, WriteFails(p) PROVE TypeOK'
  BY <1>5 DEF WriteFails
<1>6. ASSUME NEW p \in Procs, Release(p) PROVE TypeOK'
  BY <1>6 DEF Release
<1>7. ASSUME NEW p \in Procs, Exit(p) PROVE TypeOK'
  BY <1>7 DEF Exit
<1> QED
  BY <1>1, <1>2, <1>3, <1>4, <1>5, <1>6, <1>7 DEF LockNext

\* Only the owner is past the flock, and only the owner touches the record.
LEMMA LockStep == LockInv /\ [LockNext]_lockVars => LockInv'
<1> SUFFICES ASSUME LockInv, [LockNext]_lockVars PROVE LockInv'
  OBVIOUS
<1>0. TypeOK /\ TypeOK'
  BY LockStepTypes DEF LockInv
<1> USE ConstantsAssumption DEF OwnerIsInside, RecordNamesHolder, Owning, Waiting, Places, Goto
<1>a. OwnerIsInside /\ RecordNamesHolder
  BY DEF LockInv
<1>1. CASE UNCHANGED lockVars
  BY <1>1, <1>0, <1>a DEF lockVars, LockInv
<1>2. ASSUME NEW p \in Procs, Spawn(p) PROVE LockInv'
  BY <1>2, <1>0, <1>a DEF Spawn, TypeOK, LockInv
<1>3. ASSUME NEW p \in Procs, TryFlock(p) PROVE LockInv'
  BY <1>3, <1>0, <1>a DEF TryFlock, TypeOK, LockInv
<1>4. ASSUME NEW p \in Procs, Acquire(p) PROVE LockInv'
  <2>1. CASE ReadLockInfo(p)
    BY <2>1, <1>0, <1>a DEF ReadLockInfo, TypeOK, LockInv
  <2>2. CASE CheckHolderAlive(p)
    BY <2>2, <1>0, <1>a DEF CheckHolderAlive, TypeOK, LockInv
  <2>3. CASE RetryFlock(p)
    BY <2>3, <1>0, <1>a DEF RetryFlock, TypeOK, LockInv
  <2>4. CASE Truncate(p)
    BY <2>4, <1>0, <1>a DEF Truncate, TypeOK, LockInv
  <2>5. CASE WriteInfo(p)
    BY <2>5, <1>0, <1>a DEF WriteInfo, TypeOK, LockInv
  <2> QED
    BY <1>4, <2>1, <2>2, <2>3, <2>4, <2>5 DEF Acquire
<1>5. ASSUME NEW p \in Procs, WriteFails(p) PROVE LockInv'
  BY <1>5, <1>0, <1>a DEF WriteFails, TypeOK, LockInv
<1>6. ASSUME NEW p \in Procs, Release(p) PROVE LockInv'
  BY <1>6, <1>0, <1>a DEF Release, TypeOK, LockInv
<1>7. ASSUME NEW p \in Procs, Exit(p) PROVE LockInv'
  BY <1>7, <1>0, <1>a DEF Exit, TypeOK, LockInv
<1> QED
  BY <1>1, <1>2, <1>3, <1>4, <1>5, <1>6, <1>7 DEF LockNext

LEMMA LockInvariance == LockSpec => []LockInv
  BY LockStarts, LockStep, PTL DEF LockSpec

\* Every state of the lock protocol is well typed.
THEOREM LockTypes == LockSpec => []TypeOK
  BY LockInvariance, PTL DEF LockInv

\* Mutual exclusion, and no flock outlives the lines that own it: at any time
\* the owner is exactly the process between lines 101 and 139.
THEOREM OwnershipIsSound == LockSpec => []OwnerIsInside
  BY LockInvariance, PTL DEF LockInv

\* The record names the holder for as long as it is inside the with-block.
THEOREM RecordIsSound == LockSpec => []RecordNamesHolder
  BY LockInvariance, PTL DEF LockInv

\* Nobody is inside before the first process is started.
LEMMA LockInitRefines == LockInit => Mutex!Init
  BY DEF LockInit, Inside, Mutex!Init

\* WriteInfo enters, Release and the death of the holder leave, every other
\* step is invisible to the callers.
LEMMA LockStepRefines == LockInv /\ [LockNext]_lockVars => [Mutex!Next]_Inside
<1> SUFFICES ASSUME LockInv, [LockNext]_lockVars PROVE [Mutex!Next]_Inside
  OBVIOUS
<1>0. TypeOK /\ OwnerIsInside
  BY DEF LockInv
<1> USE DEF TypeOK, Inside, Owning, Waiting, Places, Goto
<1>1. CASE UNCHANGED lockVars
  BY <1>1 DEF lockVars
<1>2. ASSUME NEW p \in Procs, at[p] # "held", at' = [at EXCEPT ![p] = at'[p]],
             at'[p] # "held"
      PROVE  Inside' = Inside
  BY <1>2, <1>0
<1>3. ASSUME NEW p \in Procs, at[p] = "held", at' = [at EXCEPT ![p] = at'[p]],
             at'[p] # "held"
      PROVE  Mutex!Next
  <2>1. Inside' = Inside \ {p} /\ p \in Inside
    BY <1>3, <1>0
  <2> QED
    BY <2>1 DEF Mutex!Next, Mutex!Leave
<1>4. ASSUME NEW p \in Procs, WriteInfo(p) PROVE Mutex!Next
  <2>1. \A q \in Procs : at[q] # "held"
    BY <1>4, <1>0, ConstantsAssumption DEF WriteInfo, OwnerIsInside
  <2>2. Inside = {} /\ Inside' = {p}
    BY <1>4, <2>1, <1>0 DEF WriteInfo
  <2> QED
    BY <2>2 DEF Mutex!Next, Mutex!Enter
<1>5. ASSUME NEW p \in Procs,
             Spawn(p) \/ TryFlock(p) \/ ReadLockInfo(p) \/ CheckHolderAlive(p)
               \/ RetryFlock(p) \/ Truncate(p) \/ WriteFails(p)
      PROVE  Inside' = Inside
  <2>1. at[p] # "held" /\ at' = [at EXCEPT ![p] = at'[p]] /\ at'[p] # "held"
    BY <1>5, <1>0 DEF Spawn, TryFlock, ReadLockInfo, CheckHolderAlive, RetryFlock,
                      Truncate, WriteFails
  <2> QED
    BY <2>1, <1>2
<1>6. ASSUME NEW p \in Procs, Release(p) \/ Exit(p) PROVE [Mutex!Next]_Inside
  <2>1. at' = [at EXCEPT ![p] = at'[p]] /\ at'[p] # "held"
    BY <1>6, <1>0 DEF Release, Exit
  <2> QED
    BY <2>1, <1>2, <1>3
<1> QED
  BY <1>1, <1>4, <1>5, <1>6 DEF LockNext, Acquire

\* Callers may rely on RepoMutex and forget about flock, records and pids.
THEOREM LockRefinement == LockSpec => RefinesMutex
  BY LockInvariance, LockInitRefines, LockStepRefines, PTL DEF LockSpec, RefinesMutex, Mutex!Spec

-----------------------------------------------------------------------------
(***************************************************************************)
(* The runs of the pipeline and their PR cycles.                           *)
(***************************************************************************)

\* What a resume can rely on: the branch was planned, and the ledger, in memory
\* or on disk, carries the label the run was given.
Sane(r) ==
  /\ Running(r) \/ Loadable(disk[r]) => job[r].branch \in Names
  /\ Running(r) => mem[r].incomplete = job[r].incomplete
  /\ Loadable(disk[r]) => disk[r].incomplete = job[r].incomplete

\* The inductive invariant of the cycle. That HEAD is on an existing branch is
\* what keeps every branch created from it a history.
PRInv ==
  /\ PRTypeOK
  /\ tip[head] # Absent
  /\ \A r \in Runs : Sane(r)
  /\ IncompleteNeverReady

\* AfterStep walks the five steps in order and then stops.
LEMMA AfterStepType ==
  ASSUME NEW r, NEW step \in Steps
  PROVE  AfterStep(r, step) \in Steps \cup {"idle"}
  BY DEF AfterStep, StopsAfter, Steps

\* A history that is checked out, with or without the tree, is a history.
LEMMA HistoryTypes ==
  ASSUME PRTypeOK, tip[head] # Absent
  PROVE  /\ head \in Branches
         /\ tip[head] \in SUBSET Works
         /\ tip[head] \cup tree \in SUBSET Works
         /\ \A b \in Branches : Start(b) \in SUBSET Works
         /\ \A b \in Branches : Start(b) \cup tree \in SUBSET Works
         /\ \A h \in SUBSET Works : h \in Histories /\ h # Absent
<1>1. Base \notin Works
  BY PRAssumption DEF Works
<1>2. \A h \in Histories : h # Absent => h \in SUBSET Works
  BY DEF Histories
<1>3. head \in Branches /\ tree \in SUBSET Works /\ \A b \in Branches : tip[b] \in Histories
  BY DEF PRTypeOK
<1>4. \A h \in SUBSET Works : h \in Histories /\ h # Absent
  BY <1>1 DEF Histories, Absent
<1>5. \A b \in Branches : Start(b) \in SUBSET Works
  BY <1>2, <1>3 DEF Start
<1> QED
  BY <1>2, <1>3, <1>4, <1>5

\* Checking out a branch with a history of works.
LEMMA CheckOutTypes ==
  ASSUME PRTypeOK, tip[head] # Absent, NEW b \in Branches, NEW h \in SUBSET Works,
         CheckOut(b, h)
  PROVE  head' \in Branches /\ tip' \in [Branches -> Histories] /\ tip'[head'] # Absent
<1>1. h \in Histories /\ h # Absent
  BY HistoryTypes
<1>2. tip \in [Branches -> Histories]
  BY DEF PRTypeOK
<1> QED
  BY <1>1, <1>2 DEF CheckOut

\* The bookkeeping of a step keeps types, labels and the branch, as long as the
\* new ledger keeps the label.
LEMMA ConcludeKeeps ==
  ASSUME PRInv, NEW r \in Runs, Running(r), NEW step \in Steps, NEW status \in StepStatus,
         NEW state \in PRState, state.incomplete = mem[r].incomplete,
         Conclude(r, step, status, state)
  PROVE  /\ job' = job /\ disk' = disk /\ opts' = opts
         /\ mem' \in [Runs -> PRState]
         /\ pc' \in [Runs -> Steps \cup {"idle"}]
         /\ unsaved' \in [Runs -> BOOLEAN]
         /\ \A q \in Runs : Sane(q)'
<1> DEFINE new == [state EXCEPT !.steps[step] = status]
<1>0. PRTypeOK /\ \A q \in Runs : Sane(q)
  BY DEF PRInv
<1>1. new \in PRState /\ new.incomplete = state.incomplete
  BY DEF PRState
<1>2. job' = job /\ disk' = disk /\ opts' = opts /\ mem' = [mem EXCEPT ![r] = new]
  BY DEF Conclude
<1>3. mem' \in [Runs -> PRState]
  BY <1>0, <1>1, <1>2 DEF PRTypeOK
<1>4. pc' \in [Runs -> Steps \cup {"idle"}] /\ unsaved' \in [Runs -> BOOLEAN]
  BY <1>0, AfterStepType DEF PRTypeOK, Conclude
<1>5. ASSUME NEW q \in Runs, q # r PROVE Sane(q)'
  <2>1. mem'[q] = mem[q] /\ pc'[q] = pc[q] /\ unsaved'[q] = unsaved[q]
    BY <1>0, <1>5 DEF PRTypeOK, Conclude
  <2> QED
    BY <2>1, <1>0, <1>2 DEF Sane, Running, Loadable
<1>6. Sane(r)'
  <2>1. mem'[r].incomplete = job[r].incomplete
    BY <1>0, <1>1, <1>2 DEF PRTypeOK, Sane
  <2>2. job[r].branch \in Names
    BY <1>0 DEF Sane
  <2> QED
    BY <2>1, <2>2, <1>0, <1>2 DEF Sane, Running, Loadable
<1> QED
  BY <1>2, <1>3, <1>4, <1>5, <1>6

----------------------------------------------------------------------------
(* The steps *)

PRStates == {"none", "draft", "ready"}

\* A step that concludes: what is left to show is that the repository, the
\* remote and the pull requests keep their types, and that no labelled run's
\* pull request has become ready.
LEMMA ConcludingStep ==
  ASSUME PRInv, NEW r \in Runs, Running(r), NEW step \in Steps, NEW status \in StepStatus,
         NEW state \in PRState, state.incomplete = mem[r].incomplete,
         Conclude(r, step, status, state),
         prs' \in [Runs -> PRStates], \A q \in Runs : job[q].incomplete => prs'[q] # "ready",
         head' \in Branches, tip' \in [Branches -> Histories], tip'[head'] # Absent,
         tree' \in SUBSET Works, pushed' \in [Names -> Histories],
         tested' \in [Runs -> Histories]
  PROVE  PRInv'
<1>1. /\ job' = job /\ disk' = disk /\ opts' = opts
      /\ mem' \in [Runs -> PRState]
      /\ pc' \in [Runs -> Steps \cup {"idle"}]
      /\ unsaved' \in [Runs -> BOOLEAN]
      /\ \A q \in Runs : Sane(q)'
  BY ConcludeKeeps
<1>2. PRTypeOK'
  BY <1>1 DEF PRInv, PRTypeOK, PRStates
<1>3. IncompleteNeverReady'
  BY <1>1 DEF IncompleteNeverReady
<1> QED
  BY <1>1, <1>2, <1>3 DEF PRInv

\* A step that leaves the pull requests alone.
LEMMA QuietStep ==
  ASSUME PRInv, NEW r \in Runs, Running(r), NEW step \in Steps, NEW status \in StepStatus,
         NEW state \in PRState, state.incomplete = mem[r].incomplete,
         Conclude(r, step, status, state), prs' = prs,
         head' \in Branches, tip' \in [Branches -> Histories], tip'[head'] # Absent,
         tree' \in SUBSET Works, pushed' \in [Names -> Histories],
         tested' \in [Runs -> Histories]
  PROVE  PRInv'
<1>1. prs' \in [Runs -> PRStates] /\ \A q \in Runs : job[q].incomplete => prs'[q] # "ready"
  BY DEF PRInv, PRTypeOK, IncompleteNeverReady, PRStates
<1> QED
  BY <1>1, ConcludingStep

\* A step of the run's own cycle runs in its process.
LEMMA AtMeansRunning ==
  ASSUME PRInv, NEW r \in Runs, NEW step \in Steps, At(r, step)
  PROVE  /\ Running(r) /\ mem[r] \in PRState /\ job[r].branch \in Names
         /\ job[r].branch \in Branches
         /\ mem[r].incomplete = job[r].incomplete
<1>1. step # "idle"
  BY DEF Steps
<1>2. Running(r)
  BY <1>1 DEF At, Running
<1> QED
  BY <1>2 DEF PRInv, PRTypeOK, Sane, Branches

\* The commit step.
LEMMA CommitSteps ==
  ASSUME PRInv, NEW r \in Runs,
         NothingToCommit(r) \/ ShipHead(r) \/ CommitTree(r) \/ CommitRefused(r)
  PROVE  PRInv'
<1> DEFINE b == job[r].branch
<1>0. At(r, "commit") /\ "commit" \in Steps
  BY DEF NothingToCommit, ShipHead, CommitTree, CommitRefused, Steps
<1>1. Running(r) /\ mem[r] \in PRState /\ b \in Branches
  BY <1>0, AtMeansRunning
<1>2. PRTypeOK /\ tip[head] # Absent
  BY DEF PRInv
<1>3. {"failed", "empty", "done"} \subseteq StepStatus
  BY DEF StepStatus
<1>4. \A q \in Branches : Start(q) \in SUBSET Works /\ Start(q) \cup tree \in SUBSET Works
  BY <1>2, HistoryTypes
<1>5. ASSUME UNCHANGED <<head, tip>>
      PROVE  head' \in Branches /\ tip' \in [Branches -> Histories] /\ tip'[head'] # Absent
  BY <1>2, <1>5 DEF PRTypeOK
<1>6. /\ tree \in SUBSET Works /\ {} \in SUBSET Works
      /\ pushed \in [Names -> Histories] /\ tested \in [Runs -> Histories]
  BY <1>2 DEF PRTypeOK
<1>7. CASE NothingToCommit(r)
  BY <1>0, <1>1, <1>3, <1>5, <1>6, <1>7, QuietStep DEF NothingToCommit, repo, hub
<1>8. CASE ShipHead(r)
  <2>1. head' \in Branches /\ tip' \in [Branches -> Histories] /\ tip'[head'] # Absent
    BY <1>1, <1>2, <1>4, <1>8, CheckOutTypes DEF ShipHead
  <2> QED
    BY <2>1, <1>0, <1>1, <1>3, <1>6, <1>8, QuietStep DEF ShipHead, hub
<1>9. CASE CommitTree(r)
  <2>1. head' \in Branches /\ tip' \in [Branches -> Histories] /\ tip'[head'] # Absent
    BY <1>1, <1>2, <1>4, <1>9, CheckOutTypes DEF CommitTree
  <2> QED
    BY <2>1, <1>0, <1>1, <1>3, <1>6, <1>9, QuietStep DEF CommitTree, hub
<1>10. CASE CommitRefused(r)
  <2>1. head' \in Branches /\ tip' \in [Branches -> Histories] /\ tip'[head'] # Absent
    <3>1. CASE UNCHANGED <<head, tip>>
      BY <3>1, <1>5
    <3>2. CASE CheckOut(b, Start(b))
      BY <3>2, <1>1, <1>2, <1>4, CheckOutTypes
    <3> QED
      BY <3>1, <3>2, <1>10 DEF CommitRefused
  <2> QED
    BY <2>1, <1>0, <1>1, <1>3, <1>6, <1>10, QuietStep DEF CommitRefused, Fails, hub
<1> QED
  BY <1>7, <1>8, <1>9, <1>10

\* The test and push steps.
LEMMA TestAndPushSteps ==
  ASSUME PRInv, NEW r \in Runs, RunTests(r) \/ SkipTests(r) \/ Push(r) \/ PushRefused(r)
  PROVE  PRInv'
<1> DEFINE b == job[r].branch
<1>1. "test" \in Steps /\ "push" \in Steps /\ {"done", "skipped", "failed"} \subseteq StepStatus
  BY DEF Steps, StepStatus
<1>2. Running(r) /\ mem[r] \in PRState /\ b \in Names /\ b \in Branches
  BY <1>1, AtMeansRunning DEF RunTests, SkipTests, Push, PushRefused
<1>3. PRTypeOK /\ tip[head] # Absent
  BY DEF PRInv
<1>4. /\ head \in Branches /\ tip \in [Branches -> Histories] /\ tree \in SUBSET Works
      /\ pushed \in [Names -> Histories] /\ tested \in [Runs -> Histories]
  BY <1>3 DEF PRTypeOK
<1>5. \A v \in Verdicts : LET s == [mem[r] EXCEPT !.passed = v]
                          IN  s \in PRState /\ s.incomplete = mem[r].incomplete
  BY <1>2 DEF PRState
<1>6. CASE RunTests(r)
  <2>1. tip[head] \cup tree \in Histories
    BY <1>3, HistoryTypes
  <2>2. tested' \in [Runs -> Histories]
    BY <2>1, <1>4, <1>6 DEF RunTests
  <2>3. PICK v \in {"pass", "fail"} : Conclude(r, "test", "done", [mem[r] EXCEPT !.passed = v])
    BY <1>6 DEF RunTests
  <2>4. v \in Verdicts
    BY DEF Verdicts
  <2> QED
    BY <2>2, <2>3, <2>4, <1>1, <1>2, <1>3, <1>4, <1>5, <1>6, QuietStep
    DEF RunTests, repo, hub
<1>7. CASE SkipTests(r)
  <2>1. "unknown" \in Verdicts
    BY DEF Verdicts
  <2> QED
    BY <2>1, <1>1, <1>2, <1>3, <1>4, <1>5, <1>7, QuietStep DEF SkipTests, repo, hub
<1>8. CASE Push(r)
  <2>1. pushed' \in [Names -> Histories]
    BY <1>2, <1>4, <1>8 DEF Push
  <2>2. \E status \in {"done", "failed"} : Conclude(r, "push", status, mem[r])
    BY <1>8 DEF Push, Fails
  <2> QED
    BY <2>1, <2>2, <1>1, <1>2, <1>3, <1>4, <1>8, QuietStep DEF Push, repo
<1>9. CASE PushRefused(r)
  BY <1>1, <1>2, <1>3, <1>4, <1>9, QuietStep DEF PushRefused, Fails, repo, hub
<1> QED
  BY <1>6, <1>7, <1>8, <1>9

\* The create step opens a labelled run's pull request as a draft.
LEMMA CreateSteps ==
  ASSUME PRInv, NEW r \in Runs, Create(r) \/ CreateRefused(r)
  PROVE  PRInv'
<1> DEFINE s == WithDraft(mem[r])
<1>1. "create" \in Steps /\ {"done", "failed"} \subseteq StepStatus
  BY DEF Steps, StepStatus
<1>2. Running(r) /\ mem[r] \in PRState /\ mem[r].incomplete = job[r].incomplete
  BY <1>1, AtMeansRunning DEF Create, CreateRefused
<1>3. PRTypeOK /\ tip[head] # Absent /\ IncompleteNeverReady
  BY DEF PRInv
<1>4. /\ head \in Branches /\ tip \in [Branches -> Histories] /\ tree \in SUBSET Works
      /\ pushed \in [Names -> Histories] /\ tested \in [Runs -> Histories]
      /\ prs \in [Runs -> PRStates]
  BY <1>3 DEF PRTypeOK, PRStates
<1>5. /\ s \in PRState /\ s.incomplete = mem[r].incomplete
      /\ mem[r].incomplete => s.draft
  BY <1>2 DEF PRState, WithDraft
<1>6. CASE Create(r)
  <2>1. prs' \in [Runs -> PRStates] /\ \A q \in Runs : job[q].incomplete => prs'[q] # "ready"
    <3>1. prs' = [prs EXCEPT ![r] = IF s.draft THEN "draft" ELSE "ready"]
      BY <1>6 DEF Create
    <3> QED
      BY <3>1, <1>2, <1>3, <1>4, <1>5 DEF IncompleteNeverReady, PRStates
  <2>2. PICK status \in {"done", "failed"}, t \in {s, [s EXCEPT !.number = TRUE]} :
          Conclude(r, "create", status, t)
    BY <1>6 DEF Create, Fails
  <2>3. t \in PRState /\ t.incomplete = mem[r].incomplete
    BY <1>5 DEF PRState
  <2> QED
    BY <2>1, <2>2, <2>3, <1>1, <1>2, <1>3, <1>4, <1>6, ConcludingStep DEF Create, repo
<1>7. CASE CreateRefused(r)
  BY <1>1, <1>2, <1>3, <1>4, <1>5, <1>7, QuietStep DEF CreateRefused, Fails, repo, hub
<1> QED
  BY <1>6, <1>7

\* Watching CI promotes only a run without the label; taking a pull request
\* back to draft is always allowed.
LEMMA WatchSteps ==
  ASSUME PRInv, NEW r \in Runs, NoNumber(r) \/ Green(r) \/ Red(r) \/ WatchTimesOut(r)
  PROVE  PRInv'
<1>1. "watch_ci" \in Steps /\ {"done", "skipped"} \subseteq StepStatus
  BY DEF Steps, StepStatus
<1>2. Running(r) /\ mem[r] \in PRState /\ mem[r].incomplete = job[r].incomplete
  BY <1>1, AtMeansRunning DEF NoNumber, Green, Red, WatchTimesOut
<1>3. PRTypeOK /\ tip[head] # Absent /\ IncompleteNeverReady
  BY DEF PRInv
<1>4. /\ head \in Branches /\ tip \in [Branches -> Histories] /\ tree \in SUBSET Works
      /\ pushed \in [Names -> Histories] /\ tested \in [Runs -> Histories]
      /\ prs \in [Runs -> PRStates]
  BY <1>3 DEF PRTypeOK, PRStates
<1>5. CASE NoNumber(r)
  BY <1>1, <1>2, <1>3, <1>4, <1>5, QuietStep DEF NoNumber, repo, hub
<1>6. CASE Green(r)
  <2> DEFINE promote == ReadyOnGreen /\ mem[r].draft /\ ~mem[r].incomplete
             t == [mem[r] EXCEPT !.ci = "passed", !.draft = mem[r].draft /\ ~promote]
  <2>1. prs' \in [Runs -> PRStates] /\ \A q \in Runs : job[q].incomplete => prs'[q] # "ready"
    <3>1. prs' = prs \/ (~job[r].incomplete /\ prs' = [prs EXCEPT ![r] = "ready"])
      BY <1>2, <1>6 DEF Green, SetPR
    <3> QED
      BY <3>1, <1>3, <1>4 DEF IncompleteNeverReady, PRStates
  <2>2. t \in PRState /\ t.incomplete = mem[r].incomplete
    BY <1>2 DEF PRState, CIVerdicts
  <2>3. Conclude(r, "watch_ci", "done", t) /\ UNCHANGED <<repo, pushed, tested>>
    BY <1>6 DEF Green
  <2> QED
    BY <2>1, <2>2, <2>3, <1>1, <1>2, <1>3, <1>4, ConcludingStep DEF repo
<1>7. CASE Red(r)
  <2> DEFINE t == [mem[r] EXCEPT !.ci = "failed", !.draft = TRUE]
  <2>1. prs' \in [Runs -> PRStates] /\ \A q \in Runs : job[q].incomplete => prs'[q] # "ready"
    <3>1. prs' = prs \/ prs' = [prs EXCEPT ![r] = "draft"]
      BY <1>7 DEF Red, SetPR
    <3> QED
      BY <3>1, <1>3, <1>4 DEF IncompleteNeverReady, PRStates
  <2>2. t \in PRState /\ t.incomplete = mem[r].incomplete
    BY <1>2 DEF PRState, CIVerdicts
  <2> QED
    BY <2>1, <2>2, <1>1, <1>2, <1>3, <1>4, <1>7, ConcludingStep DEF Red, repo
<1>8. CASE WatchTimesOut(r)
  <2> DEFINE t == [mem[r] EXCEPT !.ci = "timeout"]
  <2>1. t \in PRState /\ t.incomplete = mem[r].incomplete
    BY <1>2 DEF PRState, CIVerdicts
  <2> QED
    BY <2>1, <1>1, <1>2, <1>3, <1>4, <1>8, QuietStep DEF WatchTimesOut, repo, hub
<1> QED
  BY <1>5, <1>6, <1>7, <1>8

\* The checkpoint is the ledger in memory, and passing a done step by changes
\* nothing but the place.
LEMMA LedgerSteps ==
  ASSUME PRInv, NEW r \in Runs, Save(r) \/ SkipDone(r)
  PROVE  PRInv'
<1>1. PRTypeOK /\ tip[head] # Absent /\ IncompleteNeverReady /\ \A q \in Runs : Sane(q)
  BY DEF PRInv
<1>2. CASE Save(r)
  <2>1. /\ disk' = [disk EXCEPT ![r] = mem[r]] /\ unsaved' = [unsaved EXCEPT ![r] = FALSE]
        /\ UNCHANGED <<head, tip, tree, pushed, prs, job, mem, pc, opts, tested>>
    BY <1>2 DEF Save, repo, hub
  <2>2. PRTypeOK'
    BY <1>1, <2>1 DEF PRTypeOK, Files
  <2>3. \A q \in Runs : Sane(q)'
    <3>1. Running(r)
      BY <1>2 DEF Save, Running
    <3> QED
      BY <3>1, <1>1, <2>1 DEF PRTypeOK, Sane, Running, Loadable
  <2> QED
    BY <1>1, <2>1, <2>2, <2>3 DEF PRInv, IncompleteNeverReady
<1>3. CASE SkipDone(r)
  <2>1. pc[r] \in Steps /\ pc' = [pc EXCEPT ![r] = AfterStep(r, pc[r])]
    BY <1>1, <1>3 DEF SkipDone, PRTypeOK
  <2>2. UNCHANGED <<head, tip, tree, pushed, prs, job, disk, mem, unsaved, opts, tested>>
    BY <1>3 DEF SkipDone, repo, hub
  <2>3. PRTypeOK'
    BY <1>1, <2>1, <2>2, AfterStepType DEF PRTypeOK
  <2>4. \A q \in Runs : Sane(q)'
    <3>1. pc[r] # "idle"
      BY <1>3 DEF SkipDone
    <3> QED
      BY <3>1, <1>1, <2>1, <2>2 DEF PRTypeOK, Sane, Running, Loadable
  <2> QED
    BY <1>1, <2>2, <2>3, <2>4 DEF PRInv, IncompleteNeverReady
<1> QED
  BY <1>2, <1>3

\* Every step a PR-cycle process takes of its own accord.
LEMMA PRStepKeeps ==
  ASSUME PRInv, NEW r \in Runs, PRStep(r)
  PROVE  PRInv'
  BY CommitSteps, TestAndPushSteps, CreateSteps, WatchSteps, LedgerSteps DEF PRStep

----------------------------------------------------------------------------
(* Processes starting and dying, and the user *)

\* A fresh ledger is given the run's label.
LEMMA OpenKeeps ==
  ASSUME PRInv, NEW r \in Runs, job[r].branch \in Names, OpenPR(r)
  PROVE  PRInv'
<1>1. PRTypeOK /\ tip[head] # Absent /\ IncompleteNeverReady /\ \A q \in Runs : Sane(q)
  BY DEF PRInv
<1> DEFINE new == [NewState EXCEPT !.incomplete = job[r].incomplete]
<1>2. new \in PRState /\ new.incomplete = job[r].incomplete
  BY <1>1 DEF PRTypeOK, Jobs, NewState, PRState, StepStatus, Verdicts, CIVerdicts
<1>3. /\ mem' = [mem EXCEPT ![r] = new]
      /\ pc' = [pc EXCEPT ![r] = "commit"] /\ unsaved' = [unsaved EXCEPT ![r] = TRUE]
      /\ UNCHANGED <<head, tip, tree, pushed, prs, job, disk, tested>>
  BY DEF OpenPR, repo, hub
<1>4. PICK w \in WatchFlags : opts' = [opts EXCEPT ![r] = [push_only |-> FALSE, watch |-> w]]
  BY DEF OpenPR
<1>5. opts' \in [Runs -> Options]
  BY <1>1, <1>4, PRAssumption DEF PRTypeOK, Options
<1>6. PRTypeOK'
  BY <1>1, <1>2, <1>3, <1>5 DEF PRTypeOK, Steps
<1>7. \A q \in Runs : Sane(q)'
  BY <1>1, <1>2, <1>3 DEF PRTypeOK, Sane, Running, Loadable
<1> QED
  BY <1>1, <1>3, <1>6, <1>7 DEF PRInv, IncompleteNeverReady

\* A resume takes the label from the ledger on disk.
LEMMA ResumeKeeps ==
  ASSUME PRInv, NEW r \in Runs, Resume(r)
  PROVE  PRInv'
<1>1. PRTypeOK /\ tip[head] # Absent /\ IncompleteNeverReady /\ \A q \in Runs : Sane(q)
  BY DEF PRInv
<1>2. disk[r] \in PRState
  BY <1>1 DEF Resume, PRTypeOK, Files, Loadable
<1>3. /\ mem' = [mem EXCEPT ![r] = disk[r]] /\ pc' = [pc EXCEPT ![r] = "commit"]
      /\ UNCHANGED <<head, tip, tree, pushed, prs, job, disk, unsaved, tested>>
  BY DEF Resume, repo, hub
<1>4. PICK p \in BOOLEAN, w \in WatchFlags :
        opts' = [opts EXCEPT ![r] = [push_only |-> p, watch |-> w]]
  BY DEF Resume
<1>5. opts' \in [Runs -> Options]
  BY <1>1, <1>4, PRAssumption DEF PRTypeOK, Options
<1>6. PRTypeOK'
  BY <1>1, <1>2, <1>3, <1>5 DEF PRTypeOK, Steps
<1>7. \A q \in Runs : Sane(q)'
  BY <1>1, <1>2, <1>3 DEF PRTypeOK, Sane, Running, Loadable, Resume
<1> QED
  BY <1>1, <1>3, <1>6, <1>7 DEF PRInv, IncompleteNeverReady

\* A death loses memory, and at worst the ledger.
LEMMA CrashKeeps ==
  ASSUME PRInv, NEW r \in Runs, Crash(r)
  PROVE  PRInv'
<1>1. PRTypeOK /\ tip[head] # Absent /\ IncompleteNeverReady /\ \A q \in Runs : Sane(q)
  BY DEF PRInv
<1>2. /\ mem' = [mem EXCEPT ![r] = NewState] /\ pc' = [pc EXCEPT ![r] = "idle"]
      /\ unsaved' = [unsaved EXCEPT ![r] = FALSE]
      /\ disk' = disk \/ disk' = [disk EXCEPT ![r] = Torn]
      /\ UNCHANGED <<head, tip, tree, pushed, prs, job, opts, tested>>
  BY DEF Crash, repo, hub
<1>3. NewState \in PRState /\ Torn \in Files /\ ~Loadable(Torn)
  BY DEF NewState, PRState, StepStatus, Verdicts, CIVerdicts, Files, Loadable
<1>4. PRTypeOK'
  BY <1>1, <1>2, <1>3 DEF PRTypeOK
<1>5. \A q \in Runs : Sane(q)'
  BY <1>1, <1>2, <1>3 DEF PRTypeOK, Sane, Running, Loadable
<1> QED
  BY <1>1, <1>2, <1>4, <1>5 DEF PRInv, IncompleteNeverReady

\* The working copy changes under the runs, to histories of works.
LEMMA WorkingCopyKeeps ==
  ASSUME PRInv, head' \in Branches, tip' \in [Branches -> Histories],
         tip'[head'] # Absent, tree' \in SUBSET Works, UNCHANGED <<hub, cycle>>
  PROVE  PRInv'
<1>1. PRTypeOK /\ IncompleteNeverReady /\ \A q \in Runs : Sane(q)
  BY DEF PRInv
<1>2. UNCHANGED <<pushed, prs, job, disk, mem, pc, unsaved, opts, tested>>
  BY DEF hub, cycle
<1>3. PRTypeOK'
  BY <1>1, <1>2 DEF PRTypeOK
<1>4. \A q \in Runs : Sane(q)'
  BY <1>1, <1>2 DEF Sane, Running, Loadable
<1> QED
  BY <1>1, <1>2, <1>3, <1>4 DEF PRInv, IncompleteNeverReady

\* The user's edits, commits and checkouts are such changes.
LEMMA MovedKeeps ==
  ASSUME PRInv, Moved
  PROVE  PRInv'
<1>1. PRTypeOK /\ tip[head] # Absent
  BY DEF PRInv
<1>2. /\ head \in Branches /\ tip \in [Branches -> Histories] /\ tree \in SUBSET Works
      /\ User \in Works /\ UNCHANGED <<hub, cycle>>
  BY <1>1 DEF PRTypeOK, Works, Moved
<1>3. CASE tree' = tree \cup {User} /\ UNCHANGED <<head, tip>>
  BY <1>1, <1>2, <1>3, WorkingCopyKeeps
<1>4. CASE CheckOut(head, tip[head] \cup tree \cup {User}) /\ tree' = {}
  <2>1. tip[head] \cup tree \cup {User} \in SUBSET Works
    BY <1>1, <1>2, HistoryTypes
  <2>2. head' \in Branches /\ tip' \in [Branches -> Histories] /\ tip'[head'] # Absent
    BY <2>1, <1>1, <1>2, <1>4, CheckOutTypes
  <2> QED
    BY <2>2, <1>2, <1>4, WorkingCopyKeeps
<1>5. CASE head' \in {b \in Branches : tip[b] # Absent} /\ UNCHANGED <<tip, tree>>
  BY <1>2, <1>5, WorkingCopyKeeps
<1> QED
  BY <1>3, <1>4, <1>5 DEF Moved

----------------------------------------------------------------------------
(* The pipeline around the cycle. *)

Early == {"new", "planned", "ready", "agent", "labelled", "cleaned"}

Fresh(r) == ~Running(r) /\ disk[r] = Missing /\ prs[r] = "none"

StageInv ==
  /\ stage \in [Runs -> Stages]
  /\ lock \in Runs \cup {NoRun}
  /\ \A r \in Runs : stage[r] \in Early => Fresh(r)
  /\ \A r \in Runs : stage[r] # "new" => job[r].branch \in Names
  /\ \A r \in Runs : lock = r <=> stage[r] \in Guarded

IInv == PRInv /\ StageInv

\* Nothing has happened: HEAD is on the branch the user had, no run exists.
LEMMA InitInv == Init => IInv
<1> SUFFICES ASSUME Init PROVE IInv
  OBVIOUS
<1>1. PRTypeOK
  <2>1. Base \in Branches /\ Base \notin Works /\ {} \in Histories /\ Absent \in Histories
    BY PRAssumption DEF Branches, Works, Histories
  <2>2. NewState \in PRState
    BY DEF NewState, PRState, StepStatus, Verdicts, CIVerdicts
  <2>3. NewJob \in Jobs
    BY DEF NewJob, Jobs
  <2>4. [push_only |-> FALSE, watch |-> FALSE] \in Options
    BY DEF Options
  <2> QED
    BY <2>1, <2>2, <2>3, <2>4 DEF Init, PRInit, PRTypeOK, Files
<1>2. tip[head] # Absent
  BY DEF Init, PRInit, Branches, Absent
<1>3. \A r \in Runs : Sane(r) /\ Fresh(r)
  BY DEF Init, PRInit, Sane, Fresh, Running, Loadable
<1>4. IncompleteNeverReady
  BY DEF Init, PRInit, IncompleteNeverReady
<1>5. StageInv
  BY <1>3, NoRunAssumption DEF Init, StageInv, Stages, Early, Guarded
<1> QED
  BY <1>1, <1>2, <1>3, <1>4, <1>5 DEF IInv, PRInv

\* A run that gets its job written before its PR cycle: the label and the base
\* may still change, the branch must be planned.
LEMMA JobKeeps ==
  ASSUME IInv, NEW r \in Runs, stage[r] \in Early, NEW j \in Jobs,
         job' = [job EXCEPT ![r] = j],
         UNCHANGED <<repo, hub, disk, mem, pc, unsaved, opts, tested>>
  PROVE  PRInv' /\ \A q \in Runs : stage[q] \in Early => Fresh(q)'
<1>1. PRTypeOK /\ tip[head] # Absent /\ IncompleteNeverReady /\ \A q \in Runs : Sane(q)
  BY DEF IInv, PRInv
<1>2. Fresh(r) /\ \A q \in Runs : stage[q] \in Early => Fresh(q)
  BY DEF IInv, StageInv
<1>3. UNCHANGED <<head, tip, tree, pushed, prs, disk, mem, pc, unsaved, opts, tested>>
  BY DEF repo, hub
<1>4. PRTypeOK'
  BY <1>1, <1>3 DEF PRTypeOK
<1>5. \A q \in Runs : Sane(q)'
  BY <1>1, <1>2, <1>3 DEF PRTypeOK, Sane, Fresh, Running, Loadable
<1>6. IncompleteNeverReady'
  BY <1>1, <1>2, <1>3 DEF PRTypeOK, IncompleteNeverReady, Fresh
<1>7. \A q \in Runs : stage[q] \in Early => Fresh(q)'
  BY <1>2, <1>3 DEF Fresh, Running
<1> QED
  BY <1>1, <1>3, <1>4, <1>5, <1>6, <1>7 DEF PRInv

\* What StageInv says of a run survives a step that leaves its own state, its
\* branch and its pull request alone.
LEMMA FreshKeeps ==
  ASSUME NEW q \in Runs, Fresh(q),
         disk'[q] = disk[q], prs'[q] = prs[q], pc'[q] = pc[q], unsaved'[q] = unsaved[q]
  PROVE  Fresh(q)'
  BY DEF Fresh, Running

\* The working copy changes, the runs' stages do not.
LEMMA TreeStep ==
  ASSUME IInv, head' \in Branches, tip' \in [Branches -> Histories],
         tip'[head'] # Absent, tree' \in SUBSET Works, UNCHANGED <<hub, cycle, stage, lock>>
  PROVE  IInv'
<1>1. PRInv'
  BY WorkingCopyKeeps DEF IInv
<1>2. UNCHANGED <<pushed, prs, job, disk, mem, pc, unsaved, opts, tested, stage, lock>>
  BY DEF hub, cycle
<1> QED
  BY <1>1, <1>2 DEF IInv, StageInv, Fresh, Running

\* A step of r's own process touches nothing of another run.
LEMMA OthersUntouched ==
  ASSUME IInv, NEW r \in Runs, PRStep(r) \/ OpenPR(r) \/ Resume(r) \/ Crash(r),
         NEW q \in Runs, q # r
  PROVE  /\ disk'[q] = disk[q] /\ prs'[q] = prs[q] /\ pc'[q] = pc[q]
         /\ unsaved'[q] = unsaved[q] /\ mem'[q] = mem[q] /\ tested'[q] = tested[q]
<1>1. PRTypeOK
  BY DEF IInv, PRInv
<1> USE <1>1 DEF PRTypeOK, Conclude, Fails, hub, SetPR
<1>2. CASE PRStep(r)
  <2>1. CASE Save(r) \/ SkipDone(r)
    BY <2>1 DEF Save, SkipDone
  <2>2. CASE NothingToCommit(r) \/ ShipHead(r) \/ CommitTree(r) \/ CommitRefused(r)
    BY <2>2 DEF NothingToCommit, ShipHead, CommitTree, CommitRefused
  <2>3. CASE RunTests(r) \/ SkipTests(r)
    BY <2>3 DEF RunTests, SkipTests
  <2>4. CASE Push(r) \/ PushRefused(r)
    BY <2>4 DEF Push, PushRefused
  <2>5. CASE Create(r) \/ CreateRefused(r)
    BY <2>5 DEF Create, CreateRefused
  <2>6. CASE NoNumber(r) \/ Green(r) \/ Red(r) \/ WatchTimesOut(r)
    BY <2>6 DEF NoNumber, Green, Red, WatchTimesOut
  <2> QED
    BY <1>2, <2>1, <2>2, <2>3, <2>4, <2>5, <2>6 DEF PRStep
<1>3. CASE OpenPR(r)
  BY <1>3 DEF OpenPR
<1>4. CASE Resume(r)
  BY <1>4 DEF Resume
<1>5. CASE Crash(r)
  BY <1>5 DEF Crash
<1> QED
  BY <1>2, <1>3, <1>4, <1>5

\* Only planning writes the job, so a cycle step keeps the branch.
LEMMA JobUntouched ==
  ASSUME NEW r \in Runs, PRStep(r) \/ OpenPR(r) \/ Resume(r) \/ Crash(r)
  PROVE  job' = job
<1> USE DEF Conclude, Fails, cycle
<1>1. CASE PRStep(r)
  BY <1>1 DEF PRStep, Save, SkipDone, NothingToCommit, ShipHead, CommitTree, CommitRefused,
              RunTests, SkipTests, Push, PushRefused, Create, CreateRefused, NoNumber,
              Green, Red, WatchTimesOut
<1>2. CASE OpenPR(r) \/ Resume(r) \/ Crash(r)
  BY <1>2 DEF OpenPR, Resume, Crash
<1> QED
  BY <1>1, <1>2

----------------------------------------------------------------------------
(* The pipeline's own steps *)

\* A run moves on to stage s: what is left to show is who is fresh and who
\* holds the lock.
LEMMA StageMoves ==
  ASSUME StageInv, NEW r \in Runs, NEW s \in Stages, s # "new", Reach(r, s),
         job'[r].branch \in Names,
         \A q \in Runs : q # r => job'[q].branch = job[q].branch,
         \A q \in Runs : stage'[q] \in Early => Fresh(q)',
         lock' \in Runs \cup {NoRun}, lock' = r <=> s \in Guarded,
         \A q \in Runs : q # r => (lock' = q <=> lock = q)
  PROVE  StageInv'
<1>1. stage' \in [Runs -> Stages] /\ \A q \in Runs : stage'[q] = IF q = r THEN s ELSE stage[q]
  BY DEF StageInv, Reach
<1>2. \A q \in Runs : stage'[q] # "new" => job'[q].branch \in Names
  BY <1>1 DEF StageInv
<1>3. \A q \in Runs : lock' = q <=> stage'[q] \in Guarded
  BY <1>1 DEF StageInv
<1> QED
  BY <1>1, <1>2, <1>3 DEF StageInv

\* Preflight and the step-limit label write the job of a run that has no cycle.
LEMMA JobSteps ==
  ASSUME IInv, NEW r \in Runs, PlanBranch(r) \/ ReadHead(r) \/ StepLimit(r)
  PROVE  IInv'
<1>1. PRTypeOK /\ StageInv /\ tip[head] # Absent
  BY DEF IInv, PRInv
<1>2. tip[head] \in SUBSET Works
  BY <1>1, HistoryTypes
<1>3. /\ stage[r] \in Early /\ lock' = lock
      /\ UNCHANGED <<repo, hub, disk, mem, pc, unsaved, opts, tested>>
  BY DEF PlanBranch, ReadHead, StepLimit, Early
<1>4. PICK j \in Jobs, s \in {"planned", "ready", "labelled"} :
        /\ job' = [job EXCEPT ![r] = j] /\ j.branch \in Names /\ Reach(r, s)
        /\ stage[r] \in Guarded <=> s \in Guarded
  <2>1. job[r] \in Jobs /\ (stage[r] # "new" => job[r].branch \in Names)
    BY <1>1 DEF PRTypeOK, StageInv
  <2>2. CASE PlanBranch(r)
    <3>1. PICK n \in Names, t \in TestCommands :
            job' = [job EXCEPT ![r] = [NewJob EXCEPT !.branch = n, !.tests = t]]
      BY <2>2 DEF PlanBranch
    <3>2. [NewJob EXCEPT !.branch = n, !.tests = t] \in Jobs
      BY PRAssumption DEF NewJob, Jobs
    <3>3. [NewJob EXCEPT !.branch = n, !.tests = t].branch = n
      BY DEF NewJob
    <3> QED
      BY <2>2, <3>1, <3>2, <3>3 DEF PlanBranch, Guarded
  <2>3. CASE ReadHead(r)
    <3>1. [job[r] EXCEPT !.base = tip[head]] \in Jobs
      BY <1>2, <2>1 DEF Jobs
    <3>2. job' = [job EXCEPT ![r] = [job[r] EXCEPT !.base = tip[head]]]
      BY <2>3 DEF ReadHead
    <3>3. [job[r] EXCEPT !.base = tip[head]].branch = job[r].branch
      BY <2>1 DEF Jobs
    <3> QED
      BY <2>1, <2>3, <3>1, <3>2, <3>3 DEF ReadHead, Guarded
  <2>4. CASE StepLimit(r)
    <3>1. PICK limited \in BOOLEAN : job' = [job EXCEPT ![r].incomplete = limited]
      BY <2>4 DEF StepLimit
    <3>2. [job[r] EXCEPT !.incomplete = limited] \in Jobs
      BY <2>1 DEF Jobs
    <3>3. [job[r] EXCEPT !.incomplete = limited].branch = job[r].branch
      BY <2>1 DEF Jobs
    <3> QED
      BY <2>1, <2>4, <3>1, <3>2, <3>3 DEF StepLimit, Guarded
  <2> QED
    BY <2>2, <2>3, <2>4
<1>5. PRInv' /\ \A q \in Runs : stage[q] \in Early => Fresh(q)'
  BY <1>3, <1>4, JobKeeps
<1>6. \A q \in Runs : stage'[q] \in Early => Fresh(q)'
  BY <1>1, <1>3, <1>4, <1>5 DEF StageInv, Reach
<1>7. StageInv'
  <2>1. s \in Stages /\ s # "new"
    BY <1>4 DEF Stages
  <2>2. job'[r].branch \in Names /\ \A q \in Runs : q # r => job'[q].branch = job[q].branch
    BY <1>1, <1>4 DEF PRTypeOK
  <2>3. lock' \in Runs \cup {NoRun} /\ (lock' = r <=> s \in Guarded)
    BY <1>1, <1>3, <1>4 DEF StageInv
  <2> QED
    BY <1>1, <1>3, <1>4, <1>6, <2>1, <2>2, <2>3, StageMoves
<1> QED
  BY <1>5, <1>7 DEF IInv

\* The lock, the teardown and a death before the cycle touch neither the
\* repository nor any ledger.
LEMMA QuietMove ==
  ASSUME IInv, NEW r \in Runs, NEW s \in Stages, s # "new", stage[r] # "new",
         s \in Early => stage[r] \in Early, Reach(r, s), UNCHANGED prvars,
         lock' \in Runs \cup {NoRun}, lock' = r <=> s \in Guarded,
         \A q \in Runs : q # r => (lock' = q <=> lock = q)
  PROVE  IInv'
<1>1. PRInv /\ StageInv
  BY DEF IInv
<1>2. UNCHANGED <<head, tip, tree, pushed, prs, job, disk, mem, pc, unsaved, opts, tested>>
  BY DEF prvars
<1>3. PRInv'
  BY <1>1, <1>2, WorkingCopyKeeps DEF PRInv, PRTypeOK, hub, cycle
<1>4. \A q \in Runs : stage'[q] \in Early => Fresh(q)'
  BY <1>1, <1>2 DEF StageInv, Reach, Fresh, Running
<1>5. StageInv'
  BY <1>1, <1>2, <1>4, StageMoves DEF StageInv
<1> QED
  BY <1>3, <1>5 DEF IInv

\* Taking the lock when it is free, and leaving when it is not.
LEMMA AcquireKeeps ==
  ASSUME IInv, NEW r \in Runs, AcquireLock(r)
  PROVE  IInv'
<1>1. StageInv /\ stage[r] = "ready" /\ UNCHANGED prvars /\ r # NoRun
  BY NoRunAssumption DEF IInv, AcquireLock
<1>2. CASE lock = NoRun /\ lock' = r /\ Reach(r, "agent")
  BY <1>1, <1>2, NoRunAssumption, QuietMove DEF Stages, Early, Guarded
<1>3. CASE lock # NoRun /\ Reach(r, "exited") /\ UNCHANGED lock
  BY <1>1, <1>3, QuietMove DEF StageInv, Stages, Early, Guarded
<1> QED
  BY <1>2, <1>3 DEF AcquireLock

\* Leaving the guarded block gives the lock back, and nobody has it then.
LEMMA LeaveKeeps ==
  ASSUME IInv, NEW r \in Runs, stage[r] \in Guarded, Reach(r, "exited"), lock' = NoRun,
         UNCHANGED prvars
  PROVE  IInv'
<1>1. StageInv /\ lock = r
  BY DEF IInv, StageInv
<1> QED
  BY <1>1, NoRunAssumption, QuietMove DEF Stages, Early, Guarded

\* What the agent, the server and the user do to the working copy.
LEMMA TreeSteps ==
  ASSUME IInv, (\E r \in Runs : AgentWrites(r) \/ AgentCommits(r)) \/ Serve \/ UserMoves
  PROVE  IInv'
<1>1. PRInv /\ PRTypeOK /\ StageInv /\ tip[head] # Absent
  BY DEF IInv, PRInv
<1>2. /\ head \in Branches /\ tip \in [Branches -> Histories] /\ tree \in SUBSET Works
      /\ tip[head] \cup tree \in SUBSET Works
  BY <1>1, HistoryTypes DEF PRTypeOK
<1>3. ASSUME NEW r \in Runs, AgentWrites(r)
      PROVE  IInv'
  BY <1>1, <1>2, <1>3, TreeStep DEF AgentWrites, Works
<1>4. ASSUME NEW r \in Runs, AgentCommits(r)
      PROVE  IInv'
  <2>1. head' \in Branches /\ tip' \in [Branches -> Histories] /\ tip'[head'] # Absent
    BY <1>1, <1>2, <1>4, CheckOutTypes DEF AgentCommits
  <2> QED
    BY <2>1, <1>4, TreeStep DEF AgentCommits
<1>5. CASE Serve
  BY <1>1, <1>2, <1>5, TreeStep DEF Serve, Works
<1>6. CASE UserMoves
  <2>1. PRInv'
    BY <1>1, <1>6, MovedKeeps DEF UserMoves
  <2>2. UNCHANGED <<pushed, prs, job, disk, mem, pc, unsaved, opts, tested, stage, lock>>
    BY <1>6 DEF UserMoves, Moved, hub, cycle
  <2> QED
    BY <1>1, <2>1, <2>2 DEF IInv, StageInv, Fresh, Running
<1> QED
  BY <1>3, <1>4, <1>5, <1>6

\* The cleanup turn takes the run's own files out of the tree.
LEMMA CleanupKeeps ==
  ASSUME IInv, NEW r \in Runs, CleanupTurn(r)
  PROVE  IInv'
<1>1. PRInv /\ PRTypeOK /\ StageInv /\ tip[head] # Absent
  BY DEF IInv, PRInv
<1>2. /\ UNCHANGED <<head, tip, hub, cycle, lock>> /\ tree' \in SUBSET Works
      /\ stage[r] = "labelled" /\ Reach(r, "cleaned")
  BY <1>1 DEF CleanupTurn, PRTypeOK
<1>3. PRInv'
  BY <1>1, <1>2, WorkingCopyKeeps DEF PRTypeOK
<1>4. UNCHANGED <<prs, job, disk, pc, unsaved>>
  BY <1>2 DEF hub, cycle
<1>5. \A q \in Runs : stage'[q] \in Early => Fresh(q)'
  BY <1>1, <1>2, <1>4 DEF StageInv, Reach, Fresh, Running, Early
<1>6. StageInv'
  BY <1>1, <1>2, <1>4, <1>5, StageMoves DEF StageInv, Stages, Guarded
<1> QED
  BY <1>3, <1>6 DEF IInv

\* The PR cycle, its start, its resumes and its deaths: they disturb no other
\* run, and the run itself is past the stages where it must be fresh.
LEMMA CycleKeeps ==
  ASSUME IInv, NEW r \in Runs, PRStep(r) \/ OpenPR(r) \/ Resume(r) \/ Crash(r),
         NEW s \in Stages \ (Early \cup {"new"}), Reach(r, s),
         job[r].branch \in Names,
         lock' \in Runs \cup {NoRun}, lock' = r <=> s \in Guarded,
         \A q \in Runs : q # r => (lock' = q <=> lock = q)
  PROVE  IInv'
<1>1. PRInv /\ StageInv
  BY DEF IInv
<1>2. PRInv'
  BY <1>1, PRStepKeeps, OpenKeeps, ResumeKeeps, CrashKeeps
<1>3. job' = job
  BY JobUntouched
<1>4. \A q \in Runs : stage'[q] \in Early => Fresh(q)'
  <2> SUFFICES ASSUME NEW q \in Runs, stage'[q] \in Early
               PROVE  Fresh(q)'
    OBVIOUS
  <2>1. q # r /\ stage[q] \in Early
    BY <1>1 DEF StageInv, Reach
  <2>2. disk'[q] = disk[q] /\ prs'[q] = prs[q] /\ pc'[q] = pc[q] /\ unsaved'[q] = unsaved[q]
    BY <2>1, OthersUntouched
  <2> QED
    BY <1>1, <2>1, <2>2, FreshKeeps DEF StageInv
<1>5. StageInv'
  BY <1>1, <1>3, <1>4, StageMoves
<1> QED
  BY <1>2, <1>5 DEF IInv

\* A process that runs is past the early stages.
LEMMA RunningIsLate ==
  ASSUME IInv, NEW r \in Runs, Running(r) \/ Loadable(disk[r])
  PROVE  stage[r] \in Stages \ (Early \cup {"new"}) /\ job[r].branch \in Names
  BY DEF IInv, StageInv, Fresh, Loadable, Early

\* Every step of the cycle is taken by a running process.
LEMMA StepsRun ==
  ASSUME NEW r \in Runs, PRStep(r) \/ Crash(r)
  PROVE  Running(r)
<1>1. "commit" # "idle" /\ "test" # "idle" /\ "push" # "idle" /\ "create" # "idle"
      /\ "watch_ci" # "idle"
  OBVIOUS
<1>2. CASE Save(r) \/ SkipDone(r) \/ Crash(r)
  BY <1>2 DEF Save, SkipDone, Crash, Running
<1>3. CASE NothingToCommit(r) \/ ShipHead(r) \/ CommitTree(r) \/ CommitRefused(r)
  BY <1>1, <1>3 DEF NothingToCommit, ShipHead, CommitTree, CommitRefused, At, Running
<1>4. CASE RunTests(r) \/ SkipTests(r) \/ Push(r) \/ PushRefused(r)
  BY <1>1, <1>4 DEF RunTests, SkipTests, Push, PushRefused, At, Running
<1>5. CASE Create(r) \/ CreateRefused(r) \/ NoNumber(r) \/ Green(r) \/ Red(r) \/ WatchTimesOut(r)
  BY <1>1, <1>5 DEF Create, CreateRefused, NoNumber, Green, Red, WatchTimesOut, At, Running
<1> QED
  BY <1>2, <1>3, <1>4, <1>5 DEF PRStep

----------------------------------------------------------------------------
(* The invariant *)

LEMMA StartPRKeeps ==
  ASSUME IInv, NEW r \in Runs, StartPR(r)
  PROVE  IInv'
<1>1. StageInv /\ stage[r] = "cleaned" /\ OpenPR(r) /\ Reach(r, "pr") /\ lock' = lock
  BY DEF IInv, StartPR
<1>2. job[r].branch \in Names /\ lock = r
  BY <1>1 DEF StageInv, Guarded
<1>3. "pr" \in Stages \ (Early \cup {"new"}) /\ "pr" \in Guarded
  BY DEF Stages, Early, Guarded
<1> QED
  BY <1>1, <1>2, <1>3, CycleKeeps

\* The cycle goes on or dies, or a resume starts: the stage stays.
LEMMA CycleSteps ==
  ASSUME IInv, NEW r \in Runs, Cycle(r) \/ ResumePR(r) \/ ResumedDies(r)
  PROVE  IInv'
<1>1. StageInv /\ (PRStep(r) \/ Resume(r) \/ Crash(r)) /\ UNCHANGED <<stage, lock>>
  BY DEF IInv, Cycle, ResumePR, ResumedDies
<1>2. Running(r) \/ Loadable(disk[r])
  BY <1>1, StepsRun DEF Resume
<1>3. stage[r] \in Stages \ (Early \cup {"new"}) /\ job[r].branch \in Names
  BY <1>2, RunningIsLate
<1>4. Reach(r, stage[r]) /\ (lock' = r <=> stage[r] \in Guarded)
  BY <1>1 DEF StageInv, Reach
<1> QED
  BY <1>1, <1>3, <1>4, CycleKeeps DEF StageInv

LEMMA DieKeeps ==
  ASSUME IInv, NEW r \in Runs, Die(r)
  PROVE  IInv'
<1>1. StageInv /\ stage[r] \in Guarded /\ lock' = NoRun /\ Reach(r, "exited")
  BY DEF IInv, Die
<1>2. CASE Running(r)
  <2>1. Crash(r) /\ lock = r /\ job[r].branch \in Names
    BY <1>1, <1>2, RunningIsLate DEF Die, StageInv
  <2>2. "exited" \in Stages \ (Early \cup {"new"}) /\ "exited" \notin Guarded
    BY DEF Stages, Early, Guarded
  <2> QED
    BY <1>1, <2>1, <2>2, NoRunAssumption, CycleKeeps
<1>3. CASE ~Running(r)
  BY <1>1, <1>3, LeaveKeeps DEF Die
<1> QED
  BY <1>2, <1>3

\* Every step of the pipeline, the processes around it and the user.
LEMMA StepInv == IInv /\ [Next]_vars => IInv'
<1> SUFFICES ASSUME IInv, [Next]_vars PROVE IInv'
  OBVIOUS
<1>1. ASSUME NEW r \in Runs, PlanBranch(r) \/ ReadHead(r) \/ StepLimit(r)
      PROVE  IInv'
  BY <1>1, JobSteps
<1>2. ASSUME NEW r \in Runs, AcquireLock(r)
      PROVE  IInv'
  BY <1>2, AcquireKeeps
<1>3. ASSUME NEW r \in Runs, CleanupTurn(r)
      PROVE  IInv'
  BY <1>3, CleanupKeeps
<1>4. ASSUME NEW r \in Runs, StartPR(r)
      PROVE  IInv'
  BY <1>4, StartPRKeeps
<1>5. ASSUME NEW r \in Runs, Teardown(r)
      PROVE  IInv'
  BY <1>5, LeaveKeeps DEF Teardown
<1>6. ASSUME NEW r \in Runs, Die(r)
      PROVE  IInv'
  BY <1>6, DieKeeps
<1>7. ASSUME NEW r \in Runs, Cycle(r) \/ ResumePR(r) \/ ResumedDies(r)
      PROVE  IInv'
  BY <1>7, CycleSteps
<1>8. CASE (\E r \in Runs : AgentWrites(r) \/ AgentCommits(r)) \/ Serve \/ UserMoves
  BY <1>8, TreeSteps
<1>9. CASE UNCHANGED vars
  <2>1. /\ UNCHANGED <<head, tip, tree, pushed, prs, job, disk, mem, pc, unsaved, opts, tested>>
        /\ UNCHANGED <<stage, lock, hub, cycle>>
    BY <1>9 DEF vars, prvars, hub, cycle
  <2> QED
    BY <2>1, TreeStep DEF IInv, PRInv, PRTypeOK
<1> QED
  BY <1>1, <1>2, <1>3, <1>4, <1>5, <1>6, <1>7, <1>8, <1>9 DEF Next, RunStep

LEMMA Invariance == Spec => []IInv
<1>1. Init => IInv
  BY InitInv
<1>2. IInv /\ [Next]_vars => IInv'
  BY StepInv
<1> QED
  BY <1>1, <1>2, PTL DEF Spec

----------------------------------------------------------------------------
(* The theorems *)

\* Every reachable state of the pipeline is well typed, for any number of runs
\* and branches and whatever the environment may do.
THEOREM TypeCorrect == Spec => []MaintainTypeOK
<1>1. IInv => MaintainTypeOK
  BY DEF IInv, PRInv, StageInv, MaintainTypeOK
<1> QED
  BY <1>1, Invariance, PTL

\* A run that stopped at the step limit never ends up as a pull request that is
\* ready for review, whatever is refused, lost, killed or resumed on the way.
THEOREM LabelIsSound == Spec => []IncompleteNeverReady
<1>1. IInv => IncompleteNeverReady
  BY DEF IInv, PRInv
<1> QED
  BY <1>1, Invariance, PTL

\* The pipeline uses the repository lock the way RepoMutex allows.
THEOREM RunsExclude == Spec => RunsExcludeEachOther
<1>1. Init => RepoLocking!Init
  BY DEF Init, RepoLocking!Init, InLock, Guarded
<1>2. IInv /\ [Next]_vars => [RepoLocking!Next]_InLock
  <2> SUFFICES ASSUME IInv, [Next]_vars, InLock' # InLock
               PROVE  RepoLocking!Next
    OBVIOUS
  <2>1. StageInv
    BY DEF IInv
  <2>2. PICK r \in Runs :
          \/ stage[r] = "ready" /\ lock = NoRun /\ Reach(r, "agent")
          \/ stage[r] \in Guarded /\ Reach(r, "exited")
    <3>1. ASSUME NEW r \in Runs, NEW s \in Stages, Reach(r, s),
                 stage[r] \in Guarded <=> s \in Guarded
          PROVE  FALSE
      BY <2>1, <3>1 DEF StageInv, Reach, InLock
    <3>2. stage' # stage
      BY DEF InLock
    <3>3. PICK r \in Runs :
            \/ PlanBranch(r) \/ ReadHead(r) \/ StepLimit(r) \/ CleanupTurn(r) \/ StartPR(r)
            \/ AcquireLock(r) \/ Teardown(r) \/ Die(r)
      BY <3>2 DEF Next, RunStep, Cycle, AgentWrites, AgentCommits, ResumePR, ResumedDies, Serve,
                  UserMoves, vars
    <3>4. ~(PlanBranch(r) \/ ReadHead(r) \/ StepLimit(r) \/ CleanupTurn(r) \/ StartPR(r))
      BY <3>1 DEF PlanBranch, ReadHead, StepLimit, CleanupTurn, StartPR, Stages, Guarded
    <3>5. CASE AcquireLock(r)
      BY <3>1, <3>5 DEF AcquireLock, Stages, Guarded
    <3>6. CASE Teardown(r) \/ Die(r)
      BY <3>6 DEF Teardown, Die
    <3> QED
      BY <3>3, <3>4, <3>5, <3>6
  <2>3. CASE stage[r] = "ready" /\ lock = NoRun /\ Reach(r, "agent")
    <3>1. InLock = {}
      BY <2>1, <2>3, NoRunAssumption DEF StageInv, InLock
    <3>2. InLock' = {r}
      BY <2>1, <2>3, <3>1 DEF StageInv, InLock, Reach, Guarded
    <3> QED
      BY <3>1, <3>2 DEF RepoLocking!Next, RepoLocking!Enter
  <2>4. CASE stage[r] \in Guarded /\ Reach(r, "exited")
    <3>1. InLock' = InLock \ {r} /\ r \in InLock
      BY <2>1, <2>4 DEF StageInv, InLock, Reach, Guarded
    <3> QED
      BY <3>1 DEF RepoLocking!Next, RepoLocking!Leave
  <2> QED
    BY <2>2, <2>3, <2>4
<1> QED
  BY <1>1, <1>2, Invariance, PTL DEF Spec, RunsExcludeEachOther, RepoLocking!Spec

\* Where no MCP server and no user touches the working copy, nobody but the
\* holder of the lock adds to its tree: two runs never write it at once.
THEOREM HolderWrites ==
  ASSUME "served" \notin Faults, "moved" \notin Faults
  PROVE  Spec => OnlyHolderWrites
<1>1. IInv /\ [Next]_vars
        => [lock # NoRun /\ lock' = lock => tree' \subseteq tree \cup {lock}]_vars
  <2> SUFFICES ASSUME IInv, Next, tree' # tree
               PROVE  tree' \subseteq tree \cup {lock}
    BY DEF vars, prvars
  <2>1. StageInv
    BY DEF IInv
  <2>2. ~Serve /\ ~UserMoves
    BY DEF Serve, UserMoves, Moved
  <2>3. PICK r \in Runs : RunStep(r) \/ AgentWrites(r) \/ AgentCommits(r) \/ Die(r)
                          \/ PlanBranch(r) \/ ReadHead(r) \/ ResumePR(r) \/ ResumedDies(r)
    BY <2>2 DEF Next
  <2>4. CASE AgentWrites(r)
    BY <2>1, <2>4 DEF AgentWrites, StageInv, Guarded
  <2>5. CASE AgentCommits(r)
    BY <2>5 DEF AgentCommits
  <2>6. CASE CleanupTurn(r)
    BY <2>6 DEF CleanupTurn
  <2>7. CASE Cycle(r)
    <3>1. tree' = tree \/ CommitTree(r)
      BY <2>7 DEF Cycle, PRStep, Save, SkipDone, NothingToCommit, ShipHead, CommitRefused,
                  RunTests, SkipTests, Push, PushRefused, Create, CreateRefused, NoNumber,
                  Green, Red, WatchTimesOut, repo
    <3> QED
      BY <3>1 DEF CommitTree
  <2>8. tree' = tree \/ AgentWrites(r) \/ AgentCommits(r) \/ CleanupTurn(r) \/ Cycle(r)
    BY <2>3 DEF RunStep, AcquireLock, StepLimit, StartPR, OpenPR, Teardown, Die, Crash,
                PlanBranch, ReadHead, ResumePR, Resume, ResumedDies, prvars, repo
  <2> QED
    BY <2>4, <2>5, <2>6, <2>7, <2>8
<1> QED
  BY <1>1, Invariance, PTL DEF Spec, OnlyHolderWrites

----------------------------------------------------------------------------
(* The ledger *)

\* A process is past the steps its ledger calls done.
Reached(r) ==
  /\ pc[r] \in {"test", "push", "create", "watch_ci"} => IsDone(mem[r], "commit")
  /\ pc[r] \in {"push", "create", "watch_ci"} => IsDone(mem[r], "test")
  /\ pc[r] \in {"create", "watch_ci"} => IsDone(mem[r], "push")
  /\ pc[r] = "watch_ci" => IsDone(mem[r], "create")

\* What LedgerTracksTheWorld asks of the ledger on disk, of any ledger.
Tracks(r, s) ==
  /\ \A step \in {"commit", "push", "create"} : IsDone(s, step) => Happened(r, step)
  /\ Happened(r, "push") => IsDone(s, "test")
  /\ Happened(r, "create") => IsDone(s, "push")
  /\ IsDone(s, "test") => IsDone(s, "commit")
  /\ IsDone(s, "watch_ci") => IsDone(s, "create")

\* No other run was given the same branch: two runs that plan before either
\* has committed are given the same one, and then one's push is the other's.
Alone(r) == \A q \in Runs \ {r} : job[q].branch # job[r].branch

\* The ledger in memory tracks the world, and the one on disk is the same
\* whenever a step is about to be taken.
LedgerInv(r) ==
  /\ Running(r) => Tracks(r, mem[r])
  /\ Running(r) /\ ~unsaved[r] => disk[r] = mem[r]
  /\ Loadable(disk[r]) => Tracks(r, disk[r])
  /\ stage[r] \in Early \ {"new"} => pushed[job[r].branch] = Absent

Ledgers ==
  \A r \in Runs : /\ Reached(r)
                  /\ stage[r] = "new" => job[r].branch = 0
                  /\ Alone(r) => LedgerInv(r)

\* A step that concludes leaves the marks of the other steps alone.
LEMMA Marks ==
  ASSUME PRTypeOK, NEW r \in Runs, NEW step \in Steps, NEW status \in StepStatus,
         NEW state \in PRState, state.steps = mem[r].steps, Conclude(r, step, status, state)
  PROVE  /\ mem'[r].steps[step] = status
         /\ \A s \in Steps : s # step => mem'[r].steps[s] = mem[r].steps[s]
         /\ status \in {"failed", "empty"} => pc'[r] = "idle"
         /\ status \notin {"failed", "empty"} => pc'[r] = AfterStep(r, step)
         /\ unsaved'[r] = TRUE /\ disk'[r] = disk[r] /\ job' = job
<1> DEFINE new == [state EXCEPT !.steps[step] = status]
<1>1. state.steps \in [Steps -> StepStatus]
  BY DEF PRState
<1>2. new.steps = [state.steps EXCEPT ![step] = status]
  BY DEF PRState
<1>3. mem'[r] = new
  BY DEF PRTypeOK, Conclude
<1>4. /\ new.steps[step] = status
      /\ \A s \in Steps : s # step => new.steps[s] = state.steps[s]
  BY <1>1, <1>2
<1>5. /\ status \in {"failed", "empty"} => pc'[r] = "idle"
      /\ status \notin {"failed", "empty"} => pc'[r] = AfterStep(r, step)
      /\ unsaved'[r] = TRUE /\ disk'[r] = disk[r] /\ job' = job
  BY DEF PRTypeOK, Conclude
<1> HIDE DEF new
<1>6. /\ mem'[r].steps[step] = status
      /\ \A s \in Steps : s # step => mem'[r].steps[s] = mem[r].steps[s]
  BY <1>3, <1>4
<1> QED
  BY <1>5, <1>6

\* What is after a step.
LEMMA Afterwards ==
  ASSUME NEW r
  PROVE  /\ AfterStep(r, "commit") = "test" /\ AfterStep(r, "test") = "push"
         /\ AfterStep(r, "push") \in {"idle", "create"}
         /\ AfterStep(r, "create") \in {"idle", "watch_ci"}
         /\ AfterStep(r, "watch_ci") = "idle"
  BY DEF AfterStep, StopsAfter

LEMMA ConcludingReaches ==
  ASSUME PRTypeOK, NEW r \in Runs, Reached(r), NEW step \in Steps, At(r, step),
         NEW status \in StepStatus \ {""}, NEW state \in PRState, state.steps = mem[r].steps,
         Conclude(r, step, status, state)
  PROVE  Reached(r)'
<1>1. pc[r] = step /\ status \in StepStatus
  BY DEF At
<1>2. /\ mem'[r].steps[step] = status
      /\ \A s \in Steps : s # step => mem'[r].steps[s] = mem[r].steps[s]
      /\ status \in {"failed", "empty"} => pc'[r] = "idle"
      /\ status \notin {"failed", "empty"} => pc'[r] = AfterStep(r, step)
      /\ unsaved'[r] = TRUE /\ disk'[r] = disk[r] /\ job' = job
  BY <1>1, Marks
<1>3. CASE status \in {"failed", "empty"}
  BY <1>2, <1>3 DEF Reached
<1>4. CASE status \in {"done", "skipped"}
  <2>1. pc'[r] = AfterStep(r, step) /\ mem'[r].steps[step] \in {"done", "skipped"}
    BY <1>2, <1>4
  <2>2. \A s \in Steps : s # step => mem'[r].steps[s] = mem[r].steps[s]
    BY <1>2
  <2>3. CASE step = "commit"
    BY <2>1, <2>3, Afterwards DEF Reached, IsDone
  <2>4. CASE step = "test"
    BY <1>1, <2>1, <2>2, <2>4, Afterwards DEF Reached, IsDone, Steps
  <2>5. CASE step = "push"
    BY <1>1, <2>1, <2>2, <2>5, Afterwards DEF Reached, IsDone, Steps
  <2>6. CASE step = "create"
    BY <1>1, <2>1, <2>2, <2>6, Afterwards DEF Reached, IsDone, Steps
  <2>7. CASE step = "watch_ci"
    BY <2>1, <2>7, Afterwards DEF Reached
  <2> QED
    BY <2>3, <2>4, <2>5, <2>6, <2>7 DEF Steps
<1> QED
  BY <1>3, <1>4 DEF StepStatus

\* How every step that concludes does so.
LEMMA Conclusions ==
  ASSUME PRTypeOK, NEW r \in Runs, PRStep(r), ~Save(r), ~SkipDone(r)
  PROVE  \E step \in Steps, status \in StepStatus \ {""}, state \in PRState :
           /\ At(r, step) /\ Conclude(r, step, status, state) /\ state.steps = mem[r].steps
           /\ step = "commit" /\ status \in {"done", "skipped"} => ShipHead(r) \/ CommitTree(r)
           /\ step = "commit" /\ status = "empty" => NothingToCommit(r)
           /\ step = "test" => RunTests(r) \/ SkipTests(r)
           /\ step = "push" => Push(r) \/ (PushRefused(r) /\ status = "failed")
           /\ step = "create" => Create(r) \/ (CreateRefused(r) /\ status = "failed")
           /\ step = "watch_ci" => NoNumber(r) \/ Green(r) \/ Red(r) \/ WatchTimesOut(r)
           /\ pushed' # pushed => step = "push"
           /\ prs' # prs => step \in {"create", "watch_ci"}
<1>1. mem[r] \in PRState
  BY DEF PRTypeOK
<1>2. /\ \A v \in Verdicts : /\ [mem[r] EXCEPT !.passed = v] \in PRState
                              /\ [mem[r] EXCEPT !.passed = v].steps = mem[r].steps
      /\ \A c \in CIVerdicts : /\ [mem[r] EXCEPT !.ci = c] \in PRState
                                /\ [mem[r] EXCEPT !.ci = c].steps = mem[r].steps
      /\ \A c \in CIVerdicts, d \in BOOLEAN :
            /\ [mem[r] EXCEPT !.ci = c, !.draft = d] \in PRState
            /\ [mem[r] EXCEPT !.ci = c, !.draft = d].steps = mem[r].steps
      /\ WithDraft(mem[r]) \in PRState /\ WithDraft(mem[r]).steps = mem[r].steps
      /\ [WithDraft(mem[r]) EXCEPT !.number = TRUE] \in PRState
      /\ [WithDraft(mem[r]) EXCEPT !.number = TRUE].steps = mem[r].steps
  BY <1>1, PRAssumption DEF PRState, WithDraft
<1>3. /\ {"done", "skipped", "failed", "empty"} \subseteq StepStatus \ {""}
      /\ {"commit", "test", "push", "create", "watch_ci"} \subseteq Steps
      /\ {"pass", "fail", "unknown"} \subseteq Verdicts
      /\ {"passed", "failed", "timeout"} \subseteq CIVerdicts
  BY DEF StepStatus, Steps, Verdicts, CIVerdicts
<1>4. CASE NothingToCommit(r) \/ ShipHead(r) \/ CommitTree(r) \/ CommitRefused(r)
  BY <1>1, <1>3, <1>4 DEF NothingToCommit, ShipHead, CommitTree, CommitRefused, Fails, hub
<1>5. CASE RunTests(r)
  BY <1>2, <1>3, <1>5 DEF RunTests, hub
<1>6. CASE SkipTests(r)
  BY <1>2, <1>3, <1>6 DEF SkipTests, hub
<1>7. CASE Push(r) \/ PushRefused(r)
  BY <1>1, <1>3, <1>7 DEF Push, PushRefused, Fails, hub
<1>8. CASE Create(r) \/ CreateRefused(r)
  BY <1>2, <1>3, <1>8 DEF Create, CreateRefused, Fails, hub
<1>9. CASE NoNumber(r) \/ WatchTimesOut(r)
  BY <1>1, <1>2, <1>3, <1>9 DEF NoNumber, WatchTimesOut, hub
<1>10. CASE Green(r)
  <2> DEFINE d == mem[r].draft /\ ~(ReadyOnGreen /\ mem[r].draft /\ ~mem[r].incomplete)
  <2>1. d \in BOOLEAN
    OBVIOUS
  <2>2. Conclude(r, "watch_ci", "done", [mem[r] EXCEPT !.ci = "passed", !.draft = d])
    BY <1>10 DEF Green
  <2> HIDE DEF d
  <2> QED
    BY <1>2, <1>3, <1>10, <2>1, <2>2 DEF Green
<1>11. CASE Red(r)
  BY <1>2, <1>3, <1>11 DEF Red
<1> QED
  BY <1>4, <1>5, <1>6, <1>7, <1>8, <1>9, <1>10, <1>11 DEF PRStep

\* A process that starts is at the first step, one that dies is at none, and
\* one that passes a step by found it done.
LEMMA OwnStepReaches ==
  ASSUME IInv, NEW r \in Runs, Reached(r), PRStep(r) \/ OpenPR(r) \/ Resume(r) \/ Crash(r)
  PROVE  Reached(r)'
<1>1. PRTypeOK
  BY DEF IInv, PRInv
<1>2. CASE Save(r)
  <2>1. pc' = pc /\ mem' = mem
    BY <1>2 DEF Save
  <2> QED
    BY <2>1 DEF Reached
<1>3. CASE SkipDone(r)
  <2>1. pc[r] \in Steps /\ pc'[r] = AfterStep(r, pc[r]) /\ mem' = mem /\ IsDone(mem[r], pc[r])
    BY <1>1, <1>3 DEF SkipDone, PRTypeOK
  <2> QED
    BY <2>1, Afterwards DEF Reached, Steps
<1>4. CASE OpenPR(r) \/ Resume(r) \/ Crash(r)
  <2>1. pc'[r] \in {"commit", "idle"}
    BY <1>1, <1>4 DEF PRTypeOK, OpenPR, Resume, Crash
  <2> QED
    BY <2>1 DEF Reached
<1>5. CASE PRStep(r) /\ ~Save(r) /\ ~SkipDone(r)
  <2>1. PICK step \in Steps, status \in StepStatus \ {""}, state \in PRState :
          At(r, step) /\ Conclude(r, step, status, state) /\ state.steps = mem[r].steps
    BY <1>1, <1>5, Conclusions
  <2> QED
    BY <1>1, <2>1, ConcludingReaches
<1> QED
  BY <1>2, <1>3, <1>4, <1>5

\* No branch is ever deleted.
LEMMA TipsStay ==
  ASSUME IInv, [Next]_vars, NEW b \in Branches, tip[b] # Absent
  PROVE  tip'[b] # Absent
<1>1. /\ PRTypeOK /\ tip[head] # Absent /\ head \in Branches /\ tree \in SUBSET Works
      /\ tip \in [Branches -> Histories]
  BY DEF IInv, PRInv, PRTypeOK
<1>2. ASSUME NEW c \in Branches, NEW h \in SUBSET Works, CheckOut(c, h)
      PROVE  tip'[b] # Absent
  BY <1>1, <1>2, HistoryTypes DEF CheckOut
<1>3. /\ tip[head] \cup tree \in SUBSET Works
      /\ \A c \in Branches : Start(c) \in SUBSET Works /\ Start(c) \cup tree \in SUBSET Works
  BY <1>1, HistoryTypes
<1>4. CASE \E r \in Runs : AgentCommits(r)
  BY <1>1, <1>2, <1>3, <1>4 DEF AgentCommits
<1>5. ASSUME NEW r \in Runs, ShipHead(r) \/ CommitTree(r) \/ CommitRefused(r)
      PROVE  tip'[b] # Absent
  <2>1. job[r].branch \in Branches
    BY <1>5, AtMeansRunning DEF ShipHead, CommitTree, CommitRefused, Steps, IInv
  <2> QED
    BY <1>2, <1>3, <1>5, <2>1 DEF ShipHead, CommitTree, CommitRefused
<1>6. CASE UserMoves
  <2>1. User \in Works
    BY DEF Works
  <2> QED
    BY <1>1, <1>2, <1>3, <1>6, <2>1 DEF UserMoves, Moved
<1>7. ASSUME NEW r \in Runs, PRStep(r), ~ShipHead(r), ~CommitTree(r), ~CommitRefused(r)
      PROVE  tip' = tip
  BY <1>7 DEF PRStep, Save, SkipDone, NothingToCommit, RunTests, SkipTests, Push, PushRefused,
              Create, CreateRefused, NoNumber, Green, Red, WatchTimesOut, repo
<1>8. CASE UNCHANGED vars \/ Serve
  BY <1>8 DEF vars, prvars, Serve
<1>9. ASSUME NEW r \in Runs,
             PlanBranch(r) \/ ReadHead(r) \/ AcquireLock(r) \/ StepLimit(r) \/ CleanupTurn(r)
             \/ StartPR(r) \/ Teardown(r) \/ AgentWrites(r) \/ Die(r) \/ ResumePR(r)
             \/ ResumedDies(r)
      PROVE  tip' = tip
  BY <1>9 DEF PlanBranch, ReadHead, AcquireLock, StepLimit, CleanupTurn, StartPR, Teardown,
              AgentWrites, Die, ResumePR, ResumedDies, OpenPR, Resume, Crash, prvars, repo
<1> QED
  BY <1>4, <1>5, <1>6, <1>7, <1>8, <1>9 DEF Next, RunStep, Cycle

\* A run's process writes no remote branch but its own.
LEMMA OwnBranch ==
  ASSUME IInv, NEW r \in Runs, PRStep(r) \/ OpenPR(r) \/ Resume(r) \/ Crash(r),
         NEW b \in Names, b # job[r].branch
  PROVE  pushed'[b] = pushed[b]
<1>1. pushed \in [Names -> Histories]
  BY DEF IInv, PRInv, PRTypeOK
<1>2. CASE Push(r)
  BY <1>1, <1>2 DEF Push
<1>3. CASE ~Push(r)
  BY <1>3 DEF PRStep, Save, SkipDone, NothingToCommit, ShipHead, CommitTree, CommitRefused,
              RunTests, SkipTests, PushRefused, Create, CreateRefused, NoNumber,
              Green, Red, WatchTimesOut, OpenPR, Resume, Crash, hub
<1> QED
  BY <1>2, <1>3

\* A step of somebody else.
LEMMA ElsewhereKeeps ==
  ASSUME IInv, [Next]_vars, NEW r \in Runs, LedgerInv(r), stage[r] # "new",
         job'[r].branch = job[r].branch, disk'[r] = disk[r], mem'[r] = mem[r],
         pc'[r] = pc[r], unsaved'[r] = unsaved[r], prs'[r] = prs[r],
         pushed'[job[r].branch] = pushed[job[r].branch],
         stage'[r] \in Early \ {"new"} => stage[r] \in Early \ {"new"}
  PROVE  LedgerInv(r)'
<1>1. job[r].branch \in Branches
  BY DEF IInv, StageInv, Branches
<1>2. tip[job[r].branch] # Absent => tip'[job[r].branch] # Absent
  BY <1>1, TipsStay
<1>3. /\ Happened(r, "commit") => Happened(r, "commit")'
      /\ Happened(r, "push") <=> Happened(r, "push")'
      /\ Happened(r, "create") <=> Happened(r, "create")'
  BY <1>2 DEF Happened
<1>4. /\ Tracks(r, mem[r]) => Tracks(r, mem[r])'
      /\ Tracks(r, disk[r]) => Tracks(r, disk[r])'
  BY <1>3 DEF Tracks
<1>5. (Running(r) <=> Running(r)') /\ (Loadable(disk[r]) <=> Loadable(disk[r])')
  BY DEF Running, Loadable
<1> QED
  BY <1>4, <1>5 DEF LedgerInv

\* A step that concludes: it has happened if it is marked done, and what has
\* happened besides had happened before.
LEMMA ConcludingTracks ==
  ASSUME IInv, [Next]_vars, NEW r \in Runs, Reached(r), LedgerInv(r), NEW step \in Steps,
         At(r, step), NEW status \in StepStatus \ {""}, NEW state \in PRState,
         state.steps = mem[r].steps, Conclude(r, step, status, state),
         status \in {"done", "skipped"} /\ step \in {"commit", "push", "create"}
           => Happened(r, step)',
         Happened(r, "push")' => Happened(r, "push") \/ step = "push",
         Happened(r, "push") => Happened(r, "push")',
         Happened(r, "create")' => Happened(r, "create") \/ step = "create",
         Happened(r, "create") => Happened(r, "create")',
         stage[r] \notin Early, stage'[r] = stage[r]
  PROVE  LedgerInv(r)'
<1>1. /\ PRTypeOK /\ pc[r] = step /\ ~unsaved[r] /\ ~IsDone(mem[r], step)
      /\ status \in StepStatus
  BY DEF IInv, PRInv, At
<1>2. Running(r) /\ disk[r] = mem[r] /\ Tracks(r, mem[r])
  BY <1>1 DEF LedgerInv, Running, Steps
<1>3. /\ mem'[r].steps[step] = status
      /\ \A s \in Steps : s # step => mem'[r].steps[s] = mem[r].steps[s]
      /\ status \in {"failed", "empty"} => pc'[r] = "idle"
      /\ status \notin {"failed", "empty"} => pc'[r] = AfterStep(r, step)
      /\ unsaved'[r] = TRUE /\ disk'[r] = disk[r] /\ job' = job
  BY <1>1, Marks, Zenon
<1>4. /\ \A s \in Steps : s # step => (IsDone(mem'[r], s) <=> IsDone(mem[r], s))
      /\ IsDone(mem'[r], step) => status \in {"done", "skipped"}
  BY <1>3 DEF IsDone
<1>5. Happened(r, "commit") => Happened(r, "commit")'
  <2>1. job[r].branch \in Branches
    BY <1>1, <1>2, RunningIsLate DEF Branches
  <2> QED
    BY <1>3, <2>1, TipsStay DEF Happened
<1>6. \A s \in Steps : IsDone(mem[r], s) => IsDone(mem'[r], s)
  BY <1>1, <1>4
<1>7. Tracks(r, mem[r])'
  <2>1. \A s \in {"commit", "push", "create"} : IsDone(mem'[r], s) => Happened(r, s)'
    BY <1>2, <1>4, <1>5 DEF Tracks, Steps
  <2>2. Happened(r, "push")' => IsDone(mem'[r], "test")
    BY <1>1, <1>2, <1>6 DEF Tracks, Reached, Steps
  <2>3. Happened(r, "create")' => IsDone(mem'[r], "push")
    BY <1>1, <1>2, <1>6 DEF Tracks, Reached, Steps
  <2>4. IsDone(mem'[r], "test") => IsDone(mem'[r], "commit")
    BY <1>1, <1>2, <1>4, <1>6 DEF Tracks, Reached, Steps
  <2>5. IsDone(mem'[r], "watch_ci") => IsDone(mem'[r], "create")
    BY <1>1, <1>2, <1>4, <1>6 DEF Tracks, Reached, Steps
  <2> QED
    BY <2>1, <2>2, <2>3, <2>4, <2>5 DEF Tracks, IsDone
<1>8. Tracks(r, disk[r])'
  <2>1. \A s \in {"commit", "push", "create"} : IsDone(mem[r], s) => Happened(r, s)'
    BY <1>2, <1>5 DEF Tracks
  <2>2. Happened(r, "push")' => IsDone(mem[r], "test")
    BY <1>1, <1>2 DEF Tracks, Reached
  <2>3. Happened(r, "create")' => IsDone(mem[r], "push")
    BY <1>1, <1>2 DEF Tracks, Reached
  <2> QED
    BY <1>2, <1>3, <2>1, <2>2, <2>3 DEF Tracks, IsDone
<1> QED
  BY <1>3, <1>7, <1>8 DEF LedgerInv

\* A step of the run's own cycle.
LEMMA CycleTracks ==
  ASSUME IInv, [Next]_vars, NEW r \in Runs, Reached(r), LedgerInv(r), PRStep(r), stage' = stage
  PROVE  LedgerInv(r)'
<1> DEFINE b == job[r].branch
<1>1. PRTypeOK /\ Running(r) /\ stage[r] \notin Early /\ b \in Names
  BY StepsRun, RunningIsLate DEF IInv, PRInv
<1>2. Tracks(r, mem[r]) /\ job' = job
  BY <1>1, JobUntouched DEF LedgerInv
<1>3. CASE Save(r)
  <2>1. /\ disk'[r] = mem[r] /\ unsaved'[r] = FALSE
        /\ UNCHANGED <<mem, tip, pushed, prs>>
    BY <1>1, <1>3 DEF Save, repo, hub, PRTypeOK
  <2>2. Tracks(r, mem[r])' /\ Tracks(r, disk[r])'
    BY <1>2, <2>1 DEF Tracks, Happened
  <2> QED
    BY <1>1, <2>1, <2>2 DEF LedgerInv
<1>4. CASE SkipDone(r)
  <2>1. /\ ~unsaved[r]
        /\ UNCHANGED <<mem, disk, unsaved, tip, pushed, prs>>
    BY <1>4 DEF SkipDone, repo, hub
  <2>2. Tracks(r, mem[r])' /\ (Tracks(r, disk[r]) => Tracks(r, disk[r])')
    BY <1>2, <2>1 DEF Tracks, Happened
  <2> QED
    BY <1>1, <2>1, <2>2 DEF LedgerInv
<1>5. CASE ~Save(r) /\ ~SkipDone(r)
  <2>1. PICK step \in Steps, status \in StepStatus \ {""}, state \in PRState :
          /\ At(r, step) /\ Conclude(r, step, status, state) /\ state.steps = mem[r].steps
          /\ step = "commit" /\ status \in {"done", "skipped"} => ShipHead(r) \/ CommitTree(r)
          /\ step = "push" => Push(r) \/ (PushRefused(r) /\ status = "failed")
          /\ step = "create" => Create(r) \/ (CreateRefused(r) /\ status = "failed")
          /\ step = "watch_ci" => NoNumber(r) \/ Green(r) \/ Red(r) \/ WatchTimesOut(r)
          /\ pushed' # pushed => step = "push"
          /\ prs' # prs => step \in {"create", "watch_ci"}
    BY <1>1, <1>5, Conclusions
  <2>2. status \in {"done", "skipped"} /\ step = "commit" => Happened(r, "commit")'
    <3>1. b \in Branches /\ tip \in [Branches -> Histories]
      BY <1>1 DEF Branches, PRTypeOK
    <3>2. /\ Start(b) \in SUBSET Works /\ Start(b) \cup tree \in SUBSET Works
          /\ \A k \in SUBSET Works : k # Absent
      BY <3>1, HistoryTypes DEF IInv, PRInv
    <3>3. ShipHead(r) \/ CommitTree(r) => tip'[b] # Absent
      BY <3>1, <3>2 DEF ShipHead, CommitTree, CheckOut
    <3> QED
      BY <1>2, <2>1, <3>3 DEF Happened
  <2>3. Push(r) => pushed'[b] # Absent
    BY <1>1 DEF Push, CanPush, PRTypeOK
  <2>4. Create(r) \/ Green(r) \/ Red(r) => prs'[r] # "none" \/ prs' = prs
    BY <1>1 DEF Create, Green, Red, SetPR, PRTypeOK
  <2>5. Create(r) => prs'[r] # "none"
    BY <1>1 DEF Create, PRTypeOK
  <2>6. NoNumber(r) \/ WatchTimesOut(r) \/ PushRefused(r) \/ CreateRefused(r)
          => pushed' = pushed /\ prs' = prs
    BY DEF NoNumber, WatchTimesOut, PushRefused, CreateRefused, hub
  <2>7. status \in {"done", "skipped"} /\ step = "push" => Happened(r, "push")'
    BY <1>2, <2>1, <2>3 DEF Happened
  <2>8. status \in {"done", "skipped"} /\ step = "create" => Happened(r, "create")'
    BY <2>1, <2>5 DEF Happened
  <2>9. /\ Happened(r, "push")' => Happened(r, "push") \/ step = "push"
        /\ Happened(r, "push") => Happened(r, "push")'
    BY <1>2, <2>1, <2>3, <2>6 DEF Happened
  <2>10. /\ Happened(r, "create")' => Happened(r, "create") \/ step = "create"
         /\ Happened(r, "create") => Happened(r, "create")'
    <3>1. CASE prs' = prs
      BY <3>1 DEF Happened
    <3>2. CASE prs' # prs
      <4>1. Happened(r, "create")'
        BY <2>1, <2>4, <2>6, <3>2 DEF Happened
      <4>2. step = "watch_ci" => Happened(r, "create")
        BY <1>2, <2>1 DEF At, Reached, Tracks
      <4> QED
        BY <2>1, <3>2, <4>1, <4>2
    <3> QED
      BY <3>1, <3>2
  <2> QED
    BY <1>1, <2>1, <2>2, <2>7, <2>8, <2>9, <2>10, ConcludingTracks
<1> QED
  BY <1>3, <1>4, <1>5

\* The cycle starts: nothing is marked, and nothing has happened.
LEMMA StartTracks ==
  ASSUME IInv, NEW r \in Runs, LedgerInv(r), StartPR(r)
  PROVE  LedgerInv(r)'
<1>1. PRTypeOK /\ Fresh(r) /\ pushed[job[r].branch] = Absent
  BY DEF IInv, PRInv, StageInv, StartPR, LedgerInv, Early
<1>2. /\ mem'[r] = [NewState EXCEPT !.incomplete = job[r].incomplete]
      /\ pc'[r] = "commit" /\ unsaved'[r] = TRUE /\ stage'[r] = "pr"
      /\ UNCHANGED <<job, disk, tip, pushed, prs>>
  BY <1>1 DEF StartPR, OpenPR, PRTypeOK, repo, hub, Reach, IInv, StageInv
<1>3. \A s \in Steps : ~IsDone(mem'[r], s)
  BY <1>2 DEF IsDone, NewState
<1>4. Tracks(r, mem[r])'
  <2>1. ~Happened(r, "push")' /\ ~Happened(r, "create")'
    BY <1>1, <1>2 DEF Happened, Fresh
  <2> QED
    BY <1>3, <2>1 DEF Tracks, IsDone, Steps
<1>5. ~Loadable(disk'[r])
  BY <1>1, <1>2 DEF Fresh, Loadable
<1> QED
  BY <1>2, <1>4, <1>5 DEF LedgerInv, Early

\* A resumed process takes the ledger on disk, a dead one leaves it or tears it.
LEMMA ProcessTracks ==
  ASSUME IInv, NEW r \in Runs, LedgerInv(r), Resume(r) \/ Crash(r), stage'[r] \notin Early
  PROVE  LedgerInv(r)'
<1>1. PRTypeOK /\ UNCHANGED <<job, tip, pushed, prs>>
  BY DEF IInv, PRInv, Resume, Crash, repo, hub
<1>2. CASE Resume(r)
  <2>1. /\ mem'[r] = disk[r] /\ disk' = disk /\ unsaved' = unsaved /\ ~unsaved[r]
        /\ Loadable(disk[r])
    BY <1>1, <1>2 DEF Resume, Running, PRTypeOK
  <2>2. Tracks(r, mem[r])' /\ Tracks(r, disk[r])'
    BY <1>1, <2>1 DEF LedgerInv, Tracks, Happened
  <2> QED
    BY <2>1, <2>2 DEF LedgerInv
<1>3. CASE Crash(r)
  <2>1. ~Running(r)' /\ (disk'[r] = disk[r] \/ disk'[r] = Torn)
    BY <1>1, <1>3 DEF Crash, Running, PRTypeOK
  <2>2. Tracks(r, disk[r]) /\ disk'[r] = disk[r] => Tracks(r, disk[r])'
    BY <1>1 DEF Tracks, Happened
  <2> QED
    BY <2>1, <2>2 DEF LedgerInv, Loadable
<1> QED
  BY <1>2, <1>3

\* Before its PR cycle a run has no ledger to be wrong.
LEMMA NoLedgerYet ==
  ASSUME IInv, NEW r \in Runs, stage[r] \in Early,
         stage[r] # "new" => pushed[job[r].branch] = Absent
  PROVE  LedgerInv(r)
  BY DEF IInv, StageInv, Fresh, LedgerInv, Loadable

\* The steps by what they write: a process, a job, or neither.
CycleOf(q) == PRStep(q) \/ OpenPR(q) \/ Resume(q) \/ Crash(q)

ByCycle(q) == /\ CycleOf(q)
              /\ Cycle(q) \/ StartPR(q) \/ ResumePR(q) \/ ResumedDies(q) \/ Die(q)
              /\ stage' = stage \/ Reach(q, "pr") \/ Reach(q, "exited")
ByPlan(q) == PlanBranch(q) \/ ReadHead(q) \/ StepLimit(q)
ByOthers == /\ UNCHANGED <<hub, cycle>>
            /\ \/ stage' = stage
               \/ \E q \in Runs : /\ stage[q] # "new"
                                  /\ \/ Reach(q, "agent") /\ stage[q] = "ready"
                                     \/ Reach(q, "cleaned") /\ stage[q] = "labelled"
                                     \/ Reach(q, "exited")

LEMMA Movers ==
  ASSUME [Next]_vars
  PROVE  (\E q \in Runs : ByCycle(q)) \/ (\E q \in Runs : ByPlan(q)) \/ ByOthers
<1> USE DEF prvars, hub, cycle, CycleOf, ByCycle, ByPlan, ByOthers
<1>1. ASSUME NEW q \in Runs, Cycle(q) \/ StartPR(q) \/ ResumePR(q) \/ ResumedDies(q)
      PROVE  CycleOf(q) /\ (stage' = stage \/ Reach(q, "pr"))
  BY <1>1 DEF Cycle, StartPR, ResumePR, ResumedDies
<1>2. ASSUME NEW q \in Runs, Die(q)
      PROVE  /\ Reach(q, "exited") /\ stage[q] # "new"
             /\ CycleOf(q) \/ UNCHANGED <<hub, cycle>>
  BY <1>2 DEF Die, Guarded
<1>3. ASSUME NEW q \in Runs, AcquireLock(q) \/ Teardown(q) \/ CleanupTurn(q)
      PROVE  /\ UNCHANGED <<hub, cycle>> /\ stage[q] # "new"
             /\ \/ Reach(q, "agent") /\ stage[q] = "ready"
                \/ Reach(q, "cleaned") /\ stage[q] = "labelled"
                \/ Reach(q, "exited")
  BY <1>3 DEF AcquireLock, Teardown, CleanupTurn, Guarded
<1>4. ASSUME NEW q \in Runs, AgentWrites(q) \/ AgentCommits(q)
      PROVE  UNCHANGED <<hub, cycle>> /\ stage' = stage
  BY <1>4 DEF AgentWrites, AgentCommits
<1>5. CASE Serve \/ UserMoves \/ UNCHANGED vars
  BY <1>5 DEF Serve, UserMoves, Moved, vars
<1> QED
  BY <1>1, <1>2, <1>3, <1>4, <1>5 DEF Next, RunStep

\* A step that is no process's leaves every ledger as it was.
LEMMA QuietLedgers ==
  ASSUME IInv, IInv', [Next]_vars, NEW r \in Runs, Reached(r), LedgerInv(r) \/ stage[r] = "new",
         UNCHANGED <<hub, disk, mem, pc, unsaved>>, job'[r].branch = job[r].branch,
         stage'[r] \in Early \ {"new"} => stage[r] \in Early \ {"new"}
  PROVE  Reached(r)' /\ LedgerInv(r)'
<1>1. Reached(r)'
  BY DEF Reached
<1>2. CASE stage[r] = "new"
  <2>1. Fresh(r) /\ stage'[r] \notin Early \ {"new"}
    BY <1>2 DEF IInv, StageInv, Early
  <2>2. ~Running(r)' /\ ~Loadable(disk'[r])
    BY <2>1 DEF Fresh, Running, Loadable
  <2> QED
    BY <1>1, <2>1, <2>2 DEF LedgerInv
<1>3. CASE stage[r] # "new"
  BY <1>1, <1>3, ElsewhereKeeps DEF hub
<1> QED
  BY <1>2, <1>3

LEMMA LedgerStep ==
  ASSUME IInv, IInv', Ledgers, [Next]_vars, NEW r \in Runs
  PROVE  /\ Reached(r)'
         /\ stage'[r] = "new" => job'[r].branch = 0
         /\ Alone(r)' => LedgerInv(r)'
<1>1. /\ PRTypeOK /\ StageInv /\ Reached(r) /\ (Alone(r) => LedgerInv(r))
      /\ \A q \in Runs : stage[q] = "new" => job[q].branch = 0
      /\ \A q \in Runs : stage[q] # "new" => job[q].branch \in Names /\ job[q].branch # 0
  BY DEF IInv, PRInv, StageInv, Ledgers, Names
<1>2. ASSUME NEW q \in Runs, ByCycle(q)
      PROVE  /\ Reached(r)' /\ (stage'[r] = "new" => job'[r].branch = 0)
             /\ Alone(r)' => LedgerInv(r)'
  <2> USE <1>2 DEF ByCycle
  <2>1. job' = job /\ (Alone(r)' => LedgerInv(r))
    BY <1>1, <1>2, JobUntouched DEF CycleOf, Alone
  <2>2. stage'[r] = "new" => stage[r] = "new"
    BY <1>1, <1>2 DEF StageInv, Reach
  <2>3. CASE q = r
    <3>1. Reached(r)'
      BY <1>1, <1>2, <2>3, OwnStepReaches DEF CycleOf
    <3>2. CASE Cycle(r)
      BY <1>1, <2>1, <2>2, <3>1, <3>2, CycleTracks DEF Cycle
    <3>3. CASE StartPR(r)
      BY <1>1, <2>1, <2>2, <3>1, <3>3, StartTracks
    <3>4. CASE ResumePR(r) \/ ResumedDies(r) \/ (Die(r) /\ CycleOf(r))
      <4>1. Resume(r) \/ Crash(r) \/ UNCHANGED prvars
        BY <3>4 DEF ResumePR, ResumedDies, Die
      <4>2. stage'[r] \notin Early
        BY <1>1, <3>4 DEF ResumePR, ResumedDies, Die, StageInv, Reach, Early
      <4>3. CASE Resume(r) \/ Crash(r)
        BY <1>1, <2>1, <2>2, <3>1, <4>2, <4>3, ProcessTracks
      <4>4. CASE UNCHANGED prvars
        <5>1. UNCHANGED <<hub, disk, mem, pc, unsaved>>
          BY <4>4 DEF prvars, hub
        <5> QED
          BY <1>1, <2>1, <2>2, <3>1, <4>2, <5>1, QuietLedgers
      <4> QED
        BY <4>1, <4>3, <4>4
    <3> QED
      BY <1>1, <1>2, <2>1, <2>2, <2>3, <3>1, <3>2, <3>3, <3>4
  <2>4. CASE q # r
    <3>1. /\ disk'[r] = disk[r] /\ prs'[r] = prs[r] /\ pc'[r] = pc[r]
          /\ unsaved'[r] = unsaved[r] /\ mem'[r] = mem[r]
      BY <1>2, <2>4, OthersUntouched DEF CycleOf
    <3>2. Reached(r)' /\ stage'[r] = stage[r]
      BY <1>1, <1>2, <2>4, <3>1 DEF Reached, StageInv, Reach
    <3>3. ASSUME Alone(r)', stage[r] = "new" PROVE LedgerInv(r)'
      <4>1. Fresh(r)
        BY <1>1, <3>3 DEF StageInv, Early
      <4> QED
        BY <3>1, <3>2, <3>3, <4>1 DEF LedgerInv, Fresh, Running, Loadable
    <3>4. ASSUME Alone(r)', stage[r] # "new" PROVE LedgerInv(r)'
      <4>1. job[r].branch # job[q].branch /\ job[r].branch \in Names
        BY <1>1, <2>1, <2>4, <3>4 DEF Alone
      <4>2. pushed'[job[r].branch] = pushed[job[r].branch]
        BY <1>2, <4>1, OwnBranch DEF CycleOf
      <4> QED
        BY <2>1, <3>1, <3>2, <3>4, <4>2, ElsewhereKeeps
    <3> QED
      BY <1>1, <2>1, <2>2, <3>2, <3>3, <3>4
  <2> QED
    BY <2>3, <2>4
<1>3. ASSUME NEW q \in Runs, ByPlan(q)
      PROVE  /\ Reached(r)' /\ (stage'[r] = "new" => job'[r].branch = 0)
             /\ Alone(r)' => LedgerInv(r)'
  <2> USE <1>3 DEF ByPlan
  <2>1. /\ UNCHANGED <<hub, disk, mem, pc, unsaved>>
        /\ stage[q] \in Early /\ stage'[q] # "new"
        /\ \A x \in Runs : x # q => job'[x] = job[x] /\ stage'[x] = stage[x]
    BY <1>1, <1>3 DEF PlanBranch, ReadHead, StepLimit, PRTypeOK, StageInv, Early, Reach
  <2>2. Reached(r)' /\ (stage'[r] = "new" => job'[r].branch = 0)
    BY <1>1, <2>1 DEF Reached
  <2>3. CASE PlanBranch(q) /\ q = r
    <3>1. PICK n \in Names, t \in TestCommands :
            Planned(n) /\ job' = [job EXCEPT ![r] = [NewJob EXCEPT !.branch = n, !.tests = t]]
      BY <2>3 DEF PlanBranch
    <3>2. job'[r].branch = n /\ pushed[n] = Absent /\ stage'[r] = "planned"
      BY <1>1, <2>3, <3>1 DEF PRTypeOK, Planned, Free, NewJob, PlanBranch, StageInv, Reach
    <3>3. pushed'[job'[r].branch] = Absent /\ Fresh(r)
      BY <1>1, <2>1, <2>3, <3>2 DEF hub, StageInv
    <3> QED
      BY <2>1, <2>2, <3>2, <3>3 DEF LedgerInv, Fresh, Running, Loadable, Early
  <2>4. CASE PlanBranch(q) /\ q # r
    <3>1. job[q].branch = 0 /\ job'[r] = job[r] /\ stage'[r] = stage[r]
      BY <1>1, <2>1, <2>4 DEF PlanBranch
    <3>2. Alone(r)' => LedgerInv(r) \/ stage[r] = "new"
      BY <1>1, <2>1, <3>1 DEF Alone
    <3> QED
      BY <1>1, <2>1, <2>2, <3>1, <3>2, QuietLedgers
  <2>5. CASE ReadHead(q) \/ StepLimit(q)
    <3>1. \A x \in Runs : job'[x].branch = job[x].branch
      <4>1. job[q] \in Jobs
        BY <1>1 DEF PRTypeOK
      <4>2. job'[q].branch = job[q].branch
        BY <1>1, <2>5, <4>1 DEF ReadHead, StepLimit, PRTypeOK, Jobs
      <4> QED
        BY <2>1, <4>2
    <3>2. Alone(r)' => LedgerInv(r)
      BY <1>1, <3>1 DEF Alone
    <3>3. stage'[r] \in Early \ {"new"} => stage[r] \in Early \ {"new"}
      BY <1>1, <2>1, <2>5 DEF ReadHead, StepLimit, Early
    <3> QED
      BY <1>1, <2>1, <2>2, <3>1, <3>2, <3>3, QuietLedgers
  <2> QED
    BY <1>3, <2>3, <2>4, <2>5
<1>4. CASE ByOthers
  <2>1. UNCHANGED <<hub, job, disk, mem, pc, unsaved>> /\ (Alone(r)' => LedgerInv(r))
    BY <1>1, <1>4 DEF ByOthers, cycle, Alone
  <2>2. /\ stage'[r] \in Early \ {"new"} => stage[r] \in Early \ {"new"}
        /\ stage'[r] = "new" => stage[r] = "new"
    BY <1>1, <1>4 DEF ByOthers, StageInv, Reach, Early
  <2>3. Reached(r)'
    BY <1>1, <2>1 DEF Reached
  <2> QED
    BY <1>1, <2>1, <2>2, <2>3, QuietLedgers
<1> QED
  BY <1>2, <1>3, <1>4, Movers

LEMMA LedgersHold == Spec => [](IInv /\ Ledgers)
<1>1. Init => Ledgers
  <2> SUFFICES ASSUME Init, NEW r \in Runs
               PROVE  /\ Reached(r)
                      /\ stage[r] = "new" => job[r].branch = 0
                      /\ Alone(r) => LedgerInv(r)
    BY DEF Ledgers
  <2>1. pc[r] = "idle" /\ job[r].branch = 0 /\ stage[r] = "new" /\ IInv
    BY InitInv DEF Init, PRInit, NewJob
  <2> QED
    BY <2>1, NoLedgerYet DEF Reached, Early
<1>2. IInv /\ Ledgers /\ [Next]_vars => (IInv /\ Ledgers)'
  BY StepInv, LedgerStep DEF Ledgers
<1> QED
  BY InitInv, <1>1, <1>2, PTL DEF Spec

\* The runs that have been given a branch were given different ones.
BranchesDiffer ==
  \A q, r \in Runs : stage[q] # "new" /\ stage[r] # "new" /\ job[q].branch = job[r].branch
                       => q = r

\* A resume starts at the right step: as long as no two runs were given the same
\* branch, every ledger on disk and the world are at most one step apart, after
\* any refused command, lost answer, death, torn write or earlier resume.
THEOREM LedgerIsTrue == Spec => [](BranchesDiffer => LedgerTracksTheWorld)
<1>1. IInv /\ Ledgers => (BranchesDiffer => LedgerTracksTheWorld)
  <2> SUFFICES ASSUME IInv, Ledgers, BranchesDiffer, NEW r \in Runs, Loadable(disk[r])
               PROVE  Tracks(r, disk[r])
    BY DEF LedgerTracksTheWorld, Tracks
  <2>1. stage[r] # "new" /\ job[r].branch \in Names
    BY RunningIsLate
  <2>2. 0 \notin Names
    BY DEF Names
  <2>3. Alone(r)
    BY <2>1, <2>2 DEF Alone, BranchesDiffer, Ledgers
  <2> QED
    BY <2>3 DEF Ledgers, LedgerInv
<1> QED
  BY <1>1, LedgersHold, PTL

\* Who takes a step of r's process: what another process does leaves r alone.
LEMMA WhoseStep ==
  ASSUME IInv, [Next]_vars, NEW r \in Runs,
         \/ mem'[r] # mem[r] \/ prs'[r] # prs[r] \/ unsaved'[r] # unsaved[r] \/ pc'[r] # pc[r]
  PROVE  ByCycle(r)
<1>1. CASE \E q \in Runs : ByCycle(q)
  BY <1>1, OthersUntouched DEF ByCycle, CycleOf
<1>2. CASE \E q \in Runs : ByPlan(q)
  BY <1>2 DEF ByPlan, PlanBranch, ReadHead, StepLimit, hub
<1>3. CASE ByOthers
  BY <1>3 DEF ByOthers, hub, cycle
<1> QED
  BY <1>1, <1>2, <1>3, Movers

\* A failed test verdict survives into the pull request: whatever fails, dies or
\* is resumed in between, only green CI makes such a pull request ready.
THEOREM FailingStaysDraft ==
  ASSUME DraftOnTestFailure = TRUE
  PROVE  Spec => FailingTestsStayDraft
<1>1. ASSUME IInv, Next, NEW r \in Runs, prs[r] # "ready", prs'[r] = "ready",
             mem[r].passed = "fail"
      PROVE  mem'[r].ci = "passed"
  <2>1. PRTypeOK /\ mem[r] \in PRState
    BY <1>1 DEF IInv, PRInv, PRTypeOK
  <2>2. CycleOf(r)
    BY <1>1, WhoseStep DEF ByCycle
  <2>3. Create(r) \/ Green(r) \/ Red(r)
    BY <1>1, <2>2 DEF CycleOf, PRStep, Save, SkipDone, NothingToCommit, ShipHead, CommitTree,
                      CommitRefused, RunTests, SkipTests, Push, PushRefused, CreateRefused,
                      NoNumber, WatchTimesOut, OpenPR, Resume, Crash, hub
  <2>4. ~Create(r)
    <3>1. WithDraft(mem[r]).draft = TRUE
      BY <1>1, <2>1 DEF WithDraft, PRState
    <3> QED
      BY <1>1, <2>1, <3>1 DEF Create, PRTypeOK
  <2>5. ~Red(r)
    BY <1>1, <2>1 DEF Red, SetPR, PRTypeOK
  <2>6. CASE Green(r)
    <3> DEFINE d == mem[r].draft /\ ~(ReadyOnGreen /\ mem[r].draft /\ ~mem[r].incomplete)
               s == [mem[r] EXCEPT !.ci = "passed", !.draft = d]
    <3>1. mem' = [mem EXCEPT ![r] = [s EXCEPT !.steps["watch_ci"] = "done"]]
      BY <2>6 DEF Green, Conclude
    <3>2. s.ci = "passed" /\ s \in [passed : Verdicts, draft : BOOLEAN, incomplete : BOOLEAN,
                                    number : BOOLEAN, ci : {"passed"}, steps : [Steps -> StepStatus]]
      BY <2>1 DEF PRState
    <3> HIDE DEF s
    <3>3. [s EXCEPT !.steps["watch_ci"] = "done"].ci = "passed"
      BY <3>2
    <3> QED
      BY <2>1, <3>1, <3>3 DEF PRTypeOK
  <2> QED
    BY <2>3, <2>4, <2>5, <2>6
<1>2. IInv /\ [Next]_vars
        => [\A r \in Runs : prs[r] # "ready" /\ prs'[r] = "ready" /\ mem[r].passed = "fail"
              => mem'[r].ci = "passed"]_vars
  BY <1>1
<1> QED
  BY <1>2, Invariance, PTL DEF Spec, FailingTestsStayDraft

\* What a run inside the lock knows between its commit and its push, when no
\* process resumes a cycle: none of the steps it is heading for is done, its
\* tests start on its own branch with nothing uncommitted, and what they ran on
\* is still that branch when it is pushed.
ShipInv(r) ==
  /\ Running(r) => stage[r] = "pr"
  /\ pc[r] = "commit" => ~IsDone(mem[r], "commit") /\ ~IsDone(mem[r], "test")
  /\ pc[r] = "test" => ~IsDone(mem[r], "test") /\ tree = {} /\ head = job[r].branch
  /\ pc[r] = "push" /\ job[r].tests => tested[r] = tip[job[r].branch]

\* A step that concludes takes the run from commit to test to push the one way
\* that keeps the working copy as the tests saw it.

LEMMA ConcludingShips ==
  ASSUME IInv, NEW r \in Runs, ShipInv(r), PRStep(r), ~Save(r), ~SkipDone(r),
         stage' = stage, "status" \notin Faults
  PROVE  ShipInv(r)'
<1>1. PRTypeOK /\ stage[r] = "pr" /\ job[r].branch \in Branches
  BY StepsRun, RunningIsLate DEF IInv, PRInv, ShipInv, Branches
<1>2. PICK step \in Steps, status \in StepStatus \ {""}, state \in PRState :
        /\ At(r, step) /\ Conclude(r, step, status, state) /\ state.steps = mem[r].steps
        /\ step = "commit" /\ status \in {"done", "skipped"} => ShipHead(r) \/ CommitTree(r)
        /\ step = "test" => RunTests(r) \/ SkipTests(r)
  BY <1>1, Conclusions, Zenon
<1>3. status \in StepStatus /\ pc[r] = step
  BY <1>2 DEF At
<1>4. /\ mem'[r].steps[step] = status
      /\ \A s \in Steps : s # step => mem'[r].steps[s] = mem[r].steps[s]
      /\ status \in {"failed", "empty"} => pc'[r] = "idle"
      /\ status \notin {"failed", "empty"} => pc'[r] = AfterStep(r, step)
      /\ unsaved'[r] = TRUE /\ disk'[r] = disk[r] /\ job' = job
  BY <1>1, <1>2, <1>3, Marks, Zenon
<1>5. CASE status \in {"failed", "empty"}
  BY <1>1, <1>4, <1>5 DEF ShipInv
<1>6. CASE status \in {"done", "skipped"} /\ step = "commit"
  <2>1. pc'[r] = "test"
    BY <1>4, <1>6, Afterwards
  <2>2. ~IsDone(mem[r], "test")
    BY <1>3, <1>6 DEF ShipInv
  <2>3. ~IsDone(mem'[r], "test")
    BY <1>4, <1>6, <2>2 DEF IsDone, Steps
  <2>4. tree' = {} /\ head' = job[r].branch
    <3>1. CASE ShipHead(r)
      BY <3>1 DEF ShipHead, SeenDirty, CheckOut
    <3>2. CASE CommitTree(r)
      BY <3>2 DEF CommitTree, CheckOut
    <3> QED
      BY <1>2, <1>6, <3>1, <3>2
  <2> QED
    BY <1>1, <1>4, <2>1, <2>3, <2>4 DEF ShipInv
<1>7. CASE status \in {"done", "skipped"} /\ step = "test"
  <2>1. pc'[r] = "push" /\ tree = {} /\ head = job[r].branch
    BY <1>3, <1>4, <1>7, Afterwards DEF ShipInv
  <2>2. tip' = tip /\ (job[r].tests => tested'[r] = tip[head] \cup tree)
    BY <1>1, <1>2, <1>7 DEF RunTests, SkipTests, repo, PRTypeOK
  <2> QED
    BY <1>1, <1>4, <2>1, <2>2 DEF ShipInv
<1>8. CASE status \in {"done", "skipped"} /\ step \notin {"commit", "test"}
  <2>1. pc'[r] \notin {"commit", "test", "push"}
    <3>1. step \in {"push", "create", "watch_ci"}
      BY <1>8 DEF Steps
    <3>2. pc'[r] = AfterStep(r, step)
      BY <1>4, <1>8
    <3>3. AfterStep(r, step) \in {"idle", "create", "watch_ci"}
      BY <3>1, Afterwards
    <3> QED
      BY <3>2, <3>3
  <2> QED
    BY <1>1, <2>1 DEF ShipInv
<1> QED
  BY <1>2, <1>5, <1>6, <1>7, <1>8 DEF StepStatus

\* The steps of the run's own process.
LEMMA OwnStepShips ==
  ASSUME IInv, NEW r \in Runs, ShipInv(r), ByCycle(r),
         "status" \notin Faults, "resumed" \notin Faults
  PROVE  ShipInv(r)'
<1>1. PRTypeOK /\ job' = job
  BY JobUntouched DEF IInv, PRInv, ByCycle, CycleOf
<1>2. CASE Cycle(r)
  <2>1. CASE Save(r)
    <3>1. /\ UNCHANGED <<repo, mem, pc, tested, stage>> /\ (Running(r)' => Running(r))
      BY <1>1, <1>2, <2>1 DEF Cycle, Save, Running, PRTypeOK
    <3> QED
      BY <1>1, <3>1 DEF ShipInv, repo
  <2>2. CASE SkipDone(r)
    <3>1. /\ pc[r] \in Steps /\ IsDone(mem[r], pc[r]) /\ pc'[r] = AfterStep(r, pc[r])
          /\ stage' = stage /\ Running(r)
      BY <1>1, <1>2, <2>2 DEF Cycle, SkipDone, PRTypeOK, Running
    <3>2. pc[r] \notin {"commit", "test"}
      BY <3>1 DEF ShipInv
    <3>3. pc'[r] \notin {"commit", "test", "push"}
      BY <3>1, <3>2, Afterwards DEF Steps
    <3> QED
      BY <3>1, <3>3 DEF ShipInv
  <2> QED
    BY <1>2, <2>1, <2>2, ConcludingShips DEF Cycle
<1>3. CASE StartPR(r)
  <2>1. pc'[r] = "commit" /\ stage'[r] = "pr" /\ mem'[r].steps = NewState.steps
    BY <1>1, <1>3 DEF StartPR, OpenPR, PRTypeOK, NewState, IInv, StageInv, Reach
  <2>2. NewState.steps["commit"] = "" /\ NewState.steps["test"] = ""
    BY DEF NewState, Steps
  <2> QED
    BY <2>1, <2>2 DEF ShipInv, IsDone
<1>4. CASE ResumedDies(r) \/ Die(r)
  <2>1. pc'[r] = "idle" /\ ~unsaved'[r]
    BY <1>1, <1>4 DEF ResumedDies, Die, Crash, PRTypeOK, prvars, Running
  <2> QED
    BY <2>1 DEF ShipInv, Running
<1>5. ~ResumePR(r)
  BY DEF ResumePR, Resume
<1> QED
  BY <1>2, <1>3, <1>4, <1>5 DEF ByCycle


\* While a run is in its cycle inside the lock, the others can plan, read HEAD
\* and find the lock taken; what could touch the working copy they cannot do.
LEMMA OthersShip ==
  ASSUME IInv, [Next]_vars, NEW r \in Runs, \A q \in Runs : ShipInv(q), ~ByCycle(r),
         "moved" \notin Faults, "served" \notin Faults, "resumed" \notin Faults
  PROVE  ShipInv(r)'
<1>1. StageInv /\ PRTypeOK
  BY DEF IInv, PRInv
<1>2. /\ mem'[r] = mem[r] /\ unsaved'[r] = unsaved[r] /\ pc'[r] = pc[r]
  BY WhoseStep
<1>3. CASE ~Running(r)
  <2>1. ~Running(r)' /\ pc'[r] = "idle"
    BY <1>2, <1>3 DEF Running
  <2> QED
    BY <2>1 DEF ShipInv
<1>4. CASE Running(r)
  <2>1. stage[r] = "pr" /\ lock = r /\ \A q \in Runs : q # r => stage[q] \notin Guarded
    BY <1>1, <1>4 DEF ShipInv, StageInv, Guarded
  <2>2. ASSUME NEW q \in Runs, q # r
        PROVE  ~Cycle(q) /\ ~StartPR(q) /\ ~ResumePR(q) /\ ~ResumedDies(q) /\ ~Die(q)
    <3>1. ~Running(q)
      BY <2>1, <2>2 DEF ShipInv, Guarded
    <3>2. ~Cycle(q) /\ ~ResumedDies(q)
      BY <3>1, StepsRun DEF Cycle, ResumedDies
    <3>3. ~StartPR(q) /\ ~Die(q) /\ ~ResumePR(q)
      BY <2>1, <2>2 DEF StartPR, Die, ResumePR, Resume, Guarded
    <3> QED
      BY <3>2, <3>3
  <2>3. ~Serve /\ ~UserMoves
    BY DEF Serve, UserMoves, Moved
  <2>4. ASSUME NEW q \in Runs, AgentWrites(q) \/ AgentCommits(q) \/ StepLimit(q)
                               \/ CleanupTurn(q) \/ Teardown(q)
        PROVE  FALSE
    BY <1>4, <2>1, <2>4 DEF AgentWrites, AgentCommits, StepLimit, CleanupTurn, Teardown, Guarded
  <2>5. ASSUME NEW q \in Runs, PlanBranch(q) \/ ReadHead(q) \/ AcquireLock(q)
        PROVE  /\ UNCHANGED <<repo, tested>> /\ job'[r] = job[r] /\ stage'[r] = stage[r]
    <3>1. q # r
      BY <2>1, <2>5 DEF PlanBranch, ReadHead, AcquireLock
    <3>2. UNCHANGED <<repo, tested>>
      BY <2>5 DEF PlanBranch, ReadHead, AcquireLock, prvars, repo
    <3>3. job'[r] = job[r]
      BY <1>1, <2>5, <3>1 DEF PlanBranch, ReadHead, AcquireLock, prvars, PRTypeOK
    <3>4. stage'[r] = stage[r]
      BY <1>1, <2>5, <3>1 DEF PlanBranch, ReadHead, AcquireLock, Reach, StageInv
    <3> QED
      BY <3>2, <3>3, <3>4
  <2>6. UNCHANGED vars => /\ UNCHANGED <<repo, tested>> /\ job'[r] = job[r] /\ stage'[r] = stage[r]
    BY DEF vars, prvars, repo
  <2>7. \/ UNCHANGED vars
        \/ \E q \in Runs : PlanBranch(q) \/ ReadHead(q) \/ AcquireLock(q)
        \/ ByCycle(r)
    <3>1. CASE Next
      <4>1. PICK q \in Runs : PlanBranch(q) \/ ReadHead(q) \/ RunStep(q) \/ AgentWrites(q)
                              \/ AgentCommits(q) \/ Die(q) \/ ResumePR(q) \/ ResumedDies(q)
        BY <2>3, <3>1 DEF Next
      <4>2. CASE Cycle(q) \/ StartPR(q) \/ ResumePR(q) \/ ResumedDies(q) \/ Die(q)
        <5>1. q = r
          BY <2>2, <4>2
        <5>2. CycleOf(r)
          BY <1>4, <4>2, <5>1 DEF CycleOf, Cycle, StartPR, ResumePR, ResumedDies, Die
        <5>3. stage' = stage \/ Reach(r, "pr") \/ Reach(r, "exited")
          BY <4>2, <5>1 DEF Cycle, StartPR, ResumePR, ResumedDies, Die
        <5> QED
          BY <4>2, <5>1, <5>2, <5>3 DEF ByCycle
      <4> QED
        BY <2>4, <4>1, <4>2 DEF RunStep
    <3> QED
      BY <3>1
  <2>8. /\ UNCHANGED <<repo, tested>> /\ job'[r] = job[r] /\ stage'[r] = stage[r]
    BY <2>5, <2>6, <2>7
  <2> QED
    BY <1>2, <2>1, <2>8 DEF ShipInv, repo
<1> QED
  BY <1>3, <1>4

\* What a run pushes is what its tests ran on, as long as the run has the
\* repository to itself: the lock keeps the other runs out, and no user, no
\* `luxe serve` and no resumed cycle, which take no lock, comes in between. A
\* `git status` that fails hides uncommitted files from the commit.
THEOREM TestedShips ==
  ASSUME "moved" \notin Faults, "served" \notin Faults, "resumed" \notin Faults,
         "status" \notin Faults
  PROVE  Spec => TestedIsWhatShips
<1>1. Init => \A r \in Runs : ShipInv(r)
  BY DEF Init, PRInit, ShipInv, Running
<1>2. IInv /\ (\A r \in Runs : ShipInv(r)) /\ [Next]_vars => (\A r \in Runs : ShipInv(r))'
  <2> SUFFICES ASSUME IInv, \A r \in Runs : ShipInv(r), [Next]_vars, NEW r \in Runs
               PROVE  ShipInv(r)'
    OBVIOUS
  <2> QED
    BY OwnStepShips, OthersShip
<1>3. ASSUME IInv, \A r \in Runs : ShipInv(r), Next, NEW r \in Runs, pc[r] = "push",
             pushed' # pushed, mem'[r] # mem[r], job[r].tests
      PROVE  pushed'[job[r].branch] = tested[r]
  <2>1. PRTypeOK /\ CycleOf(r)
    BY <1>3, WhoseStep DEF ByCycle, IInv, PRInv
  <2>2. Push(r)
    BY <1>3, <2>1 DEF CycleOf, PRStep, Save, SkipDone, NothingToCommit, ShipHead, CommitTree,
                      CommitRefused, RunTests, SkipTests, PushRefused, Create, CreateRefused,
                      NoNumber, Green, Red, WatchTimesOut, OpenPR, Resume, Crash, hub
  <2>3. job[r].branch \in Names
    BY <2>2, AtMeansRunning, <1>3 DEF IInv, Push, Steps
  <2>4. pushed'[job[r].branch] = tip[job[r].branch]
    BY <2>1, <2>2, <2>3 DEF Push, PRTypeOK
  <2> QED
    BY <1>3, <2>4 DEF ShipInv
<1>4. IInv /\ (\A r \in Runs : ShipInv(r)) /\ [Next]_vars
        => [\A r \in Runs : pc[r] = "push" /\ pushed' # pushed /\ mem'[r] # mem[r] /\ job[r].tests
              => pushed'[job[r].branch] = tested[r]]_vars
  BY <1>3
<1> QED
  BY <1>1, <1>2, <1>4, Invariance, PTL DEF Spec, TestedIsWhatShips

=============================================================================
