------------------------------ MODULE GitApply ------------------------------
(***************************************************************************)
(* The gated executor of src/luxe/gitkit/apply.py: a saved plan applied    *)
(* step by step on a dedicated branch, each step one write-enabled agent   *)
(* pass that the operator keeps (a commit) or discards (a revert), while   *)
(* the operator's own files lie in the same tree.                          *)
(*                                                                         *)
(* What a step does to tracked files, and the file it creates, are both    *)
(* named by the step: they differ by where they are (edits, untracked). A  *)
(* file that appears during a pass is the pass's, as in the code; what the *)
(* operator, or the verify command, makes at any other time is in Files.   *)
(***************************************************************************)
EXTENDS Naturals, FiniteSets

CONSTANTS NumSteps,   \* length of the plan, in the order of order_steps
          Files,      \* untracked files the operator may create
          Faults      \* what may go wrong: a subset of FaultKinds

FaultKinds == {"git",        \* a checked git command fails
               "raise",      \* run_single raises
               "interrupt",  \* Ctrl-C, or an error that leaves the step loop
               "listing",    \* `git ls-files` fails, which nothing looks at
               "commits"}    \* the agent runs `git add -A; git commit` itself

Steps == 1 .. NumSteps
Marks == Steps \cup Files
None == {0}         \* no branch yet, no step_files yet: not a set of marks

ASSUME ApplyAssumption ==
  /\ NumSteps \in Nat
  /\ Files \cap Nat = {}
  /\ Faults \subseteq FaultKinds

VARIABLES
  pc,
  onBranch,   \* HEAD is on the gitchange branch, not where the run started
  branch,     \* what that branch holds beyond its start, None when it does not exist
  edits,      \* changes of tracked files not committed, by the step that made them
  untracked,  \* untracked files
  intent,     \* those of them that are `git add -N` entries of the index
  baseline,   \* _ApplyRun.baseline
  frozen,     \* _ApplyRun.step_files
  known,      \* _ApplyRun.branch_head
  step,       \* the position of the loop in the plan
  outcome,    \* kept, discarded, skipped and failed of _ApplyRun, by step
  deps,       \* depends_on of the plan latest_plan_for returns
  miscounted  \* history, read by no guard: the marks that a failed listing has
              \* put on the wrong side of the line between step and operator

git == <<onBranch, branch, edits, untracked, intent>>
run == <<baseline, frozen, known, step, outcome>>
vars == <<pc, git, run, deps, miscounted>>

Outcomes == {"todo", "kept", "discarded", "skipped", "failed"}
InLoop == {"next", "pass", "raised", "diff", "review", "keep", "committed"}
Ended == {"refused", "aborted", "left", "interrupted", "stopped", "done"}

Kept == {s \in Steps : outcome[s] = "kept"}
Dirty == edits \cup untracked # {}

\* _untracked: what `git ls-files --others` may list once the index is reset
\* (an add -N entry is tracked to it); a listing that fails is an empty one.
Untracked == {untracked} \cup (IF "listing" \in Faults THEN {{}} ELSE {})

Init ==
  /\ pc = "start"
  /\ onBranch = FALSE
  /\ branch = None
  /\ edits = {} /\ intent = {}
  /\ untracked \in {{}} \cup {{f} : f \in Files}
  /\ baseline = {}
  /\ frozen = None
  /\ known = {}
  /\ step = 1
  /\ outcome = [s \in Steps |-> "todo"]
  /\ deps \in {d \in [Steps -> SUBSET Steps] : \A s \in Steps : d[s] \subseteq 1 .. (s - 1)}
  /\ miscounted = {}

----------------------------------------------------------------------------
(* up to the step loop *)

\* _abort_branch: back to the original checkout, and the branch deleted; when
\* the checkout fails the repository is left on the branch, and it is said.
Abort ==
  /\ \/ pc' = "aborted" /\ onBranch' = FALSE /\ branch' = None
     \/ "git" \in Faults /\ pc' = "left" /\ UNCHANGED <<onBranch, branch>>
  /\ UNCHANGED <<edits, untracked, intent, run, deps, miscounted>>

\* _require_clean at start; a `git status` that fails counts as dirty.
CheckStart ==
  /\ pc = "start"
  /\ \/ ~Dirty /\ pc' = "checked"
     \/ (Dirty \/ "git" \in Faults) /\ pc' = "refused"
  /\ UNCHANGED <<git, run, deps, miscounted>>

\* checkout -b gitchange/<head>-<rand>.
CreateBranch ==
  /\ pc = "checked"
  /\ \/ pc' = "branched" /\ onBranch' = TRUE /\ branch' = {}
     \/ "git" \in Faults /\ pc' = "refused" /\ UNCHANGED <<onBranch, branch>>
  /\ UNCHANGED <<edits, untracked, intent, run, deps, miscounted>>

\* _require_clean after branch creation, and again once there is a plan.
Recheck(from, to) ==
  /\ pc = from
  /\ ~Dirty
  /\ pc' = to
  /\ UNCHANGED <<git, run, deps, miscounted>>

RecheckFails(from) ==
  /\ pc = from
  /\ Dirty \/ "git" \in Faults
  /\ Abort

\* The saved plan, or hours of read-only passes that make one.
FindPlan ==
  /\ pc = "plan"
  /\ pc' = "planned"
  /\ UNCHANGED <<git, run, deps, miscounted>>

\* Ctrl-C during those passes is caught nowhere in run_apply.
PlanInterrupted ==
  /\ "interrupt" \in Faults
  /\ pc = "plan"
  /\ pc' = "interrupted"
  /\ UNCHANGED <<git, run, deps, miscounted>>

\* order_steps found no cycle: the step loop begins.
Order ==
  /\ pc = "ready"
  /\ pc' = "next"
  /\ known' = branch
  /\ \E listed \in Untracked : baseline' = listed /\ miscounted' = untracked \ listed
  /\ UNCHANGED <<git, frozen, step, outcome, deps>>

\* Mutant of BadPlan: it returns without co.abort.
BadPlanReturns ==
  /\ pc = "ready"
  /\ pc' = "aborted"
  /\ UNCHANGED <<git, run, deps, miscounted>>

\* No plan, no steps in it, or a dependency cycle.
BadPlan == pc = "ready" /\ Abort

----------------------------------------------------------------------------
(* the step loop *)

\* Mutant of ThisStep: `git clean` of everything untracked.
AllUntracked == {untracked}

\* this_step: what revert may take for the step's own files.
ThisStep == IF frozen # None THEN {frozen} ELSE {listed \ baseline : listed \in Untracked}

\* Mutant of Revert: without the reset, add -N entries come back as files.
RevertNoReset ==
  /\ edits' = {}
  /\ \E new \in ThisStep : untracked' = untracked \ (new \ intent)
  /\ UNCHANGED <<onBranch, branch, intent, miscounted>>

\* revert_step: reset, checkout -- ., and clean of the step's own files.
Revert ==
  /\ edits' = {}
  /\ \E new \in ThisStep :
       /\ untracked' = untracked \ new
       /\ miscounted' = miscounted \cup
                           (IF frozen = None THEN untracked \ (baseline \cup new) ELSE {})
  /\ intent' = {}
  /\ UNCHANGED <<onBranch, branch>>

\* The current step is decided and the loop goes on.
Decide(verdict) ==
  /\ outcome' = [outcome EXCEPT ![step] = verdict]
  /\ step' = step + 1
  /\ pc' = "next"

\* Mutant of Prerequisites: only a failed one stops the dependents.
NoneFailed == \A d \in deps[step] : outcome[d] # "failed"

\* Every prerequisite was kept.
Prerequisites == deps[step] \subseteq Kept

SkipStep ==
  /\ pc = "next" /\ step \in Steps
  /\ ~Prerequisites
  /\ Decide("skipped")
  /\ UNCHANGED <<git, baseline, frozen, known, deps, miscounted>>

\* begin_step.
BeginStep ==
  /\ pc = "next" /\ step \in Steps
  /\ Prerequisites
  /\ intent' = {}
  /\ \E listed \in Untracked :
       /\ baseline' = listed
       /\ miscounted' = IF listed = untracked THEN miscounted \ (untracked \cap Files)
                        ELSE miscounted \cup untracked \cup {step}
  /\ frozen' = None
  /\ pc' = "pass"
  /\ UNCHANGED <<onBranch, branch, edits, untracked, known, step, outcome, deps>>

\* The agent of the pass edits tracked files and creates a file; its role is
\* the full one, so that bash lets it commit as well.
AgentWrites ==
  /\ pc = "pass"
  /\ \E e, n \in SUBSET {step}, commits \in (IF "commits" \in Faults THEN BOOLEAN ELSE {FALSE}) :
       /\ branch' = IF commits THEN branch \cup edits \cup untracked \cup e \cup n ELSE branch
       /\ edits' = IF commits THEN {} ELSE edits \cup e
       /\ untracked' = IF commits THEN {} ELSE untracked \cup n
  /\ UNCHANGED <<pc, onBranch, intent, run, deps, miscounted>>

\* The pass returns: its files are frozen.
PassReturns ==
  /\ pc = "pass"
  /\ \E listed \in Untracked :
       /\ frozen' = listed \ baseline
       /\ miscounted' = miscounted \cup (untracked \ (baseline \cup listed))
  /\ intent' = {}
  /\ pc' = "diff"
  /\ UNCHANGED <<onBranch, branch, edits, untracked, baseline, known, step, outcome, deps>>

\* The pass raises: it is reverted, and the operator is asked how to go on.
PassRaises ==
  /\ "raise" \in Faults
  /\ pc = "pass"
  /\ Revert
  /\ pc' = "raised"
  /\ outcome' = [outcome EXCEPT ![step] = "failed"]
  /\ UNCHANGED <<baseline, frozen, known, step, deps>>

\* [c]ontinue with next step / [a]bort?
AnswerRaised ==
  /\ pc = "raised"
  /\ \/ pc' = "next" /\ step' = step + 1
     \/ pc' = "done" /\ UNCHANGED step
  /\ UNCHANGED <<git, baseline, frozen, known, outcome, deps, miscounted>>

\* diff_against_base: `add -N .`, then the tree against branch_head.
ShowDiff ==
  /\ pc = "diff"
  /\ Dirty \/ branch # known
  /\ intent' = untracked
  /\ pc' = "review"
  /\ UNCHANGED <<onBranch, branch, edits, untracked, run, deps, miscounted>>

\* GitDiffError: reverted and failed. It may come after the `add -N .`.
DiffFails ==
  /\ "git" \in Faults
  /\ pc = "diff"
  /\ Revert
  /\ Decide("failed")
  /\ UNCHANGED <<baseline, frozen, known, deps>>

\* The diff is empty.
NoChanges ==
  /\ pc = "diff"
  /\ ~(Dirty \/ branch # known)
  /\ Revert
  /\ Decide("skipped")
  /\ UNCHANGED <<baseline, frozen, known, deps>>

Discard ==
  /\ pc = "review"
  /\ Revert
  /\ Decide("discarded")
  /\ UNCHANGED <<baseline, frozen, known, deps>>

Keep ==
  /\ pc = "review"
  /\ pc' = "keep"
  /\ UNCHANGED <<git, run, deps, miscounted>>

\* What `add -u`, `add` of the step's own files and `commit` do to the tree.
Commit ==
  /\ branch' = branch \cup edits \cup (frozen \cap untracked)
  /\ edits' = {}
  /\ untracked' = untracked \ frozen

\* _commit_step: reset, then all of these.
CommitStep ==
  /\ pc = "keep"
  /\ edits \cup (frozen \cap untracked) # {}
  /\ Commit
  /\ intent' = {}
  /\ pc' = "committed"
  /\ UNCHANGED <<onBranch, run, deps, miscounted>>

\* Mutant of CommitFails: the exit code is not looked at.
CommitFailsKept ==
  /\ pc = "keep"
  /\ "git" \in Faults \/ edits \cup (frozen \cap untracked) = {}
  /\ intent' = {}
  /\ Decide("kept")
  /\ UNCHANGED <<onBranch, branch, edits, untracked, baseline, frozen, known, deps, miscounted>>

\* It fails (a hook, a timeout), or there is nothing to commit: the run stops.
\* The step's work is in the tree, unless it timed out after the commit landed.
CommitFails ==
  /\ pc = "keep"
  /\ "git" \in Faults \/ edits \cup (frozen \cap untracked) = {}
  /\ intent' = {}
  /\ outcome' = [outcome EXCEPT ![step] = "failed"]
  /\ pc' = "stopped"
  /\ UNCHANGED <<branch, edits, untracked>> \/ ("git" \in Faults /\ Commit)
  /\ UNCHANGED <<onBranch, baseline, frozen, known, step, deps, miscounted>>

\* branch_head and kept after the commit.
RecordKept ==
  /\ pc = "committed"
  /\ known' = branch
  /\ Decide("kept")
  /\ UNCHANGED <<git, baseline, frozen, deps, miscounted>>

\* The plan is at its end.
Finish ==
  /\ pc = "next" /\ step \notin Steps
  /\ pc' = "done"
  /\ UNCHANGED <<git, run, deps, miscounted>>

\* The handlers around the loop revert the step in flight, or what they take
\* for one: at the question after a raised pass, a wait of any length, and until
\* the next step begins, step_files is unset and everything new is the step's.
Interrupt ==
  /\ "interrupt" \in Faults
  /\ pc \in InLoop
  /\ Revert
  /\ pc' = "interrupted"
  /\ UNCHANGED <<run, deps>>

Landed == IF branch = None THEN {} ELSE branch

\* The operator makes a file, at any time that is not a pass.
OperatorCreates ==
  /\ pc \notin Ended \cup {"pass"}
  /\ \E f \in Files \ (untracked \cup Landed) : untracked' = untracked \cup {f}
  /\ UNCHANGED <<pc, onBranch, branch, edits, intent, run, deps, miscounted>>

Next ==
  \/ CheckStart \/ CreateBranch
  \/ Recheck("branched", "plan") \/ RecheckFails("branched")
  \/ FindPlan \/ PlanInterrupted
  \/ Recheck("planned", "ready") \/ RecheckFails("planned")
  \/ Order \/ BadPlan
  \/ SkipStep \/ BeginStep \/ AgentWrites \/ PassReturns \/ PassRaises \/ AnswerRaised
  \/ ShowDiff \/ DiffFails \/ NoChanges \/ Discard \/ Keep
  \/ CommitStep \/ CommitFails \/ RecordKept \/ Finish
  \/ Interrupt \/ OperatorCreates

Spec == Init /\ [][Next]_vars

----------------------------------------------------------------------------
(* Properties *)

ApplyTypeOK ==
  /\ pc \in InLoop \cup Ended \cup {"start", "checked", "branched", "plan", "planned", "ready"}
  /\ onBranch \in BOOLEAN
  /\ branch \in (SUBSET Marks) \cup {None}
  /\ edits \subseteq Steps
  /\ untracked \subseteq Marks
  /\ intent \subseteq untracked
  /\ baseline \subseteq Marks
  /\ frozen \in (SUBSET Marks) \cup {None}
  /\ known \subseteq Marks
  /\ step \in 1 .. (NumSteps + 1)
  /\ outcome \in [Steps -> Outcomes]
  /\ deps \in [Steps -> SUBSET Steps]
  /\ miscounted \subseteq Marks

\* A file the operator made outside a pass is committed or deleted only when a
\* listing of its step failed, or by a Ctrl-C between a raised pass (or the start)
\* and the next step, which spares what is older than the step (gitkit.sdd:89-96).
OperatorFilesSurvive ==
  [][\A f \in (untracked \cap Files) \ (untracked' \cup miscounted) :
        /\ pc \in {"raised", "next"} /\ pc' = "interrupted"
        /\ frozen = None /\ f \notin baseline]_vars

\* While every listing answers, the branch holds the work of the kept steps and
\* of no other: after a commit and before its record, or when it timed out, one
\* more ("HEAD is exactly the plan so far", apply.py:82-83).
BranchIsKept ==
  /\ Kept \subseteq Landed \cup miscounted
  /\ Landed \subseteq Kept \cup miscounted
                      \cup (IF pc \in {"committed", "interrupted", "stopped"} THEN {step} ELSE {})

\* Between two steps, and when the run ends other than by a commit that failed,
\* the tree holds nothing of any step: what was discarded, skipped, failed or
\* interrupted cannot slip into the next commit, but for what a listing missed.
NothingLeftBehind ==
  pc \in {"next", "raised", "done", "interrupted"} =>
    edits = {} /\ untracked \subseteq Files \cup miscounted /\ intent = {}

\* A run that was aborted before its first step leaves the repository where it
\* found it, without a gitchange branch (apply.py:194-196).
AbortRestores == pc \in {"refused", "aborted"} => ~onBranch /\ branch = None

Dropped == {s \in Steps : outcome[s] \in {"discarded", "skipped", "failed"}}

\* Each step is decided once, and lands only after its prerequisites; a step
\* that a failed listing miscounted lands when it is kept.
LandedSteps == Kept \cup ((Landed \cap Steps) \ miscounted)
Gate == INSTANCE PlanGate WITH landed <- LandedSteps, dropped <- Dropped \ LandedSteps
RefinesPlanGate == Gate!Spec
=============================================================================
