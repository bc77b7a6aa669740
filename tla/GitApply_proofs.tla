--------------------------- MODULE GitApply_proofs ---------------------------
(***************************************************************************)
(* GitApply for plans of any length, any prerequisites and any files of    *)
(* the operator, as long as the agent leaves commits to the executor.      *)
(*                                                                         *)
(* The inductive invariant has three parts.  Place: where HEAD and the     *)
(* branch are, and that nothing has happened before the loop.  Tree: whose *)
(* work lies uncommitted, and that frozen and baseline split it rightly,   *)
(* but for what a failed listing has miscounted.  Ledger: what the five    *)
(* lists say, against what is on the branch.                               *)
(***************************************************************************)
EXTENDS GitApply, TLAPS

Home == {"start", "checked", "refused", "aborted"}
Early == Home \cup {"branched", "plan", "planned", "ready", "left"}
Busy == {"pass", "raised", "diff", "review", "keep", "committed"}

Place ==
  /\ pc \in Home => ~onBranch /\ branch = None
  /\ pc \notin Home => branch # None
  /\ pc \in Early => /\ Landed = {} /\ frozen = None /\ step = 1 /\ miscounted = {}
                     /\ outcome = [s \in Steps |-> "todo"]

Tree ==
  /\ pc \in Early \cup {"next", "raised", "committed", "done", "interrupted"} =>
       edits = {} /\ untracked \subseteq Files \cup miscounted /\ intent = {}
  /\ pc = "pass" => /\ edits \subseteq {step} /\ intent = {}
                    /\ baseline \subseteq Files \cup miscounted
                    /\ untracked \subseteq baseline \cup {step} \cup miscounted
                    /\ untracked \subseteq baseline \cup {step} \/ step \in miscounted
  /\ pc \in {"diff", "review", "keep"} =>
       /\ edits \subseteq {step} /\ frozen \subseteq {step} \cup miscounted
       /\ frozen \subseteq {step} \/ step \in miscounted
       /\ untracked \subseteq Files \cup frozen \cup miscounted
  /\ pc \in {"raised", "pass"} => frozen = None
  /\ pc \in {"diff", "review", "keep", "committed"} => frozen # None
  /\ frozen # None => frozen \cap Files \subseteq miscounted

Ledger ==
  /\ pc \in Busy => step \in Steps /\ deps[step] \subseteq Kept
  /\ pc \in Busy \ {"raised"} => outcome[step] = "todo"
  /\ pc \in {"raised", "stopped"} => outcome[step] = "failed"
  /\ pc = "next" => \A s \in Steps : s >= step => outcome[s] = "todo"
  /\ pc \in Busy => \A s \in Steps : s > step => outcome[s] = "todo"
  /\ pc = "committed" => step \in Landed \cup miscounted
  /\ Landed \cap untracked \cap Files = {}
  /\ BranchIsKept

IInv == ApplyTypeOK /\ Place /\ Tree /\ Ledger

\* None is no set of marks.
LEMMA NoneIsNoMarks == None \notin SUBSET Marks
  BY ApplyAssumption DEF None, Marks, Steps

\* What one decision does to the kept and the dropped steps.
LEMMA DecisionCounts ==
  ASSUME ApplyTypeOK, step \in Steps, NEW v \in Outcomes,
         outcome' = [outcome EXCEPT ![step] = v]
  PROVE  /\ outcome' \in [Steps -> Outcomes]
         /\ \A s \in Steps : s # step => outcome'[s] = outcome[s]
         /\ outcome'[step] = v
         /\ v # "kept" /\ outcome[step] # "kept" => Kept' = Kept
         /\ v = "kept" => Kept' = Kept \cup {step}
         /\ v \in {"discarded", "skipped", "failed"} => Dropped' = Dropped \cup {step}
         /\ v = "kept" /\ outcome[step] = "todo" => Dropped' = Dropped
  BY DEF ApplyTypeOK, Kept, Dropped

LEMMA InitInv == Init => IInv
<1> SUFFICES ASSUME Init PROVE IInv
  OBVIOUS
<1>1. ApplyTypeOK
  <2>1. untracked \subseteq Files /\ intent \subseteq untracked
    BY DEF Init
  <2>2. step \in 1 .. (NumSteps + 1) /\ outcome \in [Steps -> Outcomes]
    BY ApplyAssumption DEF Init, Outcomes
  <2>3. deps \in [Steps -> SUBSET Steps]
    BY DEF Init
  <2> QED
    BY <2>1, <2>2, <2>3 DEF Init, ApplyTypeOK, Marks
<1>2. Landed = {} /\ Kept = {}
  BY DEF Init, Landed, Kept
<1>3. Place /\ Tree /\ Ledger
  BY <1>2 DEF Init, Place, Tree, Ledger, BranchIsKept, Home, Early, Busy
<1> QED
  BY <1>1, <1>3 DEF IInv

\* Abort, from the places it is reached from.
LEMMA AbortKeeps ==
  ASSUME IInv, pc \in {"branched", "planned", "ready"}, Abort
  PROVE  IInv'
<1>1. ApplyTypeOK'
  BY DEF IInv, ApplyTypeOK, Abort, run, Ended, None
<1>2. Landed' = {} /\ Kept' = Kept /\ Landed = {} /\ Kept = {}
  BY DEF IInv, Place, Early, Home, Abort, run, Landed, Kept
<1>3. Place'
  BY <1>2 DEF IInv, Place, Early, Home, Abort, run
<1>4. Tree' /\ Ledger'
  BY <1>2 DEF IInv, Tree, Ledger, BranchIsKept, Early, Home, Busy, Abort, run
<1> QED
  BY <1>1, <1>3, <1>4 DEF IInv

LEMMA PreparationKeeps ==
  ASSUME IInv,
         \/ CheckStart \/ CreateBranch \/ FindPlan \/ PlanInterrupted \/ Order \/ BadPlan
         \/ Recheck("branched", "plan") \/ RecheckFails("branched")
         \/ Recheck("planned", "ready") \/ RecheckFails("planned")
  PROVE  IInv'
<1> USE DEF IInv
<1>1. CASE BadPlan \/ RecheckFails("branched") \/ RecheckFails("planned")
  BY <1>1, AbortKeeps DEF BadPlan, RecheckFails
<1>2. CASE CreateBranch
  <2>1. ApplyTypeOK' /\ Landed' = {} /\ Kept' = Kept /\ Landed = {}
    BY <1>2 DEF CreateBranch, ApplyTypeOK, run, Ended, Landed, Kept, None, Place, Early, Home
  <2>2. Place'
    BY <1>2, <2>1 DEF CreateBranch, Place, Early, Home, run, None
  <2>3. Tree' /\ Ledger'
    BY <1>2, <2>1 DEF CreateBranch, Tree, Ledger, BranchIsKept, Early, Home, Busy, run
  <2> QED
    BY <2>1, <2>2, <2>3
<1>3. CASE Order
  <2>1. PICK listed \in Untracked : baseline' = listed /\ miscounted' = untracked \ listed
    BY <1>3 DEF Order
  <2>2. listed \subseteq untracked /\ miscounted = {}
    BY <1>3, <2>1 DEF Order, Untracked, Place, Early
  <2>3. branch \subseteq Marks
    BY <1>3 DEF Order, Place, Home, ApplyTypeOK
  <2>4. ApplyTypeOK' /\ Landed' = Landed /\ Kept' = Kept
    BY <1>3, <2>1, <2>2, <2>3 DEF Order, ApplyTypeOK, git, InLoop, Landed, Kept
  <2>5. Place' /\ Tree'
    BY <1>3, <2>2, <2>4 DEF Order, Place, Tree, Early, Home, git
  <2>6. Landed = {} /\ Kept = {}
    BY <1>3 DEF Order, Place, Early, Kept
  <2>7. Ledger'
    BY <1>3, <2>4, <2>6 DEF Order, Ledger, BranchIsKept, Place, Busy, Early, git
  <2> QED
    BY <2>4, <2>5, <2>7
<1>4. CASE CheckStart \/ FindPlan \/ PlanInterrupted
           \/ Recheck("branched", "plan") \/ Recheck("planned", "ready")
  <2>1. UNCHANGED <<git, run, deps, miscounted>>
    BY <1>4 DEF CheckStart, FindPlan, PlanInterrupted, Recheck
  <2>2. \/ pc = "start" /\ pc' \in {"checked", "refused"}
        \/ pc \in {"branched", "plan", "planned"} /\ pc' \in {"plan", "planned", "ready", "interrupted"}
    BY <1>4 DEF CheckStart, FindPlan, PlanInterrupted, Recheck
  <2>3. ApplyTypeOK' /\ Landed' = Landed /\ Kept' = Kept
    BY <2>1, <2>2 DEF ApplyTypeOK, git, run, Ended, Landed, Kept
  <2>4. Place' /\ Tree'
    BY <2>1, <2>2, <2>3 DEF Place, Tree, Early, Home, git, run
  <2>5. Ledger'
    BY <2>1, <2>2, <2>3 DEF Ledger, BranchIsKept, Busy, git, run
  <2> QED
    BY <2>3, <2>4, <2>5
<1> QED
  BY <1>1, <1>2, <1>3, <1>4

\* What a revert takes for the step's own: frozen, or what is new since the
\* baseline, of which a failed listing shows nothing.
LEMMA RevertTakes ==
  ASSUME Revert
  PROVE  /\ edits' = {} /\ intent' = {} /\ Landed' = Landed
         /\ UNCHANGED <<onBranch, branch>>
         /\ frozen # None => untracked' = untracked \ frozen /\ miscounted' = miscounted
         /\ frozen = None => /\ untracked \ baseline \subseteq (untracked \ untracked') \cup miscounted'
                             /\ untracked \ untracked' \subseteq untracked \ baseline
                             /\ miscounted \subseteq miscounted'
                             /\ miscounted' \subseteq miscounted \cup untracked
         /\ untracked' \subseteq untracked
<1>1. Landed' = Landed
  BY DEF Revert, Landed
<1>2. PICK new \in ThisStep :
         /\ untracked' = untracked \ new
         /\ miscounted' = miscounted \cup
                             (IF frozen = None THEN untracked \ (baseline \cup new) ELSE {})
  BY DEF Revert
<1>3. CASE frozen # None
  BY <1>1, <1>2, <1>3 DEF Revert, ThisStep
<1>4. CASE frozen = None
  <2>1. PICK listed \in Untracked : new = listed \ baseline
    BY <1>2, <1>4 DEF ThisStep
  <2>2. listed \subseteq untracked
    BY <2>1 DEF Untracked
  <2> QED
    BY <1>1, <1>2, <1>4, <2>1, <2>2 DEF Revert
<1> QED
  BY <1>3, <1>4

\* A revert takes the step's work out of the tree and, while it can tell them
\* apart, no file of the operator.
LEMMA RevertCleans ==
  ASSUME IInv, pc \in InLoop, Revert
  PROVE  /\ edits' = {} /\ intent' = {} /\ Landed' = Landed
         /\ UNCHANGED <<onBranch, branch>>
         /\ untracked' \subseteq Files \cup miscounted'
         /\ untracked' \subseteq untracked
         /\ miscounted \subseteq miscounted' /\ miscounted' \subseteq Marks
         /\ frozen # None => miscounted' = miscounted
         /\ pc = "pass" \/ frozen # None => untracked \cap Files \subseteq untracked' \cup miscounted
         /\ \A f \in untracked \cap Files :
              f \in untracked' \cup miscounted \/ (frozen = None /\ f \notin baseline)
<1>1. Files \cap Steps = {}
  BY ApplyAssumption DEF Steps
<1>2. untracked \subseteq Marks /\ miscounted \subseteq Marks
  BY DEF IInv, ApplyTypeOK
<1>3. CASE pc = "pass"
  <2>1. frozen = None /\ step \in Steps
    BY <1>3 DEF IInv, Tree, Ledger, Busy
  <2>2. /\ baseline \subseteq Files \cup miscounted
        /\ untracked \subseteq baseline \cup {step} \cup miscounted
    BY <1>3 DEF IInv, Tree
  <2> QED
    BY <1>1, <1>2, <2>1, <2>2, RevertTakes
<1>4. CASE pc \in {"diff", "review", "keep"}
  <2>1. frozen # None
    BY <1>4 DEF IInv, Tree
  <2>2. /\ frozen \cap Files \subseteq miscounted
        /\ untracked \subseteq Files \cup frozen \cup miscounted
    BY <1>4, <2>1 DEF IInv, Tree
  <2> QED
    BY <1>1, <1>2, <1>4, <2>1, <2>2, RevertTakes
<1>5. CASE pc \in {"next", "raised", "committed"}
  <2>1. untracked \subseteq Files \cup miscounted
    BY <1>5 DEF IInv, Tree
  <2>2. frozen # None => frozen \cap Files \subseteq miscounted
    BY DEF IInv, Tree
  <2> QED
    BY <1>2, <1>5, <2>1, <2>2, RevertTakes
<1> QED
  BY <1>3, <1>4, <1>5 DEF InLoop

\* Deciding the current step against it, with nothing of it in the tree.
LEMMA DropKeeps ==
  ASSUME IInv, pc \in {"next", "diff", "review"}, step \in Steps,
         NEW v \in {"discarded", "skipped", "failed"}, Decide(v),
         edits' = {}, intent' = {}, untracked' \subseteq Files \cup miscounted,
         untracked' \subseteq untracked, miscounted' = miscounted, branch' = branch,
         UNCHANGED <<onBranch, baseline, frozen, known, deps>>
  PROVE  IInv'
<1> USE DEF IInv
<1>1. outcome[step] = "todo"
  BY DEF Ledger, Busy, Steps
<1>2. /\ outcome' \in [Steps -> Outcomes]
      /\ \A s \in Steps : s # step => outcome'[s] = outcome[s]
      /\ Kept' = Kept
  BY <1>1, DecisionCounts DEF Decide, Outcomes
<1>3. ApplyTypeOK'
  BY <1>2, ApplyAssumption DEF Decide, ApplyTypeOK, InLoop, Marks, Steps
<1>4. Landed' = Landed
  BY DEF Landed
<1>5. Place' /\ Tree'
  BY DEF Decide, Place, Tree, Home, Early
<1>6. \A s \in Steps : s >= step + 1 => s # step /\ (pc = "next" => s >= step) /\ s > step
  BY DEF Steps, ApplyTypeOK
<1>7. Ledger'
  BY <1>2, <1>4, <1>6 DEF Decide, Ledger, BranchIsKept, Busy
<1> QED
  BY <1>3, <1>5, <1>7

\* The operator's decisions, and what decides for the operator.
LEMMA DecisionsKeep ==
  ASSUME IInv, SkipStep \/ DiffFails \/ NoChanges \/ Discard
  PROVE  IInv'
<1>1. CASE SkipStep
  <2>1. edits = {} /\ intent = {} /\ untracked \subseteq Files \cup miscounted
    BY <1>1 DEF SkipStep, IInv, Tree
  <2> QED
    BY <1>1, <2>1, DropKeeps DEF SkipStep, git
<1>2. CASE DiffFails \/ NoChanges \/ Discard
  <2>1. pc \in {"diff", "review"} /\ Revert /\ step \in Steps /\ frozen # None
    BY <1>2 DEF DiffFails, NoChanges, Discard, IInv, Tree, Ledger, Busy
  <2>2. /\ edits' = {} /\ intent' = {} /\ miscounted' = miscounted
        /\ untracked' \subseteq Files \cup miscounted /\ untracked' \subseteq untracked
    BY <2>1, RevertCleans DEF InLoop
  <2>3. UNCHANGED <<onBranch, branch, baseline, frozen, known, deps>>
    BY <1>2 DEF DiffFails, NoChanges, Discard, Revert
  <2> QED
    BY <1>2, <2>1, <2>2, <2>3, DropKeeps DEF DiffFails, NoChanges, Discard
<1> QED
  BY <1>1, <1>2

\* A step begins: what lies in the tree is in its baseline, or miscounted.
LEMMA BeginKeeps ==
  ASSUME IInv, BeginStep
  PROVE  IInv'
<1> USE DEF IInv
<1>1. step \in Steps /\ untracked \subseteq Files \cup miscounted /\ edits = {}
  BY DEF BeginStep, Tree
<1>2. Landed' = Landed /\ Kept' = Kept
  BY DEF BeginStep, Landed, Kept
<1>3. PICK listed \in Untracked :
        /\ baseline' = listed
        /\ miscounted' = IF listed = untracked THEN miscounted \ (untracked \cap Files)
                         ELSE miscounted \cup untracked \cup {step}
  BY DEF BeginStep
<1>4. /\ baseline' \subseteq untracked /\ miscounted' \subseteq Marks
      /\ baseline' \subseteq Files \cup miscounted'
      /\ untracked \subseteq baseline' \cup {step} \cup miscounted'
      /\ untracked \subseteq baseline' \cup {step} \/ step \in miscounted'
      /\ miscounted \ (untracked \cap Files) \subseteq miscounted'
  BY <1>1, <1>3 DEF Untracked, ApplyTypeOK, Marks
<1>5. ApplyTypeOK'
  BY <1>4 DEF BeginStep, ApplyTypeOK, InLoop
<1>6. Place' /\ Tree'
  BY <1>1, <1>4 DEF BeginStep, Place, Tree, Home, Early
<1>7. Kept \subseteq Landed \cup miscounted' /\ Landed \subseteq Kept \cup miscounted'
  <2>1. Landed \cap untracked \cap Files = {} /\ Kept \cap Files = {}
    BY ApplyAssumption DEF Ledger, Kept, Steps
  <2>2. Kept \subseteq Landed \cup miscounted /\ Landed \subseteq Kept \cup miscounted
    BY DEF BeginStep, Ledger, BranchIsKept
  <2> QED
    BY <1>4, <2>1, <2>2
<1>8. Ledger'
  BY <1>2, <1>7 DEF BeginStep, Ledger, BranchIsKept, Busy, Prerequisites, Steps
<1> QED
  BY <1>5, <1>6, <1>8

\* Inside a pass, by an agent that does not commit.
LEMMA PassKeeps ==
  ASSUME IInv, "commits" \notin Faults, AgentWrites \/ PassReturns \/ PassRaises
  PROVE  IInv'
<1> USE DEF IInv
<1>1. pc = "pass" /\ step \in Steps /\ outcome[step] = "todo"
  BY DEF AgentWrites, PassReturns, PassRaises, Ledger, Busy
<1>2. CASE AgentWrites
  <2>1. PICK e, n \in SUBSET {step} : edits' = edits \cup e /\ untracked' = untracked \cup n
                                      /\ branch' = branch
    BY <1>2 DEF AgentWrites
  <2>2. ApplyTypeOK' /\ Landed' = Landed /\ Kept' = Kept
    BY <1>1, <1>2, <2>1 DEF AgentWrites, ApplyTypeOK, run, Landed, Kept, Marks
  <2>3. Place' /\ Tree'
    BY <1>1, <1>2, <2>1 DEF AgentWrites, run, Place, Tree, Home, Early
  <2>4. untracked' \cap Files = untracked \cap Files
    <3>1. Files \cap Steps = {}
      BY ApplyAssumption DEF Steps
    <3> QED
      BY <1>1, <2>1, <3>1
  <2>5. Ledger'
    BY <1>1, <1>2, <2>1, <2>2, <2>4 DEF AgentWrites, run, Ledger, BranchIsKept, Busy
  <2> QED
    BY <2>2, <2>3, <2>5
<1>3. CASE PassReturns
  <2>1. PICK listed \in Untracked :
          /\ frozen' = listed \ baseline
          /\ miscounted' = miscounted \cup (untracked \ (baseline \cup listed))
    BY <1>3 DEF PassReturns
  <2>2. listed \subseteq untracked /\ untracked \subseteq Marks
    BY <2>1 DEF Untracked, ApplyTypeOK
  <2>3. /\ baseline \subseteq Files \cup miscounted
        /\ untracked \subseteq baseline \cup {step} \cup miscounted
        /\ untracked \subseteq baseline \cup {step} \/ step \in miscounted
    BY <1>1 DEF Tree
  <2>4. Files \cap Steps = {}
    BY ApplyAssumption DEF Steps
  <2>5. /\ frozen' \subseteq {step} \cup miscounted /\ frozen' \subseteq Marks
        /\ frozen' \subseteq {step} \/ step \in miscounted
        /\ untracked \subseteq Files \cup frozen' \cup miscounted'
        /\ frozen' \cap Files \subseteq miscounted /\ miscounted \subseteq miscounted'
        /\ miscounted' \subseteq Marks
    BY <1>1, <2>1, <2>2, <2>3, <2>4 DEF ApplyTypeOK
  <2>6. ApplyTypeOK' /\ Landed' = Landed /\ Kept' = Kept
    BY <1>3, <2>5 DEF PassReturns, ApplyTypeOK, InLoop, Landed, Kept
  <2>7. Place' /\ Tree'
    <3>1. frozen' # None
      BY <2>5, NoneIsNoMarks
    <3> QED
      BY <1>1, <1>3, <2>5, <3>1 DEF PassReturns, Place, Tree, Home, Early
  <2>8. Ledger'
    BY <1>1, <1>3, <2>5, <2>6 DEF PassReturns, Ledger, BranchIsKept, Busy
  <2> QED
    BY <2>6, <2>7, <2>8
<1>4. CASE PassRaises
  <2>1. /\ edits' = {} /\ intent' = {} /\ untracked' \subseteq Files \cup miscounted'
        /\ Landed' = Landed /\ UNCHANGED <<onBranch, branch>> /\ untracked' \subseteq untracked
        /\ miscounted \subseteq miscounted' /\ miscounted' \subseteq Marks
    BY <1>1, <1>4, RevertCleans DEF PassRaises, InLoop
  <2>2. /\ outcome' \in [Steps -> Outcomes]
        /\ \A s \in Steps : s # step => outcome'[s] = outcome[s]
        /\ outcome'[step] = "failed" /\ Kept' = Kept
    BY <1>1, <1>4, DecisionCounts DEF PassRaises, Outcomes
  <2>3. ApplyTypeOK'
    BY <1>4, <2>1, <2>2 DEF PassRaises, ApplyTypeOK, InLoop, Marks
  <2>4. Place' /\ Tree'
    BY <1>1, <1>4, <2>1 DEF PassRaises, Place, Tree, Home, Early
  <2>5. \A s \in Steps : s > step => s # step
    BY DEF Steps, ApplyTypeOK
  <2>6. Ledger'
    BY <1>1, <1>4, <2>1, <2>2, <2>5 DEF PassRaises, Ledger, BranchIsKept, Busy
  <2> QED
    BY <2>3, <2>4, <2>6
<1> QED
  BY <1>2, <1>3, <1>4

LEMMA AnswerKeeps ==
  ASSUME IInv, AnswerRaised
  PROVE  IInv'
<1> USE DEF IInv, AnswerRaised
<1>1. step \in Steps
  BY DEF Ledger, Busy
<1>2. ApplyTypeOK' /\ Landed' = Landed /\ Kept' = Kept
  BY <1>1, ApplyAssumption DEF ApplyTypeOK, InLoop, Ended, git, Steps, Landed, Kept
<1>3. Place' /\ Tree'
  BY DEF Place, Tree, Home, Early, git
<1>4. \A s \in Steps : s >= step + 1 => s > step
  BY DEF Steps, ApplyTypeOK
<1>5. Ledger'
  BY <1>2, <1>4 DEF Ledger, BranchIsKept, Busy, git
<1> QED
  BY <1>2, <1>3, <1>5

\* The diff, the choice to keep, and the end of the plan.
LEMMA QuietKeeps ==
  ASSUME IInv, ShowDiff \/ Keep \/ Finish
  PROVE  IInv'
<1> USE DEF IInv
<1>1. /\ UNCHANGED <<onBranch, branch, edits, untracked, run, deps, miscounted>>
      /\ intent' \in {intent, untracked}
      /\ \/ pc = "diff" /\ pc' = "review"
         \/ pc = "review" /\ pc' = "keep"
         \/ pc = "next" /\ pc' = "done" /\ intent' = intent
  BY DEF ShowDiff, Keep, Finish, git
<1>2. ApplyTypeOK' /\ Landed' = Landed /\ Kept' = Kept
  BY <1>1 DEF ApplyTypeOK, run, InLoop, Ended, Landed, Kept
<1>3. Place' /\ Tree'
  BY <1>1 DEF Place, Tree, Home, Early, run
<1>4. Ledger'
  BY <1>1, <1>2 DEF Ledger, BranchIsKept, Busy, run
<1> QED
  BY <1>2, <1>3, <1>4

\* A commit puts the current step on the branch and, of the operator's files
\* and of other steps, only what is miscounted.
LEMMA CommitLands ==
  ASSUME IInv, pc = "keep", Commit, UNCHANGED miscounted
  PROVE  /\ Landed \subseteq Landed' /\ Landed' \subseteq Landed \cup {step} \cup miscounted
         /\ Landed' = Landed \cup (edits \cup (frozen \cap untracked))
         /\ edits \cup (frozen \cap untracked) # {} => step \in Landed' \cup miscounted
         /\ step \in Steps /\ untracked' \subseteq untracked
         /\ untracked' \subseteq Files \cup miscounted
         /\ untracked \cap Files \subseteq untracked' \cup miscounted
         /\ Landed' \cap untracked' \cap Files = {}
         /\ branch' \subseteq Marks /\ branch' # None
<1>1. /\ frozen \subseteq {step} \cup miscounted /\ edits \subseteq {step}
      /\ frozen \subseteq {step} \/ step \in miscounted
      /\ untracked \subseteq Files \cup frozen \cup miscounted /\ frozen # None
  BY DEF IInv, Tree
<1>2. frozen \cap Files \subseteq miscounted /\ Landed \cap untracked \cap Files = {}
  BY <1>1 DEF IInv, Tree, Ledger
<1>3. step \in Steps /\ branch # None /\ branch \subseteq Marks
  BY DEF IInv, ApplyTypeOK, Ledger, Place, Home, Busy
<1>4. Files \cap Steps = {} /\ untracked \subseteq Marks
  BY ApplyAssumption DEF Steps, IInv, ApplyTypeOK
<1>5. branch' \subseteq Marks /\ edits' = {}
  BY <1>1, <1>3, <1>4 DEF Commit, Marks
<1>6. branch' # None
  BY <1>5, NoneIsNoMarks
<1>7. Landed = branch /\ Landed' = branch'
  BY <1>3, <1>6 DEF Landed
<1>8. branch' = branch \cup edits \cup (frozen \cap untracked) /\ untracked' = untracked \ frozen
  BY DEF Commit
<1> QED
  BY <1>1, <1>2, <1>3, <1>4, <1>5, <1>6, <1>7, <1>8

LEMMA CommitKeeps ==
  ASSUME IInv, CommitStep \/ CommitFails \/ RecordKept
  PROVE  IInv'
<1> USE DEF IInv
<1>1. step \in Steps /\ outcome[step] = "todo"
  BY DEF CommitStep, CommitFails, RecordKept, Ledger, Busy
<1>2. \A s \in Steps : (s > step => s # step) /\ (s >= step + 1 => s > step)
  BY DEF Steps, ApplyTypeOK
<1>3. CASE CommitStep
  <2>1. /\ Landed \subseteq Landed' /\ Landed' \subseteq Landed \cup {step} \cup miscounted
        /\ step \in Landed' \cup miscounted
        /\ untracked' \subseteq untracked /\ untracked' \subseteq Files \cup miscounted
        /\ Landed' \cap untracked' \cap Files = {}
        /\ branch' \subseteq Marks /\ branch' # None
    BY <1>3, CommitLands DEF CommitStep
  <2>2. ApplyTypeOK' /\ Kept' = Kept
    BY <1>1, <1>3, <2>1 DEF CommitStep, Commit, ApplyTypeOK, InLoop, run, Kept
  <2>3. Place' /\ Tree'
    BY <1>3, <2>1 DEF CommitStep, Commit, Place, Tree, Home, Early, run
  <2>4. Ledger'
    BY <1>3, <2>1, <2>2 DEF CommitStep, Ledger, BranchIsKept, Busy, run
  <2> QED
    BY <2>2, <2>3, <2>4
<1>4. CASE CommitFails
  <2>1. /\ outcome' \in [Steps -> Outcomes]
        /\ outcome'[step] = "failed" /\ Kept' = Kept
    BY <1>1, <1>4, DecisionCounts DEF CommitFails, Outcomes
  <2>2. pc = "keep" /\ miscounted' = miscounted /\ intent' = {}
    BY <1>4 DEF CommitFails
  <2>3. /\ Landed \subseteq Landed' /\ Landed' \subseteq Landed \cup {step} \cup miscounted
        /\ untracked' \subseteq untracked /\ edits' \subseteq edits
        /\ Landed' \cap untracked' \cap Files = {}
        /\ branch' \in (SUBSET Marks) \cup {None} /\ branch' # None
    <3>1. CASE Commit
      BY <2>2, <3>1, CommitLands DEF Commit
    <3>2. CASE UNCHANGED <<branch, edits, untracked>>
      <4>1. branch # None /\ Landed' = Landed
        BY <2>2, <3>2 DEF Place, Home, Landed
      <4> QED
        BY <3>2, <4>1 DEF ApplyTypeOK, Ledger
    <3> QED
      BY <1>4, <3>1, <3>2 DEF CommitFails
  <2>4. ApplyTypeOK'
    BY <1>4, <2>1, <2>2, <2>3 DEF CommitFails, ApplyTypeOK, Ended
  <2>5. Place' /\ Tree'
    BY <1>4, <2>2, <2>3 DEF CommitFails, Place, Tree, Home, Early
  <2>6. Ledger'
    BY <1>4, <2>1, <2>2, <2>3 DEF CommitFails, Ledger, BranchIsKept, Busy
  <2> QED
    BY <2>4, <2>5, <2>6
<1>5. CASE RecordKept
  <2>1. /\ outcome' \in [Steps -> Outcomes]
        /\ \A s \in Steps : s # step => outcome'[s] = outcome[s]
        /\ Kept' = Kept \cup {step}
    BY <1>1, <1>5, DecisionCounts DEF RecordKept, Decide, Outcomes
  <2>2. branch \subseteq Marks
    BY <1>5 DEF RecordKept, Place, ApplyTypeOK, Home
  <2>3. ApplyTypeOK' /\ Landed' = Landed
    BY <1>1, <1>5, <2>1, <2>2, ApplyAssumption
       DEF RecordKept, Decide, ApplyTypeOK, InLoop, git, Landed, Steps
  <2>4. Place' /\ Tree'
    BY <1>5 DEF RecordKept, Decide, Place, Tree, Home, Early, git
  <2>5. Ledger'
    BY <1>2, <1>5, <2>1, <2>3 DEF RecordKept, Decide, Ledger, BranchIsKept, Busy, git
  <2> QED
    BY <2>3, <2>4, <2>5
<1> QED
  BY <1>3, <1>4, <1>5

LEMMA InterruptKeeps ==
  ASSUME IInv, Interrupt
  PROVE  IInv'
<1> USE DEF IInv
<1>1. /\ edits' = {} /\ intent' = {} /\ untracked' \subseteq Files \cup miscounted'
      /\ Landed' = Landed /\ untracked' \subseteq untracked
      /\ miscounted \subseteq miscounted' /\ miscounted' \subseteq Marks
      /\ frozen # None => miscounted' = miscounted
      /\ pc \in InLoop /\ UNCHANGED <<onBranch, branch, run, deps>>
  BY RevertCleans DEF Interrupt
<1>2. ApplyTypeOK' /\ Kept' = Kept
  BY <1>1 DEF Interrupt, ApplyTypeOK, Ended, run, Kept, Marks
<1>3. Place' /\ Tree'
  BY <1>1 DEF Interrupt, Place, Tree, Home, Early, InLoop, run
<1>4. Ledger'
  BY <1>1, <1>2 DEF Interrupt, Ledger, BranchIsKept, Busy, InLoop, run
<1> QED
  BY <1>2, <1>3, <1>4

LEMMA OperatorKeeps ==
  ASSUME IInv, OperatorCreates
  PROVE  IInv'
<1> USE DEF IInv, OperatorCreates
<1>1. PICK f \in Files \ (untracked \cup Landed) : untracked' = untracked \cup {f}
  OBVIOUS
<1>2. ApplyTypeOK' /\ Landed' = Landed /\ Kept' = Kept
  <2>1. untracked' \subseteq Marks /\ intent' \subseteq untracked'
    BY <1>1 DEF ApplyTypeOK, Marks
  <2> QED
    BY <2>1 DEF ApplyTypeOK, run, Landed, Kept
<1>3. Place' /\ Tree'
  BY <1>1, <1>2 DEF Place, Tree, Home, Early, run
<1>4. Ledger'
  BY <1>1, <1>2 DEF Ledger, BranchIsKept, Busy, run
<1> QED
  BY <1>2, <1>3, <1>4

LEMMA StepInv ==
  ASSUME "commits" \notin Faults
  PROVE  IInv /\ [Next]_vars => IInv'
<1> SUFFICES ASSUME IInv, [Next]_vars PROVE IInv'
  OBVIOUS
<1>1. CASE UNCHANGED vars
  BY <1>1 DEF vars, git, run, IInv, ApplyTypeOK, Place, Tree, Ledger, BranchIsKept, Kept, Landed
<1>2. CASE Next
  BY <1>2, PreparationKeeps, DecisionsKeep, BeginKeeps, PassKeeps, AnswerKeeps, QuietKeeps,
     CommitKeeps, InterruptKeeps, OperatorKeeps DEF Next
<1> QED
  BY <1>1, <1>2

LEMMA Invariance ==
  ASSUME "commits" \notin Faults
  PROVE  Spec => []IInv
  BY InitInv, StepInv, PTL DEF Spec

\* Every reachable state is well typed.
THEOREM TypeCorrect ==
  ASSUME "commits" \notin Faults
  PROVE  Spec => []ApplyTypeOK
<1>1. IInv => ApplyTypeOK
  BY DEF IInv
<1> QED
  BY <1>1, Invariance, PTL

\* While listings answer, the branch holds the work of the kept steps and of no
\* other, wherever the run is interrupted (apply.py:82-83, 345-359).
THEOREM BranchHoldsKept ==
  ASSUME "commits" \notin Faults
  PROVE  Spec => []BranchIsKept
<1>1. IInv => BranchIsKept
  BY DEF IInv, Ledger
<1> QED
  BY <1>1, Invariance, PTL

\* Between two steps and after the run, no step's uncommitted work is in the
\* tree, but for what a listing missed (_revert_to_head).
THEOREM TreeIsClean ==
  ASSUME "commits" \notin Faults
  PROVE  Spec => []NothingLeftBehind
<1>1. IInv => NothingLeftBehind
  BY DEF IInv, Tree, NothingLeftBehind
<1> QED
  BY <1>1, Invariance, PTL

\* An abort before the first step leaves no gitchange branch (_abort_branch).
THEOREM AbortsRestore ==
  ASSUME "commits" \notin Faults
  PROVE  Spec => []AbortRestores
<1>1. IInv => AbortRestores
  BY DEF IInv, Place, Home, AbortRestores
<1> QED
  BY <1>1, Invariance, PTL

\* A file of the operator is committed or deleted only when a listing failed, or
\* by a Ctrl-C between two steps with nothing frozen, and then only if it is
\* younger than the step that raised (_step_new_files, this_step, begin_step).
THEOREM FilesSurvive ==
  ASSUME "commits" \notin Faults
  PROVE  Spec => OperatorFilesSurvive
<1> DEFINE Survive ==
      \A f \in (untracked \cap Files) \ (untracked' \cup miscounted) :
        /\ pc \in {"raised", "next"} /\ pc' = "interrupted"
        /\ frozen = None /\ f \notin baseline
<1>1. IInv /\ [Next]_vars => [Survive]_vars
  <2> SUFFICES ASSUME IInv, Next PROVE Survive
    BY DEF vars, git
  <2>1. CASE CommitStep \/ CommitFails
    <3>1. pc = "keep" /\ miscounted' = miscounted
          /\ (Commit \/ UNCHANGED <<branch, edits, untracked>>)
      BY <2>1 DEF CommitStep, CommitFails
    <3> QED
      BY <3>1, CommitLands
  <2>2. CASE PassRaises \/ DiffFails \/ NoChanges \/ Discard
    <3>1. Revert /\ pc \in InLoop /\ (pc = "pass" \/ frozen # None)
      BY <2>2 DEF PassRaises, DiffFails, NoChanges, Discard, InLoop, IInv, Tree
    <3> QED
      BY <3>1, RevertCleans
  <2>3. CASE Interrupt
    <3>1. Revert /\ pc \in InLoop /\ pc' = "interrupted"
      BY <2>3 DEF Interrupt
    <3>2. pc \in {"raised", "next"} \/ pc = "pass" \/ frozen # None
      BY <3>1 DEF InLoop, IInv, Tree
    <3> QED
      BY <3>1, <3>2, RevertCleans
  <2>4. CASE AgentWrites
    BY <2>4 DEF AgentWrites
  <2>5. CASE OperatorCreates
    BY <2>5 DEF OperatorCreates
  <2>6. \/ untracked' = untracked \/ CommitStep \/ CommitFails \/ PassRaises \/ DiffFails
        \/ NoChanges \/ Discard \/ Interrupt \/ AgentWrites \/ OperatorCreates
    BY DEF Next, CheckStart, CreateBranch, Recheck, RecheckFails, FindPlan, PlanInterrupted,
           Order, BadPlan, Abort, SkipStep, BeginStep, PassReturns, AnswerRaised, ShowDiff,
           Keep, RecordKept, Finish, git
  <2> QED
    BY <2>1, <2>2, <2>3, <2>4, <2>5, <2>6
<1> QED
  BY <1>1, Invariance, PTL DEF Spec, OperatorFilesSurvive

----------------------------------------------------------------------------
(* GitApply implements PlanGate *)

\* LandedSteps holds the kept steps and, after a commit that is not recorded,
\* the current one.
LandedInv ==
  /\ Kept \subseteq LandedSteps /\ LandedSteps \subseteq Kept \cup {step}
  /\ pc \notin {"committed", "interrupted", "stopped"} => LandedSteps = Kept

LEMMA LandedAreKept == IInv => LandedInv
<1> SUFFICES ASSUME IInv PROVE LandedInv
  OBVIOUS
<1>1. Kept \subseteq Steps
  BY DEF Kept
<1>2. Landed \subseteq Kept \cup miscounted
                \cup (IF pc \in {"committed", "interrupted", "stopped"} THEN {step} ELSE {})
  BY DEF IInv, Ledger, BranchIsKept
<1> QED
  BY <1>1, <1>2 DEF LandedSteps, LandedInv

LEMMA LandedAreKeptNext == IInv' => LandedInv'
  BY LandedAreKept, PTL

LEMMA GateInit == Init => Gate!Init
<1> SUFFICES ASSUME Init PROVE Gate!Init
  OBVIOUS
<1>1. deps \in [Steps -> SUBSET Steps]
  BY DEF Init
<1>2. LandedSteps = {}
  BY DEF Init, Landed, LandedSteps, Kept
<1>3. Dropped = {}
  BY DEF Init, Dropped
<1> QED
  BY <1>1, <1>2, <1>3 DEF Gate!Init

\* A step that is decided against was undecided.
LEMMA DropRefines ==
  ASSUME IInv, step \in Steps, outcome[step] = "todo", LandedSteps = Kept, LandedSteps' = Kept,
         NEW v \in {"discarded", "skipped", "failed"},
         outcome' = [outcome EXCEPT ![step] = v], deps' = deps
  PROVE  Gate!Next
<1>1. Dropped' = Dropped \cup {step}
  BY DecisionCounts DEF IInv, Outcomes
<1>2. step \notin Kept /\ step \notin Dropped
  BY DEF Kept, Dropped
<1>3. Dropped' \ Kept = (Dropped \ Kept) \cup {step}
  BY <1>1, <1>2
<1> QED
  BY <1>2, <1>3 DEF Gate!Next, Gate!Drop, Gate!Undecided

\* A step that lands was undecided, and its prerequisites are kept.
LEMMA LandRefines ==
  ASSUME IInv, step \in Steps, outcome[step] = "todo", deps[step] \subseteq Kept,
         LandedSteps = Kept, LandedSteps' = Kept \cup {step}, deps' = deps,
         Dropped' \in {Dropped, Dropped \cup {step}}
  PROVE  Gate!Next
<1>1. step \notin Kept /\ step \notin Dropped
  BY DEF Kept, Dropped
<1>2. Dropped' \ LandedSteps' = Dropped \ LandedSteps
  BY <1>1
<1> QED
  BY <1>1, <1>2 DEF Gate!Next, Gate!Land, Gate!Undecided

\* The steps of the executor, by what they do to the branch and to the ledger.
LEMMA GateStep ==
  ASSUME "commits" \notin Faults, IInv, IInv', Next
  PROVE  Gate!Next \/ UNCHANGED <<deps, LandedSteps, Dropped \ LandedSteps>>
<1>1. CASE CommitStep
  <2>1. /\ pc = "keep" /\ pc' = "committed" /\ step' = step /\ miscounted' = miscounted
        /\ deps' = deps /\ Kept' = Kept /\ Dropped' = Dropped
    BY <1>1 DEF CommitStep, run, Kept, Dropped
  <2>2. step \in Steps /\ outcome[step] = "todo" /\ deps[step] \subseteq Kept
    BY <2>1 DEF IInv, Ledger, Busy
  <2>3. LandedSteps = Kept
    BY <2>1, LandedAreKept DEF LandedInv
  <2>4. LandedSteps' \in {Kept, Kept \cup {step}}
    <3>1. Kept' \subseteq LandedSteps' /\ LandedSteps' \subseteq Kept' \cup {step'}
      BY LandedAreKeptNext DEF LandedInv
    <3> QED
      BY <2>1, <3>1
  <2> QED
    BY <2>1, <2>2, <2>3, <2>4, LandRefines
<1>2. CASE CommitFails
  <2>1. /\ pc = "keep" /\ pc' = "stopped" /\ step' = step /\ deps' = deps
        /\ outcome' = [outcome EXCEPT ![step] = "failed"]
    BY <1>2 DEF CommitFails
  <2>2. step \in Steps /\ outcome[step] = "todo" /\ deps[step] \subseteq Kept
    BY <2>1 DEF IInv, Ledger, Busy
  <2>3. LandedSteps = Kept
    BY <2>1, LandedAreKept DEF LandedInv
  <2>4. Dropped' = Dropped \cup {step} /\ Kept' = Kept
    BY <2>1, <2>2, DecisionCounts DEF IInv, Outcomes
  <2>5. LandedSteps' \in {Kept, Kept \cup {step}}
    <3>1. Kept' \subseteq LandedSteps' /\ LandedSteps' \subseteq Kept' \cup {step'}
      BY LandedAreKeptNext DEF LandedInv
    <3> QED
      BY <2>1, <2>4, <3>1
  <2> QED
    BY <2>1, <2>2, <2>3, <2>4, <2>5, LandRefines, DropRefines
<1>3. CASE RecordKept
  <2>1. /\ pc = "committed" /\ pc' = "next" /\ deps' = deps
        /\ outcome' = [outcome EXCEPT ![step] = "kept"]
    BY <1>3 DEF RecordKept, Decide
  <2>2. step \in Steps /\ outcome[step] = "todo" /\ deps[step] \subseteq Kept
    BY <2>1 DEF IInv, Ledger, Busy
  <2>3. Dropped' = Dropped /\ Kept' = Kept \cup {step}
    BY <2>1, <2>2, DecisionCounts DEF IInv, Outcomes
  <2>4. LandedSteps' = Kept \cup {step}
    <3>1. LandedSteps' = Kept'
      BY <2>1, LandedAreKeptNext DEF LandedInv
    <3> QED
      BY <2>3, <3>1
  <2>5. Kept \subseteq LandedSteps /\ LandedSteps \subseteq Kept \cup {step}
    BY LandedAreKept DEF LandedInv
  <2> QED
    BY <2>1, <2>2, <2>3, <2>4, <2>5, LandRefines
<1>4. CASE SkipStep \/ DiffFails \/ NoChanges \/ Discard \/ PassRaises
  <2>1. pc \in {"next", "pass", "diff", "review"} /\ step \in Steps /\ pc' \in {"next", "raised"}
    BY <1>4 DEF SkipStep, DiffFails, NoChanges, Discard, PassRaises, Decide, IInv, Ledger, Busy
  <2>2. outcome[step] = "todo"
    BY <2>1 DEF IInv, Ledger, Busy, Steps
  <2>3. PICK v \in {"discarded", "skipped", "failed"} :
          outcome' = [outcome EXCEPT ![step] = v]
    BY <1>4 DEF SkipStep, DiffFails, NoChanges, Discard, PassRaises, Decide
  <2>4. Kept' = Kept
    BY <2>1, <2>2, <2>3, DecisionCounts DEF IInv, Outcomes
  <2>5. LandedSteps = Kept /\ LandedSteps' = Kept' /\ deps' = deps
    BY <1>4, <2>1, LandedAreKept, LandedAreKeptNext
       DEF LandedInv, SkipStep, DiffFails, NoChanges, Discard, PassRaises
  <2> QED
    BY <2>1, <2>2, <2>3, <2>4, <2>5, DropRefines
<1>5. CASE Interrupt
  <2>1. Revert /\ pc \in InLoop /\ UNCHANGED <<run, deps>>
    BY <1>5 DEF Interrupt
  <2>2. /\ Landed' = Landed /\ Kept' = Kept /\ Dropped' = Dropped
        /\ miscounted \subseteq miscounted'
        /\ frozen # None => miscounted' = miscounted
    BY <2>1, RevertCleans DEF run, Kept, Dropped
  <2>3. LandedSteps' = LandedSteps
    <3>1. LandedSteps' = Kept \cup ((Landed \cap Steps) \ miscounted')
      BY <2>2 DEF LandedSteps, Kept, Landed
    <3>2. CASE frozen # None
      BY <2>2, <3>1, <3>2 DEF LandedSteps
    <3>3. CASE frozen = None
      <4>1. LandedSteps = Kept
        BY <2>1, <3>3, LandedAreKept DEF LandedInv, InLoop, IInv, Tree
      <4> QED
        BY <2>2, <3>1, <4>1 DEF LandedSteps
    <3> QED
      BY <3>2, <3>3
  <2> QED
    BY <2>1, <2>2, <2>3
<1>6. CASE CheckStart \/ CreateBranch \/ FindPlan \/ PlanInterrupted \/ Order \/ BadPlan
           \/ Recheck("branched", "plan") \/ RecheckFails("branched")
           \/ Recheck("planned", "ready") \/ RecheckFails("planned")
           \/ BeginStep \/ AgentWrites \/ PassReturns \/ AnswerRaised \/ ShowDiff \/ Keep \/ Finish
  <2>1. outcome' = outcome /\ deps' = deps
    BY <1>6 DEF CheckStart, CreateBranch, FindPlan, PlanInterrupted, Order, BadPlan, Recheck,
                RecheckFails, Abort, BeginStep, AgentWrites, PassReturns, AnswerRaised, ShowDiff,
                Keep, Finish, git, run
  <2>2. Kept' = Kept /\ Dropped' = Dropped
    BY <2>1 DEF Kept, Dropped
  <2>3. pc \notin {"committed", "interrupted", "stopped"}
    BY <1>6 DEF CheckStart, CreateBranch, FindPlan, PlanInterrupted, Order, BadPlan, Recheck,
                RecheckFails, BeginStep, AgentWrites, PassReturns, AnswerRaised, ShowDiff,
                Keep, Finish
  <2>4. LandedSteps = Kept
    BY <2>3, LandedAreKept DEF LandedInv
  <2>5. LandedSteps' = Kept'
    <3>1. CASE PlanInterrupted
      BY <2>2, <2>4, <3>1 DEF PlanInterrupted, git, LandedSteps, Landed
    <3>2. CASE ~PlanInterrupted
      <4>1. pc' \notin {"committed", "interrupted", "stopped"}
        BY <1>6, <3>2 DEF CheckStart, CreateBranch, FindPlan, Order, BadPlan, Recheck,
                RecheckFails, Abort, BeginStep, AgentWrites, PassReturns, AnswerRaised, ShowDiff,
                Keep, Finish
      <4> QED
        BY <4>1, LandedAreKeptNext DEF LandedInv
    <3> QED
      BY <3>1, <3>2
  <2> QED
    BY <2>1, <2>2, <2>4, <2>5
<1>7. CASE OperatorCreates
  BY <1>7 DEF OperatorCreates, run, Landed, LandedSteps, Kept, Dropped
<1> QED
  BY <1>1, <1>2, <1>3, <1>4, <1>5, <1>6, <1>7 DEF Next

\* The executor decides each step of any plan once, and lands it only after its
\* prerequisites, however it is refused, raised or interrupted on the way; a
\* step that a failed listing miscounted counts as landed when it is kept.
THEOREM Refinement ==
  ASSUME "commits" \notin Faults
  PROVE  Spec => RefinesPlanGate
<1>1. IInv /\ IInv' /\ [Next]_vars => [Gate!Next]_<<deps, LandedSteps, Dropped \ LandedSteps>>
  <2>1. UNCHANGED vars => UNCHANGED <<deps, LandedSteps, Dropped \ LandedSteps>>
    BY DEF vars, git, run, Landed, LandedSteps, Kept, Dropped
  <2> QED
    BY <2>1, GateStep
<1> QED
  BY <1>1, GateInit, Invariance, PTL DEF Spec, RefinesPlanGate, Gate!Spec
=============================================================================
