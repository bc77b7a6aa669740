------------------------------ MODULE PlanGate ------------------------------
(***************************************************************************)
(* What `gitchange --apply` promises of a plan: each step is decided once, *)
(* and what lands on the dedicated branch is the work of decided-for       *)
(* steps, each after its prerequisites.  GitApply refines this.            *)
(***************************************************************************)
CONSTANT Steps       \* the steps of the plan

VARIABLES deps,      \* the prerequisites of each step
          landed,    \* the steps whose work is on the branch
          dropped    \* the steps that were discarded, skipped or that failed

Init ==
  /\ deps \in [Steps -> SUBSET Steps]
  /\ landed = {}
  /\ dropped = {}

Undecided == Steps \ (landed \cup dropped)

Land(s) ==
  /\ s \in Undecided
  /\ deps[s] \subseteq landed
  /\ landed' = landed \cup {s}
  /\ UNCHANGED <<deps, dropped>>

Drop(s) ==
  /\ s \in Undecided
  /\ dropped' = dropped \cup {s}
  /\ UNCHANGED <<deps, landed>>

Next == \E s \in Steps : Land(s) \/ Drop(s)

Spec == Init /\ [][Next]_<<deps, landed, dropped>>
=============================================================================
