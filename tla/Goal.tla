--------------------------------- MODULE Goal ---------------------------------
(***************************************************************************)
(* The goal supervisor (run_goal_loop and evaluate_goal_round in           *)
(* src/luxe/chat/supervisor.py): rounds are turns issued on their own      *)
(* until the objective is reached, the budget is spent, the agent is       *)
(* stuck, or a human is needed. What a round did is seen only from         *)
(* outside: the files it wrote, the tests that ran, the items its model    *)
(* recorded as completed in the ledger, and the calls it made.             *)
(***************************************************************************)
EXTENDS Integers, Sequences

CONSTANTS Budget,        \* goal_max_rounds
          DoneRounds,    \* _GOAL_DONE_ROUNDS
          StuckSettled,  \* _GOAL_STUCK_SETTLED
          StuckThrash,   \* _GOAL_STUCK_THRASH
          StuckPrints,   \* _GOAL_STUCK_FP_ROUNDS
          MaxCrashes,    \* _GOAL_MAX_CRASHES
          ListCap,       \* _LIST_CAP of the ledger
          Nothing,       \* no test ran; no tool was called
          Outcomes       \* what a round may do

\* Of a round: it left the files alone; its text holds the sentinel; how many
\* items it completed; the test result [passed, failed]; its fingerprint.
ASSUME GoalAssumption ==
  /\ {Budget, DoneRounds, StuckSettled, StuckThrash, StuckPrints, MaxCrashes, ListCap} \subseteq Nat \ {0}
  /\ \A r \in Outcomes :
       /\ r.settled \in BOOLEAN /\ r.sentinel \in BOOLEAN /\ r.items \in Nat
       /\ r.tests # Nothing => r.tests.passed \in Nat /\ r.tests.failed \in Nat

VARIABLES
  active,     \* session.goal_active
  round,      \* session.goal_round
  crashes,    \* session.consecutive_crashes
  completed,  \* the length of the ledger's completed list
  judge,      \* the locals of the loop
  why,        \* why the last goal ended, or "none" while none has
  record      \* history: the evaluated rounds of this goal, the last few

gvars == <<active, round, crashes, completed, judge, why, record>>

Least(a, b) == IF a < b THEN a ELSE b

Fresh == [streak |-> 0, idle |-> 0, thrash |-> 0, grew |-> FALSE,
          failures |-> Nothing, total |-> Nothing, prints |-> <<>>, before |-> 0]

GInit ==
  /\ active = FALSE /\ round = 0 /\ crashes = 0 /\ completed = 0
  /\ judge = Fresh /\ why = "none" /\ record = <<>>

\* /goal, or the choice to execute a plan, and the loop's first lines.
Engage ==
  /\ active' = TRUE /\ round' = 0 /\ crashes' = 0
  /\ judge' = [Fresh EXCEPT !.before = completed]
  /\ why' = "none" /\ record' = <<>>
  /\ UNCHANGED completed

\* The loop is left: the rounds start over.
Halt(reason) ==
  /\ active' = FALSE /\ round' = 0
  /\ why' = reason

\* The loop has returned: its locals are gone, and the goal is over, whatever
\* became of it.
Dismiss ==
  /\ active' = FALSE
  /\ judge' = Fresh /\ why' = "none" /\ record' = <<>>
  /\ UNCHANGED <<round, crashes, completed>>

\* The top of the loop: another round.
NextRound ==
  /\ active /\ round < Budget
  /\ round' = round + 1
  /\ UNCHANGED <<active, crashes, completed, judge, why, record>>

\* The loop ends at its head: the flag is down, or the budget is spent.
LoopExit ==
  /\ ~active \/ round >= Budget
  /\ Halt(IF active THEN "budget" ELSE "stopped")
  /\ UNCHANGED <<crashes, completed, judge, record>>

Ledger(items) == completed' = Least(completed + items, ListCap)

\* A round failed: on an exception, or the endpoint made the loop abort. The
\* supervisor goes on, up to MaxCrashes in a row.
Crashed(items) ==
  /\ Ledger(items)
  /\ crashes' = crashes + 1
  /\ IF crashes + 1 >= MaxCrashes
     THEN Halt("crashes")
     ELSE UNCHANGED <<active, round, why>>
  /\ UNCHANGED <<judge, record>>

\* A round the user interrupted, or that was refused before it ran.
Paused(reason, items) ==
  /\ Ledger(items) /\ Halt(reason)
  /\ UNCHANGED <<crashes, judge, record>>

-----------------------------------------------------------------------------
(***************************************************************************)
(* The evaluation of a round.                                              *)
(***************************************************************************)

Ran(r) == r.tests # Nothing
Green(r) == Ran(r) /\ r.tests.failed = 0 /\ r.tests.passed > 0

\* The sentinel counts only when the ledger has completed items and gained one
\* in this run.
Corroborated(r, count, grew) == r.sentinel /\ count > 0 /\ grew

\* Mutant of Proven: a round that wrote files may be proven.
MProvenEdits(r, count, grew) == Green(r) \/ Corroborated(r, count, grew)

Proven(r, count, grew) == r.settled /\ (Green(r) \/ Corroborated(r, count, grew))

Total(r) == r.tests.passed + r.tests.failed
Broader(r) == Ran(r) /\ (judge.total = Nothing \/ Total(r) > judge.total)
Improved(r) == Ran(r) /\ (judge.failures = Nothing \/ r.tests.failed < judge.failures \/ Broader(r))

Last(n, s) == IF Len(s) <= n THEN s ELSE SubSeq(s, Len(s) - n + 1, Len(s))
Prints(r) == CASE r.calls = Nothing -> <<>>
               [] r.calls # Nothing -> Last(StuckPrints, Append(judge.prints, r.calls))
SameCalls(prints) == Len(prints) = StuckPrints /\ \A i \in 1 .. StuckPrints : prints[i] = prints[1]

\* What the history keeps of a round: enough to recount each verdict.
Kept == IF DoneRounds > StuckSettled THEN DoneRounds ELSE StuckSettled
Entry(r, count) ==
  [settled |-> r.settled, proof |-> Green(r) \/ (r.sentinel /\ count > 0),
   gained |-> r.items > 0 /\ count < ListCap]
Recorded(e) == LET all == Append(record, e) IN
  IF Len(all) > Kept THEN Tail(all) ELSE all

\* Mutant of Idled: progress does not start the count again.
MIdledForGood(r, new) == IF r.settled /\ ~new THEN judge.idle + 1 ELSE judge.idle

\* One more round in which nothing happened, or none.
Idled(r, new) == IF r.settled /\ ~new THEN judge.idle + 1 ELSE 0

\* The ledger read after the round, the verdict, and the fast trip on equal
\* fingerprints, in the loop's order: done, same calls, stuck. Thrash is
\* decided before the idle rounds are counted.
Evaluate(r) ==
  LET count == Least(completed + r.items, ListCap)
      new == count > judge.before
      grew == judge.grew \/ new
      proven == Proven(r, count, grew)
      streak == IF proven THEN judge.streak + 1 ELSE 0
      better == proven \/ Improved(r) \/ new
      thrash == CASE better -> 0
                  [] ~better /\ Ran(r) /\ r.tests.failed > 0 -> judge.thrash + 1
                  [] OTHER -> judge.thrash
      thrashing == thrash >= StuckThrash
      idle == CASE proven -> 0
                [] ~proven /\ thrashing -> judge.idle
                [] OTHER -> Idled(r, new)
      done == proven /\ streak >= DoneRounds
      prints == Prints(r)
  IN
  /\ completed' = count /\ crashes' = 0
  /\ record' = Recorded(Entry(r, count))
  /\ judge' =
       [streak |-> streak, idle |-> idle, thrash |-> thrash, grew |-> grew, before |-> count,
        failures |-> IF ~proven /\ Improved(r) THEN r.tests.failed ELSE judge.failures,
        total |-> IF ~proven /\ Broader(r) THEN Total(r) ELSE judge.total,
        prints |-> prints]
  /\ CASE done -> Halt("done")
       [] ~done /\ SameCalls(prints) /\ r.settled -> Halt("same calls")
       [] ~done /\ ~(SameCalls(prints) /\ r.settled) /\ thrashing -> Halt("thrash")
       [] ~done /\ ~(SameCalls(prints) /\ r.settled) /\ ~thrashing /\ idle >= StuckSettled -> Halt("idle")
       [] OTHER -> UNCHANGED <<active, round, why>>

-----------------------------------------------------------------------------
\* The loop calls a goal complete only after its last evaluated rounds, as many
\* as DoneRounds, each left the files alone and had its proof: green tests, or
\* the sentinel with completed work in the ledger. A round that failed between
\* them is not evaluated and changes nothing (evaluate_goal_round).
DoneIsEarned ==
  why = "done" =>
    /\ Len(record) >= DoneRounds
    /\ \A i \in Len(record) - DoneRounds + 1 .. Len(record) :
         record[i].settled /\ record[i].proof

\* The loop calls a goal idle only after as many evaluated rounds as
\* StuckSettled in a row neither wrote a file nor completed an item, as far as
\* a full list can tell (settled_no_progress, _dedup_cap).
IdleIsEarned ==
  why = "idle" =>
    /\ Len(record) >= StuckSettled
    /\ \A i \in Len(record) - StuckSettled + 1 .. Len(record) :
         record[i].settled /\ ~record[i].gained
==============================================================================
