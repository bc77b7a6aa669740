---------------------------- MODULE Chat_proofs ----------------------------
(***************************************************************************)
(* The chat session with one worker at a time, as it is when no key        *)
(* arrives between the dispatch of a line and its busy flag: what the      *)
(* token, the goal flag, the attachments, the goal's verdicts and the      *)
(* carried conversation keep, for every script, budget and threshold.      *)
(***************************************************************************)
EXTENDS Chat, TLAPS

-----------------------------------------------------------------------------
(***************************************************************************)
(* What the goal loop's counters say of the rounds they counted, for every *)
(* budget and every threshold.                                             *)
(***************************************************************************)

Entries == [settled : BOOLEAN, proof : BOOLEAN, gained : BOOLEAN]

GoalTypes ==
  /\ judge.streak \in Nat /\ judge.idle \in Nat /\ judge.before \in Nat
  /\ completed \in Nat /\ completed <= ListCap
  /\ record \in Seq(Entries) /\ Len(record) <= Kept

\* The last n rounds of the history, or as many as it keeps.
LastOnes(n) == {i \in 1 .. Len(record) : i > Len(record) - n}

\* While the goal runs: the rounds the two counters stand for are in the
\* history, and are what they are counted as; and the ledger has not shrunk
\* since the last round that was evaluated.
Counted ==
  /\ Len(record) >= Least(judge.streak, Kept)
  /\ \A i \in LastOnes(judge.streak) : record[i].settled /\ record[i].proof
  /\ Len(record) >= Least(judge.idle, Kept)
  /\ \A i \in LastOnes(judge.idle) : record[i].settled /\ ~record[i].gained
  /\ judge.before <= completed

LEMMA ConstantTypes ==
  /\ Budget \in Nat \ {0} /\ DoneRounds \in Nat \ {0} /\ StuckSettled \in Nat \ {0}
  /\ MaxCrashes \in Nat \ {0} /\ ListCap \in Nat \ {0} /\ Kept \in Nat \ {0}
  /\ DoneRounds <= Kept /\ StuckSettled <= Kept
<1>1. /\ Budget \in Nat \ {0} /\ DoneRounds \in Nat \ {0} /\ StuckSettled \in Nat \ {0}
      /\ MaxCrashes \in Nat \ {0} /\ ListCap \in Nat \ {0}
  BY GoalAssumption
<1> QED
  BY <1>1 DEF Kept

LEMMA EmptySeq == <<>> \in Seq(Entries) /\ Len(<<>>) = 0
  OBVIOUS

LEMMA EngageCounts ==
  ASSUME GoalTypes, Engage
  PROVE  GoalTypes' /\ Counted' /\ why' = "none" /\ active' = TRUE
<1>1. /\ judge' = [Fresh EXCEPT !.before = completed] /\ record' = <<>>
      /\ completed' = completed /\ why' = "none" /\ active' = TRUE
  BY DEF Engage
<1>2. judge'.streak = 0 /\ judge'.idle = 0 /\ judge'.before = completed
  BY <1>1 DEF Fresh
<1>3. Len(record') = 0 /\ record' \in Seq(Entries)
  BY <1>1, EmptySeq
<1>4. completed' = completed /\ why' = "none" /\ active' = TRUE
  BY <1>1
<1>5. GoalTypes'
  <2>1. judge'.streak \in Nat /\ judge'.idle \in Nat
    BY <1>2
  <2>2. judge'.before \in Nat
    BY <1>2 DEF GoalTypes
  <2>3. completed' \in Nat /\ completed' <= ListCap
    BY <1>4 DEF GoalTypes
  <2>4. Len(record') <= Kept'
    BY <1>3, ConstantTypes DEF Kept
  <2> QED
    BY <1>3, <2>1, <2>2, <2>3, <2>4 DEF GoalTypes
<1>6. Counted'
  <2>1. Kept \in Nat /\ Kept' = Kept
    BY ConstantTypes DEF Kept
  <2>2. judge'.before <= completed'
    <3>1. completed \in Nat
      BY DEF GoalTypes
    <3>2. judge'.before = completed /\ completed' = completed
      BY <1>2, <1>4
    <3> QED
      BY <3>1, <3>2
  <2> QED
    <3>1. Len(record') >= Least(judge'.streak, Kept') /\ Len(record') >= Least(judge'.idle, Kept')
      BY <1>2, <1>3, <2>1 DEF Least
    <3>2. LastOnes(judge.streak)' = {} /\ LastOnes(judge.idle)' = {}
      BY <1>2, <1>3 DEF LastOnes
    <3> QED
      BY <2>2, <3>1, <3>2 DEF Counted
<1> QED
  BY <1>4, <1>5, <1>6

LEMMA DismissTypes ==
  ASSUME GoalTypes, Dismiss
  PROVE  GoalTypes' /\ why' = "none" /\ active' = FALSE
<1>1. judge' = Fresh /\ record' = <<>> /\ completed' = completed /\ why' = "none" /\ active' = FALSE
  BY DEF Dismiss
<1>2. judge'.streak = 0 /\ judge'.idle = 0 /\ judge'.before = 0
  BY <1>1 DEF Fresh
<1>3. Len(record') = 0 /\ record' \in Seq(Entries)
  BY <1>1, EmptySeq
<1>4. completed' = completed /\ why' = "none" /\ active' = FALSE
  BY <1>1
<1>5. Len(record') <= Kept'
  BY <1>3, ConstantTypes DEF Kept
<1>6. completed' \in Nat /\ completed' <= ListCap
  BY <1>4 DEF GoalTypes
<1> QED
  <2>1. judge'.streak \in Nat /\ judge'.idle \in Nat /\ judge'.before \in Nat
    BY <1>2
  <2> QED
    BY <1>3, <1>4, <1>5, <1>6, <2>1 DEF GoalTypes

\* The ledger only grows: no item is taken from it by a round.
LEMMA LedgerGrows ==
  ASSUME GoalTypes, NEW items \in Nat, Ledger(items)
  PROVE  completed' \in Nat /\ completed <= completed' /\ completed' <= ListCap
  BY ConstantTypes DEF Ledger, Least, GoalTypes

\* A history that gets one more round: all but the new one move down, when it
\* is full.
LEMMA OneMoreRound ==
  ASSUME record \in Seq(Entries), Len(record) <= Kept, NEW e \in Entries, record' = Recorded(e)
  PROVE  /\ record' \in Seq(Entries) /\ Len(record') <= Kept /\ Len(record') > 0
         /\ Len(record') = Least(Len(record) + 1, Kept)
         /\ record'[Len(record')] = e
         /\ \A i \in 1 .. Len(record') - 1 :
              /\ i + Len(record) + 1 - Len(record') \in 1 .. Len(record)
              /\ record'[i] = record[i + Len(record) + 1 - Len(record')]
<1> DEFINE all == Append(record, e)
<1>1. /\ all \in Seq(Entries) /\ Len(all) = Len(record) + 1 /\ all[Len(record) + 1] = e
      /\ \A i \in 1 .. Len(record) : all[i] = record[i]
  OBVIOUS
<1>2. CASE Len(all) > Kept
  <2>1. record' = Tail(all) /\ Len(record) = Kept
    BY <1>1, <1>2, ConstantTypes DEF Recorded
  <2> HIDE DEF all
  <2>2. /\ Tail(all) \in Seq(Entries) /\ Len(Tail(all)) = Len(all) - 1
        /\ \A i \in 1 .. Len(all) - 1 : Tail(all)[i] = all[i + 1]
    BY <1>1, <1>2, ConstantTypes
  <2> QED
    BY <1>1, <2>1, <2>2, ConstantTypes DEF Least
<1>3. CASE Len(all) <= Kept
  <2>1. record' = all
    BY <1>1, <1>3, ConstantTypes DEF Recorded
  <2> HIDE DEF all
  <2> QED
    BY <1>1, <1>3, <2>1, ConstantTypes DEF Least
<1> QED
  BY <1>1, <1>2, <1>3, ConstantTypes

\* A counter's rounds, one more of them: they are all good when the new one is.
LEMMA OneMoreCounted ==
  ASSUME GoalTypes, NEW e \in Entries, record' = Recorded(e),
         NEW Good \in SUBSET Entries, e \in Good,
         NEW k \in Nat, Len(record) >= Least(k, Kept), \A i \in LastOnes(k) : record[i] \in Good
  PROVE  /\ Len(record') >= Least(k + 1, Kept)
         /\ \A i \in 1 .. Len(record') : i > Len(record') - (k + 1) => record'[i] \in Good
<1>1. /\ record' \in Seq(Entries) /\ Len(record') = Least(Len(record) + 1, Kept)
      /\ record'[Len(record')] = e
      /\ \A i \in 1 .. Len(record') - 1 :
           /\ i + Len(record) + 1 - Len(record') \in 1 .. Len(record)
           /\ record'[i] = record[i + Len(record) + 1 - Len(record')]
  BY OneMoreRound DEF GoalTypes
<1>2. Len(record) \in Nat /\ Len(record') \in Nat /\ Kept \in Nat
  BY <1>1, ConstantTypes DEF GoalTypes
<1>3. Len(record') >= Least(k + 1, Kept)
  BY <1>1, <1>2 DEF Least
<1>4. ASSUME NEW i \in 1 .. Len(record'), i > Len(record') - (k + 1)
      PROVE  record'[i] \in Good
  <2>1. CASE i = Len(record')
    BY <1>1, <2>1
  <2>2. CASE i # Len(record')
    <3>1. i \in 1 .. Len(record') - 1
      BY <1>2, <2>2
    <3> DEFINE j == i + Len(record) + 1 - Len(record')
    <3>2. j \in 1 .. Len(record) /\ record'[i] = record[j]
      BY <1>1, <3>1
    <3>3. j > Len(record) - k
      BY <1>2, <1>4, <3>1
    <3>4. j \in LastOnes(k)
      BY <3>2, <3>3 DEF LastOnes
    <3> QED
      BY <3>2, <3>4
  <2> QED
    BY <2>1, <2>2
<1> QED
  BY <1>3, <1>4

Proofs == {e \in Entries : e.settled /\ e.proof}
Idles == {e \in Entries : e.settled /\ ~e.gained}

\* The verdict on a round: when the goal goes on, its counters still count the
\* rounds of the history; when it is over, the history bears the verdict out.
LEMMA EvaluateCounts ==
  ASSUME GoalTypes, Counted, why = "none", NEW r \in Outcomes, Evaluate(r)
  PROVE  /\ GoalTypes' /\ (why' = "none" => Counted')
         /\ DoneIsEarned' /\ IdleIsEarned'
         /\ why' = "none" => active' = active
         /\ why' # "none" => active' = FALSE
<1> DEFINE count == Least(completed + r.items, ListCap)
           new == count > judge.before
           grew == judge.grew \/ new
           proven == Proven(r, count, grew)
           streak == IF proven THEN judge.streak + 1 ELSE 0
           better == proven \/ Improved(r) \/ new
           thrash == CASE better -> 0
                       [] ~better /\ Ran(r) /\ r.tests.failed > 0 -> judge.thrash + 1
                       [] OTHER -> judge.thrash
           thrashing == thrash >= StuckThrash
           idle == CASE proven -> 0
                     [] ~proven /\ thrashing -> judge.idle
                     [] OTHER -> Idled(r, new)
           done == proven /\ streak >= DoneRounds
           same == SameCalls(Prints(r)) /\ r.settled
           e == Entry(r, count)
<1>1. /\ completed' = count /\ record' = Recorded(e)
      /\ judge'.streak = streak /\ judge'.idle = idle /\ judge'.before = count
  BY DEF Evaluate
<1>2. \/ done /\ Halt("done")
      \/ ~done /\ same /\ Halt("same calls")
      \/ ~done /\ ~same /\ thrashing /\ Halt("thrash")
      \/ ~done /\ ~same /\ ~thrashing /\ idle >= StuckSettled /\ Halt("idle")
      \/ ~done /\ ~same /\ ~thrashing /\ UNCHANGED <<active, round, why>>
  <2>1. CASE done
    BY <2>1 DEF Evaluate
  <2>2. CASE ~done /\ same
    BY <2>2 DEF Evaluate
  <2>3. CASE ~done /\ ~same /\ thrashing
    BY <2>3 DEF Evaluate
  <2>4. CASE ~done /\ ~same /\ ~thrashing /\ idle >= StuckSettled
    BY <2>4 DEF Evaluate
  <2>5. CASE ~done /\ ~same /\ ~thrashing /\ ~(idle >= StuckSettled)
    BY <2>5 DEF Evaluate
  <2> QED
    BY <2>1, <2>2, <2>3, <2>4, <2>5
<1> HIDE DEF count, new, grew, proven, streak, better, thrash, thrashing, idle, done, same
<1>3. /\ r.settled \in BOOLEAN /\ r.sentinel \in BOOLEAN /\ r.items \in Nat
  BY GoalAssumption
<1>4. /\ count \in Nat /\ count <= ListCap /\ judge.before \in Nat /\ judge.before <= completed
      /\ completed \in Nat /\ completed <= count
  <2>1. judge.before \in Nat /\ completed \in Nat /\ completed <= ListCap
    BY DEF GoalTypes
  <2>2. judge.before <= completed
    BY DEF Counted
  <2>3. ListCap \in Nat /\ count = Least(completed + r.items, ListCap)
    BY ConstantTypes DEF count
  <2>4. count \in Nat /\ count <= ListCap /\ completed <= count
    BY <1>3, <2>1, <2>3 DEF Least
  <2> QED
    BY <2>1, <2>2, <2>4
<1>5. e \in Entries /\ e.settled = r.settled
  BY <1>3 DEF Entry, Entries
<1>6. proven => e \in Proofs
  <2>1. SUFFICES ASSUME proven PROVE e.settled /\ e.proof
    BY <1>5 DEF Proofs
  <2>2. r.settled /\ (Green(r) \/ (r.sentinel /\ count > 0))
    BY <2>1 DEF proven, Proven, Corroborated
  <2> QED
    BY <2>2 DEF Entry
<1>7. r.settled /\ ~new => e \in Idles
  <2>1. SUFFICES ASSUME r.settled, ~new PROVE e.settled /\ ~e.gained
    BY <1>5 DEF Idles
  <2>2. r.items > 0 /\ count < ListCap => count > completed
    BY <1>3, <1>4, ConstantTypes DEF count, Least
  <2>3. ~(r.items > 0 /\ count < ListCap)
    BY <2>1, <2>2, <1>4 DEF new
  <2> QED
    BY <2>1, <2>3 DEF Entry
<1>8. record' \in Seq(Entries) /\ Len(record') <= Kept /\ Len(record') \in Nat
  BY <1>1, <1>5, OneMoreRound DEF GoalTypes
<1>9. /\ streak \in Nat /\ Len(record') >= Least(streak, Kept)
      /\ \A i \in 1 .. Len(record') : i > Len(record') - streak => record'[i] \in Proofs
  <2>1. CASE proven
    <3>1. judge.streak \in Nat /\ streak = judge.streak + 1
      BY <2>1 DEF streak, GoalTypes
    <3>2. \A i \in LastOnes(judge.streak) : record[i] \in Proofs
      <4>1. \A i \in 1 .. Len(record) : record[i] \in Entries
        BY DEF GoalTypes
      <4> QED
        BY <4>1 DEF Counted, LastOnes, Proofs
    <3>3. Len(record) >= Least(judge.streak, Kept)
      BY DEF Counted
    <3>4. Proofs \in SUBSET Entries
      BY DEF Proofs
    <3> HIDE DEF e
    <3> QED
      BY <1>1, <1>5, <1>6, <2>1, <3>1, <3>2, <3>3, <3>4, OneMoreCounted
  <2>2. CASE ~proven
    BY <1>8, <2>2, ConstantTypes DEF streak, Least
  <2> QED
    BY <2>1, <2>2
<1>10. \/ ~proven /\ thrashing
       \/ /\ idle \in Nat /\ Len(record') >= Least(idle, Kept)
          /\ \A i \in 1 .. Len(record') : i > Len(record') - idle => record'[i] \in Idles
  <2>1. CASE ~proven /\ ~thrashing /\ r.settled /\ ~new
    <3>1. judge.idle \in Nat /\ idle = judge.idle + 1
      BY <2>1 DEF idle, Idled, GoalTypes
    <3>2. \A i \in LastOnes(judge.idle) : record[i] \in Idles
      <4>1. \A i \in 1 .. Len(record) : record[i] \in Entries
        BY DEF GoalTypes
      <4> QED
        BY <4>1 DEF Counted, LastOnes, Idles
    <3>3. Len(record) >= Least(judge.idle, Kept)
      BY DEF Counted
    <3>4. Idles \in SUBSET Entries
      BY DEF Idles
    <3> HIDE DEF e
    <3> QED
      BY <1>1, <1>5, <1>7, <2>1, <3>1, <3>2, <3>3, <3>4, OneMoreCounted
  <2>2. CASE proven \/ (~thrashing /\ ~(r.settled /\ ~new))
    <3>1. idle = 0
      BY <2>2 DEF idle, Idled
    <3> QED
      BY <1>8, <3>1, ConstantTypes DEF Least
  <2> QED
    BY <2>1, <2>2
<1>11. ~proven /\ thrashing => idle \in Nat
  BY DEF idle, GoalTypes
<1>12. GoalTypes'
  <2>1. judge'.streak \in Nat /\ judge'.idle \in Nat /\ judge'.before \in Nat
    BY <1>1, <1>4, <1>9, <1>10, <1>11
  <2>2. completed' \in Nat /\ completed' <= ListCap
    BY <1>1, <1>4
  <2>3. Kept' = Kept
    BY DEF Kept
  <2> QED
    BY <1>8, <2>1, <2>2, <2>3 DEF GoalTypes
<1>13. ASSUME why' = "none"
       PROVE  Counted' /\ active' = active
  <2>1. ~done /\ ~thrashing /\ active' = active
    BY <1>2, <1>13 DEF Halt
  <2>2. Kept' = Kept
    BY DEF Kept
  <2>3. judge'.before <= completed'
    BY <1>1, <1>4
  <2>4. Len(record') >= Least(judge'.streak, Kept) /\ Len(record') >= Least(judge'.idle, Kept)
    BY <1>1, <1>9, <1>10, <2>1
  <2>5. \A i \in 1 .. Len(record') : i > Len(record') - judge'.streak => record'[i].settled /\ record'[i].proof
    BY <1>1, <1>9 DEF Proofs
  <2>6. \A i \in 1 .. Len(record') : i > Len(record') - judge'.idle => record'[i].settled /\ ~record'[i].gained
    BY <1>1, <1>10, <2>1 DEF Idles
  <2> QED
    BY <2>1, <2>2, <2>3, <2>4, <2>5, <2>6 DEF Counted, LastOnes
<1>14. DoneIsEarned'
  <2>1. SUFFICES ASSUME why' = "done"
                 PROVE  /\ Len(record') >= DoneRounds
                        /\ \A i \in Len(record') - DoneRounds + 1 .. Len(record') :
                             record'[i].settled /\ record'[i].proof
    BY DEF DoneIsEarned
  <2>2. streak >= DoneRounds
    BY <1>2, <2>1 DEF Halt, done
  <2>3. Len(record') >= DoneRounds
    BY <1>8, <1>9, <2>2, ConstantTypes DEF Least
  <2>4. \A i \in Len(record') - DoneRounds + 1 .. Len(record') :
          i \in 1 .. Len(record') /\ i > Len(record') - streak
    BY <1>8, <1>9, <2>2, <2>3, ConstantTypes
  <2> QED
    BY <1>9, <2>3, <2>4 DEF Proofs
<1>15. IdleIsEarned'
  <2>1. SUFFICES ASSUME why' = "idle"
                 PROVE  /\ Len(record') >= StuckSettled
                        /\ \A i \in Len(record') - StuckSettled + 1 .. Len(record') :
                             record'[i].settled /\ ~record'[i].gained
    BY DEF IdleIsEarned
  <2>2. idle >= StuckSettled /\ ~thrashing
    BY <1>2, <2>1 DEF Halt
  <2>3. Len(record') >= StuckSettled /\ idle \in Nat
    BY <1>8, <1>10, <2>2, ConstantTypes DEF Least
  <2>4. \A i \in Len(record') - StuckSettled + 1 .. Len(record') :
          i \in 1 .. Len(record') /\ i > Len(record') - idle
    BY <1>8, <2>2, <2>3, ConstantTypes
  <2> QED
    BY <1>10, <2>2, <2>3, <2>4 DEF Idles
<1>16. why' # "none" => active' = FALSE
  BY <1>2 DEF Halt
<1> QED
  BY <1>12, <1>13, <1>14, <1>15, <1>16

-----------------------------------------------------------------------------
(***************************************************************************)
(* The session around the goal.                                            *)
(***************************************************************************)

Places == {"idle", "starting", "body", "turn", "choice", "goal", "ending"}

\* The tables have an entry for the worker, and a turn has its fields.
Shape(w) ==
  /\ pc = [x \in Workers |-> pc[x]] /\ pc[w] \in Places
  /\ turn = [x \in Workers |-> turn[x]]
  /\ turn[w] = [kind |-> turn[w].kind, carried |-> turn[w].carried, frame |-> turn[w].frame,
                spoke |-> turn[w].spoke, doomed |-> turn[w].doomed]

InRound(w) == pc[w] = "goal" \/ (pc[w] = "turn" /\ turn[w].kind = "goal")

\* A cancelled token over a busy session is the user's doing, and a turn
\* prepared under one gets nothing through.
Pressing(w) ==
  /\ busy \in BOOLEAN /\ cancel \in BOOLEAN /\ pressed \in BOOLEAN
  /\ busy <=> pc[w] \notin {"idle", "starting"}
  /\ pressed <=> (cancel /\ busy)
  /\ pc[w] = "turn" => ("cancel" \in turn[w].doomed => pressed /\ ~turn[w].spoke)

\* The goal flag is up only over the rounds, and comes down for good.
Flag(w) ==
  /\ active \in BOOLEAN /\ stopped \in BOOLEAN
  /\ active => InRound(w) /\ ~stopped
  /\ stopped => InRound(w) \/ pc[w] = "ending"
  /\ pc[w] = "turn" => "stop" \notin turn[w].doomed

\* Attachments are staged, or consumed by the turn that runs.
Ride(w) ==
  /\ owed = staged \union consumed
  /\ pc[w] # "turn" => consumed = {}
  /\ staged = {} \/ consumed = {}

\* The goal's counters and verdicts.
Verdicts(w) ==
  /\ GoalTypes /\ DoneIsEarned /\ IdleIsEarned
  /\ InRound(w) => why = "none" /\ Counted

LEMMA ShapeHolds ==
  ASSUME NEW w, Workers = {w}, Shape(w), [Next]_vars
  PROVE  Shape(w)'
<1> USE DEF Shape, Places, To
<1>1. CASE Begin(w)
  BY <1>1 DEF Begin
<1>2. CASE End(w)
  BY <1>2 DEF End
<1>3. CASE Attach(w) \/ ToggleWrite(w) \/ Clear(w) \/ Resume(w) \/ GoalStop(w)
  BY <1>3 DEF Attach, ToggleWrite, Clear, Resume, GoalStop
<1>4. CASE StartGoal(w) \/ Choose(w)
  BY <1>4 DEF StartGoal, Choose
<1>5. CASE StartTurn(w)
  BY <1>5 DEF StartTurn, Prepare
<1>6. CASE Token(w)
  BY <1>6 DEF Token
<1>7. CASE EndTurn(w)
  BY <1>7 DEF EndTurn, NoTurn, After
<1>8. CASE Interrupt(w)
  BY <1>8 DEF Interrupt, NoTurn
<1>9. CASE StartRound(w)
  <2>1. pc[w] = "goal" /\ pc' = [pc EXCEPT ![w] = "turn"] /\ busy' = busy
    BY <1>9 DEF StartRound, Prepare, front
  <2>2. Prepare(w, "goal")
    BY <1>9 DEF StartRound
  <2>3. PICK c : turn' = [turn EXCEPT ![w] =
                   [kind |-> "goal", frame |-> Frame("goal"), spoke |-> FALSE, carried |-> c,
                    doomed |-> (IF pressed THEN {"cancel"} ELSE {})
                               \union (IF stopped THEN {"stop"} ELSE {})]]
    BY <2>2, Zenon DEF Prepare
  <2> QED
    BY <2>1, <2>3
<1>10. CASE LeaveGoal(w) \/ RefuseRound(w)
  BY <1>10 DEF LeaveGoal, RefuseRound
<1>11. CASE EndRound(w) \/ FailRound(w)
  BY <1>11 DEF EndRound, FailRound, NoTurn
<1>12. CASE Submit(w)
  BY <1>12 DEF Submit, Dispatch
<1>13. CASE Drain
  BY <1>13 DEF Drain, Dispatch
<1>14. CASE TypeAhead \/ Cancel \/ Quit \/ UNCHANGED vars
  BY <1>14 DEF TypeAhead, Cancel, Quit, vars
<1> QED
  BY <1>1, <1>2, <1>3, <1>4, <1>5, <1>6, <1>7, <1>8, <1>9, <1>10, <1>11, <1>12, <1>13, <1>14
  DEF Next, Work

LEMMA PressingHolds ==
  ASSUME NEW w, Workers = {w}, Shape(w), Pressing(w), [Next]_vars
  PROVE  Pressing(w)'
<1> USE DEF Shape, Pressing, Places, To
<1>1. CASE Begin(w)
  <2>1. pc[w] = "starting" /\ busy = FALSE /\ pressed = FALSE
    BY <1>1 DEF Begin
  <2>2. cancel' = FALSE /\ pressed' = FALSE
    BY <1>1, <2>1 DEF Begin, history
  <2>3. (busy' = TRUE /\ pc'[w] = "body") \/ (busy' = FALSE /\ pc'[w] = "idle")
    BY <1>1, <2>1 DEF Begin
  <2> QED
    BY <2>2, <2>3
<1>2. CASE End(w)
  BY <1>2 DEF End
<1>3. CASE Attach(w) \/ ToggleWrite(w) \/ Clear(w) \/ Resume(w) \/ GoalStop(w)
  <2>1. CASE Attach(w)
    BY <2>1 DEF Attach, front, history
  <2>2. CASE ToggleWrite(w)
    BY <2>2 DEF ToggleWrite, front, history
  <2>3. CASE Clear(w)
    BY <2>3 DEF Clear, front, history
  <2>4. CASE Resume(w)
    BY <2>4 DEF Resume, front, history
  <2>5. CASE GoalStop(w)
    BY <2>5 DEF GoalStop, front, history
  <2> QED
    BY <1>3, <2>1, <2>2, <2>3, <2>4, <2>5
<1>4. CASE StartGoal(w) \/ Choose(w)
  BY <1>4 DEF StartGoal, Choose, front, history
<1>5. CASE StartTurn(w)
  BY <1>5 DEF StartTurn, Prepare, front, history
<1>6. CASE Token(w)
  BY <1>6 DEF Token, front, history
<1>7. CASE EndTurn(w)
  BY <1>7 DEF EndTurn, After, front, Kept3
<1>8. CASE Interrupt(w)
  BY <1>8 DEF Interrupt, front, Kept3
<1>9. CASE StartRound(w)
  BY <1>9 DEF StartRound, Prepare, front
<1>10. CASE LeaveGoal(w) \/ RefuseRound(w)
  BY <1>10 DEF LeaveGoal, RefuseRound, front, history
<1>11. CASE EndRound(w) \/ FailRound(w)
  <2>1. CASE EndRound(w)
    BY <2>1 DEF EndRound, front, Kept3
  <2>2. CASE FailRound(w)
    BY <2>2 DEF FailRound, front, Kept3
  <2> QED
    BY <1>11, <2>1, <2>2
<1>12. CASE Submit(w)
  BY <1>12 DEF Submit, Dispatch, history
<1>13. CASE Drain
  BY <1>13 DEF Drain, Dispatch, history
<1>14. CASE TypeAhead \/ UNCHANGED vars
  <2>1. CASE TypeAhead
    BY <2>1 DEF TypeAhead
  <2>2. CASE UNCHANGED vars
    BY <2>2 DEF vars, front, history
  <2> QED
    BY <1>14, <2>1, <2>2
<1>15. CASE Cancel \/ Quit
  <2>1. CASE Cancel
    BY <2>1 DEF Cancel
  <2>2. CASE Quit
    BY <2>2 DEF Quit
  <2> QED
    BY <1>15, <2>1, <2>2
<1> QED
  BY <1>1, <1>2, <1>3, <1>4, <1>5, <1>6, <1>7, <1>8, <1>9, <1>10, <1>11, <1>12, <1>13, <1>14, <1>15
  DEF Next, Work

LEMMA FlagHolds ==
  ASSUME NEW w, Workers = {w}, Shape(w), Flag(w), Verdicts(w), [Next]_vars
  PROVE  Flag(w)'
<1> USE DEF Shape, Flag, InRound, Places, To
<1>1. CASE Begin(w)
  BY <1>1 DEF Begin, gvars, history
<1>2. CASE End(w)
  BY <1>2 DEF End, Dismiss, gvars
<1>3. CASE Attach(w) \/ ToggleWrite(w) \/ Clear(w) \/ Resume(w) \/ GoalStop(w)
  <2>1. CASE Attach(w)
    BY <2>1 DEF Attach, gvars, history
  <2>2. CASE ToggleWrite(w)
    BY <2>2 DEF ToggleWrite, gvars, history
  <2>3. CASE Clear(w)
    BY <2>3 DEF Clear, gvars, history
  <2>4. CASE Resume(w)
    BY <2>4 DEF Resume, gvars, history
  <2>5. CASE GoalStop(w)
    BY <2>5 DEF GoalStop, gvars, history
  <2> QED
    BY <1>3, <2>1, <2>2, <2>3, <2>4, <2>5
<1>4. CASE StartGoal(w) \/ Choose(w)
  <2>1. CASE StartGoal(w)
    BY <2>1 DEF StartGoal, Engage, gvars, history
  <2>2. CASE Choose(w)
    <3>1. pc[w] = "choice" /\ stopped' = stopped /\ ~stopped /\ active = FALSE
      BY <2>2 DEF Choose, history
    <3>2. (active' = TRUE /\ pc'[w] = "goal") \/ (active' = FALSE /\ pc'[w] = "ending")
      BY <2>2, <3>1 DEF Choose, Engage, gvars
    <3> QED
      BY <3>1, <3>2
  <2> QED
    BY <1>4, <2>1, <2>2
<1>5. CASE StartTurn(w)
  BY <1>5 DEF StartTurn, Prepare, gvars, history
<1>6. CASE Token(w)
  BY <1>6 DEF Token, gvars, history
<1>7. CASE EndTurn(w)
  BY <1>7 DEF EndTurn, After, gvars, Kept3
<1>8. CASE Interrupt(w)
  BY <1>8 DEF Interrupt, Paused, Halt, gvars, Kept3
<1>9. CASE StartRound(w)
  BY <1>9 DEF StartRound, Prepare, NextRound
<1>10. CASE LeaveGoal(w) \/ RefuseRound(w)
  BY <1>10 DEF LeaveGoal, RefuseRound, LoopExit, Paused, Halt, history
<1>11. CASE FailRound(w)
  <2>1. pc[w] = "turn" /\ turn[w].kind = "goal" /\ why = "none"
    BY <1>11 DEF FailRound, Verdicts
  <2>2. stopped' = stopped /\ pc' = [pc EXCEPT ![w] = IF why' = "none" THEN "goal" ELSE "ending"]
    BY <1>11 DEF FailRound, Kept3
  <2>3. (why' = "none" /\ active' = active) \/ (why' # "none" /\ active' = FALSE)
    BY <1>11, <2>1 DEF FailRound, Crashed, Halt
  <2>6. stopped' \in BOOLEAN /\ active' \in BOOLEAN
    BY <2>2, <2>3
  <2>7. CASE why' = "none"
    <3>1. pc'[w] = "goal" /\ active' = active
      BY <2>2, <2>3, <2>7
    <3> QED
      BY <2>2, <2>6, <3>1
  <2>8. CASE why' # "none"
    <3>1. pc'[w] = "ending" /\ active' = FALSE
      BY <2>2, <2>3, <2>8
    <3> QED
      BY <2>6, <3>1
  <2> QED
    BY <2>7, <2>8
<1>12. CASE Submit(w)
  BY <1>12 DEF Submit, Dispatch, gvars, history
<1>13. CASE Drain
  BY <1>13 DEF Drain, Dispatch, gvars, history
<1>14. CASE TypeAhead
  BY <1>14 DEF TypeAhead
<1>15. CASE Cancel \/ Quit \/ UNCHANGED vars
  BY <1>15 DEF Cancel, Quit, vars, gvars, history
<1>16. CASE EndRound(w)
  <2>1. pc[w] = "turn" /\ turn[w].kind = "goal" /\ why = "none" /\ GoalTypes /\ Counted
    BY <1>16 DEF EndRound, Verdicts
  <2>2. stopped' = stopped /\ pc' = [pc EXCEPT ![w] = IF why' = "none" THEN "goal" ELSE "ending"]
    BY <1>16 DEF EndRound, Kept3
  <2>3. PICK r \in Outcomes : Evaluate(r)
    BY <1>16 DEF EndRound
  <2>4. (why' = "none" /\ active' = active) \/ (why' # "none" /\ active' = FALSE)
    BY <2>1, <2>3, EvaluateCounts
  <2>6. stopped' \in BOOLEAN /\ active' \in BOOLEAN
    BY <2>2, <2>4
  <2>7. CASE why' = "none"
    <3>1. pc'[w] = "goal" /\ active' = active
      BY <2>2, <2>4, <2>7
    <3> QED
      BY <2>2, <2>6, <3>1
  <2>8. CASE why' # "none"
    <3>1. pc'[w] = "ending" /\ active' = FALSE
      BY <2>2, <2>4, <2>8
    <3> QED
      BY <2>6, <3>1
  <2> QED
    BY <2>7, <2>8
<1> QED
  BY <1>1, <1>2, <1>3, <1>4, <1>5, <1>6, <1>7, <1>8, <1>9, <1>10, <1>11, <1>12, <1>13, <1>14, <1>15, <1>16
  DEF Next, Work

LEMMA RideHolds ==
  ASSUME NEW w, Workers = {w}, Shape(w), Ride(w), [Next]_vars
  PROVE  Ride(w)'
<1> USE DEF Shape, Ride, Places, To
<1>1. CASE Begin(w) \/ End(w)
  <2>1. CASE Begin(w)
    BY <2>1 DEF Begin, session, history
  <2>2. CASE End(w)
    BY <2>2 DEF End, session
  <2> QED
    BY <1>1, <2>1, <2>2
<1>2. CASE Attach(w) \/ Clear(w)
  BY <1>2 DEF Attach, Clear
<1>3. CASE ToggleWrite(w) \/ Resume(w) \/ GoalStop(w)
  BY <1>3 DEF ToggleWrite, Resume, GoalStop, session, history
<1>4. CASE StartGoal(w) \/ Choose(w)
  BY <1>4 DEF StartGoal, Choose, session, history
<1>5. CASE StartTurn(w)
  BY <1>5 DEF StartTurn, Prepare, history
<1>6. CASE Token(w)
  BY <1>6 DEF Token, session, history
<1>7. CASE EndTurn(w)
  BY <1>7 DEF EndTurn, After, Finalize, Raise
<1>8. CASE Interrupt(w)
  BY <1>8 DEF Interrupt, Finalize
<1>9. CASE StartRound(w)
  BY <1>9 DEF StartRound, Prepare
<1>10. CASE LeaveGoal(w) \/ RefuseRound(w)
  BY <1>10 DEF LeaveGoal, RefuseRound, session, history
<1>11. CASE EndRound(w) \/ FailRound(w)
  BY <1>11 DEF EndRound, FailRound, Finalize, Raise
<1>12. CASE Submit(w)
  BY <1>12 DEF Submit, Dispatch, session, history
<1>13. CASE Drain
  BY <1>13 DEF Drain, Dispatch, session, history
<1>14. CASE TypeAhead \/ Cancel \/ Quit \/ UNCHANGED vars
  BY <1>14 DEF TypeAhead, Cancel, Quit, vars, session, history
<1> QED
  BY <1>1, <1>2, <1>3, <1>4, <1>5, <1>6, <1>7, <1>8, <1>9, <1>10, <1>11, <1>12, <1>13, <1>14
  DEF Next, Work

LEMMA VerdictsHold ==
  ASSUME NEW w, Workers = {w}, Shape(w), Flag(w), Verdicts(w), [Next]_vars
  PROVE  Verdicts(w)'
<1> USE DEF Shape, InRound, Places, To
<1> DEFINE Same == UNCHANGED <<completed, judge, why, record>>
<1>a. ASSUME Same
      PROVE  /\ GoalTypes' /\ DoneIsEarned' /\ IdleIsEarned'
             /\ Counted => Counted'
             /\ why = "none" => why' = "none"
  BY <1>a DEF GoalTypes, Counted, LastOnes, Kept, DoneIsEarned, IdleIsEarned, Verdicts
<1>b. ASSUME Same, InRound(w)' => InRound(w)
      PROVE  Verdicts(w)'
  BY <1>a, <1>b DEF Verdicts
<1> HIDE DEF Same
<1>1. CASE Begin(w)
  BY <1>1, <1>b DEF Begin, gvars, Same
<1>2. CASE End(w)
  <2>1. ~InRound(w)'
    BY <1>2 DEF End
  <2>2. CASE Dismiss
    <3>1. GoalTypes' /\ why' = "none"
      BY <2>2, DismissTypes DEF Verdicts
    <3> QED
      BY <2>1, <3>1 DEF Verdicts, DoneIsEarned, IdleIsEarned
  <2>3. CASE UNCHANGED gvars
    BY <2>1, <2>3, <1>b DEF gvars, Same
  <2> QED
    BY <1>2, <2>2, <2>3 DEF End
<1>3. CASE Attach(w) \/ ToggleWrite(w) \/ Resume(w) \/ GoalStop(w)
  BY <1>3, <1>b DEF Attach, ToggleWrite, Resume, GoalStop, gvars, Same
<1>4. CASE Clear(w)
  <2>1. ~InRound(w)'
    BY <1>4 DEF Clear
  <2>2. completed' = 0 /\ judge' = judge /\ why' = why /\ record' = record
    BY <1>4 DEF Clear
  <2>3. GoalTypes' /\ DoneIsEarned' /\ IdleIsEarned'
    BY <2>2, ConstantTypes DEF GoalTypes, Kept, DoneIsEarned, IdleIsEarned, Verdicts
  <2> QED
    BY <2>1, <2>3 DEF Verdicts
<1>5. CASE Engage
  BY <1>5, EngageCounts DEF Verdicts, DoneIsEarned, IdleIsEarned
<1>6. CASE StartGoal(w) \/ Choose(w)
  <2>1. CASE ~Engage
    BY <1>6, <2>1, <1>b DEF StartGoal, Choose, gvars, Same
  <2> QED
    BY <1>5, <2>1
<1>7. CASE StartTurn(w)
  BY <1>7, <1>b DEF StartTurn, Prepare, gvars, Same
<1>8. CASE Token(w)
  BY <1>8, <1>b DEF Token, gvars, Same
<1>9. CASE EndTurn(w)
  BY <1>9, <1>b DEF EndTurn, After, gvars, Same
<1>10. CASE Interrupt(w) \/ LeaveGoal(w) \/ RefuseRound(w)
  <2>1. ~InRound(w)'
    BY <1>10 DEF Interrupt, LeaveGoal, RefuseRound
  <2>2. CASE UNCHANGED gvars
    BY <2>1, <2>2, <1>b DEF gvars, Same
  <2>3. ASSUME NEW reason \in {"interrupted", "refused", "budget", "stopped"}, NEW items \in Nat,
               Halt(reason), Ledger(items), judge' = judge, record' = record
        PROVE  Verdicts(w)'
    <3>1. why' = reason
      BY <2>3 DEF Halt
    <3>2. completed' \in Nat /\ completed' <= ListCap
      BY <2>3, LedgerGrows DEF Verdicts
    <3>3. GoalTypes'
      BY <2>3, <3>2 DEF GoalTypes, Kept, Verdicts
    <3> QED
      BY <2>1, <3>1, <3>3 DEF Verdicts, DoneIsEarned, IdleIsEarned
  <2>4. CASE LoopExit
    <3>1. why' \in {"budget", "stopped"} /\ completed' = completed /\ judge' = judge /\ record' = record
      BY <2>4 DEF LoopExit, Halt
    <3>2. GoalTypes'
      BY <3>1 DEF GoalTypes, Kept, Verdicts
    <3> QED
      BY <2>1, <3>1, <3>2 DEF Verdicts, DoneIsEarned, IdleIsEarned
  <2>5. CASE \E items \in {0, 1} : Paused("interrupted", items) \/ Paused("refused", items)
    BY <2>3, <2>5 DEF Paused
  <2> QED
    BY <1>10, <2>2, <2>4, <2>5 DEF Interrupt, LeaveGoal, RefuseRound
<1>11. CASE StartRound(w)
  BY <1>11, <1>b DEF StartRound, NextRound, Same
<1>12. CASE FailRound(w)
  <2>1. InRound(w) /\ why = "none" /\ Counted
    BY <1>12 DEF FailRound, Verdicts
  <2>2. PICK items \in {0, 1} : Crashed(items)
    BY <1>12 DEF FailRound
  <2>3. /\ Ledger(items) /\ judge' = judge /\ record' = record
        /\ why' = "none" \/ why' = "crashes"
    BY <2>1, <2>2 DEF Crashed, Halt
  <2>4. completed' \in Nat /\ completed <= completed' /\ completed' <= ListCap
    BY <2>3, LedgerGrows DEF Verdicts
  <2>5. GoalTypes'
    BY <2>3, <2>4 DEF GoalTypes, Kept, Verdicts
  <2>6. Counted'
    <3>1. judge.before \in Nat /\ completed \in Nat /\ judge.before <= completed
      BY <2>1 DEF Counted, GoalTypes, Verdicts
    <3>2. judge.before <= completed'
      BY <2>4, <3>1
    <3> QED
      BY <2>1, <2>3, <3>2 DEF Counted, LastOnes, Kept
  <2>7. InRound(w)' => why' = "none"
    BY <1>12 DEF FailRound
  <2> QED
    BY <2>3, <2>5, <2>6, <2>7 DEF Verdicts, DoneIsEarned, IdleIsEarned
<1>13. CASE EndRound(w)
  <2>1. why = "none" /\ Counted /\ GoalTypes
    BY <1>13 DEF EndRound, Verdicts
  <2>2. PICK r \in Outcomes : Evaluate(r)
    BY <1>13 DEF EndRound
  <2>3. GoalTypes' /\ DoneIsEarned' /\ IdleIsEarned' /\ (why' = "none" => Counted')
    BY <2>1, <2>2, EvaluateCounts
  <2>4. InRound(w)' => why' = "none"
    BY <1>13 DEF EndRound
  <2> QED
    BY <2>3, <2>4 DEF Verdicts
<1>14. CASE Submit(w) \/ Drain
  BY <1>14, <1>b DEF Submit, Drain, Dispatch, gvars, Same
<1>15. CASE TypeAhead \/ Cancel \/ Quit \/ UNCHANGED vars
  BY <1>15, <1>b DEF TypeAhead, Cancel, Quit, vars, gvars, Same
<1> QED
  BY <1>1, <1>2, <1>3, <1>4, <1>6, <1>7, <1>8, <1>9, <1>10, <1>11, <1>12, <1>13, <1>14, <1>15
  DEF Next, Work

-----------------------------------------------------------------------------
\* What holds of every reachable state of a session with one worker.
ChatInv(w) == Shape(w) /\ Pressing(w) /\ Flag(w) /\ Ride(w) /\ Verdicts(w)

LEMMA Start ==
  ASSUME NEW w, Workers = {w}, Init
  PROVE  ChatInv(w)
<1> USE DEF Init
<1>1. Shape(w) /\ Pressing(w)
  BY DEF Shape, Places, Pressing, NoTurn
<1>2. Flag(w)
  BY DEF Flag, InRound, GInit
<1>3. Ride(w)
  BY DEF Ride
<1>4. judge = Fresh /\ record = <<>> /\ completed = 0 /\ why = "none"
  BY DEF GInit
<1>5. judge.streak = 0 /\ judge.idle = 0 /\ judge.before = 0
  BY <1>4 DEF Fresh
<1>6. record \in Seq(Entries) /\ Len(record) = 0
  BY <1>4, EmptySeq
<1>7. GoalTypes
  BY <1>4, <1>5, <1>6, ConstantTypes DEF GoalTypes
<1>8. Verdicts(w)
  BY <1>4, <1>7 DEF Verdicts, InRound, DoneIsEarned, IdleIsEarned
<1> QED
  BY <1>1, <1>2, <1>3, <1>8 DEF ChatInv

LEMMA Always ==
  ASSUME NEW w, Workers = {w}
  PROVE  Spec => []ChatInv(w)
<1>1. Init => ChatInv(w)
  BY Start
<1>2. ChatInv(w) /\ [Next]_vars => ChatInv(w)'
  BY ShapeHolds, PressingHolds, FlagHolds, RideHolds, VerdictsHold DEF ChatInv
<1> QED
  BY <1>1, <1>2, PTL DEF Spec

\* Attachments ride until a clean turn has used them or they are cleared, and
\* are not sent again (_consume_attachments, restore_attachments).
THEOREM AttachmentsRide ==
  ASSUME NEW w, Workers = {w}
  PROVE  Spec => []AttachmentsSurvive
<1>1. ChatInv(w) => AttachmentsSurvive
  BY DEF ChatInv, Ride, AttachmentsSurvive
<1> QED
  BY <1>1, Always, PTL

\* After a cancel nothing of a later turn gets through, and after /goal stop
\* no later round begins (raise_if_cancelled, on_input_submitted).
THEOREM StopsAreHonoured ==
  ASSUME NEW w, Workers = {w}
  PROVE  Spec => []StopIsHonoured
<1>1. ChatInv(w) => StopIsHonoured
  BY DEF ChatInv, Pressing, Flag, StopIsHonoured
<1> QED
  BY <1>1, Always, PTL

\* A turn is only ever interrupted by the cancel of its own line.
THEOREM CancelsAreFresh ==
  ASSUME NEW w, Workers = {w}
  PROVE  Spec => NoStaleCancel
<1>1. ASSUME ChatInv(w), NEW x \in Workers, Interrupt(x)
      PROVE  pressed
  <2>1. x = w /\ pc[w] = "turn" /\ cancel
    BY <1>1 DEF Interrupt
  <2>2. (busy <=> pc[w] \notin {"idle", "starting"}) /\ (pressed <=> (cancel /\ busy))
    BY <1>1 DEF ChatInv, Pressing
  <2> QED
    BY <2>1, <2>2
<1>2. ChatInv(w) => UsersOwn
  <2> SUFFICES ASSUME ChatInv(w), NEW x \in Workers, Interrupt(x)
               PROVE  pressed
    BY DEF UsersOwn
  <2> QED
    BY <1>1
<1>3. ChatInv(w) => [UsersOwn]_vars
  BY <1>2
<1> QED
  BY <1>3, Always, PTL DEF NoStaleCancel, Spec

\* A goal ends as done only on the rounds that earn it (evaluate_goal_round).
THEOREM VerdictsAreEarned ==
  ASSUME NEW w, Workers = {w}
  PROVE  Spec => []DoneIsEarned
<1>1. ChatInv(w) => DoneIsEarned
  BY DEF ChatInv, Verdicts
<1> QED
  BY <1>1, Always, PTL

\* A goal ends as idle only on the rounds that earn it (settled_no_progress).
THEOREM IdlenessIsEarned ==
  ASSUME NEW w, Workers = {w}
  PROVE  Spec => []IdleIsEarned
<1>1. ChatInv(w) => IdleIsEarned
  BY DEF ChatInv, Verdicts
<1> QED
  BY <1>1, Always, PTL

-----------------------------------------------------------------------------
(***************************************************************************)
(* The conversation a turn continues.                                      *)
(***************************************************************************)

\* The line is still to come: typed later, waiting, or taken and not yet run.
Comes(w, l) ==
  \/ \E i \in 1 .. Len(script) : script[i] = l
  \/ \E i \in 1 .. Len(queue) : queue[i] = l
  \/ pc[w] \in {"starting", "body"} /\ line[w] = l

\* The carry is of the last turn when its count is the session's; a session
\* that has lost turns since never gets old ones again; and what a running turn
\* took up is the turn before it.
Carried(w) ==
  /\ script \in Seq(Lines) /\ queue \in Seq(Lines)
  /\ line = [x \in Workers |-> line[x]]
  /\ turns \in Seq(Int) /\ born \in Nat
  /\ Comes(w, "/clear") => ~Comes(w, "/resume")
  /\ carry # NoCarry =>
       /\ carry.count \in Nat \ {0}
       /\ carry.count = Len(turns) => carry.last = turns[Len(turns)]
       /\ carry.count > Len(turns) => resumed \/ ~Comes(w, "/resume")
  /\ pc[w] = "turn" /\ turn[w].carried # {}
       => turns # <<>> /\ turn[w].carried = {turns[Len(turns)]}

\* A step takes lines from the script and the queue and adds none.
LEMMA NothingNewComes ==
  ASSUME NEW w, Workers = {w}, Shape(w), Carried(w), [Next]_vars, NEW l
  PROVE  /\ script' \in Seq(Lines) /\ queue' \in Seq(Lines)
         /\ line' = [x \in Workers |-> line'[x]]
         /\ Comes(w, l)' => Comes(w, l)
<1>1. CASE Work(w)
  <2>1. script' = script /\ queue' = queue /\ line' = line
    BY <1>1 DEF Work, Begin, End, Attach, ToggleWrite, Clear, Resume, GoalStop, StartGoal,
                StartTurn, Token, EndTurn, Interrupt, Choose, StartRound, LeaveGoal, RefuseRound,
                EndRound, FailRound, front, Kept3
  <2>2. pc'[w] \in {"starting", "body"} => pc[w] \in {"starting", "body"}
    <3>1. CASE Begin(w) \/ pc[w] = "body"
      BY <3>1 DEF Begin
    <3>2. CASE Token(w)
      BY <3>2 DEF Token
    <3>3. CASE End(w)
      BY <3>3 DEF End, Shape, To
    <3>4. CASE EndTurn(w)
      BY <3>4 DEF EndTurn, Shape, To, After
    <3>5. CASE Interrupt(w)
      BY <3>5 DEF Interrupt, Shape, To
    <3>6. CASE Choose(w)
      BY <3>6 DEF Choose, Shape, To
    <3>7. CASE StartRound(w)
      BY <3>7 DEF StartRound, Prepare, Shape, To
    <3>8. CASE LeaveGoal(w) \/ RefuseRound(w)
      BY <3>8 DEF LeaveGoal, RefuseRound, Shape, To
    <3>9. CASE EndRound(w) \/ FailRound(w)
      BY <3>9 DEF EndRound, FailRound, Shape, To
    <3> QED
      BY <1>1, <3>1, <3>2, <3>3, <3>4, <3>5, <3>6, <3>7, <3>8, <3>9
      DEF Work, Attach, ToggleWrite, Clear, Resume, GoalStop, StartGoal, StartTurn
  <2> QED
    BY <2>1, <2>2 DEF Carried, Comes
<1>2. CASE Submit(w)
  <2>1. /\ script # <<>> /\ script' = Tail(script) /\ queue' = queue
        /\ pc'[w] = "starting" /\ line' = [line EXCEPT ![w] = Head(script)]
    BY <1>2 DEF Submit, Types, Dispatch, Shape
  <2>2. script' \in Seq(Lines) /\ line'[w] = script[1]
    BY <2>1 DEF Carried
  <2>3. \A i \in 1 .. Len(script') : i + 1 \in 1 .. Len(script) /\ script'[i] = script[i + 1]
    BY <2>1 DEF Carried
  <2>4. 1 \in 1 .. Len(script)
    BY <2>1 DEF Carried
  <2> QED
    BY <2>1, <2>2, <2>3, <2>4 DEF Carried, Comes
<1>3. CASE TypeAhead
  <2>1. /\ script # <<>> /\ script' = Tail(script) /\ pc' = pc /\ line' = line
        /\ queue' = queue \/ queue' = Append(queue, Head(script))
    BY <1>3 DEF TypeAhead, Types
  <2>2. script' \in Seq(Lines) /\ script[1] \in Lines /\ 1 \in 1 .. Len(script)
    BY <2>1 DEF Carried
  <2>3. \A i \in 1 .. Len(script') : i + 1 \in 1 .. Len(script) /\ script'[i] = script[i + 1]
    BY <2>1 DEF Carried
  <2>4. /\ queue' \in Seq(Lines)
        /\ \A i \in 1 .. Len(queue') : \/ i \in 1 .. Len(queue) /\ queue'[i] = queue[i]
                                       \/ queue'[i] = script[1]
    <3>1. queue \in Seq(Lines) /\ Head(script) = script[1] /\ script[1] \in Lines
      BY <2>1, <2>2 DEF Carried
    <3>2. CASE queue' = queue
      BY <3>1, <3>2
    <3>3. CASE queue' = Append(queue, Head(script))
      BY <3>1, <3>3
    <3> QED
      BY <2>1, <3>2, <3>3
  <2>5. (\E i \in 1 .. Len(script') : script'[i] = l) => Comes(w, l)
    BY <2>3 DEF Comes
  <2>6. (\E i \in 1 .. Len(queue') : queue'[i] = l) => Comes(w, l)
    BY <2>2, <2>4 DEF Comes
  <2>7. pc'[w] \in {"starting", "body"} /\ line'[w] = l => Comes(w, l)
    BY <2>1 DEF Comes
  <2>8. Comes(w, l)' => Comes(w, l)
    BY <2>5, <2>6, <2>7 DEF Comes
  <2> QED
    BY <2>1, <2>2, <2>4, <2>8 DEF Carried
<1>4. CASE Drain
  <2>1. CASE UNCHANGED <<queue, pc, line>>
    BY <1>4, <2>1 DEF Drain, Carried, Comes
  <2>2. CASE queue # <<>> /\ queue' = Tail(queue) /\ Dispatch(w, Head(queue))
    <3>1. /\ script' = script /\ pc'[w] = "starting" /\ line' = [line EXCEPT ![w] = Head(queue)]
      BY <1>4, <2>2 DEF Drain, Dispatch, Shape
    <3>2. queue' \in Seq(Lines) /\ line'[w] = queue[1] /\ 1 \in 1 .. Len(queue)
      BY <2>2, <3>1 DEF Carried
    <3>3. \A i \in 1 .. Len(queue') : i + 1 \in 1 .. Len(queue) /\ queue'[i] = queue[i + 1]
      BY <2>2 DEF Carried
    <3>4. (\E i \in 1 .. Len(queue') : queue'[i] = l) => Comes(w, l)
      BY <3>3 DEF Comes
    <3>5. pc'[w] \in {"starting", "body"} /\ line'[w] = l => Comes(w, l)
      BY <3>2 DEF Comes
    <3>6. (\E i \in 1 .. Len(script') : script'[i] = l) => Comes(w, l)
      BY <3>1 DEF Comes
    <3>7. Comes(w, l)' => Comes(w, l)
      BY <3>4, <3>5, <3>6 DEF Comes
    <3> QED
      BY <3>1, <3>2, <3>7 DEF Carried
  <2> QED
    BY <1>4, <2>1, <2>2 DEF Drain
<1>5. CASE Cancel \/ Quit \/ UNCHANGED vars
  BY <1>5 DEF Cancel, Quit, vars, front, Carried, Comes
<1> QED
  BY <1>1, <1>2, <1>3, <1>4, <1>5 DEF Next

\* What a turn records, and what it hands on.
LEMMA FinalizeCarries ==
  ASSUME NEW w, NEW clean \in BOOLEAN, turns \in Seq(Int), born \in Nat, Finalize(w, clean)
  PROVE  /\ turns' \in Seq(Int) /\ born' \in Nat
         /\ carry' # NoCarry =>
              /\ carry'.count \in Nat \ {0} /\ carry'.count = Len(turns')
              /\ carry'.last = turns'[Len(turns')]
<1>1. turns' = Append(turns, born + 1) /\ born' = born + 1
  BY DEF Finalize
<1>2. turns' \in Seq(Int) /\ Len(turns') = Len(turns) + 1 /\ turns'[Len(turns) + 1] = born + 1
  BY <1>1
<1>3. carry' # NoCarry => carry'.count = Len(turns) + 1 /\ carry'.last = born + 1
  BY DEF Finalize
<1>4. Len(turns) + 1 \in Nat \ {0}
  OBVIOUS
<1> QED
  BY <1>1, <1>2, <1>3, <1>4

LEMMA Appended ==
  ASSUME NEW s \in Seq(Int), NEW t \in Seq(Int)
  PROVE  /\ s \o t \in Seq(Int) /\ Len(s \o t) = Len(s) + Len(t) /\ Len(t) \in Nat
         /\ Len(t) = 0 => s \o t = s
<1>1. s \o t \in Seq(Int) /\ Len(s \o t) = Len(s) + Len(t)
  OBVIOUS
<1>2. Len(t) \in Nat
  OBVIOUS
<1>3. ASSUME Len(t) = 0 PROVE s \o t = s
  BY <1>3
<1> QED
  BY <1>1, <1>2, <1>3

LEMMA CarriedHolds ==
  ASSUME NEW w, Workers = {w}, Shape(w), Carried(w), [Next]_vars
  PROVE  Carried(w)'
<1> DEFINE Kept2 == UNCHANGED <<turns, born, carry, resumed>>
           Idle == pc'[w] = "turn" => turn'[w].carried = {} \/ (pc[w] = "turn" /\ turn'[w].carried = turn[w].carried)
<1>1. /\ script' \in Seq(Lines) /\ queue' \in Seq(Lines) /\ line' = [x \in Workers |-> line'[x]]
      /\ Comes(w, "/clear")' => Comes(w, "/clear")
      /\ Comes(w, "/resume")' => Comes(w, "/resume")
  BY NothingNewComes
<1>2. Comes(w, "/clear")' => ~Comes(w, "/resume")'
  BY <1>1 DEF Carried
<1>3. ASSUME Kept2, Idle
      PROVE  Carried(w)'
  BY <1>1, <1>2, <1>3 DEF Carried
<1>4. ASSUME NEW clean \in BOOLEAN, Finalize(w, clean), pc'[w] # "turn"
      PROVE  Carried(w)'
  <2>1. /\ turns' \in Seq(Int) /\ born' \in Nat
        /\ carry' # NoCarry => /\ carry'.count \in Nat \ {0} /\ carry'.count = Len(turns')
                               /\ carry'.last = turns'[Len(turns')]
    BY <1>4, FinalizeCarries DEF Carried
  <2>2. Len(turns') \in Nat
    BY <2>1
  <2> QED
    BY <1>1, <1>2, <1>4, <2>1, <2>2 DEF Carried
<1>5. ASSUME Raise, resumed' = resumed, pc'[w] # "turn"
      PROVE  Carried(w)'
  BY <1>3, <1>5 DEF Raise
<1> HIDE DEF Kept2, Idle
<1>6. CASE Clear(w)
  <2>1. /\ turns' = <<>> /\ born' = born /\ carry' = carry /\ resumed' = resumed
        /\ pc'[w] # "turn" /\ Comes(w, "/clear")
    BY <1>6 DEF Clear, Shape, To, Comes
  <2>2. <<>> \in Seq(Int) /\ Len(<<>>) = 0
    OBVIOUS
  <2>3. ~Comes(w, "/resume")
    BY <2>1 DEF Carried
  <2> QED
    BY <1>1, <1>2, <2>1, <2>2, <2>3 DEF Carried
<1>7. CASE Resume(w)
  <2>1. /\ born' = born /\ carry' = carry /\ resumed' = TRUE /\ pc'[w] # "turn"
        /\ turns' = turns \/ (~resumed /\ turns' = turns \o Old)
        /\ Comes(w, "/resume")
    BY <1>7 DEF Resume, Shape, To, Comes
  <2>2. turns \in Seq(Int) /\ Old \in Seq(Int)
    BY ChatAssumption DEF Carried
  <2>3. turns' \in Seq(Int) /\ Len(turns') >= Len(turns)
    <3>1. CASE turns' = turns \o Old
      <4>1. turns' \in Seq(Int) /\ Len(turns') = Len(turns) + Len(Old) /\ Len(Old) \in Nat
        BY <2>2, <3>1, Appended
      <4> QED
        BY <2>2, <4>1
    <3> QED
      BY <2>1, <2>2, <3>1
  <2>4. ASSUME carry # NoCarry, carry.count = Len(turns')
        PROVE  carry.last = turns'[Len(turns')]
    <3>1. carry.count = Len(turns) /\ carry.last = turns[Len(turns)]
      BY <2>1, <2>2, <2>3, <2>4 DEF Carried
    <3>2. Len(turns) = Len(turns') /\ turns' = turns
      <4>1. CASE turns' = turns \o Old
        <5>1. Len(turns') = Len(turns) + Len(Old) /\ Len(Old) \in Nat /\ Len(turns) \in Nat
          BY <2>2, <4>1, Appended
        <5>2. Len(Old) = 0
          <6>1. Len(turns) = Len(turns) + Len(Old)
            BY <2>4, <3>1, <5>1
          <6>2. \A a, b \in Nat : a = a + b => b = 0
            OBVIOUS
          <6> QED
            BY <5>1, <6>1, <6>2, Zenon
        <5> QED
          BY <2>2, <3>1, <4>1, <5>1, <5>2, Appended
      <4> QED
        BY <2>1, <4>1
    <3> QED
      BY <3>1, <3>2
  <2> QED
    BY <1>1, <1>2, <2>1, <2>3, <2>4 DEF Carried
<1>8. CASE StartTurn(w) \/ StartRound(w)
  <2>1. Kept2 /\ ((UNCHANGED turn /\ pc'[w] = "ending") \/ \E kind \in {"plan", "free", "goal"} : Prepare(w, kind))
    BY <1>8 DEF StartTurn, StartRound, Kept2, Shape, To
  <2>2. CASE pc'[w] = "ending"
    BY <1>3, <2>1, <2>2 DEF Idle
  <2>3. ASSUME NEW kind, Prepare(w, kind)
        PROVE  Carried(w)'
    <3>1. PICK rides \in {{}, IF Carries(kind) THEN {carry.last} ELSE {}} :
            turn'[w].carried = rides
      BY <2>3 DEF Prepare, Shape
    <3>2. CASE rides = {}
      BY <1>3, <2>1, <3>1, <3>2 DEF Idle
    <3>3. CASE Carries(kind) /\ rides = {carry.last}
      <4>1. carry # NoCarry /\ carry.count = Len(turns)
        BY <3>3 DEF Carries
      <4>2. turns # <<>> /\ carry.last = turns[Len(turns)]
        BY <4>1 DEF Carried
      <4> QED
        BY <1>1, <1>2, <2>1, <3>1, <3>3, <4>2 DEF Carried, Kept2
    <3> QED
      BY <3>1, <3>2, <3>3
  <2> QED
    BY <2>1, <2>2, <2>3
<1>9. CASE EndTurn(w)
  <2>1. /\ resumed' = resumed /\ pc'[w] # "turn"
        /\ Raise \/ \E clean \in BOOLEAN : Finalize(w, clean)
    BY <1>9 DEF EndTurn, Kept3, Shape, To, After
  <2> QED
    BY <1>4, <1>5, <2>1
<1>10. CASE Interrupt(w)
  <2>1. Finalize(w, FALSE) /\ pc'[w] # "turn"
    BY <1>10 DEF Interrupt, Shape, To
  <2> QED
    BY <1>4, <2>1
<1>11. CASE EndRound(w) \/ FailRound(w)
  <2>1. /\ resumed' = resumed /\ pc'[w] # "turn"
        /\ Raise \/ \E clean \in BOOLEAN : Finalize(w, clean)
    BY <1>11 DEF EndRound, FailRound, Kept3, Shape, To
  <2> QED
    BY <1>4, <1>5, <2>1
<1>12. CASE Begin(w) \/ End(w)
  BY <1>3, <1>12 DEF Begin, End, session, Shape, To, Kept2, Idle
<1>13. CASE Attach(w) \/ ToggleWrite(w) \/ GoalStop(w) \/ StartGoal(w)
  BY <1>3, <1>13 DEF Attach, ToggleWrite, GoalStop, StartGoal, session, Shape, To, Kept2, Idle
<1>14. CASE Token(w)
  BY <1>3, <1>14 DEF Token, session, Shape, Kept2, Idle
<1>15. CASE Choose(w) \/ LeaveGoal(w) \/ RefuseRound(w)
  BY <1>3, <1>15 DEF Choose, LeaveGoal, RefuseRound, session, Shape, To, Kept2, Idle
<1>16. CASE Submit(w) \/ Drain
  BY <1>3, <1>16 DEF Submit, Drain, Dispatch, session, Shape, Kept2, Idle
<1>17. CASE TypeAhead \/ Cancel \/ Quit \/ UNCHANGED vars
  BY <1>3, <1>17 DEF TypeAhead, Cancel, Quit, vars, session, Kept2, Idle
<1> QED
  BY <1>6, <1>7, <1>8, <1>9, <1>10, <1>11, <1>12, <1>13, <1>14, <1>15, <1>16, <1>17
  DEF Next, Work

\* A turn that continues a conversation continues the turn right before it, in
\* every session that is not both cleared and given an old one's turns: the
\* number of turns is what tells a conversation, and a session that is cleared
\* and resumed can come to the same number (_carry_for_turn, /clear, /resume).
THEOREM CarriesThePrevious ==
  ASSUME NEW w, Workers = {w},
         \A s \in Scripts : \A i, j \in 1 .. Len(s) : s[i] = "/clear" => s[j] # "/resume"
  PROVE  Spec => []CarryIsPrevious
<1>1. Init => Carried(w)
  <2> SUFFICES ASSUME Init PROVE Carried(w)
    OBVIOUS
  <2>1. /\ script \in Scripts /\ queue = <<>> /\ pc[w] = "idle" /\ line = [x \in Workers |-> "none"]
        /\ turns = <<>> /\ born = 0 /\ carry = NoCarry
    BY DEF Init
  <2>2. script \in Seq(Lines) /\ queue \in Seq(Lines) /\ turns \in Seq(Int) /\ Len(queue) = 0
    BY <2>1, ChatAssumption
  <2>3. Comes(w, "/clear") => ~Comes(w, "/resume")
    BY <2>1, <2>2 DEF Comes
  <2> QED
    BY <2>1, <2>2, <2>3 DEF Carried
<1>2. ChatInv(w) /\ Carried(w) /\ [Next]_vars => Carried(w)'
  BY CarriedHolds DEF ChatInv
<1>3. Carried(w) => CarryIsPrevious
  BY DEF Carried, CarryIsPrevious
<1> QED
  BY <1>1, <1>2, <1>3, Always, PTL DEF Spec
==============================================================================
