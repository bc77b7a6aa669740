--------------------------- MODULE McpClient_proofs ---------------------------
(***************************************************************************)
(* The MCP client's breaker, its caps, and the honesty of the start, for   *)
(* any number of servers and any thresholds, and however the loop's steps  *)
(* fall between the caller's.                                              *)
(***************************************************************************)
EXTENDS McpClient, FiniteSetTheorems, TLAPS

Past == {"discovering", "ready", "waiting"}

\* What holds of each server: its failures in a row are among those the
\* breaker counts, and it is down once they are too many; what was sent or is
\* still to be sent is counted, interrupted, or the call under way.
Pending(s) == IF main = "waiting" /\ callee = s THEN 1 ELSE 0
Queued(s) == IF coro = "queued" /\ callee = s THEN 1 ELSE 0

Tallied(s) ==
  /\ streak[s] <= failures[s]
  /\ failures[s] <= Breaker
  /\ failures[s] >= Breaker => s \in down
  /\ calls[s] + Pending(s) <= SessionCap
  /\ sent[s] + strays[s] + Queued(s) <= calls[s] + strayed[s] + Pending(s)

\* ... and of one the sweep has passed.
Honest(s) == s \in down \/ s \in session \/ task[s] = "leaving"

Calling ==
  /\ coro # "none" => main = "waiting"
  /\ main = "waiting" => failures[callee] < Breaker

SweptAreHonest ==
  \A s \in Servers : main \in Past \/ (main = "sweeping" /\ s \in passed) => Honest(s)

McpInv ==
  /\ McpTypeOK
  /\ \A s \in Servers : Tallied(s)
  /\ Calling
  /\ SweptAreHonest

LEMMA ConstantTypes ==
  /\ Breaker \in Nat \ {0} /\ HardCap \in Nat /\ SessionCap \in Nat /\ MaxStrays \in Nat
  BY McpAssumption

LEMMA StartsIn == Init => McpInv
<1> SUFFICES ASSUME Init PROVE McpInv
  OBVIOUS
<1>1. McpTypeOK
  BY DEF Init, McpTypeOK, States, Zero
<1>2. ASSUME NEW s \in Servers PROVE Tallied(s)
  BY ConstantTypes DEF Init, Tallied, Pending, Queued, Zero
<1>3. Calling /\ SweptAreHonest
  BY DEF Init, Calling, SweptAreHonest, Past
<1> QED
  BY <1>1, <1>2, <1>3 DEF McpInv

-----------------------------------------------------------------------------
\* The steps of a lifetime task leave the caller and the tallies alone: the
\* set of servers that are down may grow, and nothing the caller relies on
\* goes, save the session of a server that is then leaving or down.
LEMMA TaskKeeps ==
  ASSUME McpInv, NEW s \in Servers,
         Begin(s) \/ Connect(s) \/ Refuse(s) \/ Unwound(s) \/ Lose(s) \/ Leave(s) \/ ShutDown(s)
  PROVE  McpInv'
<1> USE DEF McpInv
<1>1. /\ UNCHANGED <<caller, failures, counts, strays, history>> /\ down \subseteq down'
  BY DEF Begin, Connect, Refuse, Unwound, Lose, Leave, ShutDown, runtime
<1>2. McpTypeOK'
  <2>1. /\ task' \in [Servers -> {"unborn", "connecting", "unwinding", "held", "leaving", "over"}]
        /\ ready' \subseteq Servers /\ session' \subseteq Servers /\ down' \subseteq Servers
    <3>1. CASE Begin(s) BY <3>1 DEF Begin, Task, runtime, McpTypeOK
    <3>2. CASE Connect(s) BY <3>2 DEF Connect, Task, McpTypeOK
    <3>3. CASE Refuse(s) BY <3>3 DEF Refuse, Task, McpTypeOK
    <3>4. CASE Unwound(s) BY <3>4 DEF Unwound, Task, runtime, McpTypeOK
    <3>5. CASE Lose(s) BY <3>5 DEF Lose, Task, McpTypeOK
    <3>6. CASE Leave(s) BY <3>6 DEF Leave, Task, McpTypeOK
    <3>7. CASE ShutDown(s) BY <3>7 DEF ShutDown, McpTypeOK
    <3> QED BY <3>1, <3>2, <3>3, <3>4, <3>5, <3>6, <3>7
  <2> QED
    BY <1>1, <2>1 DEF McpTypeOK, caller, counts, history
<1>3. ASSUME NEW r \in Servers PROVE Tallied(r)'
  BY <1>1 DEF Tallied, Pending, Queued, caller, counts, history
<1>4. Calling'
  BY <1>1 DEF Calling, caller
<1>5. SweptAreHonest'
  <2> SUFFICES ASSUME NEW r \in Servers, main \in Past \/ (main = "sweeping" /\ r \in passed)
               PROVE  Honest(r)'
    BY <1>1 DEF SweptAreHonest, caller
  <2>0. Honest(r)
    BY DEF SweptAreHonest
  <2>1. CASE Begin(s) BY <2>1 DEF Begin, Past
  <2>2. CASE Connect(s) BY <2>0, <2>2 DEF Connect, Task, Honest, McpTypeOK
  <2>3. CASE Refuse(s) BY <2>0, <2>3 DEF Refuse, Task, Honest, McpTypeOK
  <2>4. CASE Unwound(s) BY <2>0, <2>4 DEF Unwound, Task, runtime, Honest, McpTypeOK
  <2>5. CASE Lose(s) BY <2>0, <2>5 DEF Lose, Task, Honest, McpTypeOK
  <2>6. CASE Leave(s) BY <2>0, <2>6 DEF Leave, Task, Honest, McpTypeOK, Closing, Past
  <2>7. CASE ShutDown(s) BY <2>7 DEF ShutDown, Past
  <2> QED
    BY <2>1, <2>2, <2>3, <2>4, <2>5, <2>6, <2>7
<1> QED
  BY <1>2, <1>3, <1>4, <1>5

\* The caller's own steps outside of a call.
LEMMA StartKeeps ==
  ASSUME McpInv, Start \/ Deadline \/ Started \/ Swept \/ Discovered \/ Close \/ Closed
  PROVE  McpInv'
<1> USE DEF McpInv
<1>1. UNCHANGED <<callee, coro, task, ready, runtime, counts, strays, history>>
  BY DEF Start, Deadline, Started, Swept, Discovered, Close, Closed
<1>2. main # "waiting" /\ main' # "waiting" /\ main' \in States
      /\ expired' \in BOOLEAN /\ passed' \subseteq Servers
  BY DEF Start, Deadline, Started, Swept, Discovered, Close, Closed, States, McpTypeOK
<1>3. McpTypeOK'
  BY <1>1, <1>2 DEF McpTypeOK, runtime, counts, history
<1>4. ASSUME NEW r \in Servers PROVE Tallied(r)'
  BY <1>1, <1>2 DEF Tallied, Pending, Queued, runtime, counts, history
<1>5. Calling'
  BY <1>1, <1>2 DEF Calling
<1>6. SweptAreHonest'
  BY <1>1 DEF SweptAreHonest, Honest, Past, runtime, Start, Deadline, Started, Swept, Discovered, Close, Closed
<1> QED
  BY <1>3, <1>4, <1>5, <1>6

LEMMA SweepKeeps ==
  ASSUME McpInv, NEW s \in Servers, Sweep(s)
  PROVE  McpInv'
<1> USE DEF McpInv
<1>1. McpTypeOK'
  BY DEF Sweep, McpTypeOK, counts, history
<1>2. ASSUME NEW r \in Servers PROVE Tallied(r)'
  BY DEF Sweep, Tallied, Pending, Queued, counts, history
<1>3. Calling'
  BY DEF Sweep, Calling
<1>4. SweptAreHonest'
  BY DEF Sweep, SweptAreHonest, Honest, Past
<1> QED
  BY <1>1, <1>2, <1>3, <1>4

LEMMA DiscoverKeeps ==
  ASSUME McpInv, NEW s \in Servers, Discover(s)
  PROVE  McpInv'
<1> USE DEF McpInv
<1>1. McpTypeOK'
  BY DEF Discover, Failure, McpTypeOK, counts, history
<1>2. ASSUME NEW r \in Servers PROVE Tallied(r)'
  BY ConstantTypes DEF Discover, Failure, Tallied, Pending, Queued, counts, history, McpTypeOK
<1>3. Calling'
  BY DEF Discover, Calling
<1>4. SweptAreHonest'
  BY DEF Discover, Failure, SweptAreHonest, Honest, Past
<1> QED
  BY <1>1, <1>2, <1>3, <1>4

-----------------------------------------------------------------------------
\* A call: what may be submitted has room under its cap and has not failed too
\* often, and while the caller waits neither can change.
LEMMA SubmitKeeps ==
  ASSUME McpInv, NEW s \in Servers, Submit(s)
  PROVE  McpInv'
<1> USE DEF McpInv
<1>1. McpTypeOK'
  BY DEF Submit, McpTypeOK, runtime, counts, history, States
<1>2. ASSUME NEW r \in Servers PROVE Tallied(r)'
  BY ConstantTypes DEF Submit, Tallied, Pending, Queued, runtime, counts, history, McpTypeOK, Calling
<1>3. Calling'
  <2>1. failures[s] < Breaker
    BY ConstantTypes DEF Submit, Tallied, McpTypeOK
  <2> QED
    BY <2>1 DEF Submit, Calling, runtime
<1>4. SweptAreHonest'
  BY DEF Submit, SweptAreHonest, Honest, Past, runtime
<1> QED
  BY <1>1, <1>2, <1>3, <1>4

LEMMA LoopKeeps ==
  ASSUME McpInv, Run \/ Answer \/ \E s \in Servers : RunStray(s)
  PROVE  McpInv'
<1> USE DEF McpInv
<1>1. UNCHANGED <<main, callee, expired, passed, task, ready, runtime, counts, strayed, streak>>
  <2>1. CASE Run BY <2>1 DEF Run
  <2>2. CASE Answer BY <2>2 DEF Answer, history
  <2>3. CASE \E s \in Servers : RunStray(s) BY <2>3 DEF RunStray, caller
  <2> QED BY <2>1, <2>2, <2>3
<1>2. McpTypeOK'
  BY <1>1 DEF Run, Answer, RunStray, McpTypeOK, caller, runtime, counts, history
<1>3. ASSUME NEW r \in Servers PROVE Tallied(r)'
  <2>1. CASE Run BY <1>1, <2>1 DEF Run, Tallied, Pending, Queued, runtime, counts, McpTypeOK
  <2>2. CASE Answer BY <1>1, <2>2 DEF Answer, Tallied, Pending, Queued, runtime, counts, history, McpTypeOK
  <2>3. CASE \E s \in Servers : RunStray(s)
    BY <1>1, <2>3 DEF RunStray, Tallied, Pending, Queued, caller, runtime, counts, McpTypeOK
  <2> QED BY <2>1, <2>2, <2>3
<1>4. Calling'
  BY <1>1 DEF Run, Answer, RunStray, Calling, runtime, caller
<1>5. SweptAreHonest'
  BY <1>1 DEF SweptAreHonest, Honest, Past, runtime
<1> QED
  BY <1>2, <1>3, <1>4, <1>5

LEMMA ReturnKeeps ==
  ASSUME McpInv, Succeed \/ Fail \/ Interrupt
  PROVE  McpInv'
<1> USE DEF McpInv
<1>1. /\ main = "waiting" /\ main' = "ready" /\ coro' = "none"
      /\ UNCHANGED <<callee, expired, passed, task, ready, session, sent>>
      /\ down \subseteq down' /\ callee \in Servers
  BY DEF Succeed, Fail, Failure, Interrupt, runtime, McpTypeOK
<1>2. McpTypeOK'
  <2>1. CASE Succeed BY <2>1 DEF Succeed, Count, McpTypeOK, States
  <2>2. CASE Fail BY <2>2 DEF Fail, Failure, Count, McpTypeOK, States
  <2>3. CASE Interrupt BY <2>3 DEF Interrupt, McpTypeOK, States, runtime, counts
  <2> QED BY <2>1, <2>2, <2>3
<1>3. ASSUME NEW r \in Servers PROVE Tallied(r)'
  <2>1. CASE Succeed
    BY <1>1, <2>1, ConstantTypes DEF Succeed, Count, Tallied, Pending, Queued, McpTypeOK
  <2>2. CASE Fail
    BY <1>1, <2>2, ConstantTypes DEF Fail, Failure, Count, Tallied, Pending, Queued, McpTypeOK, Calling
  <2>3. CASE Interrupt
    BY <1>1, <2>3, ConstantTypes
       DEF Interrupt, Tallied, Pending, Queued, McpTypeOK, runtime, counts
  <2> QED BY <2>1, <2>2, <2>3
<1>4. Calling'
  BY <1>1 DEF Calling
<1>5. SweptAreHonest'
  BY <1>1 DEF SweptAreHonest, Honest, Past
<1> QED
  BY <1>2, <1>3, <1>4, <1>5

LEMMA NextKeeps == McpInv /\ [Next]_vars => McpInv'
<1> SUFFICES ASSUME McpInv, [Next]_vars PROVE McpInv'
  OBVIOUS
<1>1. CASE \E s \in Servers : \/ Begin(s) \/ Connect(s) \/ Refuse(s) \/ Unwound(s) \/ Lose(s)
                              \/ Leave(s) \/ ShutDown(s)
  BY <1>1, TaskKeeps
<1>2. CASE Start \/ Deadline \/ Started \/ Swept \/ Discovered \/ Close \/ Closed
  BY <1>2, StartKeeps
<1>3. CASE \E s \in Servers : Sweep(s) \/ Discover(s) \/ Submit(s)
  BY <1>3, SweepKeeps, DiscoverKeeps, SubmitKeeps
<1>4. CASE Run \/ Answer \/ \E s \in Servers : RunStray(s)
  BY <1>4, LoopKeeps
<1>5. CASE Succeed \/ Fail \/ Interrupt
  BY <1>5, ReturnKeeps
<1>6. CASE UNCHANGED vars
  BY <1>6 DEF vars, McpInv, McpTypeOK, Tallied, Pending, Queued, Calling, SweptAreHonest, Honest
<1> QED
  BY <1>1, <1>2, <1>3, <1>4, <1>5, <1>6 DEF Next

LEMMA AlwaysMcpInv == Spec => []McpInv
  BY StartsIn, NextKeeps, PTL DEF Spec

-----------------------------------------------------------------------------
\* The breaker trips in time for every threshold: no server fails more calls
\* in a row than _record_failure allows.
THEOREM BreakerHolds == Spec => []BreakerTrips
<1>1. McpInv => BreakerTrips
  BY ConstantTypes DEF McpInv, BreakerTrips, Tallied, McpTypeOK
<1> QED
  BY <1>1, AlwaysMcpInv, PTL

\* Once start() has swept, a server that counts as up has a session or is just
\* losing it, whenever it connected, failed or went away.
THEOREM StartIsHonest == Spec => []UpHasSession
<1>1. McpInv => UpHasSession
  BY DEF McpInv, UpHasSession, SweptAreHonest, Honest, Past
<1> QED
  BY <1>1, AlwaysMcpInv, PTL

-----------------------------------------------------------------------------
(***************************************************************************)
(* The hard cap is on a sum over the servers. The calls that nobody waits  *)
(* for and that are still to be run are counted as a set: the first, the   *)
(* second, ... of each server.                                             *)
(***************************************************************************)

OwedBy(n) == {p \in Servers \X Nat : 0 < p[2] /\ p[2] <= n[p[1]]}

Busy == IF main = "waiting" THEN 1 ELSE 0
Waits == IF coro = "queued" THEN 1 ELSE 0

\* What was sent or is still to be sent is counted, interrupted, or the call
\* under way; and what is counted has room under the cap.
CapInv ==
  /\ IsFiniteSet(OwedBy(strays))
  /\ sentAll + Cardinality(OwedBy(strays)) + Waits <= total + strayedAll + Busy
  /\ total + Busy <= HardCap

LEMMA OwedGrows ==
  ASSUME NEW n \in [Servers -> Nat], NEW s \in Servers, IsFiniteSet(OwedBy(n))
  PROVE  LET more == [n EXCEPT ![s] = @ + 1]
         IN  IsFiniteSet(OwedBy(more)) /\ Cardinality(OwedBy(more)) = Cardinality(OwedBy(n)) + 1
<1> DEFINE more == [n EXCEPT ![s] = @ + 1]
           new == <<s, n[s] + 1>>
<1>1. n[s] \in Nat /\ more[s] = n[s] + 1 /\ \A t \in Servers : t # s => more[t] = n[t]
  OBVIOUS
<1>2. OwedBy(more) = OwedBy(n) \cup {new}
  <2>1. ASSUME NEW t \in Servers, NEW i \in Nat
        PROVE  (0 < i /\ i <= more[t]) <=> ((0 < i /\ i <= n[t]) \/ (t = s /\ i = n[s] + 1))
    <3>1. CASE t = s
      BY <1>1, <3>1
    <3>2. CASE t # s
      BY <1>1, <3>2
    <3> QED
      BY <3>1, <3>2
  <2>2. ASSUME NEW t \in Servers, NEW i \in Nat
        PROVE  <<t, i>> \in OwedBy(more) <=> <<t, i>> \in OwedBy(n) \cup {new}
    <3>1. \A m : <<t, i>> \in OwedBy(m) <=> 0 < i /\ i <= m[t]
      BY <2>2 DEF OwedBy
    <3>2. <<t, i>> = new <=> t = s /\ i = n[s] + 1
      OBVIOUS
    <3> HIDE DEF new, more
    <3> QED
      BY <2>1, <2>2, <3>1, <3>2
  <2>3. OwedBy(more) \subseteq Servers \X Nat /\ OwedBy(n) \cup {new} \subseteq Servers \X Nat
    BY <1>1 DEF OwedBy
  <2> HIDE DEF more, new
  <2> QED
    BY <2>2, <2>3
<1>3. new \notin OwedBy(n)
  BY <1>1 DEF OwedBy
<1> HIDE DEF more, new
<1>4. /\ IsFiniteSet(OwedBy(n) \cup {new})
      /\ Cardinality(OwedBy(n) \cup {new}) = Cardinality(OwedBy(n)) + 1
  BY <1>3, FS_AddElement
<1> QED
  BY <1>2, <1>4 DEF more

LEMMA OwedShrinks ==
  ASSUME NEW n \in [Servers -> Nat], NEW s \in Servers, n[s] > 0, IsFiniteSet(OwedBy(n))
  PROVE  LET less == [n EXCEPT ![s] = @ - 1]
         IN  IsFiniteSet(OwedBy(less)) /\ Cardinality(OwedBy(less)) = Cardinality(OwedBy(n)) - 1
<1> DEFINE less == [n EXCEPT ![s] = @ - 1]
           old == <<s, n[s]>>
<1>1. n[s] \in Nat /\ n[s] > 0 /\ less[s] = n[s] - 1 /\ \A t \in Servers : t # s => less[t] = n[t]
  OBVIOUS
<1>2. OwedBy(less) = OwedBy(n) \ {old}
  <2>1. ASSUME NEW t \in Servers, NEW i \in Nat
        PROVE  (0 < i /\ i <= less[t]) <=> ((0 < i /\ i <= n[t]) /\ ~(t = s /\ i = n[s]))
    <3>1. CASE t = s
      BY <1>1, <3>1
    <3>2. CASE t # s
      BY <1>1, <3>2
    <3> QED
      BY <3>1, <3>2
  <2>2. ASSUME NEW t \in Servers, NEW i \in Nat
        PROVE  <<t, i>> \in OwedBy(less) <=> <<t, i>> \in OwedBy(n) \ {old}
    <3>1. \A m : <<t, i>> \in OwedBy(m) <=> 0 < i /\ i <= m[t]
      BY <2>2 DEF OwedBy
    <3>2. <<t, i>> = old <=> t = s /\ i = n[s]
      OBVIOUS
    <3> HIDE DEF old, less
    <3> QED
      BY <2>1, <2>2, <3>1, <3>2
  <2>3. OwedBy(less) \subseteq Servers \X Nat /\ OwedBy(n) \ {old} \subseteq Servers \X Nat
    BY DEF OwedBy
  <2> HIDE DEF less, old
  <2> QED
    BY <2>2, <2>3
<1>3. old \in OwedBy(n)
  BY <1>1 DEF OwedBy
<1> HIDE DEF less, old
<1>4. /\ IsFiniteSet(OwedBy(n) \ {old})
      /\ Cardinality(OwedBy(n) \ {old}) = Cardinality(OwedBy(n)) - 1
  BY <1>3, FS_RemoveElement
<1> QED
  BY <1>2, <1>4 DEF less

LEMMA CapInit == Init => CapInv
<1> SUFFICES ASSUME Init PROVE CapInv
  OBVIOUS
<1>1. OwedBy(strays) = {}
  <2>1. \A t \in Servers : strays[t] = 0
    BY DEF Init, Zero
  <2>2. ASSUME NEW p \in OwedBy(strays)
        PROVE  FALSE
    <3>1. p[1] \in Servers /\ p[2] \in Nat /\ 0 < p[2] /\ p[2] <= strays[p[1]]
      BY <2>2 DEF OwedBy
    <3> QED
      BY <2>1, <3>1
  <2> QED
    BY <2>2
<1>2. IsFiniteSet(OwedBy(strays)) /\ Cardinality(OwedBy(strays)) = 0
  BY <1>1, FS_EmptySet
<1> HIDE DEF OwedBy
<1> QED
  BY <1>2, ConstantTypes DEF Init, CapInv, Busy, Waits

\* Every step moves a call from one of the places it is counted in to the next.
LEMMA CapStep == McpInv /\ CapInv /\ [Next]_vars => CapInv'
<1> SUFFICES ASSUME McpInv, CapInv, [Next]_vars PROVE CapInv'
  OBVIOUS
<1> DEFINE owed == Cardinality(OwedBy(strays))
<1>1. /\ strays \in [Servers -> Nat] /\ callee \in Servers
      /\ total \in Nat /\ sentAll \in Nat /\ strayedAll \in Nat
      /\ coro # "none" => main = "waiting"
  BY DEF McpInv, McpTypeOK, Calling
<1>2. IsFiniteSet(OwedBy(strays)) /\ owed \in Nat
  BY FS_CardinalityType DEF CapInv
<1>3. sentAll + owed + Waits <= total + strayedAll + Busy /\ total + Busy <= HardCap
  BY DEF CapInv
<1>4. CASE UNCHANGED <<main, coro, strays, total, sentAll, strayedAll>>
  BY <1>4 DEF CapInv, Busy, Waits
<1>5. CASE /\ UNCHANGED <<coro, strays, total, sentAll, strayedAll>>
           /\ main # "waiting" /\ main' # "waiting"
  BY <1>5 DEF CapInv, Busy, Waits
<1>6. ASSUME NEW s \in Servers, Submit(s) PROVE CapInv'
  <2>1. /\ UNCHANGED <<strays, total, sentAll, strayedAll>> /\ total < HardCap
        /\ main = "ready" /\ main' = "waiting" /\ coro' = "queued" /\ coro = "none"
    BY <1>1, <1>6 DEF Submit, counts, history
  <2> QED
    BY <1>1, <1>2, <1>3, <2>1, ConstantTypes DEF CapInv, Busy, Waits
<1>7. CASE Run
  <2>1. /\ UNCHANGED <<strays, total, strayedAll, main>> /\ coro = "queued" /\ coro' # "queued"
        /\ sentAll' = sentAll \/ sentAll' = sentAll + 1
    BY <1>7 DEF Run, counts
  <2> QED
    BY <1>1, <1>2, <1>3, <2>1, ConstantTypes DEF CapInv, Busy, Waits
<1>8. CASE Answer
  <2>1. /\ UNCHANGED <<strays, total, strayedAll, main, sentAll>> /\ coro = "sent" /\ coro' # "queued"
    BY <1>8 DEF Answer, counts, history
  <2> QED
    BY <1>1, <1>2, <1>3, <2>1, ConstantTypes DEF CapInv, Busy, Waits
<1>9. CASE Succeed
  <2>1. /\ UNCHANGED <<strays, strayedAll, sentAll>> /\ coro = "answered" /\ coro' = "none"
        /\ main = "waiting" /\ main' = "ready" /\ total' = total + 1
    BY <1>9 DEF Succeed, Count
  <2> QED
    BY <1>1, <1>2, <1>3, <2>1, ConstantTypes DEF CapInv, Busy, Waits
<1>10. CASE Fail \/ Interrupt
  <2>1. /\ UNCHANGED sentAll /\ coro' = "none" /\ main = "waiting" /\ main' = "ready"
        /\ \/ total' = total + 1 /\ strayedAll' = strayedAll
           \/ total' = total /\ strayedAll' = strayedAll + 1
        /\ \/ strays' = strays
           \/ coro = "queued" /\ strays' = [strays EXCEPT ![callee] = @ + 1]
    BY <1>10 DEF Fail, Interrupt, Count, counts
  <2>2. CASE strays' = strays
    BY <1>1, <1>2, <1>3, <2>1, <2>2, ConstantTypes DEF CapInv, Busy, Waits
  <2>3. CASE coro = "queued" /\ strays' = [strays EXCEPT ![callee] = @ + 1]
    <3>1. IsFiniteSet(OwedBy(strays')) /\ Cardinality(OwedBy(strays')) = owed + 1
      BY <1>1, <1>2, <2>3, OwedGrows
    <3>2. CapInv' <=> /\ IsFiniteSet(OwedBy(strays'))
                      /\ sentAll' + Cardinality(OwedBy(strays')) + Waits' <= total' + strayedAll' + Busy'
                      /\ total' + Busy' <= HardCap
      BY DEF CapInv, OwedBy
    <3> HIDE DEF owed
    <3> QED
      BY <1>1, <1>2, <1>3, <2>1, <2>3, <3>1, <3>2, ConstantTypes DEF Busy, Waits
  <2> QED
    BY <2>1, <2>2, <2>3
<1>11. ASSUME NEW s \in Servers, RunStray(s) PROVE CapInv'
  <2>1. /\ UNCHANGED <<total, strayedAll, main, coro>> /\ strays[s] > 0
        /\ strays' = [strays EXCEPT ![s] = @ - 1]
        /\ sentAll' = sentAll \/ sentAll' = sentAll + 1
    BY <1>11 DEF RunStray, caller, counts
  <2>2. IsFiniteSet(OwedBy(strays')) /\ Cardinality(OwedBy(strays')) = owed - 1
    BY <1>1, <1>2, <2>1, OwedShrinks
  <2>3. CapInv' <=> /\ IsFiniteSet(OwedBy(strays'))
                    /\ sentAll' + Cardinality(OwedBy(strays')) + Waits' <= total' + strayedAll' + Busy'
                    /\ total' + Busy' <= HardCap
    BY DEF CapInv, OwedBy
  <2> HIDE DEF owed
  <2> QED
    BY <1>1, <1>2, <1>3, <2>1, <2>2, <2>3, ConstantTypes DEF Busy, Waits
<1>12. CASE \E s \in Servers : \/ Begin(s) \/ Connect(s) \/ Refuse(s) \/ Unwound(s) \/ Lose(s)
                               \/ Leave(s) \/ ShutDown(s)
  BY <1>4, <1>12 DEF Begin, Connect, Refuse, Unwound, Lose, Leave, ShutDown, caller, counts, history
<1>13. CASE Start \/ Deadline \/ Started \/ Swept \/ Discovered \/ Close \/ Closed
  BY <1>5, <1>13 DEF Start, Deadline, Started, Swept, Discovered, Close, Closed, counts, history
<1>14. CASE \E s \in Servers : Sweep(s) \/ Discover(s)
  BY <1>4, <1>14 DEF Sweep, Discover, counts, history
<1>15. CASE UNCHANGED vars
  BY <1>4, <1>15 DEF vars
<1> QED
  BY <1>6, <1>7, <1>8, <1>9, <1>10, <1>11, <1>12, <1>13, <1>14, <1>15 DEF Next

\* The caps of sync_call bound what the servers are sent, one by one and all
\* together, but for the calls the user interrupted: those are sent and not
\* counted. A call the caller gave up on is counted, whenever it is run.
THEOREM CapsHold == Spec => []CapsBoundCalls
<1>1. ASSUME McpInv, CapInv
      PROVE  CapsBoundCalls
  <2>1. \A s \in Servers : sent[s] <= SessionCap + strayed[s]
    BY <1>1, ConstantTypes DEF McpInv, Tallied, Pending, Queued, McpTypeOK
  <2>2. Cardinality(OwedBy(strays)) \in Nat
    BY <1>1, FS_CardinalityType DEF CapInv
  <2>3. sentAll <= HardCap + strayedAll
    BY <1>1, <2>2, ConstantTypes DEF McpInv, McpTypeOK, CapInv, Busy, Waits
  <2> QED
    BY <2>1, <2>3 DEF CapsBoundCalls
<1>2. Spec => []CapInv
  BY CapInit, CapStep, AlwaysMcpInv, PTL DEF Spec
<1> QED
  BY <1>1, <1>2, AlwaysMcpInv, PTL
=============================================================================
