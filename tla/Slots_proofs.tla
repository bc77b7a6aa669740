----------------------------- MODULE Slots_proofs -----------------------------
(***************************************************************************)
(* A request shows the user one attempt and spends one stall budget, for   *)
(* any number of attempts and any length of the deadlines. Over a session  *)
(* of such requests: what is in memory is the model that is asked, nothing *)
(* of the session stays behind on the endpoint it ended on, and a main     *)
(* model that was given up stays given up, for any endpoints and models    *)
(* and whatever outages, restarts and other clients do.                    *)
(***************************************************************************)
EXTENDS Slots, TLAPS

\* While a request may still go on, nothing it has shown belongs to an attempt
\* it could leave behind: what was shown is this attempt's and is flagged, a
\* request that waits for its status line or sleeps has shown nothing, and
\* none of its attempts has stalled. That an attempt is left is what makes a
\* sleeping request's next attempt one of the allowed ones.
RequestInv ==
  /\ RequestTypeOK
  /\ ShownOnce
  /\ shown # {} => output
  /\ phase \in {"none", "sending"} => ~output
  /\ phase = "sleeping" => shown = {}
  /\ phase = "sleeping" => attempt + 1 < MaxAttempts
  /\ stalls # {} => stalls = {attempt} /\ phase = "failed"

LEMMA ConstantTypes ==
  /\ MaxAttempts \in Nat \ {0} /\ MaxFragments \in Nat /\ ReadTicks \in Nat \ {0}
  /\ StallTicks \in Nat /\ DecodeTicks \in Nat /\ QuietMax \in Nat
<1>1. /\ MaxAttempts \in Nat \ {0} /\ MaxFragments \in Nat /\ ReadTicks \in Nat \ {0}
      /\ StallTicks \in Nat /\ DecodeTicks \in Nat
  BY RequestAssumption
<1> QED
  BY <1>1 DEF QuietMax

LEMMA FreshTypes ==
  ASSUME NEW n, n = 0
  PROVE  /\ n \in 0 .. MaxAttempts - 1 /\ n \in 0 .. MaxFragments
         /\ n \in 0 .. ReadTicks /\ n \in 0 .. QuietMax
  BY ConstantTypes

LEMMA StartsIn == RInit => RequestInv
  BY FreshTypes DEF RInit, RequestInv, RequestTypeOK, ShownOnce, Phases, Ended

\* However an attempt fails. An answer with an error status comes before any
\* output, and after output no exception is retried.
LEMMA FailKeeps ==
  ASSUME RequestInv, NEW f \in Failures, phase \in {"sending", "open"},
         f \in Answers => phase = "sending", Fail(f)
  PROVE  RequestInv'
<1>1. /\ phase' = IF Retried(f) THEN "sleeping" ELSE "failed"
      /\ stalls' = IF f = "stall" THEN {attempt} ELSE {}
      /\ UNCHANGED <<mode, attempt, output, decoding, frags, silent, quiet, warm, shown>>
  BY DEF Fail, RequestInv
<1>2. RequestTypeOK'
  BY <1>1 DEF RequestInv, RequestTypeOK, Phases, Ended
<1>3. ASSUME Retried(f) PROVE shown = {} /\ attempt + 1 < MaxAttempts /\ f # "stall"
  BY <1>3 DEF RequestInv, Retried, Transient, Answers, Exceptions
<1> QED
  BY <1>1, <1>2, <1>3 DEF RequestInv, ShownOnce

LEMMA AskKeeps ==
  ASSUME RequestInv, NEW m \in {"stream", "once"}, Ask(m)
  PROVE  RequestInv'
  BY DEF RequestInv, RequestTypeOK, ShownOnce, Ask, Phases, Ended

LEMMA ForgetKeeps ==
  ASSUME RequestInv, Forget
  PROVE  RequestInv'
<1>1. /\ phase' \in Phases /\ mode' \in {"stream", "once"}
      /\ output' \in BOOLEAN /\ decoding' \in BOOLEAN /\ warm' \in BOOLEAN
  BY DEF Forget, Phases, Ended
<1>2. /\ attempt' \in 0 .. MaxAttempts - 1 /\ frags' \in 0 .. MaxFragments
      /\ silent' \in 0 .. ReadTicks /\ quiet' \in 0 .. QuietMax
  BY FreshTypes DEF Forget
<1>3. shown' = {} /\ stalls' = {} /\ phase' = "none" /\ ~output'
  BY DEF Forget
<1> QED
  BY <1>1, <1>2, <1>3 DEF RequestInv, RequestTypeOK, ShownOnce

-----------------------------------------------------------------------------
(***************************************************************************)
(* The steps of a request in flight.                                       *)
(***************************************************************************)

LEMMA ResendKeeps ==
  ASSUME RequestInv, Resend
  PROVE  RequestInv'
<1>1. /\ attempt' \in 0 .. MaxAttempts - 1
      /\ frags' \in 0 .. MaxFragments /\ silent' \in 0 .. ReadTicks /\ quiet' \in 0 .. QuietMax
  BY ConstantTypes, FreshTypes DEF RequestInv, RequestTypeOK, Resend
<1>2. output' \in BOOLEAN /\ decoding' \in BOOLEAN /\ ~output'
  BY DEF Resend
<1>3. UNCHANGED <<mode, warm, shown, stalls>> /\ phase' = "sending" /\ shown = {} /\ stalls = {}
  BY DEF RequestInv, Resend
<1> QED
  BY <1>1, <1>2, <1>3 DEF RequestInv, RequestTypeOK, ShownOnce, Phases

\* The failures by name, for the steps that fail.
LEMMA FailureNames ==
  /\ \A f \in Answers : f \in Failures
  /\ \A f \in {"stall", "transport", "other exception", "stream error chunk",
                "200 error body", "200 malformed body"} : f \in Failures /\ f \notin Answers
  BY DEF Failures, Answers, InBody, Exceptions

LEMMA HeadersKeeps ==
  ASSUME RequestInv, Headers
  PROVE  RequestInv'
<1>1. CASE \E f \in Answers : Fail(f)
  BY <1>1, FailKeeps, FailureNames DEF Headers
<1>2. CASE ~\E f \in Answers : Fail(f)
  <2>1. /\ phase = "sending" /\ phase' = "open" /\ silent' = 0 /\ quiet' = 0
        /\ UNCHANGED <<mode, attempt, output, decoding, frags, warm, shown, stalls>>
    BY <1>2 DEF Headers
  <2>2. silent' \in 0 .. ReadTicks /\ quiet' \in 0 .. QuietMax
    BY <2>1, FreshTypes
  <2> QED
    BY <2>1, <2>2 DEF RequestInv, RequestTypeOK, ShownOnce, Phases
<1> QED
  BY <1>1, <1>2

LEMMA StallKeeps ==
  ASSUME RequestInv, phase = "open", Fail("stall")
  PROVE  RequestInv'
  BY FailKeeps, FailureNames

LEMMA PadKeeps ==
  ASSUME RequestInv, Pad
  PROVE  RequestInv'
<1>1. CASE Overdue
  BY <1>1, StallKeeps DEF Pad
<1>2. CASE ~Overdue
  <2>1. /\ silent' = 0
        /\ UNCHANGED <<phase, mode, attempt, output, decoding, frags, quiet, warm, shown, stalls>>
    BY <1>2 DEF Pad
  <2>2. silent' \in 0 .. ReadTicks
    BY <2>1, FreshTypes
  <2> QED
    BY <2>1, <2>2 DEF RequestInv, RequestTypeOK, ShownOnce
<1> QED
  BY <1>1, <1>2

\* One more fragment is still within the bound, and is fresh.
LEMMA ProgressTypes ==
  ASSUME RequestTypeOK, frags < MaxFragments, frags' = frags + 1, silent' = 0, quiet' = 0
  PROVE  /\ frags' \in 0 .. MaxFragments
         /\ silent' \in 0 .. ReadTicks /\ quiet' \in 0 .. QuietMax
  BY ConstantTypes, FreshTypes DEF RequestTypeOK

LEMMA FragmentKeeps ==
  ASSUME RequestInv, NEW kind, NEW raises \in BOOLEAN, Fragment(kind, raises)
  PROVE  RequestInv'
<1>1. CASE Overdue
  BY <1>1, StallKeeps DEF Fragment
<1>2. CASE ~Overdue
  <2>1. phase = "open" /\ frags < MaxFragments
    BY DEF Fragment
  <2>2. /\ decoding' = (decoding \/ kind \in {"token", "tool"})
        /\ output' = TRUE /\ shown' = shown \union {attempt}
        /\ phase' = IF raises /\ kind # "tool" THEN "cancelled" ELSE "open"
        /\ frags' = frags + 1 /\ silent' = 0 /\ quiet' = 0
        /\ UNCHANGED <<mode, attempt, warm, stalls>>
    BY <1>2 DEF Fragment
  <2>3. decoding' \in BOOLEAN /\ output' \in BOOLEAN /\ output'
    BY <2>2
  <2>4. phase' \in {"open", "cancelled"} /\ phase' \in Phases
    BY <2>2 DEF Phases, Ended
  <2>5. shown' \subseteq {attempt} /\ attempt \in 0 .. MaxAttempts - 1
    BY <2>2 DEF RequestInv, ShownOnce, RequestTypeOK
  <2>6. stalls = {}
    BY <2>1 DEF RequestInv
  <2>7. /\ frags' \in 0 .. MaxFragments
        /\ silent' \in 0 .. ReadTicks /\ quiet' \in 0 .. QuietMax
    BY <2>1, <2>2, ProgressTypes DEF RequestInv
  <2>8. /\ mode' \in {"stream", "once"} /\ attempt' = attempt /\ warm' \in BOOLEAN
        /\ stalls' = {}
    BY <2>2, <2>6 DEF RequestInv, RequestTypeOK
  <2> QED
    BY <2>3, <2>4, <2>5, <2>7, <2>8 DEF RequestInv, RequestTypeOK, ShownOnce
<1> QED
  BY <1>1, <1>2

LEMMA WorkKeeps ==
  ASSUME RequestInv, Work
  PROVE  RequestInv'
<1>1. CASE mode = "stream" /\ Overdue
  BY <1>1, StallKeeps DEF Work
<1>2. CASE ~(mode = "stream" /\ Overdue)
  <2>1. /\ frags < MaxFragments /\ frags' = frags + 1 /\ silent' = 0 /\ quiet' = 0
        /\ UNCHANGED <<phase, mode, attempt, output, decoding, warm, shown, stalls>>
    BY <1>2 DEF Work
  <2>2. /\ frags' \in 0 .. MaxFragments
        /\ silent' \in 0 .. ReadTicks /\ quiet' \in 0 .. QuietMax
    BY <2>1, ProgressTypes DEF RequestInv
  <2> QED
    BY <2>1, <2>2 DEF RequestInv, RequestTypeOK, ShownOnce
<1> QED
  BY <1>1, <1>2

LEMMA CloseKeeps ==
  ASSUME RequestInv, Close
  PROVE  RequestInv'
<1>1. CASE \E f \in {"200 error body", "200 malformed body"} : Fail(f)
  BY <1>1, FailKeeps, FailureNames DEF Close
<1>2. CASE /\ phase' = "done"
           /\ UNCHANGED <<mode, attempt, output, decoding, frags, silent, quiet, warm, shown, stalls>>
  BY <1>2 DEF Close, RequestInv, RequestTypeOK, ShownOnce, Phases, Ended
<1> QED
  BY <1>1, <1>2 DEF Close

LEMMA TickKeeps ==
  ASSUME RequestInv, Tick
  PROVE  RequestInv'
<1>1. CASE silent >= ReadTicks
  BY <1>1, FailKeeps, FailureNames DEF Tick
<1>2. CASE ~(silent >= ReadTicks)
  <2>1. /\ silent' = silent + 1
        /\ quiet' = IF quiet < QuietMax THEN quiet + 1 ELSE quiet
        /\ UNCHANGED <<phase, mode, attempt, output, decoding, frags, warm, shown, stalls>>
    BY <1>2 DEF Tick
  <2>2. silent' \in 0 .. ReadTicks /\ quiet' \in 0 .. QuietMax
    BY <2>1, <1>2, ConstantTypes DEF RequestInv, RequestTypeOK
  <2> QED
    BY <2>1, <2>2 DEF RequestInv, RequestTypeOK, ShownOnce
<1> QED
  BY <1>1, <1>2

\* Every step of a request in flight, wherever it is composed.
THEOREM StepKeeps ==
  ASSUME RequestInv, Step
  PROVE  RequestInv'
<1>1. CASE Resend
  BY <1>1, ResendKeeps
<1>2. CASE Headers
  BY <1>2, HeadersKeeps
<1>3. CASE Pad
  BY <1>3, PadKeeps
<1>4. CASE Work
  BY <1>4, WorkKeeps
<1>5. CASE Close
  BY <1>5, CloseKeeps
<1>6. CASE ErrorChunk
  BY <1>6, FailKeeps, FailureNames DEF ErrorChunk
<1>7. CASE Tick
  BY <1>7, TickKeeps
<1>8. CASE CoolDown
  BY <1>8 DEF CoolDown, RequestInv, RequestTypeOK, ShownOnce
<1>9. CASE \E kind \in {"think", "token", "tool"}, raises \in BOOLEAN : Fragment(kind, raises)
  BY <1>9, FragmentKeeps
<1>10. CASE \E f \in {"transport", "other exception"} : Broken(f)
  BY <1>10, FailKeeps, FailureNames DEF Broken
<1> QED
  BY <1>1, <1>2, <1>3, <1>4, <1>5, <1>6, <1>7, <1>8, <1>9, <1>10 DEF Step

LEMMA StillKeeps ==
  ASSUME RequestInv, UNCHANGED rvars
  PROVE  RequestInv'
  BY DEF RequestInv, RequestTypeOK, ShownOnce, rvars

LEMMA NextKeeps ==
  ASSUME RequestInv, [RNext]_rvars
  PROVE  RequestInv'
  BY AskKeeps, ForgetKeeps, StepKeeps, StillKeeps DEF RNext

LEMMA RequestInvariance == RequestSpec => []RequestInv
<1>1. RequestInv /\ [RNext]_rvars => RequestInv'
  BY NextKeeps
<1> QED
  BY StartsIn, <1>1, PTL DEF RequestSpec

\* A request is always in one of its phases, on one of its attempts, within
\* its fragments and deadlines (Backend.chat's state).
THEOREM RequestTypeCorrect == RequestSpec => []RequestTypeOK
<1>1. RequestInv => RequestTypeOK
  BY DEF RequestInv
<1> QED
  BY RequestInvariance, <1>1, PTL

\* No retry follows output: what the user has seen is one attempt's
\* (_Attempt.output and the decision of _with_retries).
THEOREM NoReplay == RequestSpec => []ShownOnce
<1>1. RequestInv => ShownOnce
  BY DEF RequestInv
<1> QED
  BY RequestInvariance, <1>1, PTL

\* At most one progress budget is spent on a request, whatever max_attempts is
\* (ProgressStall in classify_failure).
THEOREM OneStall == RequestSpec => []StallSpentOnce
<1>1. RequestInv => StallSpentOnce
  BY DEF RequestInv, StallSpentOnce
<1> QED
  BY RequestInvariance, <1>1, PTL
-----------------------------------------------------------------------------
(***************************************************************************)
(* The session. The invariant is in parts: what the manager knows of the   *)
(* turn it is in, what an owned endpoint has in memory, what a shared one  *)
(* may have of this session, and what giving main up has cost.             *)
(***************************************************************************)

SlotsTypes ==
  /\ pc \in {"idle", "enforce", "swap", "guard", "ask", "asking", "off"}
  /\ slot \in SlotNames /\ active \in Backends
  /\ pins \in [SlotNames -> Models \union {None}]
  /\ target \in Models /\ resident \in Models \union {None}
  /\ ours \in SUBSET Models
  /\ loaded \in [Backends -> SUBSET Models] /\ mine \in [Backends -> SUBSET Models]
  /\ missed \in [Backends -> SUBSET Models] /\ lapsed \in [Backends -> SUBSET Models]

\* Within a turn the target is what the slot resolves to, the backend names it
\* from the swap on, and from the first request on it is the resident.
Turning ==
  /\ pc \notin {"idle", "off"} => target = ModelFor(slot, degraded)
  /\ pc \in {"guard", "ask", "asking"} => bmodel = target
  /\ pc \in {"ask", "asking"} => resident = target

\* The manager has looked at the endpoint since it chose it, and is not in the
\* middle of a swap: what it believes about the resident counts.
Settled == (pc \in {"idle", "enforce"} /\ enforced) \/ pc \in {"ask", "asking"}

\* An owned endpoint has the model of the turn from the swap on, and the
\* resident between turns.
Owned ==
  active \notin Shared =>
    /\ pc = "guard" => loaded[active] \subseteq {bmodel} \union missed[active]
    /\ Settled /\ resident # None => loaded[active] \subseteq {resident} \union missed[active]

\* A shared endpoint: the resident is there, or may be freed by this session,
\* or another client took it away.
Claimed ==
  active \in Shared /\ Settled /\ resident # None
    => resident \in ours \union loaded[active] \union lapsed[active]

\* What this session put on an endpoint is still there or was taken away by
\* others, and on a shared one it may be freed.
Accounted ==
  /\ \A b \in Backends : mine[b] \subseteq loaded[b] \union lapsed[b]
  /\ \A b \in Shared : mine[b] \subseteq ours \union missed[b] \union lapsed[b]
  /\ LeavesNothing

\* Main has cost a turn only if it was given up for it.
GivenUp == lost \in {0, 1} /\ (lost = 1 => degraded)

SlotsInv == SlotsTypes /\ Turning /\ Owned /\ Claimed /\ Accounted /\ GivenUp

-----------------------------------------------------------------------------
LEMMA Pair == Main \in Models /\ Fallback \in Models /\ None \notin Models
  BY SlotsAssumption

LEMMA ResolvedType ==
  ASSUME SlotsTypes, NEW s \in SlotNames, NEW d
  PROVE  ModelFor(s, d) \in Models
  BY Pair DEF ModelFor, SlotsTypes

\* What an unload of some models does on the active endpoint, up or down.
LEMMA Unloaded ==
  ASSUME SlotsTypes, NEW gone \in SUBSET Models, Unload(gone)
  PROVE  /\ loaded' \in [Backends -> SUBSET Models] /\ mine' \in [Backends -> SUBSET Models]
         /\ missed' \in [Backends -> SUBSET Models]
         /\ \A b \in Backends : b # active =>
              loaded'[b] = loaded[b] /\ mine'[b] = mine[b] /\ missed'[b] = missed[b]
         /\ missed[active] \subseteq missed'[active]
         /\ loaded'[active] \subseteq (loaded[active] \ gone) \union missed'[active]
         /\ loaded[active] \subseteq loaded'[active] \union gone
         /\ \/ mine'[active] = mine[active] /\ loaded'[active] = loaded[active]
               /\ loaded[active] \cap gone \subseteq missed'[active]
            \/ mine'[active] = mine[active] \ gone /\ loaded'[active] = loaded[active] \ gone
<1>1. CASE active \in up
  BY <1>1 DEF Unload, SlotsTypes
<1>2. CASE active \notin up
  BY <1>2 DEF Unload, SlotsTypes
<1> QED
  BY <1>1, <1>2

LEMMA FreedTypes ==
  ASSUME SlotsTypes, NEW keep
  PROVE  Freed(keep) \in SUBSET Models
  BY DEF Freed, SlotsTypes

\* A degrade forgets a resident main, and nothing else.
LEMMA Degraded ==
  ASSUME SlotsTypes, Degrade
  PROVE  degraded' = TRUE /\ resident' \in {resident, None}
  BY DEF Degrade

\* The parts of Accounted that are about one endpoint.
LEMMA AccountsOf ==
  ASSUME Accounted
  PROVE  /\ \A b \in Backends : mine[b] \subseteq loaded[b] \union lapsed[b]
         /\ \A b \in Shared : mine[b] \subseteq ours \union missed[b] \union lapsed[b]
         /\ LeavesNothing
  BY DEF Accounted

\* Steps that move the turn at most from one request to the next, or end it.
Calm ==
  /\ UNCHANGED <<slot, target, active, bmodel, resident, ours, pins, degraded, enforced>>
  /\ UNCHANGED <<loaded, mine, missed, lapsed, lost>>
  /\ pc' = pc \/ (pc \in {"ask", "asking"} /\ pc' \in {"ask", "asking", "idle"})

LEMMA CalmKeeps ==
  ASSUME SlotsInv, Calm
  PROVE  SlotsInv'
<1> USE DEF SlotsInv, Calm
<1>1. SlotsTypes'
  BY DEF SlotsTypes
<1>2. Turning'
  BY DEF Turning, ModelFor
<1>3. Owned'
  BY DEF Owned, Settled
<1>4. Claimed'
  BY DEF Claimed, Settled
<1>5. Accounted'
  BY DEF Accounted, LeavesNothing
<1>6. GivenUp'
  BY DEF GivenUp
<1> QED
  BY <1>1, <1>2, <1>3, <1>4, <1>5, <1>6

LEMMA CalmSteps ==
  ASSUME \/ Waits \/ TurnGoesOn("ask") \/ TurnGoesOn("idle") \/ Upgrade \/ CooldownOver
         \/ \E m \in {"stream", "once"} : AskModel(m)
         \/ \E b \in Backends : Flap(b)
         \/ UNCHANGED vars
  PROVE  Calm
<1> USE DEF Calm, manager, history, world, given, health
<1>1. CASE Waits
  BY <1>1 DEF Waits, Alone
<1>2. CASE TurnGoesOn("ask") \/ TurnGoesOn("idle")
  BY <1>2 DEF TurnGoesOn
<1>3. CASE Upgrade \/ CooldownOver \/ \E b \in Backends : Flap(b)
  BY <1>3 DEF Upgrade, CooldownOver, Flap
<1>4. CASE \E m \in {"stream", "once"} : AskModel(m)
  BY <1>4 DEF AskModel
<1>5. CASE UNCHANGED vars
  BY <1>5 DEF vars
<1> QED
  BY <1>1, <1>2, <1>3, <1>4, <1>5

-----------------------------------------------------------------------------
(***************************************************************************)
(* The steps of a turn.                                                    *)
(***************************************************************************)

\* After an unload, what the session put on an endpoint is still accounted for.
LEMMA UnloadAccounted ==
  ASSUME SlotsTypes, Accounted, NEW gone \in SUBSET Models, Unload(gone),
         UNCHANGED lapsed, ours \subseteq ours', pc' # "off"
  PROVE  Accounted'
<1>1. \A b \in Backends : mine[b] \subseteq loaded[b] \union lapsed[b]
  BY DEF Accounted
<1>2. \A b \in Backends : b \in Shared => mine[b] \subseteq ours \union missed[b] \union lapsed[b]
  BY DEF Accounted
<1>3. ASSUME NEW b \in Backends
      PROVE  /\ mine'[b] \subseteq loaded'[b] \union lapsed'[b]
             /\ b \in Shared => mine'[b] \subseteq ours' \union missed'[b] \union lapsed'[b]
  <2>1. CASE b = active
    BY <2>1, <1>1, <1>2, Unloaded DEF SlotsTypes
  <2>2. CASE b # active
    BY <2>2, <1>1, <1>2, Unloaded
  <2> QED
    BY <2>1, <2>2
<1>4. LeavesNothing'
  BY DEF LeavesNothing
<1>5. Shared \subseteq Backends
  BY SlotsAssumption
<1> QED
  BY <1>3, <1>4, <1>5 DEF Accounted

\* A step of the turn that does not touch what is in memory.
LEMMA MemoryKept ==
  ASSUME Accounted, UNCHANGED <<loaded, mine, missed, lapsed>>, ours \subseteq ours', pc' # "off"
  PROVE  Accounted'
<1>1. LeavesNothing'
  BY DEF LeavesNothing
<1> QED
  BY <1>1 DEF Accounted

LEMMA BackendForKeeps ==
  ASSUME SlotsInv, NEW s \in SlotNames, BackendFor(s)
  PROVE  SlotsInv'
<1>1. /\ pc = "idle" /\ pc' = "enforce" /\ slot' = s
      /\ UNCHANGED <<active, bmodel, ours, pins, enforced, loaded, mine, missed, lapsed, lost>>
  BY DEF BackendFor, world, history
<1>2. CASE degraded' = TRUE /\ target' = ModelFor(s, TRUE) /\ Degrade
  <2>1. target' = ModelFor(slot, degraded)'
    BY <1>1, <1>2 DEF ModelFor
  <2>2. SlotsTypes'
    <3>1. target' \in Models
      BY <1>2, ResolvedType DEF SlotsInv
    <3>2. resident' \in Models \union {None}
      BY <1>2, Degraded DEF SlotsInv, SlotsTypes
    <3> QED
      BY <1>1, <3>1, <3>2 DEF SlotsInv, SlotsTypes
  <2>3. resident' \in {resident, None}
    BY <1>2 DEF Degrade
  <2>4. Owned' /\ Claimed'
    BY <1>1, <2>3 DEF SlotsInv, Owned, Claimed, Settled
  <2>5. Accounted'
    BY <1>1, MemoryKept DEF SlotsInv
  <2> QED
    BY <1>1, <1>2, <2>1, <2>2, <2>4, <2>5 DEF SlotsInv, Turning, GivenUp
<1>3. CASE target' = ModelFor(s, degraded) /\ UNCHANGED <<degraded, resident>>
  <2>1. target' = ModelFor(slot, degraded)'
    BY <1>1, <1>3 DEF ModelFor
  <2>2. SlotsTypes'
    <3>1. target' \in Models
      BY <1>3, ResolvedType DEF SlotsInv
    <3> QED
      BY <1>1, <1>3, <3>1 DEF SlotsInv, SlotsTypes
  <2>3. Owned' /\ Claimed'
    BY <1>1, <1>3 DEF SlotsInv, Owned, Claimed, Settled
  <2>4. Accounted'
    BY <1>1, MemoryKept DEF SlotsInv
  <2> QED
    BY <1>1, <1>3, <2>1, <2>2, <2>3, <2>4 DEF SlotsInv, Turning, GivenUp
<1> QED
  BY <1>2, <1>3 DEF BackendFor, Degrade

LEMMA EnforceKeeps ==
  ASSUME SlotsInv, Enforce
  PROVE  SlotsInv'
<1>1. /\ pc = "enforce" /\ pc' = (IF target = resident THEN "ask" ELSE "swap")
      /\ bmodel' = IF target = resident THEN target ELSE bmodel
      /\ UNCHANGED <<slot, target, active, resident, pins, degraded, lapsed, lost>>
  BY DEF Enforce
<1>2. Turning'
  BY <1>1 DEF SlotsInv, Turning, ModelFor
<1>3. GivenUp'
  BY <1>1 DEF SlotsInv, GivenUp
<1>4. target \in Models
  BY DEF SlotsInv, SlotsTypes
<1>5. CASE ~enforced /\ active \in Shared
  <2>1. /\ UNCHANGED <<loaded, mine, missed>> /\ enforced' = TRUE
        /\ ours' = IF active \notin up \/ target \notin loaded[active]
                   THEN ours \union {target} ELSE ours
    BY <1>5 DEF Enforce, IsShared
  <2>2. SlotsTypes'
    BY <1>1, <1>4, <2>1 DEF SlotsInv, SlotsTypes
  <2>3. Owned' /\ Claimed'
    BY <1>1, <1>5, <2>1 DEF SlotsInv, Owned, Claimed, Settled
  <2>4. Accounted'
    BY <1>1, <2>1, MemoryKept DEF SlotsInv
  <2> QED
    BY <1>2, <1>3, <2>2, <2>3, <2>4 DEF SlotsInv
<1>6. CASE ~enforced /\ active \notin Shared
  <2>1. Unload(Models \ {target}) /\ UNCHANGED ours /\ enforced' = TRUE
    BY <1>6 DEF Enforce, IsShared
  <2>2. SlotsTypes'
    BY <1>1, <2>1, Unloaded DEF SlotsInv, SlotsTypes
  <2>3. loaded'[active] \subseteq {target} \union missed'[active]
    BY <2>1, Unloaded DEF SlotsInv, SlotsTypes
  <2>4. Owned' /\ Claimed'
    BY <1>1, <1>6, <2>3 DEF Owned, Claimed, Settled
  <2>5. Accounted'
    BY <1>1, <2>1, UnloadAccounted DEF SlotsInv
  <2> QED
    BY <1>2, <1>3, <2>2, <2>4, <2>5 DEF SlotsInv
<1>7. CASE enforced
  <2>1. UNCHANGED <<ours, loaded, mine, missed>> /\ enforced' = TRUE
    BY <1>7 DEF Enforce
  <2>2. SlotsTypes'
    BY <1>1, <2>1 DEF SlotsInv, SlotsTypes
  <2>3. Owned' /\ Claimed'
    BY <1>1, <1>7, <2>1 DEF SlotsInv, Owned, Claimed, Settled
  <2>4. Accounted'
    BY <1>1, <2>1, MemoryKept DEF SlotsInv
  <2> QED
    BY <1>2, <1>3, <2>2, <2>3, <2>4 DEF SlotsInv
<1> QED
  BY <1>5, <1>6, <1>7

LEMMA SwapKeeps ==
  ASSUME SlotsInv, Swap
  PROVE  SlotsInv'
<1>1. /\ pc = "swap" /\ pc' = "guard" /\ Unload(Freed({target})) /\ bmodel' = target
      /\ UNCHANGED <<slot, target, active, resident, ours, pins, degraded, enforced, lapsed, lost>>
  BY DEF Swap
<1>2. Freed({target}) \in SUBSET Models
  BY FreedTypes DEF SlotsInv
<1>3. SlotsTypes'
  BY <1>1, <1>2, Unloaded DEF SlotsInv, SlotsTypes
<1>4. Turning'
  BY <1>1 DEF SlotsInv, Turning, ModelFor
<1>5. Owned'
  <2>1. active \notin Shared => Freed({target}) = Models \ {target}
    BY DEF Freed, IsShared
  <2>2. loaded'[active] \subseteq (loaded[active] \ Freed({target})) \union missed'[active]
    BY <1>1, <1>2, Unloaded DEF SlotsInv
  <2>3. loaded[active] \subseteq Models
    BY DEF SlotsInv, SlotsTypes
  <2> QED
    BY <1>1, <2>1, <2>2, <2>3 DEF Owned, Settled
<1>6. Claimed'
  BY <1>1 DEF Claimed, Settled
<1>7. Accounted'
  BY <1>1, <1>2, UnloadAccounted DEF SlotsInv
<1>8. GivenUp'
  BY <1>1 DEF SlotsInv, GivenUp
<1> QED
  BY <1>3, <1>4, <1>5, <1>6, <1>7, <1>8 DEF SlotsInv

LEMMA GuardKeeps ==
  ASSUME SlotsInv, Guard
  PROVE  SlotsInv'
<1>1. /\ pc = "guard"
      /\ UNCHANGED <<slot, active, bmodel, pins, enforced, loaded, mine, missed, lapsed, lost>>
  BY DEF Guard, world, history
<1>2. CASE Degrade /\ pc' = "swap" /\ target' = ModelFor(slot, TRUE) /\ UNCHANGED ours
  <2>1. degraded' = TRUE /\ target' = ModelFor(slot, degraded)'
    BY <1>1, <1>2 DEF ModelFor, Degrade
  <2>2. SlotsTypes'
    <3>1. target' \in Models
      BY <1>2, ResolvedType DEF SlotsInv, SlotsTypes
    <3>2. resident' \in Models \union {None}
      BY <1>2, Degraded DEF SlotsInv, SlotsTypes
    <3> QED
      BY <1>1, <1>2, <3>1, <3>2 DEF SlotsInv, SlotsTypes
  <2>3. Owned' /\ Claimed'
    BY <1>1, <1>2 DEF Owned, Claimed, Settled
  <2>4. Accounted'
    BY <1>1, <1>2, MemoryKept DEF SlotsInv
  <2> QED
    BY <1>1, <1>2, <2>1, <2>2, <2>3, <2>4 DEF SlotsInv, Turning, GivenUp
<1>3. CASE pc' = "ask" /\ resident' = target /\ ours' = ours \union {target}
           /\ UNCHANGED <<target, degraded>>
  <2>1. target \in Models
    BY DEF SlotsInv, SlotsTypes
  <2>2. SlotsTypes'
    BY <1>1, <1>3, <2>1 DEF SlotsInv, SlotsTypes
  <2>3. Turning'
    BY <1>1, <1>3 DEF SlotsInv, Turning, ModelFor
  <2>4. bmodel = target
    BY <1>1 DEF SlotsInv, Turning
  <2>5. Owned' /\ Claimed'
    BY <1>1, <1>3, <2>4 DEF SlotsInv, Owned, Claimed, Settled
  <2>6. Accounted'
    BY <1>1, <1>3, MemoryKept DEF SlotsInv
  <2> QED
    BY <1>1, <1>3, <2>2, <2>3, <2>5, <2>6 DEF SlotsInv, GivenUp
<1> QED
  BY <1>2, <1>3 DEF Guard

\* The model of a turn is loaded by its first request, and was claimed before.
LEMMA ServedKeeps ==
  ASSUME SlotsInv, Served
  PROVE  SlotsInv'
<1>1. /\ pc = "asking"
      /\ UNCHANGED <<pc, slot, target, active, bmodel, resident, ours, pins, degraded, enforced,
                     missed, lapsed, lost>>
  BY DEF Served, manager
<1>2. CASE UNCHANGED <<loaded, mine>>
  BY <1>1, <1>2, CalmKeeps DEF Calm
<1>3. CASE /\ loaded' = [loaded EXCEPT ![active] = @ \union {bmodel}]
           /\ mine' = [mine EXCEPT ![active] = IF bmodel \in loaded[active]
                                               THEN @ ELSE @ \union {bmodel}]
  <2>1. bmodel = target /\ resident = target /\ target \in Models /\ target # None
    BY <1>1, Pair DEF SlotsInv, Turning, SlotsTypes
  <2>2. SlotsTypes'
    BY <1>1, <1>3, <2>1 DEF SlotsInv, SlotsTypes
  <2>3. /\ loaded'[active] = loaded[active] \union {bmodel}
        /\ mine'[active] \in {mine[active], mine[active] \union {bmodel}}
        /\ bmodel \in loaded[active] => mine'[active] = mine[active]
        /\ \A b \in Backends : b # active => loaded'[b] = loaded[b] /\ mine'[b] = mine[b]
    BY <1>3 DEF SlotsInv, SlotsTypes
  <2>4. active \notin Shared => loaded[active] \subseteq {bmodel} \union missed[active]
    BY <1>1, <2>1 DEF SlotsInv, Owned, Settled
  <2>5. active \in Shared => bmodel \in ours \union loaded[active] \union lapsed[active]
    BY <1>1, <2>1 DEF SlotsInv, Claimed, Settled
  <2>6. Owned'
    BY <1>1, <2>1, <2>3, <2>4 DEF Owned, Settled
  <2>7. Claimed'
    BY <1>1, <2>1, <2>3, <2>5 DEF Claimed, Settled
  <2>8. Accounted'
    <3>1. /\ \A b \in Backends : mine[b] \subseteq loaded[b] \union lapsed[b]
          /\ \A b \in Shared : mine[b] \subseteq ours \union missed[b] \union lapsed[b]
      BY DEF SlotsInv, Accounted
    <3>2. Shared \subseteq Backends /\ active \in Backends
      BY SlotsAssumption DEF SlotsInv, SlotsTypes
    <3>3. \A b \in Backends : mine'[b] \subseteq loaded'[b] \union lapsed[b]
      BY <2>3, <3>1, <3>2
    <3>4. \A b \in Shared : mine'[b] \subseteq ours \union missed[b] \union lapsed[b]
      BY <2>3, <2>5, <3>1, <3>2
    <3>5. LeavesNothing'
      BY <1>1 DEF LeavesNothing
    <3> QED
      BY <1>1, <3>3, <3>4, <3>5 DEF Accounted
  <2>9. Turning' /\ GivenUp'
    BY <1>1 DEF SlotsInv, Turning, ModelFor, GivenUp
  <2> QED
    BY <2>2, <2>6, <2>7, <2>8, <2>9 DEF SlotsInv
<1> QED
  BY <1>2, <1>3 DEF Served

\* A repair is tried on an endpoint of this machine. A restart empties those;
\* one that did not happen leaves them alone.
LEMMA RepairKeeps ==
  ASSUME SlotsInv, Repair
  PROVE  SlotsInv'
<1>1. /\ pc = "asking" /\ pc' = "idle" /\ active \notin Shared
      /\ UNCHANGED <<slot, target, active, bmodel, resident, ours, pins, degraded, enforced,
                     lapsed, lost>>
  BY DEF Repair, Failed, Repairs, IsShared
<1>2. CASE Restart
  <2>1. /\ loaded' = [b \in Backends |-> IF b \in Shared THEN loaded[b] ELSE {}]
        /\ mine' = [b \in Backends |-> IF b \in Shared THEN mine[b] ELSE {}]
        /\ missed' = [b \in Backends |-> IF b \in Shared THEN missed[b] ELSE {}]
    BY <1>2 DEF Restart
  <2>2. SlotsTypes'
    BY <1>1, <2>1 DEF SlotsInv, SlotsTypes
  <2>3. Owned' /\ Claimed'
    BY <1>1, <2>1, <2>2 DEF Owned, Claimed, SlotsTypes
  <2>4. Accounted'
    <3>1. Shared \subseteq Backends
      BY SlotsAssumption
    <3> QED
      BY <1>1, <2>1, <3>1 DEF SlotsInv, Accounted, LeavesNothing
  <2>5. Turning' /\ GivenUp'
    BY <1>1 DEF SlotsInv, Turning, GivenUp
  <2> QED
    BY <2>2, <2>3, <2>4, <2>5 DEF SlotsInv
<1>3. CASE UNCHANGED <<loaded, mine, missed>>
  <2>1. SlotsTypes'
    BY <1>1, <1>3 DEF SlotsInv, SlotsTypes
  <2>2. Owned' /\ Claimed'
    BY <1>1, <1>3 DEF SlotsInv, Owned, Claimed, Settled
  <2>3. Accounted'
    BY <1>1, <1>3, MemoryKept DEF SlotsInv
  <2>4. Turning' /\ GivenUp'
    BY <1>1 DEF SlotsInv, Turning, GivenUp
  <2> QED
    BY <2>1, <2>2, <2>3, <2>4 DEF SlotsInv
<1> QED
  BY <1>2, <1>3 DEF Repair

\* A turn is lost to main only while main is not given up: the same recovery
\* gives it up.
LEMMA RecoverKeeps ==
  ASSUME SlotsInv, Recover
  PROVE  SlotsInv'
<1>1. /\ pc = "asking" /\ pc' = "idle"
      /\ UNCHANGED <<slot, target, active, bmodel, ours, pins, enforced,
                     loaded, mine, missed, lapsed>>
  BY DEF Recover, Failed, world
<1>2. /\ resident' \in {resident, None}
      /\ degraded' = IF CanDegrade /\ bmodel = Main /\ active \in up THEN TRUE ELSE degraded
  BY DEF Recover, Degrade
<1>3. SlotsTypes'
  BY <1>1, <1>2 DEF SlotsInv, SlotsTypes
<1>4. Turning'
  BY <1>1 DEF Turning
<1>5. Owned' /\ Claimed'
  BY <1>1, <1>2 DEF SlotsInv, Owned, Claimed, Settled
<1>6. Accounted'
  BY <1>1, MemoryKept DEF SlotsInv
<1>7. GivenUp'
  <2>1. bmodel = ModelFor(slot, degraded)
    BY <1>1 DEF SlotsInv, Turning
  <2>2. LostToMain => ~degraded
    BY <2>1 DEF LostToMain, ModelFor
  <2>3. CASE active \in up /\ LostToMain
    <3>1. lost = 0
      BY <2>2, <2>3 DEF SlotsInv, GivenUp
    <3>2. lost' = 1
      BY <2>3, <3>1 DEF Recover
    <3>3. degraded'
      BY <1>2, <2>2, <2>3 DEF LostToMain, CanDegrade
    <3> QED
      BY <3>2, <3>3 DEF GivenUp
  <2>4. CASE ~(active \in up /\ LostToMain)
    BY <1>2, <2>4 DEF Recover, SlotsInv, GivenUp
  <2> QED
    BY <2>3, <2>4
<1> QED
  BY <1>3, <1>4, <1>5, <1>6, <1>7 DEF SlotsInv

-----------------------------------------------------------------------------
(***************************************************************************)
(* The steps between turns, and the world's.                               *)
(***************************************************************************)

LEMMA PinKeeps ==
  ASSUME SlotsInv, NEW s \in SlotNames, NEW m \in Models, Pin(s, m)
  PROVE  SlotsInv'
<1>1. /\ pc = "idle" /\ pc' = "idle" /\ pins' = [pins EXCEPT ![s] = m]
      /\ UNCHANGED <<slot, target, active, bmodel, resident, ours, degraded, enforced,
                     loaded, mine, missed, lapsed, lost>>
  BY DEF Pin, world, history
<1>2. SlotsTypes'
  BY <1>1 DEF SlotsInv, SlotsTypes
<1>3. Owned' /\ Claimed'
  BY <1>1 DEF SlotsInv, Owned, Claimed, Settled
<1>4. Accounted'
  BY <1>1, MemoryKept DEF SlotsInv
<1> QED
  BY <1>1, <1>2, <1>3, <1>4 DEF SlotsInv, Turning, GivenUp

LEMMA SwitchKeeps ==
  ASSUME SlotsInv, NEW b \in Backends, Switch(b)
  PROVE  SlotsInv'
<1>1. /\ pc = "idle" /\ pc' = "idle" /\ active' = b /\ resident' = None
      /\ UNCHANGED <<slot, target, ours, degraded, loaded, mine, missed, lapsed, lost>>
      /\ pins' = Defaulted([s \in SlotNames |-> IF pins[s] \in catalog[b] THEN pins[s] ELSE None], b)
  BY DEF Switch, world, history
<1>2. SlotsTypes'
  <2>1. Default[b] \in Models \union {None}
    BY SlotsAssumption
  <2>2. pins' \in [SlotNames -> Models \union {None}]
    BY <1>1, <2>1 DEF Defaulted, SlotsInv, SlotsTypes
  <2> QED
    BY <1>1, <2>2 DEF SlotsInv, SlotsTypes
<1>3. Owned' /\ Claimed'
  BY <1>1 DEF Owned, Claimed
<1>4. Accounted'
  BY <1>1, MemoryKept DEF SlotsInv
<1> QED
  BY <1>1, <1>2, <1>3, <1>4 DEF SlotsInv, Turning, GivenUp

LEMMA UnloadCommandKeeps ==
  ASSUME SlotsInv, UnloadCommand
  PROVE  SlotsInv'
<1>1. /\ pc = "idle" /\ pc' = "idle" /\ Unload(Models) /\ resident' = None
      /\ UNCHANGED <<slot, target, active, bmodel, ours, pins, degraded, enforced, lapsed, lost>>
  BY DEF UnloadCommand
<1>2. SlotsTypes'
  BY <1>1, Unloaded DEF SlotsInv, SlotsTypes
<1>3. Owned' /\ Claimed'
  BY <1>1 DEF Owned, Claimed
<1>4. Accounted'
  BY <1>1, UnloadAccounted DEF SlotsInv
<1> QED
  BY <1>1, <1>2, <1>3, <1>4 DEF SlotsInv, Turning, GivenUp

\* The end of the session: what it put on the endpoint it ends on is freed,
\* or is one of the excepted.
LEMMA UnloadAllKeeps ==
  ASSUME SlotsInv, UnloadAll
  PROVE  SlotsInv'
<1>1. /\ pc = "idle" /\ pc' = "off" /\ Unload(Freed({}))
      /\ UNCHANGED <<slot, target, active, bmodel, resident, ours, pins, degraded, enforced,
                     lapsed, lost>>
  BY DEF UnloadAll, manager
<1>2. Freed({}) \in SUBSET Models
  BY FreedTypes DEF SlotsInv
<1>3. SlotsTypes'
  BY <1>1, <1>2, Unloaded DEF SlotsInv, SlotsTypes
<1>4. Owned' /\ Claimed'
  BY <1>1 DEF Owned, Claimed, Settled
<1>5. /\ mine[active] \subseteq loaded[active] \union lapsed[active]
      /\ active \in Shared => mine[active] \subseteq ours \union missed[active] \union lapsed[active]
      /\ mine[active] \subseteq Models
  BY DEF SlotsInv, Accounted, SlotsTypes
<1>6. /\ active \in Shared => Freed({}) = ours
      /\ active \notin Shared => Freed({}) = Models
  BY DEF Freed, IsShared
<1>7. /\ missed[active] \subseteq missed'[active]
      /\ \/ mine'[active] = mine[active] /\ loaded[active] \cap Freed({}) \subseteq missed'[active]
         \/ mine'[active] = mine[active] \ Freed({})
  BY <1>1, <1>2, Unloaded DEF SlotsInv
<1>8. mine'[active] \subseteq missed'[active] \union lapsed[active]
  BY <1>5, <1>6, <1>7
<1>9. Accounted'
  <2>1. Shared \subseteq Backends
    BY SlotsAssumption
  <2>2. ASSUME NEW b \in Backends
        PROVE  /\ mine'[b] \subseteq loaded'[b] \union lapsed'[b]
               /\ b \in Shared => mine'[b] \subseteq ours' \union missed'[b] \union lapsed'[b]
    <3>1. /\ mine[b] \subseteq loaded[b] \union lapsed[b]
          /\ b \in Shared => mine[b] \subseteq ours \union missed[b] \union lapsed[b]
      BY DEF SlotsInv, Accounted
    <3>2. CASE b = active
      BY <1>1, <1>2, <3>1, <3>2, Unloaded DEF SlotsInv, SlotsTypes
    <3>3. CASE b # active
      BY <1>1, <1>2, <3>1, <3>3, Unloaded DEF SlotsInv
    <3> QED
      BY <3>2, <3>3
  <2>3. LeavesNothing'
    BY <1>1, <1>8 DEF LeavesNothing
  <2> QED
    BY <2>1, <2>2, <2>3 DEF Accounted
<1>10. Turning' /\ GivenUp'
  BY <1>1 DEF SlotsInv, Turning, GivenUp
<1> QED
  BY <1>3, <1>4, <1>9, <1>10 DEF SlotsInv

\* What another client loads or frees on a shared endpoint.
LEMMA OthersKeep ==
  ASSUME SlotsInv, NEW b \in Shared, NEW m \in Models,
         OthersLoad(b, m) \/ OthersUnload(b, m)
  PROVE  SlotsInv'
<1>1. /\ UNCHANGED <<pc, slot, target, active, bmodel, resident, ours, pins, degraded, enforced,
                     mine, missed, lost>>
      /\ \/ loaded' = [loaded EXCEPT ![b] = @ \union {m}] /\ UNCHANGED lapsed
         \/ /\ loaded' = [loaded EXCEPT ![b] = @ \ {m}]
            /\ lapsed' = [lapsed EXCEPT ![b] = @ \union {m}]
  BY DEF OthersLoad, OthersUnload, manager, history
<1>2. b \in Backends /\ Shared \subseteq Backends
  BY SlotsAssumption
<1>3. /\ loaded' \in [Backends -> SUBSET Models] /\ lapsed' \in [Backends -> SUBSET Models]
      /\ \A a \in Backends : a # b => loaded'[a] = loaded[a]
      /\ \A a \in Backends : lapsed[a] \subseteq lapsed'[a]
      /\ \A a \in Backends : loaded[a] \union lapsed[a] \subseteq loaded'[a] \union lapsed'[a]
  BY <1>1, <1>2 DEF SlotsInv, SlotsTypes
<1>4. SlotsTypes'
  BY <1>1, <1>3 DEF SlotsInv, SlotsTypes
<1>5. active \in Backends
  BY DEF SlotsInv, SlotsTypes
<1>6. Owned'
  BY <1>1, <1>3, <1>5 DEF SlotsInv, Owned, Settled
<1>7. Claimed'
  BY <1>1, <1>3, <1>5 DEF SlotsInv, Claimed, Settled
<1>8. Accounted'
  BY <1>1, <1>2, <1>3, <1>5 DEF SlotsInv, Accounted, LeavesNothing
<1>9. Turning' /\ GivenUp'
  BY <1>1 DEF SlotsInv, Turning, ModelFor, GivenUp
<1> QED
  BY <1>4, <1>6, <1>7, <1>8, <1>9 DEF SlotsInv

-----------------------------------------------------------------------------
(***************************************************************************)
(* The session as a whole, with its requests.                              *)
(***************************************************************************)

LEMMA SlotsStartsIn == SlotsInit => SlotsInv /\ RequestInv
<1> SUFFICES ASSUME SlotsInit PROVE SlotsInv /\ RequestInv
  OBVIOUS
<1>1. RequestInv
  BY StartsIn DEF SlotsInit
<1>2. /\ pc = "idle" /\ ~enforced /\ lost = 0 /\ ~degraded
      /\ mine = [b \in Backends |-> {}] /\ missed = mine /\ lapsed = mine
  BY DEF SlotsInit
<1>3. active \in Backends /\ pins \in [SlotNames -> Models \union {None}]
  <2>1. active \in Backends /\ Default[active] \in Models \union {None}
    BY SlotsAssumption DEF SlotsInit
  <2> QED
    BY <2>1 DEF SlotsInit
<1>4. target \in Models /\ resident = target /\ slot \in SlotNames
  BY <1>3, Pair DEF SlotsInit, ModelFor
<1>5. loaded \in [Backends -> SUBSET Models]
  <2>1. PICK held \in Held : loaded = [b \in Backends |-> held]
    BY DEF SlotsInit
  <2>2. held \in SUBSET Models
    BY SlotsAssumption
  <2> QED
    BY <2>1, <2>2
<1>6. SlotsTypes
  BY <1>2, <1>3, <1>4, <1>5 DEF SlotsInit, SlotsTypes
<1>7. Owned /\ Claimed /\ Turning
  BY <1>2 DEF Owned, Claimed, Turning, Settled
<1>8. Accounted
  <2>1. Shared \subseteq Backends
    BY SlotsAssumption
  <2> QED
    BY <1>2, <2>1 DEF Accounted, LeavesNothing
<1>9. GivenUp
  BY <1>2 DEF GivenUp
<1> QED
  BY <1>1, <1>6, <1>7, <1>8, <1>9 DEF SlotsInv

LEMMA SlotsNextKeeps ==
  ASSUME SlotsInv, [SlotsNext]_vars
  PROVE  SlotsInv'
<1>1. CASE Waits \/ TurnGoesOn("ask") \/ TurnGoesOn("idle") \/ Upgrade \/ CooldownOver
           \/ (\E m \in {"stream", "once"} : AskModel(m))
           \/ (\E b \in Backends : Flap(b)) \/ UNCHANGED vars
  BY <1>1, CalmSteps, CalmKeeps
<1>2. CASE Enforce \/ Swap \/ Guard \/ Served \/ Repair \/ Recover
  BY <1>2, EnforceKeeps, SwapKeeps, GuardKeeps, ServedKeeps, RepairKeeps, RecoverKeeps
<1>3. CASE \E s \in SlotNames : BackendFor(s) \/ \E m \in Models : Pin(s, m)
  BY <1>3, BackendForKeeps, PinKeeps
<1>4. CASE \E b \in Backends : Switch(b) \/ \E m \in Models : OthersLoad(b, m) \/ OthersUnload(b, m)
  BY <1>4, SwitchKeeps, OthersKeep DEF OthersLoad, OthersUnload
<1>5. CASE UnloadCommand \/ UnloadAll
  BY <1>5, UnloadCommandKeeps, UnloadAllKeeps
<1> QED
  BY <1>1, <1>2, <1>3, <1>4, <1>5 DEF SlotsNext, Session

\* Every step of the session is a step of its request, or leaves it alone.
LEMMA RequestsOfTheSession ==
  ASSUME [SlotsNext]_vars
  PROVE  [RNext]_rvars
<1>1. CASE Waits
  BY <1>1 DEF Waits, Alone, RNext, Step
<1>2. CASE Served
  BY <1>2 DEF Served, RNext, Step
<1>3. CASE TurnGoesOn("ask") \/ TurnGoesOn("idle") \/ Repair \/ Recover
  BY <1>3 DEF TurnGoesOn, Repair, Recover, RNext
<1>4. CASE \E m \in {"stream", "once"} : AskModel(m)
  BY <1>4 DEF AskModel, RNext
<1>5. CASE Enforce \/ Swap \/ Guard
  BY <1>5 DEF Enforce, Swap, Guard
<1>6. CASE \E s \in SlotNames : BackendFor(s) \/ \E m \in Models : Pin(s, m)
  BY <1>6 DEF BackendFor, Pin
<1>7. CASE \E b \in Backends : Switch(b) \/ Flap(b)
                               \/ \E m \in Models : OthersLoad(b, m) \/ OthersUnload(b, m)
  BY <1>7 DEF Switch, Flap, OthersLoad, OthersUnload
<1>8. CASE UnloadCommand \/ UnloadAll \/ Upgrade \/ CooldownOver
  BY <1>8 DEF UnloadCommand, UnloadAll, Upgrade, CooldownOver
<1>9. CASE UNCHANGED vars
  BY <1>9 DEF vars
<1> QED
  BY <1>1, <1>2, <1>3, <1>4, <1>5, <1>6, <1>7, <1>8, <1>9 DEF SlotsNext, Session

LEMMA SlotsInvariance == SlotsSpec => [](SlotsInv /\ RequestInv)
<1>1. SlotsInv /\ RequestInv /\ [SlotsNext]_vars => (SlotsInv /\ RequestInv)'
  BY SlotsNextKeeps, RequestsOfTheSession, NextKeeps
<1> QED
  BY SlotsStartsIn, <1>1, PTL DEF SlotsSpec

\* A session's requests each show the user one attempt (Backend.chat under
\* the turns of SlotManager).
THEOREM SessionShowsOnce == SlotsSpec => []ShownOnce
<1>1. RequestInv => ShownOnce
  BY DEF RequestInv
<1> QED
  BY SlotsInvariance, <1>1, PTL

\* While a request runs on an endpoint luxe owns, nothing else is in its
\* memory, save what an unload call did not reach: for any endpoints, models,
\* pins, switches, degrades and restarts (backend_for, _swap_to).
THEOREM OneModel == SlotsSpec => []OneModelInRam
<1>1. SlotsInv => OneModelInRam
  <2> SUFFICES ASSUME SlotsInv, pc \in {"ask", "asking"}, ~IsShared
               PROVE  loaded[active] \subseteq {bmodel} \union missed[active]
    BY DEF OneModelInRam
  <2>1. bmodel = target /\ resident = target /\ target # None
    BY Pair DEF SlotsInv, Turning, SlotsTypes
  <2> QED
    BY <2>1 DEF SlotsInv, Owned, Settled, IsShared
<1> QED
  BY SlotsInvariance, <1>1, PTL

\* The session leaves nothing of its own on the endpoint it ends on, however
\* many other clients share it (unload_all, _loaded_by_us).
THEOREM SessionLeavesNothing == SlotsSpec => []LeavesNothing
<1>1. SlotsInv => LeavesNothing
  BY DEF SlotsInv, Accounted
<1> QED
  BY SlotsInvariance, <1>1, PTL

\* Of the turns main costs a session on an endpoint that answers, at most one
\* is not spent on a restart: that one gives main up, and from then on main
\* answers no slot the user did not pin (recover_backend_failure,
\* note_turn_failure, _degrade, model_for).
THEOREM MainStaysGivenUp == SlotsSpec => []MainIsGivenUp
<1>1. SlotsInv => MainIsGivenUp
  <2> SUFFICES ASSUME SlotsInv PROVE MainIsGivenUp
    OBVIOUS
  <2>1. lost <= 1
    BY DEF SlotsInv, GivenUp
  <2>2. ASSUME pc \in {"ask", "asking"}, degraded, pins[slot] = None
        PROVE  bmodel = Fallback
    BY <2>2 DEF SlotsInv, Turning, ModelFor
  <2> QED
    BY <2>1, <2>2 DEF MainIsGivenUp
<1> QED
  BY SlotsInvariance, <1>1, PTL
=============================================================================
