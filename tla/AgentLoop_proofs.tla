--------------------------- MODULE AgentLoop_proofs ---------------------------
(***************************************************************************)
(* What the loop's exits, gates and bookkeeping promise, for every set of  *)
(* calls, every threshold and every number of steps.                       *)
(*                                                                         *)
(* The invariant is a conjunction of parts that only need the types of     *)
(* each other: what the guards know of interventions, what the idle        *)
(* counter knows of the last calls, what the dedup set knows of the calls  *)
(* since the last write. Each part has a lemma with a step per action.     *)
(***************************************************************************)
EXTENDS AgentLoop, FiniteSetTheorems, TLAPS

Kinds == {"write_pressure", "early_bail", "early_bail_breadth_probe", "action_density_gate"}

Yields == {"output", "nothing"}

Flags ==
  /\ heeded \in BOOLEAN /\ repeated \in BOOLEAN /\ reprompted \in BOOLEAN /\ unsent \in BOOLEAN

Shapes ==
  /\ pc \in {"guards", "compact", "chat", "dispatch", "done"}
  /\ outcome \in Outcomes
  /\ step \in Nat /\ nudged \in Nat \cup {None} /\ bailed \in Nat \cup {None}
  /\ probes \in Nat /\ total \in Nat /\ made \in Nat /\ writes \in Nat /\ idle \in Nat
  /\ repeats \in Nat /\ truncated \in Nat /\ empty \in Nat
  /\ spec \in Specs /\ fired \in SUBSET Kinds
  /\ seen \in SUBSET Calls /\ current \in SUBSET Calls /\ fresh \in SUBSET Calls
  /\ todo \in Seq(Calls)
  /\ shown \in [Calls -> Nat \cup {None, Cut}]
  /\ recent \in Seq(Yields)

LoopTypeOK == Shapes /\ Flags

\* The loop is over exactly when it has an outcome.
Ended == outcome = "running" <=> pc # "done"

\* An intervention is in messages for no longer than the step that made it, up
\* to the request; and once there was one, a write is known to have heeded it.
Heeding ==
  /\ pc \in {"guards", "dispatch"} => ~unsent
  /\ fired # {} => nudged # None
  /\ nudged # None /\ writes > 0 => heeded
  /\ outcome = "habituated" => writes = 0 /\ ~unsent

\* The last `idle` calls brought nothing, as far back as the history goes.
Idling ==
  /\ writes = 0 => idle = 0 /\ recent = <<>>
  /\ Len(recent) <= IdleMax
  /\ idle <= Len(recent) \/ Len(recent) = IdleMax
  /\ \A i \in 1 .. Len(recent) : i > Len(recent) - idle => recent[i] = "nothing"
  /\ outcome = "idle" => idle >= IdleMax

\* Nothing is dispatched under a spec that expects no call.
Gated == spec = "zero" => pc # "dispatch" /\ total = 0 /\ seen = {} /\ fired = {}

\* A result of this step is the newest there is.
Whole == \A k \in fresh : shown[k] = 1

\* What the dedup refuses, writes apart, was asked since the last write.
Reopening == seen \ Writes \subseteq current

IInv ==
  /\ LoopTypeOK /\ Ended /\ Heeding /\ Idling /\ Gated /\ UnmetIsReprompted /\ Whole /\ Reopening

----------------------------------------------------------------------------
(* Types *)

LEMMA Numbers ==
  /\ CountMax \in Nat /\ IdleMax \in Nat /\ KeepRecent \in Nat /\ HabituationKinds \in Nat
  /\ 0 < IdleMax /\ IdleMax < CountMax /\ 0 < KeepRecent /\ 0 < HabituationKinds
<1>1. /\ {MaxCalls, KeepRecent, IdleMax, RepeatMax, TruncatedMax, EmptyMax, Needed} \subseteq Nat
      /\ {DensityStep, DensityCalls, DensityWait, HabituationKinds, HabituationStep} \subseteq Nat
      /\ \A n \in {PressureCalls, BailCalls, DensityCalls, Needed, IdleMax} : n < CountMax
      /\ IdleMax > 0 /\ KeepRecent > 0 /\ HabituationKinds > 0
      /\ CountMax \in Nat
  BY LoopAssumption
<1> QED
  BY <1>1

LEMMA Sentinels == None \notin Nat /\ Cut \notin Nat /\ None # Cut
  BY LoopAssumption

LEMMA CountType ==
  ASSUME NEW n \in Nat
  PROVE  Count(n) \in Nat
  BY DEF Count

\* How a step ends: with an outcome, or with the next step.
LEMMA StepEnds ==
  ASSUME step \in Nat, NextStep
  PROVE  /\ step' \in Nat
         /\ \/ pc' = "done" /\ outcome' = "max_steps"
            \/ pc' = "guards" /\ outcome' = outcome
  BY DEF NextStep, End

\* The history of the last calls stays one of Booleans.
LEMMA RecallType ==
  ASSUME recent \in Seq(Yields), NEW new \in Yields
  PROVE  Recall(new) \in Seq(Yields) /\ <<>> \in Seq(Yields)
<1> DEFINE all == Append(recent, new)
<1>1. all \in Seq(Yields) /\ Len(all) = Len(recent) + 1 /\ <<>> \in Seq(Yields)
  OBVIOUS
<1>2. Recall(new) = IF Len(all) > IdleMax THEN Tail(all) ELSE all
  BY DEF Recall
<1> HIDE DEF all
<1>3. Tail(all) \in Seq(Yields) \/ ~(Len(all) > IdleMax)
  BY <1>1, Numbers
<1> QED
  BY <1>1, <1>2, <1>3

LEMMA TypeInit == Init => LoopTypeOK
<1>1. <<>> \in Seq(Calls) /\ <<>> \in Seq(Yields)
  OBVIOUS
<1>2. [k \in Calls |-> None] \in [Calls -> Nat \cup {None, Cut}]
  OBVIOUS
<1>3. Init => Shapes
  BY <1>1, <1>2 DEF Init, Shapes, Outcomes
<1>4. Init => Flags
  BY DEF Init, Flags
<1> QED
  BY <1>3, <1>4 DEF LoopTypeOK

LEMMA FlagsStep ==
  ASSUME Flags, [Next]_vars
  PROVE  Flags'
<1> USE DEF Flags
<1>1. CASE Guards
  <2>1. PICK pressure, bail, density : Intervene(pressure, bail, density)
    BY <1>1 DEF Guards
  <2> QED
    BY <1>1, <2>1 DEF Guards, Intervene, asked, calling
<1>2. CASE Compact \/ BackendError
  BY <1>2 DEF Compact, BackendError, asked, nudging, calling, history
<1>3. CASE NoCalls
  <2>1. reprompted' \in {TRUE, reprompted}
    BY <1>3 DEF NoCalls, asked
  <2>2. heeded' = heeded /\ repeated' = repeated /\ unsent' = FALSE
    BY <1>3 DEF NoCalls, Sent, calling
  <2> QED
    BY <2>1, <2>2
<1>4. CASE Block \/ Act
  BY <1>4 DEF Block, Act, Sent, asked, calling
<1>5. CASE Reject \/ Refuse \/ Dispatch
  BY <1>5 DEF Reject, Refuse, Dispatch, Handle, asked
<1>6. CASE EndOfStep
  BY <1>6 DEF EndOfStep, asked, history
<1>7. CASE UNCHANGED vars
  BY <1>7 DEF vars, asked, calling, history
<1> QED
  BY <1>1, <1>2, <1>3, <1>4, <1>5, <1>6, <1>7 DEF Next

LEMMA ShapesStep ==
  ASSUME Shapes, [Next]_vars
  PROVE  Shapes'
<1> USE DEF Shapes, Outcomes
<1>1. CASE Guards
  <2>0. PICK pressure, bail, density : Intervene(pressure, bail, density)
    BY <1>1 DEF Guards
  <2>1. /\ fired' \in SUBSET Kinds /\ nudged' \in Nat \cup {None} /\ bailed' \in Nat \cup {None}
        /\ probes' \in Nat
    BY <2>0 DEF Intervene, Interventions, BailedAt, Kinds
  <2>2. /\ pc' \in {"compact", "done"} /\ step' = step
        /\ outcome' \in {outcome, "habituated"}
    BY <2>0 DEF Intervene, End
  <2>3. UNCHANGED <<shown, asked, calling, current, recent, fresh>>
    BY <1>1 DEF Guards
  <2> QED
    BY <2>1, <2>2, <2>3 DEF asked, calling
<1>2. CASE Compact
  BY <1>2 DEF Compact, asked, nudging, calling, history
<1>3. CASE BackendError
  BY <1>3 DEF BackendError, End, asked, nudging, calling, history
<1>4. CASE NoCalls
  <2>0. Older \in [Calls -> Nat \cup {None, Cut}]
    BY DEF Older
  <2>1. /\ truncated' \in Nat /\ empty' \in Nat /\ spec' \in Specs
        /\ shown' \in {Older, shown}
        /\ fresh' = {}
        /\ UNCHANGED <<nudging, calling, current, recent>>
    BY <1>4 DEF NoCalls, Sent, asked
  <2>2. NextStep \/ \E how \in {"answered", "cut_silent", "silent"} : End(how)
    BY <1>4 DEF NoCalls
  <2>3. step' \in Nat /\ pc' \in {"guards", "done"} /\ outcome' \in Outcomes
    BY <2>2, StepEnds DEF End
  <2> QED
    BY <2>0, <2>1, <2>3 DEF nudging, calling
<1>5. CASE Block
  <2>1. step' \in Nat /\ pc' \in {"guards", "done"} /\ outcome' \in Outcomes
    BY <1>5, StepEnds DEF Block
  <2>2. shown' \in [Calls -> Nat \cup {None, Cut}]
    BY <1>5 DEF Block, Older
  <2> QED
    BY <1>5, <2>1, <2>2 DEF Block, Sent, asked, nudging, calling
<1>6. CASE Act
  <2>1. PICK n \in 1 .. MaxCalls : todo' \in [1 .. n -> Calls]
    BY <1>6 DEF Act
  <2>2. todo' \in Seq(Calls)
    <3>1. n \in Nat
      BY <2>1
    <3> QED
      BY <2>1, <3>1
  <2>3. shown' \in [Calls -> Nat \cup {None, Cut}]
    BY <1>6 DEF Act, Older
  <2> QED
    BY <1>6, <2>2, <2>3 DEF Act, Sent, asked, nudging
<1>7. CASE Reject \/ Refuse \/ Dispatch
  <2>1. /\ pc = "dispatch" /\ todo # <<>> /\ total' = Count(total) /\ todo' = Tail(todo)
        /\ UNCHANGED <<pc, step, outcome, asked, nudging, repeats, unsent>>
    BY <1>7 DEF Reject, Refuse, Dispatch, Handle
  <2>2. Key \in Calls /\ todo' \in Seq(Calls) /\ total' \in Nat
    BY <2>1, CountType DEF Key
  <2>3. Count(idle) \in Nat /\ Count(made) \in Nat /\ Count(writes) \in Nat
    BY CountType
  <2>4. CASE Reject
    BY <2>1, <2>2, <2>4 DEF Reject, asked, nudging
  <2>5. CASE Refuse
    <3>1. recent' \in Seq(Yields)
      BY <2>5, RecallType DEF Refuse, Yields
    <3> QED
      BY <2>1, <2>2, <2>3, <2>5, <3>1 DEF Refuse, asked, nudging
  <2>6. CASE Dispatch
    <3>1. recent' \in Seq(Yields)
      BY <2>6, RecallType DEF Dispatch, Yields
    <3>2. idle' \in Nat /\ made' \in Nat /\ writes' \in Nat
      BY <2>3, <2>6 DEF Dispatch, IdleAfter
    <3>3. seen' \in SUBSET Calls /\ current' \in SUBSET Calls
      BY <2>2, <2>6 DEF Dispatch, StillSeen
    <3>4. /\ shown' \in [Calls -> Nat \cup {None, Cut}] /\ fresh' \in SUBSET Calls
      BY <2>2, <2>6 DEF Dispatch
    <3> QED
      BY <2>1, <2>2, <3>1, <3>2, <3>3, <3>4 DEF asked, nudging
  <2> QED
    BY <1>7, <2>4, <2>5, <2>6
<1>8. CASE EndOfStep
  <2>1. NextStep \/ \E how \in {"idle", "stuck"} : End(how)
    BY <1>8 DEF EndOfStep
  <2>2. step' \in Nat /\ pc' \in {"guards", "done"} /\ outcome' \in Outcomes
    BY <2>1, StepEnds DEF End
  <2> QED
    BY <1>8, <2>2 DEF EndOfStep, asked, nudging, history
<1>9. CASE UNCHANGED vars
  BY <1>9 DEF vars, asked, nudging, calling, history
<1> QED
  BY <1>1, <1>2, <1>3, <1>4, <1>5, <1>6, <1>7, <1>8, <1>9 DEF Next

LEMMA TypeStep ==
  ASSUME LoopTypeOK, [Next]_vars
  PROVE  LoopTypeOK'
  BY FlagsStep, ShapesStep DEF LoopTypeOK
----------------------------------------------------------------------------
(* Interventions *)

\* The guards of a step leave an intervention only in a run that has written
\* nothing, and note the step they did it at.
LEMMA GuardsEffect ==
  ASSUME Shapes, Guards
  PROVE  /\ fired' # fired \/ nudged' # nudged => spec # "zero" /\ writes = 0
         /\ fired' # {} => fired # {} \/ nudged' = step
         /\ nudged' = step \/ (nudged' = nudged /\ fired' = fired /\ (unsent' => unsent))
         /\ \/ pc' = "compact" /\ outcome' = outcome
            \/ /\ pc' = "done" /\ outcome' = "habituated" /\ Habituated(fired', nudged')
         /\ step' = step
         /\ UNCHANGED <<shown, asked, calling, current, recent, fresh>>
<1>1. PICK pressure \in {FALSE, PressureDue}, bail \in BailAnswers :
        \E density \in {FALSE, DensityDue(BailedAt(bail))} : Intervene(pressure, bail, density)
  BY DEF Guards
<1>2. PICK density \in {FALSE, DensityDue(BailedAt(bail))} : Intervene(pressure, bail, density)
  BY <1>1
<1> DEFINE new == Interventions(pressure, bail, density)
           last == IF new = {} THEN nudged ELSE step
<1>3. /\ fired' = fired \cup new /\ nudged' = last /\ unsent' = (unsent \/ new # {})
      /\ IF Habituated(fired \cup new, last) THEN End("habituated")
         ELSE pc' = "compact" /\ UNCHANGED <<step, outcome>>
  BY <1>2 DEF Intervene
<1>4. new # {} => spec # "zero" /\ writes = 0
  <2>1. ASSUME pressure
        PROVE  spec # "zero" /\ writes = 0
    BY <2>1, <1>1 DEF PressureDue, Armed, Unwritten
  <2>2. ASSUME bail \in {"fire", "probe"}
        PROVE  spec # "zero" /\ writes = 0
    BY <2>2, <1>1 DEF BailAnswers, BailDue, Armed, Unwritten
  <2>3. ASSUME density
        PROVE  spec # "zero" /\ writes = 0
    BY <2>3, <1>2 DEF DensityDue, Armed, Unwritten
  <2> QED
    BY <2>1, <2>2, <2>3 DEF Interventions
<1> HIDE DEF new
<1>5. UNCHANGED <<shown, asked, calling, current, recent, fresh>>
  BY DEF Guards
<1>6. /\ nudged' = step \/ (nudged' = nudged /\ fired' = fired /\ (unsent' => unsent))
      /\ fired' # {} => fired # {} \/ nudged' = step
  BY <1>3
<1>7. /\ \/ pc' = "compact" /\ outcome' = outcome
         \/ /\ pc' = "done" /\ outcome' = "habituated" /\ Habituated(fired', nudged')
      /\ step' = step
  BY <1>3 DEF End
<1> QED
  BY <1>3, <1>4, <1>5, <1>6, <1>7

\* The habituated exit wants at least one intervention.
LEMMA HabituatedMeans ==
  ASSUME NEW kinds, NEW last, Habituated(kinds, last)
  PROVE  kinds # {} /\ ~heeded /\ (last # None => step > last)
<1>1. Cardinality(kinds) >= HabituationKinds /\ ~heeded /\ (last # None => step > last)
  BY DEF Habituated
<1>2. kinds # {}
  BY <1>1, FS_EmptySet, Numbers
<1> QED
  BY <1>1, <1>2

LEMMA EndedStep ==
  ASSUME Shapes, Ended, [Next]_vars
  PROVE  Ended'
<1> USE DEF Ended
<1>1. CASE Guards
  BY <1>1, GuardsEffect DEF Guards
<1>2. CASE Compact \/ Act \/ Reject \/ Refuse \/ Dispatch
  BY <1>2 DEF Compact, Act, Reject, Refuse, Dispatch, Handle
<1>3. CASE BackendError
  BY <1>3 DEF BackendError, End
<1>4. CASE NoCalls \/ Block \/ EndOfStep
  <2>1. pc # "done" /\ (NextStep \/ \E how \in Outcomes \ {"running"} : End(how))
    BY <1>4 DEF NoCalls, Block, EndOfStep, Outcomes
  <2> QED
    BY <2>1, StepEnds DEF End, Shapes
<1>5. CASE UNCHANGED vars
  BY <1>5 DEF vars
<1> QED
  BY <1>1, <1>2, <1>3, <1>4, <1>5 DEF Next

LEMMA HeedingStep ==
  ASSUME LoopTypeOK, Ended, Heeding, [Next]_vars
  PROVE  Heeding'
<1> USE DEF Heeding
<1>0. Shapes /\ Flags /\ step # None
  BY Sentinels DEF LoopTypeOK, Shapes
<1>1. CASE Guards
  <2>1. pc = "guards" /\ ~unsent /\ outcome = "running"
    BY <1>1 DEF Guards, Ended
  <2>2. heeded' = heeded /\ writes' = writes
    BY <1>0, <1>1, GuardsEffect DEF calling
  <2>3. fired' # {} => nudged' # None
    BY <1>0, <1>1, GuardsEffect
  <2>4. nudged' # None /\ writes' > 0 => heeded'
    BY <1>0, <1>1, <2>2, GuardsEffect DEF Shapes
  <2>5. pc' \notin {"guards", "dispatch"}
    BY <1>0, <1>1, GuardsEffect
  <2>6. ASSUME outcome' = "habituated"
        PROVE  writes' = 0 /\ ~unsent'
    <3>1. fired' # {} /\ ~heeded /\ (nudged' # None => step > nudged')
      BY <1>0, <1>1, <2>1, <2>6, GuardsEffect, HabituatedMeans
    <3>2. nudged' = nudged /\ (unsent' => unsent)
      BY <1>0, <1>1, <2>3, <3>1, GuardsEffect DEF Shapes
    <3>3. ~(writes' > 0)
      BY <2>2, <2>3, <2>4, <3>1
    <3> QED
      BY <1>0, <2>1, <2>2, <3>2, <3>3 DEF Shapes
  <2> QED
    BY <2>3, <2>4, <2>5, <2>6
<1>2. CASE Compact
  BY <1>2 DEF Compact, nudging, calling, history
<1>3. CASE BackendError
  <2>1. UNCHANGED <<fired, nudged, writes, heeded, unsent>>
    BY <1>3 DEF BackendError, nudging, calling, history
  <2>2. pc' = "done" /\ outcome' = "backend_error"
    BY <1>3 DEF BackendError, End
  <2> QED
    BY <2>1, <2>2
<1>4. CASE NoCalls \/ Block \/ Act
  <2>1. ~unsent' /\ UNCHANGED <<fired, nudged, writes, heeded>>
    BY <1>4 DEF NoCalls, Block, Act, Sent, nudging, calling
  <2>2. outcome' # "habituated"
    <3>1. outcome = "running"
      BY <1>4 DEF NoCalls, Block, Act, Ended
    <3>2. \/ NextStep \/ outcome' = outcome
          \/ \E how \in Outcomes \ {"habituated"} : End(how)
      BY <1>4 DEF NoCalls, Block, Act, Outcomes
    <3> QED
      BY <1>0, <3>1, <3>2, StepEnds DEF End, Shapes
  <2> QED
    BY <2>1, <2>2
<1>5. CASE Reject \/ Refuse
  BY <1>5 DEF Reject, Refuse, Handle, nudging, Ended
<1>6. CASE Dispatch
  <2>1. /\ UNCHANGED <<pc, outcome, fired, nudged, unsent>> /\ pc = "dispatch"
    BY <1>6 DEF Dispatch, Handle, nudging
  <2>2. PICK wrote \in BOOLEAN :
          /\ writes' = IF wrote THEN Count(writes) ELSE writes
          /\ heeded' = (heeded \/ (wrote /\ nudged # None))
    BY <1>6 DEF Dispatch
  <2>3. nudged # None /\ writes' > 0 => heeded'
    BY <2>2
  <2> QED
    BY <2>1, <2>3 DEF Ended
<1>7. CASE EndOfStep
  <2>1. UNCHANGED <<fired, nudged, writes, heeded, unsent>> /\ ~unsent /\ outcome = "running"
    BY <1>7 DEF EndOfStep, nudging, history, Ended
  <2>2. NextStep \/ \E how \in {"idle", "stuck"} : End(how)
    BY <1>7 DEF EndOfStep
  <2>3. outcome' # "habituated"
    BY <1>0, <2>1, <2>2, StepEnds DEF End, Shapes
  <2> QED
    BY <2>1, <2>3
<1>8. CASE UNCHANGED vars
  BY <1>8 DEF vars, nudging, calling, history
<1> QED
  BY <1>1, <1>2, <1>3, <1>4, <1>5, <1>6, <1>7, <1>8 DEF Next

----------------------------------------------------------------------------
(* The idle counter *)

\* One more call in the history: the others move down when it is full.
LEMMA OneMoreCall ==
  ASSUME recent \in Seq(Yields), Len(recent) <= IdleMax, NEW new \in Yields,
         recent' = Recall(new)
  PROVE  /\ recent' \in Seq(Yields) /\ Len(recent') \in Nat /\ Len(recent') > 0
         /\ Len(recent') = IF Len(recent) < IdleMax THEN Len(recent) + 1 ELSE IdleMax
         /\ recent'[Len(recent')] = new
         /\ \A i \in 1 .. Len(recent') - 1 :
              /\ i + Len(recent) + 1 - Len(recent') \in 1 .. Len(recent)
              /\ recent'[i] = recent[i + Len(recent) + 1 - Len(recent')]
<1> DEFINE all == Append(recent, new)
<1>1. /\ all \in Seq(Yields) /\ Len(all) = Len(recent) + 1 /\ all[Len(recent) + 1] = new
      /\ \A i \in 1 .. Len(recent) : all[i] = recent[i]
      /\ Len(recent) \in Nat
  OBVIOUS
<1>2. recent' = IF Len(all) > IdleMax THEN Tail(all) ELSE all
  BY DEF Recall
<1> HIDE DEF all
<1>3. CASE Len(all) > IdleMax
  <2>1. recent' = Tail(all) /\ Len(recent) = IdleMax
    BY <1>1, <1>2, <1>3, Numbers
  <2>2. /\ Tail(all) \in Seq(Yields) /\ Len(Tail(all)) = Len(all) - 1
        /\ \A i \in 1 .. Len(all) - 1 : Tail(all)[i] = all[i + 1]
    BY <1>1, <1>3, Numbers
  <2> QED
    BY <1>1, <2>1, <2>2, Numbers
<1>4. CASE ~(Len(all) > IdleMax)
  BY <1>1, <1>2, <1>4, Numbers
<1> QED
  BY <1>3, <1>4

\* The parts of Idling that the calls of a step can disturb.
Streak ==
  /\ writes = 0 => idle = 0 /\ recent = <<>>
  /\ Len(recent) <= IdleMax
  /\ idle <= Len(recent) \/ Len(recent) = IdleMax
  /\ \A i \in 1 .. Len(recent) : i > Len(recent) - idle => recent[i] = "nothing"

\* A call that counts as idle.
LEMMA IdleCall ==
  ASSUME Shapes, Streak, writes > 0, writes' > 0, idle' = Count(idle), recent' = Recall("nothing")
  PROVE  Streak'
<1>1. recent \in Seq(Yields) /\ Len(recent) <= IdleMax /\ Len(recent) \in Nat /\ idle \in Nat
  BY DEF Shapes, Streak
<1>2. /\ Len(recent') \in Nat /\ Len(recent') > 0
      /\ Len(recent') = IF Len(recent) < IdleMax THEN Len(recent) + 1 ELSE IdleMax
      /\ recent'[Len(recent')] = "nothing"
      /\ \A i \in 1 .. Len(recent') - 1 :
           /\ i + Len(recent) + 1 - Len(recent') \in 1 .. Len(recent)
           /\ recent'[i] = recent[i + Len(recent) + 1 - Len(recent')]
  BY <1>1, OneMoreCall DEF Yields
<1>3. idle' \in Nat /\ (idle' = idle + 1 \/ (idle' = idle /\ idle > IdleMax))
  BY <1>1, Numbers DEF Count
<1>4. Len(recent') <= IdleMax /\ (idle' <= Len(recent') \/ Len(recent') = IdleMax)
  BY <1>1, <1>2, <1>3, Numbers DEF Streak
<1>5. ASSUME NEW i \in 1 .. Len(recent'), i > Len(recent') - idle'
      PROVE  recent'[i] = "nothing"
  <2>1. CASE i = Len(recent')
    BY <1>2, <2>1
  <2>2. CASE i # Len(recent')
    <3> DEFINE j == i + Len(recent) + 1 - Len(recent')
    <3>1. j \in 1 .. Len(recent) /\ recent'[i] = recent[j]
      BY <1>2, <2>2
    <3>2. j > Len(recent) - idle
      BY <1>1, <1>2, <1>3, <1>5, Numbers
    <3> HIDE DEF j
    <3> QED
      BY <3>1, <3>2 DEF Streak
  <2> QED
    BY <2>1, <2>2
<1> QED
  BY <1>4, <1>5 DEF Streak

\* A call that brought something, or wrote.
LEMMA BusyCall ==
  ASSUME Shapes, Streak, writes' > 0, idle' = 0, recent' = Recall("output")
  PROVE  Streak'
<1>1. recent \in Seq(Yields) /\ Len(recent) <= IdleMax /\ Len(recent) \in Nat
  BY DEF Shapes, Streak
<1>2. Len(recent') \in Nat /\ Len(recent') <= IdleMax
  BY <1>1, OneMoreCall, Numbers DEF Yields
<1>3. \A i \in 1 .. Len(recent') : ~(i > Len(recent') - idle')
  BY <1>2
<1> QED
  BY <1>2, <1>3 DEF Streak

LEMMA IdlingStep ==
  ASSUME Shapes, Ended, Idling, [Next]_vars
  PROVE  Idling'
<1>1. Streak /\ (outcome = "idle" => idle >= IdleMax)
  BY DEF Idling, Streak
<1>2. /\ UNCHANGED <<writes, idle, recent>> => Streak'
      /\ Streak' /\ (outcome' = "idle" => idle' >= IdleMax) => Idling'
  BY <1>1 DEF Streak, Idling
<1>3. CASE Guards
  <2>1. UNCHANGED <<writes, idle, recent>> /\ outcome' \in {outcome, "habituated"}
    BY <1>3, GuardsEffect DEF calling
  <2> QED
    BY <1>1, <1>2, <2>1
<1>4. CASE Compact \/ BackendError \/ NoCalls \/ Block \/ Act
  <2>1. UNCHANGED <<writes, idle, recent>>
    BY <1>4 DEF Compact, BackendError, NoCalls, Block, Act, Sent, calling, history
  <2>2. \/ NextStep \/ outcome' = outcome \/ \E how \in Outcomes \ {"idle"} : End(how)
    BY <1>4 DEF Compact, BackendError, NoCalls, Block, Act, Outcomes
  <2>3. outcome' = "idle" => outcome = "idle"
    BY <2>2, StepEnds DEF End, Shapes
  <2> QED
    BY <1>1, <1>2, <2>1, <2>3
<1>5. CASE Reject
  <2>1. UNCHANGED <<writes, idle, recent, outcome>>
    BY <1>5 DEF Reject, Handle
  <2> QED
    BY <1>1, <1>2, <2>1
<1>6. CASE Refuse
  <2>1. /\ writes' = writes /\ idle' = IF writes > 0 THEN Count(idle) ELSE idle
        /\ recent' = (IF writes > 0 THEN Recall("nothing") ELSE <<>>) /\ outcome' = "running"
    BY <1>6 DEF Refuse, Handle, Ended
  <2>2. CASE writes > 0
    <3>1. recent' = Recall("nothing")
      BY <2>1, <2>2 DEF Recall
    <3> QED
      BY <1>1, <1>2, <2>1, <2>2, <3>1, IdleCall
  <2>3. CASE ~(writes > 0)
    <3>1. writes = 0 /\ idle' = idle /\ recent' = <<>> /\ recent = <<>>
      BY <1>1, <2>1, <2>3 DEF Shapes, Streak
    <3> QED
      BY <1>2, <2>1, <3>1
  <2> QED
    BY <2>2, <2>3
<1>7. CASE Dispatch
  <2>1. outcome' = "running"
    BY <1>7 DEF Dispatch, Handle, Ended
  <2>2. PICK brought \in {"output", "nothing", "error"} :
          LET wrote == Key \in Writes /\ brought # "error" IN
          /\ writes' = IF wrote THEN Count(writes) ELSE writes
          /\ idle' = IF wrote THEN 0 ELSE IdleAfter(brought)
          /\ recent' = IF ~wrote /\ writes = 0 THEN <<>>
                        ELSE Recall(IF wrote \/ brought = "output" THEN "output" ELSE "nothing")
    BY <1>7 DEF Dispatch
  <2>3. CASE Key \in Writes /\ brought # "error"
    <3>1. writes' = Count(writes) /\ idle' = 0 /\ recent' = Recall("output")
      BY <2>2, <2>3 DEF Recall
    <3>2. writes' > 0
      BY <3>1, Numbers DEF Count, Shapes
    <3> QED
      BY <1>1, <1>2, <2>1, <3>1, <3>2, BusyCall
  <2>4. CASE ~(Key \in Writes /\ brought # "error") /\ writes > 0
    <3>1. writes' = writes /\ idle' = IdleAfter(brought)
      BY <2>2, <2>4
    <3>2. CASE brought = "output"
      <4>1. idle' = 0 /\ recent' = Recall("output")
        BY <2>2, <2>4, <3>1, <3>2 DEF IdleAfter, Shapes
      <4> QED
        BY <1>1, <1>2, <2>1, <2>4, <3>1, <4>1, BusyCall
    <3>3. CASE brought # "output"
      <4>1. idle' = Count(idle)
        BY <2>4, <3>1, <3>3 DEF IdleAfter, Shapes
      <4>2. recent' = Recall("nothing")
        BY <2>2, <2>4, <3>3 DEF Recall
      <4> QED
        BY <1>1, <1>2, <2>1, <2>4, <3>1, <4>1, <4>2, IdleCall
    <3> QED
      BY <3>2, <3>3
  <2>5. CASE ~(Key \in Writes /\ brought # "error") /\ ~(writes > 0)
    <3>1. writes = 0 /\ writes' = writes /\ idle' = idle /\ recent' = <<>> /\ recent = <<>>
      BY <1>1, <2>2, <2>5 DEF IdleAfter, Shapes, Streak
    <3> QED
      BY <1>2, <2>1, <3>1
  <2> QED
    BY <2>3, <2>4, <2>5
<1>8. CASE EndOfStep
  <2>1. UNCHANGED <<writes, idle, recent>> /\ outcome = "running"
    BY <1>8 DEF EndOfStep, history, Ended
  <2>2. idle >= IdleMax \/ NextStep \/ End("stuck")
    BY <1>8 DEF EndOfStep
  <2>3. outcome' = "idle" => idle' >= IdleMax
    BY <2>1, <2>2, StepEnds DEF End, Shapes
  <2> QED
    BY <1>2, <2>1, <2>3
<1>9. CASE UNCHANGED vars
  <2>1. UNCHANGED <<writes, idle, recent, outcome>>
    BY <1>9 DEF vars, calling, history
  <2> QED
    BY <1>1, <1>2, <2>1
<1> QED
  BY <1>3, <1>4, <1>5, <1>6, <1>7, <1>8, <1>9 DEF Next

----------------------------------------------------------------------------
(* The gates, the retries, the results and the dedup set *)

LEMMA GatedStep ==
  ASSUME Shapes, Gated, [Next]_vars
  PROVE  Gated'
<1> USE DEF Gated
<1>1. CASE Guards
  <2>1. UNCHANGED <<spec, total, seen>> /\ pc' # "dispatch"
    BY <1>1, GuardsEffect DEF asked, calling
  <2>2. spec = "zero" => fired' = fired
    BY <1>1, GuardsEffect
  <2> QED
    BY <2>1, <2>2
<1>2. CASE Compact
  BY <1>2 DEF Compact, asked, nudging, calling
<1>3. CASE BackendError
  BY <1>3 DEF BackendError, End, asked, nudging, calling
<1>4. CASE NoCalls \/ Block
  <2>1. UNCHANGED <<spec, total, seen, fired>>
    BY <1>4 DEF NoCalls, Block, asked, nudging, calling
  <2>2. pc' # "dispatch"
    <3>1. NextStep \/ \E how : End(how)
      BY <1>4 DEF NoCalls, Block
    <3> QED
      BY <3>1, StepEnds DEF End, Shapes
  <2> QED
    BY <2>1, <2>2
<1>5. CASE Act
  BY <1>5 DEF Act, Blocks, asked
<1>6. CASE Reject \/ Refuse \/ Dispatch
  BY <1>6 DEF Reject, Refuse, Dispatch, Handle, asked
<1>7. CASE EndOfStep
  BY <1>7 DEF EndOfStep, asked
<1>8. CASE UNCHANGED vars
  BY <1>8 DEF vars, asked, nudging, calling
<1> QED
  BY <1>1, <1>2, <1>3, <1>4, <1>5, <1>6, <1>7, <1>8 DEF Next

LEMMA RepromptedStep ==
  ASSUME Shapes, Ended, UnmetIsReprompted, [Next]_vars
  PROVE  UnmetIsReprompted'
<1> DEFINE OnItsOwn == {"answered", "silent", "cut_silent"}
<1>1. ASSUME outcome' \notin OnItsOwn
      PROVE  UnmetIsReprompted'
  BY <1>1 DEF UnmetIsReprompted
<1>2. CASE Guards
  <2>1. outcome' \notin OnItsOwn
    BY <1>2, GuardsEffect DEF Guards, Ended
  <2> QED
    BY <1>1, <2>1
<1>3. CASE Compact \/ Act \/ Reject \/ Refuse \/ Dispatch
  <2>1. outcome' \notin OnItsOwn
    BY <1>3 DEF Compact, Act, Reject, Refuse, Dispatch, Handle, Ended
  <2> QED
    BY <1>1, <2>1
<1>4. CASE BackendError \/ Block \/ EndOfStep
  <2>1. NextStep \/ \E how \in Outcomes \ OnItsOwn : End(how)
    BY <1>4 DEF BackendError, Block, EndOfStep, Outcomes
  <2>2. outcome = "running"
    BY <1>4 DEF BackendError, Block, EndOfStep, Ended
  <2>3. outcome' \notin OnItsOwn
    BY <2>1, <2>2, StepEnds DEF End, Shapes
  <2> QED
    BY <1>1, <2>3
<1>5. CASE NoCalls
  <2>1. outcome = "running" /\ made' = made
    BY <1>5 DEF NoCalls, Ended, calling
  <2>2. CASE NextStep
    <3>1. outcome' \notin OnItsOwn
      BY <2>1, <2>2, StepEnds DEF Shapes
    <3> QED
      BY <1>1, <3>1
  <2>3. CASE ~NextStep
    <3>1. PICK text, cut \in BOOLEAN : ~RepromptDue(text) /\ UNCHANGED asked
      BY <1>5, <2>3 DEF NoCalls
    <3> QED
      BY <2>1, <3>1 DEF RepromptDue, UnmetIsReprompted, asked
  <2> QED
    BY <2>2, <2>3
<1>6. CASE UNCHANGED vars
  BY <1>6 DEF vars, asked, calling, UnmetIsReprompted
<1> QED
  BY <1>2, <1>3, <1>4, <1>5, <1>6 DEF Next

LEMMA WholeStep ==
  ASSUME Shapes, Whole, [Next]_vars
  PROVE  Whole'
<1> USE DEF Whole
<1>1. CASE Guards
  BY <1>1 DEF Guards
<1>2. CASE Compact
  <2>1. PICK lost \in SUBSET {k \in Calls : Eligible(k)} :
          shown' = [k \in Calls |-> IF k \in lost THEN Cut ELSE shown[k]]
    BY <1>2 DEF Compact
  <2>2. fresh' = fresh /\ fresh \subseteq Calls
    BY <1>2 DEF Compact, history, Shapes
  <2>3. ASSUME NEW k \in fresh
        PROVE  shown'[k] = 1
    <3>1. shown[k] = 1 /\ k \in Calls
      BY <2>2, <2>3
    <3>2. ~Eligible(k)
      BY <3>1, Numbers DEF Eligible
    <3> QED
      BY <2>1, <3>1, <3>2
  <2> QED
    BY <2>2, <2>3
<1>3. CASE BackendError \/ EndOfStep
  BY <1>3 DEF BackendError, EndOfStep, history
<1>4. CASE NoCalls \/ Block \/ Act
  BY <1>4 DEF NoCalls, Block, Act, Sent
<1>5. CASE Reject \/ Refuse
  BY <1>5 DEF Reject, Refuse
<1>6. CASE Dispatch
  <2>1. Key \in Calls
    BY <1>6 DEF Dispatch, Handle, Key, Shapes
  <2>2. shown' = [shown EXCEPT ![Key] = 1] /\ fresh' = fresh \cup {Key}
    BY <1>6 DEF Dispatch
  <2> QED
    BY <2>1, <2>2 DEF Shapes
<1>7. CASE UNCHANGED vars
  BY <1>7 DEF vars, history
<1> QED
  BY <1>1, <1>2, <1>3, <1>4, <1>5, <1>6, <1>7 DEF Next

LEMMA ReopeningStep ==
  ASSUME Reopening, [Next]_vars
  PROVE  Reopening'
<1> USE DEF Reopening
<1>1. CASE Guards
  BY <1>1 DEF Guards, calling
<1>2. CASE Compact \/ BackendError
  BY <1>2 DEF Compact, BackendError, calling, history
<1>3. CASE NoCalls \/ Block \/ Act
  BY <1>3 DEF NoCalls, Block, Act, Sent, calling
<1>4. CASE Reject \/ Refuse
  BY <1>4 DEF Reject, Refuse
<1>5. CASE Dispatch
  <2>1. \E wrote \in BOOLEAN :
          /\ seen' = IF wrote THEN StillSeen(seen \cup {Key}) ELSE seen \cup {Key}
          /\ current' = (IF wrote THEN {} ELSE current) \cup {Key}
    BY <1>5 DEF Dispatch
  <2> QED
    BY <2>1 DEF StillSeen
<1>6. CASE EndOfStep
  BY <1>6 DEF EndOfStep, history
<1>7. CASE UNCHANGED vars
  BY <1>7 DEF vars, calling, history
<1> QED
  BY <1>1, <1>2, <1>3, <1>4, <1>5, <1>6, <1>7 DEF Next

----------------------------------------------------------------------------
(* The theorems *)

LEMMA Invariance == Spec => []IInv
<1>1. Init => IInv
  <2>1. Init => LoopTypeOK
    BY TypeInit
  <2>2. Init => Ended /\ Heeding /\ Gated /\ UnmetIsReprompted /\ Whole /\ Reopening
    BY DEF Init, Ended, Heeding, Gated, UnmetIsReprompted, Whole, Reopening
  <2>3. Init => Idling
    BY Numbers DEF Init, Idling
  <2> QED
    BY <2>1, <2>2, <2>3 DEF IInv
<1>2. IInv /\ [Next]_vars => IInv'
  BY TypeStep, EndedStep, HeedingStep, IdlingStep, GatedStep, RepromptedStep, WholeStep,
     ReopeningStep DEF IInv, LoopTypeOK
<1> QED
  BY <1>1, <1>2, PTL DEF Spec

\* Every reachable state of the loop is well typed.
THEOREM TypeCorrect == Spec => []LoopTypeOK
<1>1. IInv => LoopTypeOK
  BY DEF IInv
<1> QED
  BY <1>1, Invariance, PTL

\* No run is cut short as intervention-resistant that has written, or that has
\* not seen an intervention; and none as idle while its calls bring something.
THEOREM ExitsEarned == Spec => []ExitsAreEarned
<1>1. IInv => ExitsAreEarned
  <2> SUFFICES ASSUME IInv
               PROVE  ExitsAreEarned
    OBVIOUS
  <2>1. Heeding /\ Idling /\ Shapes
    BY DEF IInv, LoopTypeOK
  <2>2. ASSUME outcome = "idle"
        PROVE  writes > 0 /\ Len(recent) = IdleMax /\ \A i \in 1 .. IdleMax : recent[i] = "nothing"
    <3>1. idle >= IdleMax /\ idle \in Nat /\ writes \in Nat
      BY <2>1, <2>2 DEF Idling, Shapes
    <3>2. writes > 0
      BY <2>1, <3>1, Numbers DEF Idling
    <3>3. Len(recent) = IdleMax
      BY <2>1, <3>1, Numbers DEF Idling, Shapes
    <3> QED
      BY <2>1, <3>1, <3>2, <3>3, Numbers DEF Idling
  <2> QED
    BY <2>1, <2>2 DEF ExitsAreEarned, Heeding
<1> QED
  BY <1>1, Invariance, PTL

\* Under a zero-call spec nothing is dispatched, whatever the model replies.
THEOREM ZeroMeansNone == Spec => []ZeroCallsMeansNone
<1>1. IInv => ZeroCallsMeansNone
  BY DEF IInv, Gated, ZeroCallsMeansNone
<1> QED
  BY <1>1, Invariance, PTL

\* A run that may end on its own with too few calls has been told.
THEOREM UnmetIsTold == Spec => []UnmetIsReprompted
<1>1. IInv => UnmetIsReprompted
  BY DEF IInv
<1> QED
  BY <1>1, Invariance, PTL

\* Whatever compaction drops, the request after a call carries its result.
THEOREM ResultsArrive == Spec => []NewResultsArriveWhole
<1>1. IInv => NewResultsArriveWhole
  BY DEF IInv, Whole, NewResultsArriveWhole
<1> QED
  BY <1>1, Invariance, PTL

\* The dedup never refuses an observation that a write may have made stale.
THEOREM RefusalsAreCurrent == Spec => ObservationsReopen
<1>1. IInv /\ [Next]_vars => [Refuse /\ Key \notin Writes => Key \in current]_vars
  BY DEF IInv, Reopening, Refuse
<1> QED
  BY <1>1, Invariance, PTL DEF Spec, ObservationsReopen
=============================================================================
