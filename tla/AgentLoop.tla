------------------------------ MODULE AgentLoop ------------------------------
(***************************************************************************)
(* run_agent (src/luxe/agents/loop.py): the loop that asks the model,      *)
(* dispatches its tool calls and decides when the run ends, with the       *)
(* guards of guardrails.py, the compaction of context.py and the spec      *)
(* gates. The loop is sequential; what is open is what the model answers,  *)
(* what the tools return and how large everything is.                      *)
(*                                                                         *)
(* A tool call is its dedup key (name and arguments). Token counts,        *)
(* convergence scores and result sizes are abstracted to the decisions     *)
(* they lead to, chosen freely; a counter that is only compared with       *)
(* thresholds stops at CountMax, which is above them. Of the messages, the *)
(* model keeps where the last result of every call is: as many assistant   *)
(* iterations from the end, which is what compaction goes by.              *)
(***************************************************************************)
EXTENDS Naturals, Sequences, FiniteSets

CONSTANTS Calls,      \* the keys of the calls the model may make
          Reads,      \* those of read_file, which dedup lets through
          Writes,     \* those of write_file and edit_file
          Rejected,   \* those that fail the schema check or carry a secret
          None, Cut,  \* no step or result; a result that was cut or dropped
          MaxSteps,   \* RoleConfig.max_steps
          MaxCalls,   \* bound on the tool calls of one reply
          CountMax,   \* where the counters stop
          KeepRecent, \* TieredCompact.keep_recent
          IdleMax,    \* _POST_WRITE_IDLE_MAX
          RepeatMax,  \* _MAX_CONSECUTIVE_REPEAT_STEPS
          TruncatedMax, EmptyMax,   \* retries of a cut off and of an empty reply
          Specs,      \* the kinds of spec a run may have
          Needed,     \* min_matches of a min_tool_calls requirement
          Nudges,     \* the interventions whose switch is on
          PressureStep, PressureCalls,              \* WritePressureGuard
          BailStep, BailCalls, ProbeCount,          \* EarlyBailGuard
          DensityStep, DensityCalls, DensityWait,   \* ActionDensityGateGuard
          HabituationKinds, HabituationStep         \* HabituationExitGuard

ASSUME LoopAssumption ==
  /\ Reads \subseteq Calls /\ Writes \subseteq Calls /\ Rejected \subseteq Calls
  /\ Reads \cap Writes = {}
  /\ {None, Cut} \cap Nat = {} /\ None # Cut
  /\ MaxSteps \in Nat \ {0}
  /\ {MaxCalls, KeepRecent, IdleMax, RepeatMax, TruncatedMax, EmptyMax, Needed} \subseteq Nat
  /\ {PressureStep, PressureCalls, BailStep, BailCalls, ProbeCount} \subseteq Nat
  /\ {DensityStep, DensityCalls, DensityWait, HabituationKinds, HabituationStep} \subseteq Nat
  /\ IdleMax > 0 /\ KeepRecent > 0 /\ HabituationKinds > 0
  /\ CountMax \in Nat
  /\ \A n \in {PressureCalls, BailCalls, DensityCalls, Needed, IdleMax} : n < CountMax
  /\ Specs \subseteq {"none", "zero", "min"}
  /\ Nudges \subseteq {"write_pressure", "early_bail", "action_density_gate"}

VARIABLES
  pc,         \* the place in the loop body
  step,
  spec,       \* what the run's spec asks: nothing, no call, or Needed calls
  fired,      \* intervention_kinds_fired
  bailed,     \* early_bail_step
  nudged,     \* last_intervention_step
  probes,     \* suppression_count_in_trajectory
  heeded,     \* first_write_step_after_intervention is set
  total,      \* tool_calls_total
  made,       \* len(actual_tool_calls): dispatched without error
  writes,     \* writes_seen
  idle,       \* post_write_idle_tools
  seen,       \* seen_calls
  repeats,    \* consecutive_repeat_steps
  repeated,   \* step_had_repeat
  todo,       \* the calls of this step still to be handled
  truncated, empty,   \* retries used
  reprompted,
  shown,      \* [Calls -> where its last result is in messages]
  outcome,    \* how the run ended
  \* history
  current,    \* the calls dispatched since the last write
  recent,     \* after the first write: which of the last calls brought something
  unsent,     \* an intervention is in messages and no request has carried it
  fresh       \* the calls answered since the last request

asked == <<spec, truncated, empty, reprompted>>
nudging == <<fired, bailed, nudged, probes>>
calling == <<heeded, total, made, writes, idle, seen, repeats, repeated, todo>>
history == <<current, recent, unsent, fresh>>
vars == <<pc, step, outcome, shown, asked, nudging, calling, history>>

Outcomes == {"running", "answered", "silent", "cut_silent", "idle", "habituated", "stuck",
             "backend_error", "max_steps"}

Count(n) == IF n < CountMax THEN n + 1 ELSE n

Init ==
  /\ pc = "guards" /\ step = 0 /\ outcome = "running"
  /\ spec \in Specs
  /\ fired = {} /\ bailed = None /\ nudged = None /\ probes = 0
  /\ heeded = FALSE /\ total = 0 /\ made = 0 /\ writes = 0 /\ idle = 0
  /\ seen = {} /\ repeats = 0 /\ repeated = FALSE /\ todo = <<>>
  /\ truncated = 0 /\ empty = 0 /\ reprompted = FALSE
  /\ shown = [k \in Calls |-> None]
  /\ current = {} /\ recent = <<>> /\ unsent = FALSE /\ fresh = {}

End(how) == outcome' = how /\ pc' = "done" /\ UNCHANGED step

\* The for loop: the next step, or its else clause.
NextStep ==
  IF step + 1 = MaxSteps THEN End("max_steps")
  ELSE step' = step + 1 /\ pc' = "guards" /\ UNCHANGED outcome

----------------------------------------------------------------------------
(* _pre_step_guards *)

\* Every intervention is for a run that has written nothing.
Unwritten == writes = 0

\* With a zero-call spec the interventions are off.
Armed(kind) == kind \in Nudges /\ spec # "zero" /\ Unwritten

PressureDue ==
  /\ Armed("write_pressure") /\ "write_pressure" \notin fired
  /\ step >= PressureStep /\ total >= PressureCalls

BailDue ==
  /\ Armed("early_bail") /\ "early_bail" \notin fired
  /\ step >= BailStep /\ total >= BailCalls

\* Alone, or DensityWait steps after an early bail that was not heeded.
DensityDue(bailStep) ==
  /\ Armed("action_density_gate") /\ "action_density_gate" \notin fired
  /\ step >= DensityStep /\ total <= DensityCalls
  /\ bailStep = None \/ step - bailStep >= DensityWait

\* What the early-bail guard answers when it is due: fire, or hold back on a
\* low convergence score, which with the hybrid band response may probe at the
\* first suppression and at the ProbeCount-th.
BailAnswers ==
  IF ~BailDue THEN {"no"}
  ELSE {"fire", "hold"} \cup (IF probes + 1 \in {1, ProbeCount} THEN {"probe"} ELSE {})

\* Mutant of Habituated: an intervention of this very step counts as ignored.
HabituatedAtOnce(kinds, last) ==
  /\ Cardinality(kinds) >= HabituationKinds /\ ~heeded /\ step >= HabituationStep

\* HabituationExitGuard, after this step's interventions.
Habituated(kinds, last) ==
  /\ Cardinality(kinds) >= HabituationKinds
  /\ ~heeded
  /\ step >= HabituationStep
  /\ last # None => step > last

\* The messages the guards append.
Interventions(pressure, bail, density) ==
  (IF pressure THEN {"write_pressure"} ELSE {})
  \cup (IF bail = "fire" THEN {"early_bail"} ELSE {})
  \cup (IF bail = "probe" THEN {"early_bail_breadth_probe"} ELSE {})
  \cup (IF density THEN {"action_density_gate"} ELSE {})

BailedAt(bail) == IF bail = "fire" THEN step ELSE bailed

\* What these answers of the guards come to.
Intervene(pressure, bail, density) ==
  LET new == Interventions(pressure, bail, density)
      last == IF new = {} THEN nudged ELSE step
  IN /\ fired' = fired \cup new
     /\ nudged' = last
     /\ bailed' = BailedAt(bail)
     /\ probes' = IF bail \in {"hold", "probe"} THEN probes + 1 ELSE probes
     /\ unsent' = (unsent \/ new # {})
     /\ IF Habituated(fired \cup new, last) THEN End("habituated")
        ELSE pc' = "compact" /\ UNCHANGED <<step, outcome>>

\* The guards in their order; token counts and scores decide between a guard
\* that is due and one that fires.
Guards ==
  /\ pc = "guards"
  /\ \E pressure \in {FALSE, PressureDue}, bail \in BailAnswers :
     \E density \in {FALSE, DensityDue(BailedAt(bail))} : Intervene(pressure, bail, density)
  /\ UNCHANGED <<shown, asked, calling, current, recent, fresh>>

----------------------------------------------------------------------------
(* _compact_step *)

\* Mutant of Eligible: one iteration less is kept.
EligibleOneMore(k) == shown[k] \in Nat /\ shown[k] >= KeepRecent

\* A result is out of the last KeepRecent assistant iterations.
Eligible(k) == shown[k] \in Nat /\ shown[k] > KeepRecent

\* TieredCompact.compact: nothing below the first threshold; then the long
\* results are cut; then all of them dropped.
Compact ==
  /\ pc = "compact"
  /\ \E lost \in SUBSET {k \in Calls : Eligible(k)} :
       shown' = [k \in Calls |-> IF k \in lost THEN Cut ELSE shown[k]]
  /\ pc' = "chat"
  /\ UNCHANGED <<step, outcome, asked, nudging, calling, history>>

----------------------------------------------------------------------------
(* the reply *)

\* An assistant message is appended.
Older == [k \in Calls |-> IF shown[k] \in 1 .. KeepRecent THEN shown[k] + 1 ELSE shown[k]]

\* The request carried everything that was in messages.
Sent == unsent' = FALSE /\ fresh' = {} /\ UNCHANGED <<current, recent>>

\* backend.chat raised.
BackendError ==
  /\ pc = "chat"
  /\ End("backend_error")
  /\ UNCHANGED <<shown, asked, nudging, calling, history>>

\* _truncated_turn_retry, _empty_turn_retry, _spec_min_calls_reprompt: why a
\* reply without a tool call does not end the run, in this order.
CutDue(cut) == cut /\ truncated < TruncatedMax

EmptyDue(text, cut) == ~text /\ ~cut /\ empty < EmptyMax

\* Mutant of RepromptDue: only a reply with text is reprompted.
RepromptDueOnText(text) == spec = "min" /\ made < Needed /\ ~reprompted /\ text

RepromptDue(text) == spec = "min" /\ made < Needed /\ ~reprompted

NoCalls ==
  /\ pc = "chat"
  /\ \E text, cut \in BOOLEAN :
       \/ /\ CutDue(cut)
          /\ truncated' = truncated + 1 /\ UNCHANGED <<spec, empty, reprompted>>
          /\ shown' = IF text THEN Older ELSE shown
          /\ NextStep
       \/ /\ ~CutDue(cut) /\ EmptyDue(text, cut)
          /\ empty' = empty + 1 /\ UNCHANGED <<spec, truncated, reprompted>>
          /\ UNCHANGED shown
          /\ NextStep
       \/ /\ ~CutDue(cut) /\ ~EmptyDue(text, cut) /\ RepromptDue(text)
          /\ reprompted' = TRUE /\ UNCHANGED <<spec, truncated, empty>>
          /\ shown' = IF text THEN Older ELSE shown
          /\ NextStep
       \/ /\ ~CutDue(cut) /\ ~EmptyDue(text, cut) /\ ~RepromptDue(text)
          /\ End(IF text THEN "answered" ELSE IF cut THEN "cut_silent" ELSE "silent")
          /\ UNCHANGED <<asked, shown>>
  /\ Sent
  /\ UNCHANGED <<nudging, calling>>

\* Mutant of Blocks: only structured calls are blocked.
BlocksStructured(recovered) == spec = "zero" /\ ~recovered

\* The pre-dispatch gate of a zero-call spec, for calls that were structured
\* and calls recovered from the text alike.
Blocks(recovered) == spec = "zero"

Block ==
  /\ pc = "chat"
  /\ \E recovered \in BOOLEAN : Blocks(recovered)
  /\ shown' = Older
  /\ NextStep
  /\ Sent
  /\ UNCHANGED <<asked, nudging, calling>>

\* _append_acting_turn; from text only the first call is recovered.
Act ==
  /\ pc = "chat"
  /\ \E recovered \in BOOLEAN, n \in 1 .. MaxCalls :
       /\ ~Blocks(recovered)
       /\ recovered => n = 1
       /\ todo' \in [1 .. n -> Calls]
  /\ repeated' = FALSE
  /\ shown' = Older
  /\ pc' = "dispatch"
  /\ Sent
  /\ UNCHANGED <<step, outcome, asked, nudging, heeded, total, made, writes, idle, seen, repeats>>

----------------------------------------------------------------------------
(* _dispatch_one *)

Key == Head(todo)

\* Of the calls that reached the dedup since the first write, the last IdleMax.
Recall(new) ==
  LET all == Append(recent, new) IN IF Len(all) > IdleMax THEN Tail(all) ELSE all

Handle ==
  /\ pc = "dispatch" /\ todo # <<>>
  /\ total' = Count(total)
  /\ todo' = Tail(todo)
  /\ UNCHANGED <<pc, step, outcome, asked, nudging, repeats, unsent>>

\* _schema_error, _refuse_secret_egress: answered, not dispatched.
Reject ==
  /\ Handle
  /\ Key \in Rejected
  /\ UNCHANGED <<shown, heeded, made, writes, idle, seen, repeated, current, recent, fresh>>

\* _dedup_short_circuit
Refuse ==
  /\ Handle
  /\ Key \notin Rejected /\ Key \in seen \ Reads
  /\ repeated' = TRUE
  /\ idle' = IF writes > 0 THEN Count(idle) ELSE idle
  /\ recent' = IF writes > 0 THEN Recall("nothing") ELSE <<>>
  /\ UNCHANGED <<shown, heeded, made, writes, seen, current, fresh>>

\* Mutant of StillSeen: a write forgets nothing.
StillSeenAll(keys) == keys

\* _track_write: a write makes every earlier observation askable again.
StillSeen(keys) == keys \cap Writes

\* _track_dispatched: after a write, a call that brings nothing counts.
IdleAfter(brought) ==
  IF writes = 0 THEN idle ELSE IF brought \in {"nothing", "error"} THEN Count(idle) ELSE 0

Dispatch ==
  /\ Handle
  /\ Key \notin Rejected /\ Key \notin seen \ Reads
  /\ \E brought \in {"output", "nothing", "error"} :
       LET wrote == Key \in Writes /\ brought # "error" IN
       /\ made' = IF brought = "error" THEN made ELSE Count(made)
       /\ seen' = IF wrote THEN StillSeen(seen \cup {Key}) ELSE seen \cup {Key}
       /\ writes' = IF wrote THEN Count(writes) ELSE writes
       /\ heeded' = (heeded \/ (wrote /\ nudged # None))
       /\ idle' = IF wrote THEN 0 ELSE IdleAfter(brought)
       /\ recent' = IF ~wrote /\ writes = 0 THEN <<>>
                     ELSE Recall(IF wrote \/ brought = "output" THEN "output" ELSE "nothing")
       /\ current' = (IF wrote THEN {} ELSE current) \cup {Key}
  /\ shown' = [shown EXCEPT ![Key] = 1]
  /\ fresh' = fresh \cup {Key}
  /\ UNCHANGED repeated

\* _end_of_step: the idle exit, then the streak of steps with a repeat.
EndOfStep ==
  LET streak == IF repeated THEN repeats + 1 ELSE 0 IN
  /\ pc = "dispatch" /\ todo = <<>>
  /\ IF idle >= IdleMax THEN End("idle") /\ UNCHANGED repeats
     ELSE /\ repeats' = streak
          /\ IF repeated /\ streak >= RepeatMax THEN End("stuck") ELSE NextStep
  /\ UNCHANGED <<shown, asked, nudging, heeded, total, made, writes, idle, seen, repeated, todo,
                 history>>

Next ==
  \/ Guards \/ Compact
  \/ BackendError \/ NoCalls \/ Block \/ Act
  \/ Reject \/ Refuse \/ Dispatch \/ EndOfStep

Spec == Init /\ [][Next]_vars

----------------------------------------------------------------------------
(* Properties *)

\* The dedup refuses an observation only while nothing was written since it was
\* made: the model can always check again what it has just changed
\* (loop.py:1182-1189).
ObservationsReopen ==
  [][Refuse /\ Key \notin Writes => Key \in current]_vars

\* The early exits are earned. A run is called intervention-resistant only if
\* it wrote nothing at all and the model has been shown every intervention
\* (guardrails.py:376-380); the post-write idle exit ends a run that has written
\* and whose last calls all brought nothing, so it never cuts a verification
\* short (loop.py:1493).
ExitsAreEarned ==
  /\ outcome = "habituated" => writes = 0 /\ ~unsent
  /\ outcome = "idle" =>
       writes > 0 /\ Len(recent) = IdleMax /\ \A i \in 1 .. IdleMax : recent[i] = "nothing"

\* Under a spec that expects no call nothing is ever dispatched or nudged
\* toward a call, however the model asks for it.
ZeroCallsMeansNone == spec = "zero" => total = 0 /\ seen = {} /\ fired = {}

\* A run that ends on its own with too few calls was told so once.
UnmetIsReprompted ==
  outcome \in {"answered", "silent", "cut_silent"} /\ spec = "min" /\ made < Needed => reprompted

\* Compaction never takes a result the model has not seen yet.
NewResultsArriveWhole == pc = "chat" => \A k \in fresh : shown[k] \in Nat

=============================================================================
