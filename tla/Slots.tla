-------------------------------- MODULE Slots --------------------------------
(***************************************************************************)
(* SlotManager (src/luxe/chat/slots.py): which model answers a chat turn,  *)
(* on which endpoint, and what is in the endpoint's memory; with the       *)
(* failure kit of turn.py and repair.py, and the turn's requests           *)
(* (Request.tla) on the endpoint the manager chose.                        *)
(*                                                                         *)
(* The world has one or more endpoints. An owned one is this machine's     *)
(* oMLX, as brew installs it; a shared one also serves other clients, who  *)
(* load and unload models of their own. An endpoint may be down, may have  *)
(* weights of main that do not load, and an owned one may run a stale      *)
(* build that loads nothing until it is restarted.                         *)
(***************************************************************************)
EXTENDS Request

CONSTANTS Backends, Shared,   \* the configured endpoints, and the shared ones
          Models, Main, Fallback,  \* the host manifest's pair
          SlotNames, None,    \* chat, plan, code; no model
          Default,            \* the default_model of each endpoint, or None
          Offers,             \* what each endpoint serves, when its main is there
          StartOn,            \* default_backend_name(), in one of the configurations
          Held,               \* what earlier sessions and other clients may have loaded
          Scenarios,          \* sets of hazards: what may happen in one session
          MaxMoves            \* bound on what outages and other clients do

ASSUME SlotsAssumption ==
  /\ Shared \subseteq Backends /\ StartOn \subseteq Backends
  /\ {Main, Fallback} \subseteq Models /\ None \notin Models
  /\ Default \in [Backends -> Models \union {None}] /\ Offers \in [Backends -> SUBSET Models]
  /\ Held \subseteq SUBSET Models
  /\ Scenarios \subseteq SUBSET {"outage", "stale build", "others", "pins", "switch", "broken main"}
  /\ MaxMoves \in Nat

VARIABLES
  hazards,    \* the scenario of this session
  pc,         \* where the manager is in a turn
  slot,       \* the slot of the turn
  target,     \* the model backend_for is taking it to
  active,     \* backend_name
  bmodel,     \* backend.model
  resident,   \* _resident: what the manager believes is loaded
  ours,       \* _loaded_by_us
  pins,       \* overrides
  degraded,   \* degraded_from is set
  checked,    \* _catalog_checked
  enforced,   \* _residency_enforced
  cooled,     \* the restart cooldown of repair.py is armed
  up,         \* the endpoints that answer
  loaded,     \* what each endpoint has in memory
  catalog,    \* what each endpoint serves
  rotten,     \* the weights of main do not load
  stale,      \* the engine of the owned endpoints runs a deleted build
  moves,      \* how often an outage or another client struck
  mine,       \* history: what this session's requests caused to load
  missed,     \* history: what an unload call did not reach, by endpoint
  lapsed,     \* history: what others unloaded, by endpoint
  lost        \* history: turns the manifest's main cost on an endpoint that
              \* answers and that no restart was tried for, up to 2

manager == <<slot, target, active, bmodel, resident, ours, pins, degraded, checked, enforced, cooled>>
given == <<hazards, catalog, rotten>>
health == <<up, moves, stale>>
world == <<given, health, loaded>>
history == <<mine, missed, lapsed, lost>>
vars == <<rvars, pc, manager, world, history>>

IsShared == active \in Shared

\* cfg.model_for_slot: every slot of this configuration resolves to main.
\* A pin wins; a degrade reroutes the default.
ModelFor(s, d) == CASE pins[s] # None -> pins[s]
                    [] d -> Fallback
                    [] OTHER -> Main

\* _apply_entry_default_model: the endpoint's default model pins what is not.
Defaulted(p, b) == [s \in SlotNames |-> IF p[s] = None THEN Default[b] ELSE p[s]]

SlotsInit ==
  /\ RInit
  /\ hazards \in Scenarios /\ moves = 0
  /\ pc = "idle" /\ slot \in SlotNames
  /\ active \in StartOn /\ pins = [s \in SlotNames |-> Default[active]]
  /\ target = ModelFor(slot, FALSE) /\ bmodel = target /\ resident = target
  /\ ours = {} /\ degraded = FALSE /\ checked = FALSE /\ enforced = FALSE /\ cooled = FALSE
  /\ up = Backends
  /\ \E held \in Held : loaded = [b \in Backends |-> held]
  /\ \E gone \in {{}, {Main}} : catalog = [b \in Backends |-> Offers[b] \ gone]
  /\ rotten \in IF "broken main" \in hazards THEN BOOLEAN ELSE {FALSE}
  /\ stale = FALSE
  /\ mine = [b \in Backends |-> {}] /\ missed = mine /\ lapsed = mine /\ lost = 0

-----------------------------------------------------------------------------
(***************************************************************************)
(* Unloading. Best effort: an endpoint that is down keeps what it has, and *)
(* nothing is raised.                                                      *)
(***************************************************************************)

\* Unload the models of gone from the active endpoint.
Unload(gone) ==
  IF active \in up
  THEN /\ loaded' = [loaded EXCEPT ![active] = @ \ gone]
       /\ mine' = [mine EXCEPT ![active] = @ \ gone]
       /\ UNCHANGED missed
  ELSE /\ missed' = [missed EXCEPT ![active] = @ \union (gone \cap loaded[active])]
       /\ UNCHANGED <<loaded, mine>>

\* What a swap, or the end of the session, frees: on a shared endpoint what
\* this session loaded, on an owned one everything.
Freed(keep) == (IF IsShared THEN ours ELSE Models) \ keep

\* _degrade, past its guard: main is given up for the rest of the session.
Degrade == /\ degraded' = TRUE
           /\ resident' = IF resident = Main THEN None ELSE resident

CanDegrade == ~degraded /\ Fallback # Main

-----------------------------------------------------------------------------
(***************************************************************************)
(* backend_for. Its calls to the endpoint are steps of their own, and the  *)
(* world moves between them.                                               *)
(***************************************************************************)

\* The target, and the first look at the catalog. An endpoint that does not
\* answer leaves the catalog unknown.
BackendFor(s) ==
  /\ pc = "idle"
  /\ slot' = s /\ pc' = "enforce"
  /\ checked' = (checked \/ active \in up)
  /\ IF /\ ~checked /\ active \in up /\ CanDegrade
        /\ ModelFor(s, degraded) = Main
        /\ Main \notin catalog[active] /\ Fallback \in catalog[active]
     THEN Degrade /\ target' = ModelFor(s, TRUE)
     ELSE target' = ModelFor(s, degraded) /\ UNCHANGED <<degraded, resident>>
  /\ UNCHANGED <<rvars, active, bmodel, ours, pins, enforced, cooled, world, history>>

\* Mutant of Enforce: the first use of an endpoint evicts nothing and claims nothing.
MEnforceBlindly ==
  /\ pc = "enforce"
  /\ pc' = IF target = resident THEN "ask" ELSE "swap"
  /\ bmodel' = IF target = resident THEN target ELSE bmodel
  /\ enforced' = TRUE /\ UNCHANGED <<ours, loaded, mine, missed>>
  /\ UNCHANGED <<rvars, slot, target, active, resident, pins, degraded, checked, cooled,
                 given, health, lapsed, lost>>

\* Mutant of Enforce: on a shared endpoint the model of the first swap is not claimed.
MEnforceNoClaim ==
  /\ pc = "enforce"
  /\ pc' = IF target = resident THEN "ask" ELSE "swap"
  /\ bmodel' = IF target = resident THEN target ELSE bmodel
  /\ enforced' = TRUE /\ UNCHANGED ours
  /\ IF enforced \/ IsShared THEN UNCHANGED <<loaded, mine, missed>>
     ELSE Unload(Models \ {target})
  /\ UNCHANGED <<rvars, slot, target, active, resident, pins, degraded, checked, cooled,
                 given, health, lapsed, lost>>

\* First use of an endpoint: evict what an earlier session left there, or, on
\* a shared one, learn whether the target is ours to free. loaded_models is
\* empty when the endpoint does not answer. Then the short cut past a swap.
Enforce ==
  /\ pc = "enforce"
  /\ pc' = IF target = resident THEN "ask" ELSE "swap"
  /\ bmodel' = IF target = resident THEN target ELSE bmodel
  /\ enforced' = TRUE
  /\ CASE ~enforced /\ IsShared ->
            /\ ours' = IF active \notin up \/ target \notin loaded[active]
                       THEN ours \union {target} ELSE ours
            /\ UNCHANGED <<loaded, mine, missed>>
       [] ~enforced /\ ~IsShared -> Unload(Models \ {target}) /\ UNCHANGED ours
       [] OTHER -> UNCHANGED <<ours, loaded, mine, missed>>
  /\ UNCHANGED <<rvars, slot, target, active, resident, pins, degraded, checked, cooled,
                 given, health, lapsed, lost>>

\* _swap_to: free the memory first, then name the new model.
Swap ==
  /\ pc = "swap"
  /\ pc' = "guard"
  /\ Unload(Freed({target}))
  /\ bmodel' = target
  /\ UNCHANGED <<rvars, slot, target, active, resident, ours, pins, degraded, checked,
                 enforced, cooled, given, health, lapsed, lost>>

\* Mutant of Guard: main is given up, but the swap does not start over.
MGuardKeepsMain ==
  /\ pc = "guard"
  /\ IF target = Main /\ CanDegrade /\ (active \notin up \/ target \notin catalog[active])
     THEN /\ Degrade /\ pc' = "ask"
          /\ UNCHANGED <<target, ours>>
     ELSE /\ pc' = "ask" /\ resident' = target
          /\ ours' = ours \union {target}
          /\ UNCHANGED <<target, degraded>>
  /\ UNCHANGED <<rvars, slot, active, bmodel, pins, checked, enforced, cooled, world, history>>

\* thermal_guard: is the target in the catalog, within the wait. Main is given
\* up when it is not, and the swap starts over with what the slot resolves to
\* now; any other model goes ahead, and the request will tell.
Guard ==
  /\ pc = "guard"
  /\ IF target = Main /\ CanDegrade /\ (active \notin up \/ target \notin catalog[active])
     THEN /\ Degrade /\ pc' = "swap"
          /\ target' = ModelFor(slot, TRUE)
          /\ UNCHANGED ours
     ELSE /\ pc' = "ask" /\ resident' = target
          /\ ours' = ours \union {target}
          /\ UNCHANGED <<target, degraded>>
  /\ UNCHANGED <<rvars, slot, active, bmodel, pins, checked, enforced, cooled, world, history>>

-----------------------------------------------------------------------------
(***************************************************************************)
(* The turn: requests, one after the other, until it ends or one fails.    *)
(***************************************************************************)

AskModel(m) ==
  /\ pc = "ask" /\ Ask(m)
  /\ pc' = "asking"
  /\ UNCHANGED <<manager, world, history>>

\* The endpoint loads a model when a request first asks for it.
Loads == /\ bmodel \in catalog[active]
         /\ \/ bmodel \in loaded[active]
            \/ ~(rotten /\ bmodel = Main) /\ ~(stale /\ ~IsShared)

\* What the endpoint sends, when it is up.
Served ==
  /\ pc = "asking" /\ active \in up
  /\ \/ /\ Headers /\ (phase' = "open" => Loads)
        /\ IF phase' = "open"
           THEN /\ loaded' = [loaded EXCEPT ![active] = @ \union {bmodel}]
                /\ mine' = [mine EXCEPT ![active] = IF bmodel \in loaded[active]
                                                    THEN @ ELSE @ \union {bmodel}]
           ELSE UNCHANGED <<loaded, mine>>
     \/ /\ \/ Pad \/ Work \/ Close \/ ErrorChunk
           \/ \E kind \in {"think", "token", "tool"}, raises \in BOOLEAN : Fragment(kind, raises)
        /\ UNCHANGED <<loaded, mine>>
  /\ UNCHANGED <<pc, manager, given, health, missed, lapsed, lost>>

\* What needs no endpoint: time, the backoff, a connection that breaks.
Alone(A) == pc = "asking" /\ A /\ UNCHANGED <<pc, manager, world, history>>

Waits ==
  \/ Alone(Resend) \/ Alone(Tick) \/ Alone(CoolDown)
  \/ \E f \in {"transport", "other exception"} : Alone(Broken(f))

\* The answer is in: the turn asks again (a tool ran), or ends. Or its sink
\* cancelled it.
TurnGoesOn(next) ==
  /\ pc = "asking" /\ phase \in {"done", "cancelled"}
  /\ next = "ask" => phase = "done"
  /\ pc' = next /\ Forget
  /\ UNCHANGED <<manager, world, history>>

Failed == pc = "asking" /\ phase = "failed"

\* looks_stale: does the text of the failure name a module that is missing? It
\* may, where the build is gone or main asks for a module that no build has.
Signed == IF hazards \cap {"stale build", "broken main"} = {} THEN {FALSE} ELSE BOOLEAN

\* try_self_repair and the refusals of repair_omlx, the cooldown the last. The
\* text alone suffices, whether or not the engine is stale; without it a stale
\* engine gets no restart.
Repairs(signed) == signed /\ ~IsShared /\ ~cooled

\* brew restarts the engine of this machine, so that nothing stays in memory.
\* It may not come back, and it may still be the old build that comes back.
Restart ==
  /\ loaded' = [b \in Backends |-> IF b \in Shared THEN loaded[b] ELSE {}]
  /\ mine' = [b \in Backends |-> IF b \in Shared THEN mine[b] ELSE {}]
  /\ missed' = [b \in Backends |-> IF b \in Shared THEN missed[b] ELSE {}]
  /\ stale' \in {FALSE, stale}
  /\ up' \in {up \union {active}, up \ {active}}

\* recover_backend_failure tries the repair first: the restart may work, brew
\* may run and change nothing, or brew is not found, which arms no cooldown.
\* Whatever came of it, its notice ends the recovery and main stays.
Repair ==
  /\ Failed /\ \E signed \in Signed : Repairs(signed)
  /\ pc' = "idle" /\ Forget
  /\ \/ Restart /\ cooled' = TRUE
     \/ UNCHANGED <<loaded, mine, missed, stale, up>> /\ cooled' \in {TRUE, cooled}
  /\ UNCHANGED <<slot, target, active, bmodel, resident, ours, pins, degraded, checked,
                 enforced, given, moves, lapsed, lost>>

\* A turn on the manifest's default, failed though its endpoint answers.
LostToMain == pins[slot] = None /\ bmodel = Main /\ Fallback # Main

\* ... and then note_turn_failure: main failed on an endpoint that answers now.
Recover ==
  /\ Failed /\ \E signed \in Signed : ~Repairs(signed)
  /\ pc' = "idle" /\ Forget
  /\ IF CanDegrade /\ bmodel = Main /\ active \in up
     THEN Degrade
     ELSE UNCHANGED <<degraded, resident>>
  /\ lost' = IF active \in up /\ LostToMain /\ lost < 2 THEN lost + 1 ELSE lost
  /\ UNCHANGED <<slot, target, active, bmodel, ours, pins, checked, enforced, cooled,
                 world, mine, missed, lapsed>>

-----------------------------------------------------------------------------
(***************************************************************************)
(* What the user may do between turns.                                     *)
(***************************************************************************)

\* /model: set_override.
Pin(s, m) ==
  /\ "pins" \in hazards /\ pc = "idle"
  /\ pins' = [pins EXCEPT ![s] = m]
  /\ UNCHANGED <<rvars, pc, slot, target, active, bmodel, resident, ours, degraded, checked,
                 enforced, cooled, world, history>>

\* /backend: switch_backend. The health check fails on an endpoint that is
\* down. Pins the new endpoint does not serve are dropped.
Switch(b) ==
  /\ "switch" \in hazards /\ pc = "idle" /\ b # active /\ b \in up
  /\ active' = b /\ bmodel' = resident
  /\ pins' = Defaulted([s \in SlotNames |-> IF pins[s] \in catalog[b] THEN pins[s] ELSE None], b)
  /\ resident' = None /\ enforced' = FALSE
  /\ UNCHANGED <<rvars, pc, slot, target, ours, degraded, checked, cooled, world, history>>

\* /unload: everything the active endpoint holds, then forget_resident.
UnloadCommand ==
  /\ "pins" \in hazards /\ pc = "idle" /\ loaded[active] # {} /\ active \in up
  /\ Unload(Models) /\ resident' = None
  /\ UNCHANGED <<rvars, pc, slot, target, active, bmodel, ours, pins, degraded, checked,
                 enforced, cooled, given, health, lapsed, lost>>

\* The end of the session: unload_all.
UnloadAll ==
  /\ pc = "idle"
  /\ pc' = "off"
  /\ Unload(Freed({}))
  /\ UNCHANGED <<rvars, manager, given, health, lapsed, lost>>

-----------------------------------------------------------------------------
(***************************************************************************)
(* The world.                                                              *)
(***************************************************************************)

Flap(b) ==
  /\ "outage" \in hazards /\ moves < MaxMoves
  /\ moves' = moves + 1
  /\ up' = IF b \in up THEN up \ {b} ELSE up \union {b}
  /\ UNCHANGED <<rvars, pc, manager, given, stale, loaded, history>>

\* brew replaces the engine under the running process.
Upgrade ==
  /\ "stale build" \in hazards /\ ~stale
  /\ stale' = TRUE
  /\ UNCHANGED <<rvars, pc, manager, given, up, moves, loaded, history>>

CooldownOver ==
  /\ cooled
  /\ cooled' = FALSE
  /\ UNCHANGED <<rvars, pc, slot, target, active, bmodel, resident, ours, pins, degraded,
                 checked, enforced, world, history>>

\* Another client loads a model on a shared endpoint, or frees one.
OthersLoad(b, m) ==
  /\ "others" \in hazards /\ b \in Shared /\ b \in up /\ m \notin loaded[b]
  /\ moves < MaxMoves /\ moves' = moves + 1
  /\ loaded' = [loaded EXCEPT ![b] = @ \union {m}]
  /\ UNCHANGED <<rvars, pc, manager, given, up, stale, history>>

OthersUnload(b, m) ==
  /\ "others" \in hazards /\ b \in Shared /\ b \in up /\ m \in loaded[b]
  /\ moves < MaxMoves /\ moves' = moves + 1
  /\ loaded' = [loaded EXCEPT ![b] = @ \ {m}]
  /\ lapsed' = [lapsed EXCEPT ![b] = @ \union {m}]
  /\ UNCHANGED <<rvars, pc, manager, given, up, stale, mine, missed, lost>>

Session ==
  \/ Enforce \/ Swap \/ Guard \/ Served \/ Waits \/ TurnGoesOn("ask") \/ TurnGoesOn("idle")
  \/ Repair \/ Recover
  \/ \E m \in {"stream", "once"} : AskModel(m)

SlotsNext ==
  \/ Session
  \/ \E s \in SlotNames : BackendFor(s) \/ \E m \in Models : Pin(s, m)
  \/ \E b \in Backends : Switch(b) \/ Flap(b)
                         \/ \E m \in Models : OthersLoad(b, m) \/ OthersUnload(b, m)
  \/ UnloadCommand \/ UnloadAll \/ Upgrade \/ CooldownOver

\* The session thread runs, and time passes on a request it waits for. That a
\* turn stops asking once it is done is up to the model, and is assumed.
SlotsFairness ==
  /\ WF_vars(Enforce) /\ WF_vars(Swap) /\ WF_vars(Guard)
  /\ WF_vars(\E m \in {"stream", "once"} : AskModel(m))
  /\ WF_vars(Alone(Tick)) /\ WF_vars(Alone(Resend))
  /\ WF_vars(Repair \/ Recover) /\ SF_vars(TurnGoesOn("idle"))

SlotsSpec == SlotsInit /\ [][SlotsNext]_vars /\ SlotsFairness

-----------------------------------------------------------------------------
\* One model in memory per host: while this session's request runs on an
\* endpoint luxe owns, nothing else is loaded there, save what an unload call
\* could not reach (the single-residency policy of backend_for and _swap_to,
\* over pins, switches, degrades, /unload and restarts).
OneModelInRam ==
  pc \in {"ask", "asking"} /\ ~IsShared => loaded[active] \subseteq {bmodel} \union missed[active]

\* At the end of the session the endpoint it ended on holds nothing that this
\* session put there: its own models are not leaked on a shared endpoint, nor
\* anything on an owned one (unload_all, _loaded_by_us). Excepted are what an
\* unload could not reach and what another client freed under the session.
LeavesNothing ==
  pc = "off" => mine[active] \subseteq missed[active] \union lapsed[active]

\* Of the turns that main costs a session on an endpoint that answers, at most
\* one is not spent on a restart (recover_backend_failure): that one gives main
\* up, and from then on no turn of a slot the user did not pin is answered by
\* it, whatever was resident, restarted or pinned before (note_turn_failure,
\* _degrade, model_for, and the restart of the swap in _swap_to).
MainIsGivenUp ==
  /\ lost <= 1
  /\ pc \in {"ask", "asking"} /\ degraded /\ pins[slot] = None => bmodel = Fallback

\* A turn ends: the swap, every request and every recovery (backend_for,
\* Backend.chat, recover_backend_failure).
TurnEnds == pc \notin {"idle", "off"} ~> pc = "idle"
==============================================================================
