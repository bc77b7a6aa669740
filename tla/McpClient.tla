------------------------------ MODULE McpClient ------------------------------
(***************************************************************************)
(* MCPClientManager (src/luxe/mcp/client.py): the tools of external MCP    *)
(* servers. The caller's thread starts the manager, calls tools one at a   *)
(* time and closes it; an event loop on a thread of its own runs one task  *)
(* per server and the coroutine of each call. The two share the runtime of *)
(* each server without a lock: either may act between any two of the       *)
(* other's steps.                                                          *)
(*                                                                         *)
(* A server may refuse, hang, answer late, fail a call or go away at any   *)
(* time. The caller may be interrupted while it waits for an answer.       *)
(***************************************************************************)
EXTENDS Naturals, FiniteSets

CONSTANTS Servers,
          Breaker,    \* circuit_breaker.consecutive_failures
          HardCap,    \* circuit_breaker.hard_cap_calls
          SessionCap, \* max_calls_per_session
          MaxStrays   \* bound: calls the caller stopped waiting for

ASSUME McpAssumption ==
  /\ IsFiniteSet(Servers)
  /\ Breaker \in Nat \ {0} /\ {HardCap, SessionCap, MaxStrays} \subseteq Nat

VARIABLES
  main,      \* what the caller's thread is doing
  callee,    \* the server of the call it waits for
  coro,      \* the coroutine of that call
  expired,   \* the 120 s of start() are over
  passed,    \* the servers the sweep, then discovery, has passed
  task,      \* the lifetime task of each server
  ready,     \* the servers whose ready event is set
  session,   \* runtime.session is there
  down,      \* runtime.is_down
  failures,  \* runtime.consecutive_failures
  calls,     \* runtime.total_calls
  total,     \* _total_calls
  strays,    \* coroutines nobody waits for that are still to be run, by server
  strayed,   \* history: how many calls of each server were left so, uncounted
  streak,    \* history: calls of each server that failed in a row
  sent,      \* history: calls that reached each server
  sentAll,   \* history: the number of those
  strayedAll \* history: the number of the calls left uncounted

vars == <<main, callee, coro, expired, passed, task, ready, session, down, failures, calls,
          total, strays, strayed, streak, sent, sentAll, strayedAll>>
caller == <<main, callee, coro, expired, passed>>
runtime == <<session, down, failures>>
counts == <<calls, total>>
history == <<strayed, streak, sent, sentAll, strayedAll>>

Zero == [s \in Servers |-> 0]

Init ==
  /\ main = "new" /\ callee \in Servers /\ coro = "none" /\ expired = FALSE /\ passed = {}
  /\ task = [s \in Servers |-> "unborn"] /\ ready = {}
  /\ session = {} /\ down = {} /\ failures = Zero
  /\ calls = Zero /\ total = 0 /\ strays = Zero
  /\ strayed = Zero /\ streak = Zero /\ sent = Zero
  /\ sentAll = 0 /\ strayedAll = 0

-----------------------------------------------------------------------------
(***************************************************************************)
(* The event loop: the lifetime task of each server.                       *)
(***************************************************************************)

Task(s, from, to) == task[s] = from /\ task' = [task EXCEPT ![s] = to]

\* _async_server_lifetime begins: the runtime is there. (In time: the caller
\* has 120 s to wait, and the tasks of all servers are scheduled at once.)
Begin(s) ==
  /\ main = "starting" /\ Task(s, "unborn", "connecting")
  /\ UNCHANGED <<caller, ready, runtime, counts, strays, history>>

\* _async_connect_one brought a session, early or late.
Connect(s) ==
  /\ Task(s, "connecting", "held")
  /\ session' = session \union {s} /\ ready' = ready \union {s}
  /\ UNCHANGED <<caller, down, failures, counts, strays, history>>

\* It raised: the server is down, and ready once the stack has unwound.
Refuse(s) ==
  /\ Task(s, "connecting", "unwinding")
  /\ session' = session \ {s} /\ down' = down \union {s}
  /\ UNCHANGED <<caller, ready, failures, counts, strays, history>>

Unwound(s) ==
  /\ Task(s, "unwinding", "over")
  /\ ready' = ready \union {s}
  /\ UNCHANGED <<caller, runtime, counts, strays, history>>

\* The connection is lost while it is held: first the session is gone, then
\* the server is down, unless the manager closes.
Lose(s) ==
  /\ Task(s, "held", "leaving")
  /\ session' = session \ {s}
  /\ UNCHANGED <<caller, ready, down, failures, counts, strays, history>>

Closing == main \in {"closing", "closed"}

Leave(s) ==
  /\ Task(s, "leaving", "over")
  /\ down' = IF Closing THEN down ELSE down \union {s}
  /\ UNCHANGED <<caller, ready, session, failures, counts, strays, history>>

\* close() asked: the task unwinds its stack, or is cancelled.
ShutDown(s) ==
  /\ main = "closing" /\ task[s] \in {"connecting", "held"}
  /\ task' = [task EXCEPT ![s] = "over"] /\ ready' = ready \union {s}
  /\ \/ task[s] = "held" /\ UNCHANGED <<session, down>>
     \/ task[s] = "connecting" /\ down' = down \union {s} /\ UNCHANGED session
  /\ UNCHANGED <<caller, failures, counts, strays, history>>

-----------------------------------------------------------------------------
(***************************************************************************)
(* The caller: start, with its sweep, and discover_tools.                  *)
(***************************************************************************)

Start ==
  /\ main = "new" /\ main' = "starting"
  /\ UNCHANGED <<callee, coro, expired, passed, task, ready, runtime, counts, strays, history>>

Deadline ==
  /\ main = "starting" /\ ~expired
  /\ expired' = TRUE
  /\ UNCHANGED <<main, callee, coro, passed, task, ready, runtime, counts, strays, history>>

Started ==
  /\ main = "starting" /\ (expired \/ ready = Servers)
  /\ main' = "sweeping" /\ passed' = {}
  /\ UNCHANGED <<callee, coro, expired, task, ready, runtime, counts, strays, history>>

\* Mutant of Sweep: only servers without a runtime are down.
MSweepAbsent(s) ==
  /\ main = "sweeping" /\ s \notin passed
  /\ passed' = passed \union {s}
  /\ down' = IF task[s] = "unborn" THEN down \union {s} ELSE down
  /\ UNCHANGED <<main, callee, coro, expired, task, ready, session, failures, counts, strays,
                 history>>

\* A server that has produced no session by now is down: one that never began
\* gets a runtime that says so.
Sweep(s) ==
  /\ main = "sweeping" /\ s \notin passed
  /\ passed' = passed \union {s}
  /\ down' = IF s \notin session THEN down \union {s} ELSE down
  /\ UNCHANGED <<main, callee, coro, expired, task, ready, session, failures, counts, strays,
                 history>>

Swept ==
  /\ main = "sweeping" /\ passed = Servers
  /\ main' = "discovering" /\ passed' = {}
  /\ UNCHANGED <<callee, coro, expired, task, ready, runtime, counts, strays, history>>

\* Mutant of Failure: the breaker trips one failure late.
MFailureLate(s) ==
  /\ failures' = [failures EXCEPT ![s] = @ + 1]
  /\ down' = IF failures[s] + 1 > Breaker THEN down \union {s} ELSE down

\* _record_failure: at the threshold the breaker trips, for good.
Failure(s) ==
  /\ failures' = [failures EXCEPT ![s] = @ + 1]
  /\ down' = IF failures[s] + 1 >= Breaker THEN down \union {s} ELSE down

\* discover_tools lists what connected; a session lost meanwhile is a failure.
Discover(s) ==
  /\ main = "discovering" /\ s \notin passed
  /\ passed' = passed \union {s}
  /\ IF s \notin down /\ s \notin session THEN Failure(s) ELSE UNCHANGED <<failures, down>>
  /\ UNCHANGED <<main, callee, coro, expired, task, ready, session, counts, strays, history>>

Discovered ==
  /\ main = "discovering" /\ passed = Servers
  /\ main' = "ready"
  /\ UNCHANGED <<callee, coro, expired, passed, task, ready, runtime, counts, strays, history>>

-----------------------------------------------------------------------------
(***************************************************************************)
(* sync_call.                                                              *)
(***************************************************************************)

\* Mutant of Submit: the cap per server is not looked at.
MSubmitUncapped(s) ==
  /\ main = "ready" /\ s \notin down
  /\ total < HardCap
  /\ main' = "waiting" /\ callee' = s /\ coro' = "queued"
  /\ UNCHANGED <<expired, passed, task, ready, runtime, counts, strays, history>>

\* The refusals change nothing: a server that is down, and the two caps.
Submit(s) ==
  /\ main = "ready" /\ s \notin down
  /\ total < HardCap /\ calls[s] < SessionCap
  /\ main' = "waiting" /\ callee' = s /\ coro' = "queued"
  /\ UNCHANGED <<expired, passed, task, ready, runtime, counts, strays, history>>

\* On the loop: only now is the session looked up.
Run ==
  /\ coro = "queued"
  /\ IF callee \in session
     THEN /\ coro' = "sent"
          /\ sent' = [sent EXCEPT ![callee] = @ + 1] /\ sentAll' = sentAll + 1
     ELSE coro' = "failed" /\ UNCHANGED <<sent, sentAll>>
  /\ UNCHANGED <<main, callee, expired, passed, task, ready, runtime, counts, strays, strayed,
                 streak, strayedAll>>

\* The answer, an error of the transport, or asyncio.timeout. An answer that
\* says isError is an answer.
Answer ==
  /\ coro = "sent"
  /\ \/ coro' = "answered" /\ callee \in session
     \/ coro' = "failed"
  /\ UNCHANGED <<main, callee, expired, passed, task, ready, runtime, counts, strays, history>>

Count(s) == total' = total + 1 /\ calls' = [calls EXCEPT ![s] = @ + 1]

Succeed ==
  /\ main = "waiting" /\ coro = "answered"
  /\ main' = "ready" /\ coro' = "none"
  /\ failures' = [failures EXCEPT ![callee] = 0] /\ Count(callee)
  /\ streak' = [streak EXCEPT ![callee] = 0]
  /\ UNCHANGED <<callee, expired, passed, task, ready, session, down, strays, strayed, sent,
                 sentAll, strayedAll>>

\* A failure, or five seconds more than the coroutine was given: that one is
\* then still on the loop, and may yet be run.
Fail ==
  /\ main = "waiting"
  /\ \/ coro = "failed" /\ UNCHANGED strays
     \/ coro = "sent" /\ UNCHANGED strays
     \/ /\ coro = "queued" /\ strays[callee] < MaxStrays
        /\ strays' = [strays EXCEPT ![callee] = @ + 1]
  /\ main' = "ready" /\ coro' = "none"
  /\ Failure(callee) /\ Count(callee)
  /\ streak' = [streak EXCEPT ![callee] = @ + 1]
  /\ UNCHANGED <<callee, expired, passed, task, ready, session, strayed, sent, sentAll,
                 strayedAll>>

\* Ctrl-C while the caller waits: the call is not counted, and goes on.
Interrupt ==
  /\ main = "waiting" /\ strayed[callee] < MaxStrays /\ strays[callee] < MaxStrays
  /\ main' = "ready" /\ coro' = "none"
  /\ strays' = IF coro = "queued" THEN [strays EXCEPT ![callee] = @ + 1] ELSE strays
  /\ strayed' = [strayed EXCEPT ![callee] = @ + 1] /\ strayedAll' = strayedAll + 1
  /\ UNCHANGED <<callee, expired, passed, task, ready, runtime, counts, streak, sent, sentAll>>

RunStray(s) ==
  /\ strays[s] > 0
  /\ strays' = [strays EXCEPT ![s] = @ - 1]
  /\ IF s \in session
     THEN sent' = [sent EXCEPT ![s] = @ + 1] /\ sentAll' = sentAll + 1
     ELSE UNCHANGED <<sent, sentAll>>
  /\ UNCHANGED <<caller, task, ready, runtime, counts, strayed, streak, strayedAll>>

\* close: each of its waits is bounded, and what they wait for may not come.
Close ==
  /\ main \in {"new", "ready"} /\ main' = "closing"
  /\ UNCHANGED <<callee, coro, expired, passed, task, ready, runtime, counts, strays, history>>

Closed ==
  /\ main = "closing" /\ main' = "closed"
  /\ UNCHANGED <<callee, coro, expired, passed, task, ready, runtime, counts, strays, history>>

Next ==
  \/ Start \/ Deadline \/ Started \/ Swept \/ Discovered \/ Run \/ Answer \/ Succeed \/ Fail
  \/ Interrupt \/ Close \/ Closed
  \/ \E s \in Servers : \/ Begin(s) \/ Connect(s) \/ Refuse(s) \/ Unwound(s) \/ Lose(s) \/ Leave(s)
                        \/ ShutDown(s) \/ Sweep(s) \/ Discover(s) \/ Submit(s) \/ RunStray(s)

Spec == Init /\ [][Next]_vars

-----------------------------------------------------------------------------
States == {"new", "starting", "sweeping", "discovering", "ready", "waiting", "closing", "closed"}

McpTypeOK ==
  /\ main \in States /\ callee \in Servers /\ expired \in BOOLEAN /\ passed \subseteq Servers
  /\ coro \in {"none", "queued", "sent", "answered", "failed"}
  /\ task \in [Servers -> {"unborn", "connecting", "unwinding", "held", "leaving", "over"}]
  /\ ready \subseteq Servers /\ session \subseteq Servers /\ down \subseteq Servers
  /\ failures \in [Servers -> Nat] /\ calls \in [Servers -> Nat] /\ strays \in [Servers -> Nat]
  /\ strayed \in [Servers -> Nat] /\ streak \in [Servers -> Nat] /\ sent \in [Servers -> Nat]
  /\ total \in Nat /\ sentAll \in Nat /\ strayedAll \in Nat

\* A server is asked no more once it failed Breaker calls in a row, whatever
\* became of its connection meanwhile (_record_failure, sync_call).
BreakerTrips == \A s \in Servers : streak[s] <= Breaker

\* No server is sent more calls than its cap, and no session more than the
\* hard cap, but for those the user interrupted: they are sent and not
\* counted. Calls the caller gave up on are counted (sync_call).
CapsBoundCalls ==
  /\ \A s \in Servers : sent[s] <= SessionCap + strayed[s]
  /\ sentAll <= HardCap + strayedAll

\* From the sweep on, a server that counts as up has a session, but for the
\* moment in which it loses it (the sweep of start()).
UpHasSession ==
  main \in {"discovering", "ready", "waiting"} =>
    \A s \in Servers \ down : s \in session \/ task[s] = "leaving"
==============================================================================
