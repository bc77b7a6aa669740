------------------------------- MODULE Request -------------------------------
(***************************************************************************)
(* One call of Backend.chat (src/luxe/backend.py): the retry loop          *)
(* _with_retries with classify_failure, around one attempt of either path, *)
(* the streamed one (_stream_once) and the one read whole (_chat_once).    *)
(*                                                                         *)
(* Time is counted in ticks: silent is the time since the last byte, which *)
(* httpx bounds by its read timeout, and quiet the time since the last     *)
(* byte that advanced the work, which the progress deadlines bound. A      *)
(* server that keeps the connection open with padding resets the first and *)
(* never the second. Whatever the server does is open: how it answers, how *)
(* it fails, when it pads, and where it stops.                             *)
(***************************************************************************)
EXTENDS Naturals, FiniteSets

CONSTANTS MaxAttempts,  \* Backend.max_attempts
          MaxFragments, \* bound on what one generation holds (max_tokens)
          ReadTicks,    \* the read timeout of the http client, timeout_s
          StallTicks,   \* stall_timeout_s: no progress before the first token
          DecodeTicks   \* decode_stall_timeout_s: no progress after it

ASSUME RequestAssumption ==
  /\ MaxAttempts \in Nat \ {0}
  /\ {MaxFragments, ReadTicks, StallTicks, DecodeTicks} \subseteq Nat
  /\ ReadTicks > 0

VARIABLES
  phase,      \* where the request is
  mode,       \* "stream" or "once"
  attempt,    \* the attempt that runs, from 0
  output,     \* _Attempt.output: something of this attempt left the process
  decoding,   \* _StreamAccumulator.decoding: the first token arrived
  frags,      \* the fragments this attempt received
  silent,     \* ticks since the last byte, up to ReadTicks
  quiet,      \* ticks since the last progress
  warm,       \* the request is younger than _WARMUP_WINDOW_S
  shown,      \* history: the attempts of which the user has seen something
  stalls      \* history: the attempts that spent a whole progress budget

rvars == <<phase, mode, attempt, output, decoding, frags, silent, quiet, warm, shown, stalls>>

Ended == {"none", "done", "failed", "cancelled"}
Phases == {"sending", "open", "sleeping"} \union Ended

\* The failures an attempt can end in. Of a 5xx the body decides: a terminal
\* marker, else a transient one, else whether it is empty. The last three are
\* errors inside an answer whose status is 200.
Answers == {"429", "4xx", "5xx terminal", "5xx transient", "5xx empty", "5xx other"}
InBody == {"200 error body", "200 malformed body", "stream error chunk"}
Exceptions == {"transport", "stall", "other exception"}
Failures == Answers \union InBody \union Exceptions

QuietMax == StallTicks + DecodeTicks + ReadTicks

RInit ==
  /\ phase = "none" /\ mode = "once" /\ attempt = 0 /\ frags = 0
  /\ output = FALSE /\ decoding = FALSE /\ warm = TRUE
  /\ silent = 0 /\ quiet = 0
  /\ shown = {} /\ stalls = {}

\* Backend.chat: a new request, streamed or not.
Ask(m) ==
  /\ phase = "none"
  /\ phase' = "sending" /\ mode' = m
  /\ UNCHANGED <<attempt, output, decoding, frags, silent, quiet, warm, shown, stalls>>

\* Backend.chat returned or raised: nothing of the request is kept.
Forget ==
  /\ phase \in Ended
  /\ phase' = "none" /\ mode' = "once" /\ attempt' = 0 /\ frags' = 0
  /\ output' = FALSE /\ decoding' = FALSE /\ warm' = TRUE
  /\ silent' = 0 /\ quiet' = 0
  /\ shown' = {} /\ stalls' = {}

-----------------------------------------------------------------------------
(***************************************************************************)
(* The retry loop.                                                         *)
(***************************************************************************)

\* classify_failure, short of the test for the last attempt. A failure inside
\* a 200 never reaches it: it carries a decision of its own, not to retry.
Transient(f) ==
  \/ f \in {"transport", "429", "5xx transient"}
  \/ f = "5xx empty" /\ warm

\* Mutant of Retried: output does not stop a retry.
MRetryAfterOutput(f) == attempt + 1 < MaxAttempts /\ Transient(f)

\* The decision of _with_retries. Once output left this process a retry would
\* replay it, and a metered provider would bill it twice.
Retried(f) ==
  /\ attempt + 1 < MaxAttempts
  /\ Transient(f)
  /\ ~(f \in Exceptions /\ output)

Fail(f) ==
  /\ phase' = IF Retried(f) THEN "sleeping" ELSE "failed"
  /\ stalls' = IF f = "stall" THEN stalls \union {attempt} ELSE stalls
  /\ UNCHANGED <<mode, attempt, output, decoding, frags, silent, quiet, warm, shown>>

\* The backoff is over: the next attempt starts from nothing.
Resend ==
  /\ phase = "sleeping"
  /\ phase' = "sending" /\ attempt' = attempt + 1
  /\ output' = FALSE /\ decoding' = FALSE /\ frags' = 0
  /\ silent' = 0 /\ quiet' = 0
  /\ UNCHANGED <<mode, warm, shown, stalls>>

-----------------------------------------------------------------------------
(***************************************************************************)
(* One attempt. Every line that arrives on a stream is first held against  *)
(* the progress deadline, whatever it carries; a body that is read whole   *)
(* only checks the deadline when padding arrives.                          *)
(***************************************************************************)

Bound == IF decoding THEN DecodeTicks ELSE StallTicks
Overdue == quiet > Bound

\* The status line: an error status, or 200 and the body follows.
Headers ==
  /\ phase = "sending"
  /\ \/ \E f \in Answers : Fail(f)
     \/ /\ phase' = "open" /\ silent' = 0 /\ quiet' = 0
        /\ UNCHANGED <<mode, attempt, output, decoding, frags, warm, shown, stalls>>

\* Mutant of Pad: padding counts as progress.
MPadIsProgress ==
  /\ phase = "open" /\ silent > 0
  /\ silent' = 0 /\ quiet' = 0
  /\ UNCHANGED <<phase, mode, attempt, output, decoding, frags, warm, shown, stalls>>

\* A keepalive: a comment or blank line, or a space of padding. Servers send
\* one after some silence.
Pad ==
  /\ phase = "open" /\ silent > 0
  /\ IF Overdue
     THEN Fail("stall")
     ELSE /\ silent' = 0
          /\ UNCHANGED <<phase, mode, attempt, output, decoding, frags, quiet, warm, shown, stalls>>

\* A line with a fragment of reasoning, of the answer or of a tool call. The
\* clock and the flag are set before the sink is called; a sink that raises
\* ChatCancelled ends the request, nothing here catches it.
Fragment(kind, raises) ==
  /\ phase = "open" /\ mode = "stream" /\ frags < MaxFragments
  /\ IF Overdue
     THEN Fail("stall")
     ELSE /\ decoding' = (decoding \/ kind \in {"token", "tool"})
          /\ output' = TRUE
          /\ shown' = shown \union {attempt}
          /\ phase' = IF raises /\ kind # "tool" THEN "cancelled" ELSE "open"
          /\ frags' = frags + 1 /\ silent' = 0 /\ quiet' = 0
          /\ UNCHANGED <<mode, attempt, warm, stalls>>

\* Progress the user does not see: a usage or finish chunk, or bytes of a body
\* that is read whole (there even an overdue byte counts).
Work ==
  /\ phase = "open" /\ frags < MaxFragments
  /\ IF mode = "stream" /\ Overdue
     THEN Fail("stall")
     ELSE /\ frags' = frags + 1 /\ silent' = 0 /\ quiet' = 0
          /\ UNCHANGED <<phase, mode, attempt, output, decoding, warm, shown, stalls>>

\* The body ends: an answer, or an error the body holds.
Close ==
  /\ phase = "open"
  /\ \/ /\ phase' = "done"
        /\ UNCHANGED <<mode, attempt, output, decoding, frags, silent, quiet, warm, shown, stalls>>
     \/ mode = "once" /\ Fail("200 error body")
     \/ mode = "once" /\ Fail("200 malformed body")

ErrorChunk ==
  /\ phase = "open" /\ mode = "stream"
  /\ Fail(IF Overdue THEN "stall" ELSE "stream error chunk")

\* The connection fails, before or after the headers: in one of the ways
\* classify_failure knows to be transient, or in another.
Broken(f) ==
  /\ phase \in {"sending", "open"}
  /\ Fail(f)

\* Time passes with nothing on the wire; at the read timeout httpx raises.
Tick ==
  /\ phase \in {"sending", "open"}
  /\ IF silent >= ReadTicks
     THEN Fail("transport")
     ELSE /\ silent' = silent + 1
          /\ quiet' = IF quiet < QuietMax THEN quiet + 1 ELSE quiet
          /\ UNCHANGED <<phase, mode, attempt, output, decoding, frags, warm, shown, stalls>>

\* The request's first seconds are over.
CoolDown ==
  /\ phase \notin Ended /\ warm
  /\ warm' = FALSE
  /\ UNCHANGED <<phase, mode, attempt, output, decoding, frags, silent, quiet, shown, stalls>>

Step ==
  \/ Resend \/ Headers \/ Pad \/ Work \/ Close \/ ErrorChunk \/ Tick \/ CoolDown
  \/ \E kind \in {"think", "token", "tool"}, raises \in BOOLEAN : Fragment(kind, raises)
  \/ \E f \in {"transport", "other exception"} : Broken(f)

RNext == Step \/ Forget \/ \E m \in {"stream", "once"} : Ask(m)

\* Time passes and the backoff ends; the server owes nothing.
RequestFairness == WF_rvars(Tick) /\ WF_rvars(Resend)

RequestSpec == RInit /\ [][RNext]_rvars /\ RequestFairness

-----------------------------------------------------------------------------
RequestTypeOK ==
  /\ phase \in Phases /\ mode \in {"stream", "once"}
  /\ attempt \in 0 .. MaxAttempts - 1
  /\ output \in BOOLEAN /\ decoding \in BOOLEAN /\ warm \in BOOLEAN
  /\ frags \in 0 .. MaxFragments
  /\ silent \in 0 .. ReadTicks /\ quiet \in 0 .. QuietMax
  /\ shown \subseteq 0 .. MaxAttempts - 1
  /\ stalls \subseteq 0 .. MaxAttempts - 1

\* What the user has seen of a request is one attempt's, and its last one's:
\* no retry replays a live tail from its start or bills a generation twice,
\* whichever fragment came first and whatever its sink did (_Attempt.output,
\* _with_retries).
ShownOnce == shown \subseteq {attempt}

\* A request spends at most one progress budget: the attempt that stalls is
\* its last, however many attempts are left (ProgressStall, classify_failure).
StallSpentOnce == stalls # {} => stalls = {attempt} /\ phase = "failed"

==============================================================================
