--------------------------------- MODULE Chat ---------------------------------
(***************************************************************************)
(* A chat session in the TUI (src/luxe/chat): the prompt with its queue,   *)
(* the cancel token and the worker threads of tui.py; the turns of         *)
(* controller.py and turn.py with what they hand on to the next one, the   *)
(* carried conversation and the staged attachments; the commands that      *)
(* change either; and the goal supervisor's rounds (Goal.tla), which are   *)
(* turns of the same session.                                              *)
(*                                                                         *)
(* The UI thread handles one event at a time. A worker runs a line's body  *)
(* beside it, and the two meet in the busy flag, the token, the queue and  *)
(* goal_active. With one worker no key arrives between the dispatch of a   *)
(* line and the busy flag it sets; with two that window is open.           *)
(***************************************************************************)
EXTENDS Goal, FiniteSets

CONSTANTS Workers,    \* the worker threads that may be alive at once
          Files,      \* what may be attached
          Old,        \* the turns of an earlier session, for /resume
          Scripts     \* what a session's user types, at any moments

Lines == {"say", "/retry", "/attach", "/write", "/clear", "/resume", "/plan", "/goal", "/goal stop"}

ASSUME ChatAssumption ==
  /\ Workers # {} /\ Scripts \subseteq Seq(Lines)
  /\ Old \in Seq(Int) /\ \A i \in 1 .. Len(Old) : Old[i] < 0

VARIABLES
  script,     \* the lines the user will still type
  queue,      \* ChatApp._queue
  busy,       \* ChatApp._busy
  timer,      \* the timer of _end_busy that will drain the queue
  cancel,     \* CancelToken.requested
  exiting,    \* ChatApp._exiting
  pc,         \* where each worker is
  line,       \* the line it runs
  turn,       \* the turn it runs
  turns,      \* session.turns, by a number each turn gets
  born,       \* the number of turns recorded
  carry,      \* session.carry
  write,      \* session.write_enabled
  staged, consumed,  \* session.attachments, session.consumed_attachments
  resumed,    \* the old session is in resumed_ids
  owed,       \* history: attached, and neither answered nor cleared
  pressed,    \* history: the user cancelled or quit the line that runs
  stopped     \* history: the user typed /goal stop over it

front == <<script, queue, busy, timer, cancel, exiting>>
session == <<turns, born, carry, write, staged, consumed, resumed>>
history == <<owed, pressed, stopped>>
vars == <<gvars, front, pc, line, turn, session, history>>

NoTurn == [kind |-> "none", carried |-> {}, frame |-> <<>>, spoke |-> FALSE, doomed |-> {}]
NoCarry == [last |-> 0, count |-> -1, frame |-> <<>>]

Init ==
  /\ GInit
  /\ script \in Scripts
  /\ queue = <<>> /\ busy = FALSE /\ timer = FALSE /\ cancel = FALSE /\ exiting = FALSE
  /\ pc = [w \in Workers |-> "idle"] /\ line = [w \in Workers |-> "none"]
  /\ turn = [w \in Workers |-> NoTurn]
  /\ turns = <<>> /\ born = 0 /\ carry = NoCarry /\ write \in BOOLEAN
  /\ staged = {} /\ consumed = {} /\ resumed = FALSE
  /\ owed = {} /\ pressed = FALSE /\ stopped = FALSE

-----------------------------------------------------------------------------
(***************************************************************************)
(* The UI thread.                                                          *)
(***************************************************************************)

\* _dispatch_line: a worker starts.
Dispatch(w, l) ==
  /\ pc[w] = "idle"
  /\ pc' = [pc EXCEPT ![w] = "starting"] /\ line' = [line EXCEPT ![w] = l]
  /\ UNCHANGED <<turn, history>>

Types == /\ ~exiting /\ script # <<>>
         /\ script' = Tail(script)

\* on_input_submitted, at rest: the line runs, whatever is queued.
Submit(w) ==
  /\ Types /\ ~busy
  /\ Dispatch(w, Head(script))
  /\ UNCHANGED <<gvars, queue, busy, timer, cancel, exiting, session>>

\* Busy: the line is queued, but /goal stop takes effect at once.
TypeAhead ==
  /\ Types /\ busy
  /\ IF Head(script) = "/goal stop" /\ active
     THEN active' = FALSE /\ stopped' = TRUE /\ UNCHANGED queue
     ELSE queue' = Append(queue, Head(script)) /\ UNCHANGED <<active, stopped>>
  /\ UNCHANGED <<round, crashes, completed, judge, why, record, busy, timer, cancel, exiting,
                 pc, line, turn, session, owed, pressed>>

\* _maybe_drain, when the timer fires.
Drain ==
  /\ timer /\ timer' = FALSE /\ ~exiting
  /\ \/ /\ busy \/ queue = <<>>
        /\ UNCHANGED <<queue, pc, line, turn, history>>
     \/ /\ ~busy /\ queue # <<>>
        /\ queue' = Tail(queue)
        /\ \E w \in Workers : Dispatch(w, Head(queue))
  /\ UNCHANGED <<gvars, script, busy, cancel, exiting, session>>

\* esc or ctrl+c. At rest it clears the input, which is no state here.
Cancel ==
  /\ busy /\ ~cancel /\ ~exiting
  /\ cancel' = TRUE /\ pressed' = TRUE
  /\ UNCHANGED <<gvars, script, queue, busy, timer, exiting, pc, line, turn, session,
                 owed, stopped>>

\* ctrl+d or ctrl+q.
Quit ==
  /\ ~exiting /\ exiting' = TRUE
  /\ cancel' = (cancel \/ busy) /\ pressed' = (pressed \/ busy)
  /\ UNCHANGED <<gvars, script, queue, busy, timer, pc, line, turn, session,
                 owed, stopped>>

-----------------------------------------------------------------------------
(***************************************************************************)
(* A worker, to the body of its line.                                      *)
(***************************************************************************)

To(w, where) == pc' = [pc EXCEPT ![w] = where]

\* Mutant of Begin: the token is not reset.
MBeginKeepsToken(w) ==
  /\ pc[w] = "starting"
  /\ To(w, "body") /\ busy' = TRUE
  /\ UNCHANGED <<gvars, script, queue, timer, cancel, exiting, line, turn, session, history>>

\* The token is reset, the busy flag set. A closing app no longer takes the
\* call that sets it, and the worker dies of that.
Begin(w) ==
  /\ pc[w] = "starting"
  /\ cancel' = FALSE
  /\ \/ To(w, "body") /\ busy' = TRUE
     \/ exiting /\ To(w, "idle") /\ UNCHANGED busy
  /\ UNCHANGED <<gvars, script, queue, timer, exiting, line, turn, session, history>>

\* Mutant of End: no timer is set to drain the queue.
MEndKeepsTimer(w) ==
  /\ pc[w] = "ending"
  /\ To(w, "idle") /\ busy' = FALSE
  /\ IF line[w] = "say" THEN UNCHANGED gvars ELSE Dismiss
  /\ pressed' = FALSE /\ stopped' = FALSE
  /\ UNCHANGED <<script, queue, timer, cancel, exiting, line, turn, session, owed>>

\* The finally of _run_turn and _run_command, and _end_busy.
End(w) ==
  /\ pc[w] = "ending"
  /\ To(w, "idle") /\ busy' = FALSE /\ timer' = TRUE
  /\ IF line[w] = "say" THEN UNCHANGED gvars ELSE Dismiss
  /\ pressed' = FALSE /\ stopped' = FALSE
  /\ UNCHANGED <<script, queue, cancel, exiting, line, turn, session, owed>>

\* Commands that only touch the session.
Attach(w) ==
  /\ pc[w] = "body" /\ line[w] = "/attach"
  /\ \E f \in Files : staged' = staged \union {f} /\ owed' = owed \union {f}
  /\ To(w, "ending")
  /\ UNCHANGED <<gvars, front, line, turn, turns, born, carry, write, consumed, resumed,
                 pressed, stopped>>

ToggleWrite(w) ==
  /\ pc[w] = "body" /\ line[w] = "/write"
  /\ write' = ~write /\ To(w, "ending")
  /\ UNCHANGED <<gvars, front, line, turn, turns, born, carry, staged, consumed, resumed, history>>

\* /clear drops the turns and the attachments, and resets the ledger. The
\* carry stays: its turn count is to retire it.
Clear(w) ==
  /\ pc[w] = "body" /\ line[w] = "/clear"
  /\ turns' = <<>> /\ staged' = {} /\ consumed' = {} /\ owed' = {}
  /\ completed' = 0 /\ active' = FALSE /\ round' = 0
  /\ To(w, "ending")
  /\ UNCHANGED <<crashes, judge, why, record, front, line, turn, born, carry, write, resumed,
                 pressed, stopped>>

\* /resume appends the old session's turns, once.
Resume(w) ==
  /\ pc[w] = "body" /\ line[w] = "/resume"
  /\ IF resumed THEN UNCHANGED turns ELSE turns' = turns \o Old
  /\ resumed' = TRUE /\ To(w, "ending")
  /\ UNCHANGED <<gvars, front, line, turn, born, carry, write, staged, consumed, history>>

\* /goal stop with no goal running under it.
GoalStop(w) ==
  /\ pc[w] = "body" /\ line[w] = "/goal stop"
  /\ active' = FALSE /\ To(w, "ending")
  /\ UNCHANGED <<round, crashes, completed, judge, why, record, front, line, turn, session, history>>

\* /goal <objective>: needs the write tools.
StartGoal(w) ==
  /\ pc[w] = "body" /\ line[w] = "/goal"
  /\ IF write THEN Engage /\ To(w, "goal") ELSE UNCHANGED gvars /\ To(w, "ending")
  /\ UNCHANGED <<front, line, turn, session, history>>

-----------------------------------------------------------------------------
(***************************************************************************)
(* One turn: prepare_turn, run_turn, finalize_turn.                        *)
(***************************************************************************)

\* Which persona and tools a turn of a kind gets: what carry_frame digests.
Frame(kind) == <<kind, write /\ kind # "plan">>

\* Mutant of Carries: the turn count is not compared.
MFrameOnly(kind) == kind = "free" /\ carry # NoCarry /\ carry.frame = Frame(kind)

\* _carry_for_turn.
Carries(kind) ==
  /\ kind = "free"
  /\ carry # NoCarry /\ carry.count = Len(turns) /\ carry.frame = Frame(kind)

\* prepare_turn: the attachments are consumed, the carry is looked at; a
\* conversation that has grown too long is not carried.
Prepare(w, kind) ==
  /\ To(w, "turn")
  /\ \E rides \in {{}, IF Carries(kind) THEN {carry.last} ELSE {}} :
       turn' = [turn EXCEPT ![w] =
         [kind |-> kind, frame |-> Frame(kind), spoke |-> FALSE, carried |-> rides,
          doomed |-> (IF pressed THEN {"cancel"} ELSE {}) \union (IF stopped THEN {"stop"} ELSE {})]]
  /\ IF staged = {} THEN UNCHANGED <<staged, consumed>> ELSE consumed' = staged /\ staged' = {}

\* A turn the user asked for. Before it there is the refusal of the spend cap,
\* and a backend that cannot be had.
StartTurn(w) ==
  /\ pc[w] = "body" /\ line[w] \in {"say", "/retry", "/plan"}
  /\ \/ /\ line[w] = "/retry" => turns # <<>>
        /\ Prepare(w, IF line[w] = "/plan" THEN "plan" ELSE "free")
     \/ To(w, "ending") /\ UNCHANGED <<turn, staged, consumed>>
  /\ UNCHANGED <<gvars, front, line, turns, born, carry, write, resumed, history>>

\* A token or a finished tool call: the hook looks at the cancel token first.
Token(w) ==
  /\ pc[w] = "turn" /\ ~cancel /\ ~turn[w].spoke
  /\ turn' = [turn EXCEPT ![w].spoke = TRUE]
  /\ UNCHANGED <<gvars, front, pc, line, session, history>>

\* Mutant of Finalize: attachments are used up by any turn.
MFinalizeDrops(w, clean) ==
  /\ turns' = Append(turns, born + 1) /\ born' = born + 1
  /\ carry' = IF clean THEN [last |-> born + 1, count |-> Len(turns) + 1, frame |-> turn[w].frame]
              ELSE NoCarry
  /\ consumed' = {} /\ UNCHANGED staged
  /\ owed' = IF clean THEN owed \ consumed ELSE owed

\* finalize_turn. Only a clean turn hands its conversation on and uses up its
\* attachments; after any other they are staged again, unless new ones are.
Finalize(w, clean) ==
  /\ turns' = Append(turns, born + 1) /\ born' = born + 1
  /\ carry' = IF clean THEN [last |-> born + 1, count |-> Len(turns) + 1, frame |-> turn[w].frame]
              ELSE NoCarry
  /\ consumed' = {}
  /\ staged' = IF clean \/ staged # {} THEN staged ELSE consumed
  /\ owed' = IF clean THEN owed \ consumed ELSE owed

\* An exception that leaves run_turn: nothing is recorded, note_backend_error
\* or note_turn_crash stages the attachments again.
Raise ==
  /\ consumed' = {} /\ staged' = IF staged # {} THEN staged ELSE consumed
  /\ UNCHANGED <<turns, born, carry, owed>>

\* Where a user's turn leads: back to the prompt, or, a clean plan with an
\* answer, to the choice.
After(w, clean) ==
  IF turn[w].kind = "plan" /\ clean THEN "choice" ELSE "ending"

Kept3 == <<line, write, resumed, pressed, stopped>>

\* Clean, aborted by the loop, interrupted by a hook, or raised.
EndTurn(w) ==
  /\ pc[w] = "turn" /\ turn[w].kind # "goal"
  /\ \/ Finalize(w, TRUE) /\ To(w, After(w, TRUE))
     \/ Finalize(w, FALSE) /\ To(w, After(w, FALSE))
     \/ Raise /\ To(w, "ending")
  /\ turn' = [turn EXCEPT ![w] = NoTurn]
  /\ UNCHANGED <<gvars, front, Kept3>>

Interrupt(w) ==
  /\ pc[w] = "turn" /\ cancel
  /\ Finalize(w, FALSE)
  /\ To(w, "ending")
  /\ IF turn[w].kind = "goal"
     THEN \E items \in {0, 1} : Paused("interrupted", items)
     ELSE UNCHANGED gvars
  /\ turn' = [turn EXCEPT ![w] = NoTurn]
  /\ UNCHANGED <<front, Kept3>>

\* run_plan's choice: executing the plan starts a goal, in write mode.
Choose(w) ==
  /\ pc[w] = "choice"
  /\ \/ Engage /\ write' = TRUE /\ To(w, "goal")
     \/ UNCHANGED <<gvars, write>> /\ To(w, "ending")
  /\ UNCHANGED <<front, line, turn, turns, born, carry, staged, consumed, resumed, history>>

-----------------------------------------------------------------------------
(***************************************************************************)
(* The rounds of a goal.                                                   *)
(***************************************************************************)

\* Mutant of StartRound: each round resets the token.
MRoundResetsToken(w) ==
  /\ pc[w] = "goal" /\ NextRound
  /\ Prepare(w, "goal") /\ cancel' = FALSE
  /\ UNCHANGED <<script, queue, busy, timer, exiting, line, turns, born, carry, write, resumed,
                 owed, pressed, stopped>>

\* The next round is prepared like any turn.
StartRound(w) ==
  /\ pc[w] = "goal" /\ NextRound
  /\ Prepare(w, "goal")
  /\ UNCHANGED <<front, line, turns, born, carry, write, resumed, owed, pressed, stopped>>

LeaveGoal(w) ==
  /\ pc[w] = "goal" /\ LoopExit
  /\ To(w, "ending")
  /\ UNCHANGED <<front, line, turn, session, history>>

\* The spend cap refuses the round before it is prepared.
RefuseRound(w) ==
  /\ pc[w] = "goal" /\ active /\ round < Budget
  /\ Paused("refused", 0) /\ To(w, "ending")
  /\ UNCHANGED <<front, line, turn, session, history>>

\* A round that ran to its end, or that the loop aborted for a reason of its
\* own (the step limit), is evaluated.
EndRound(w) ==
  /\ pc[w] = "turn" /\ turn[w].kind = "goal"
  /\ \E clean \in BOOLEAN : Finalize(w, clean)
  /\ \E r \in Outcomes : Evaluate(r)
  /\ To(w, IF why' = "none" THEN "goal" ELSE "ending")
  /\ turn' = [turn EXCEPT ![w] = NoTurn]
  /\ UNCHANGED <<front, Kept3>>

\* A round the endpoint failed, contained by the loop or raised.
FailRound(w) ==
  /\ pc[w] = "turn" /\ turn[w].kind = "goal"
  /\ Finalize(w, FALSE) \/ Raise
  /\ \E items \in {0, 1} : Crashed(items)
  /\ To(w, IF why' = "none" THEN "goal" ELSE "ending")
  /\ turn' = [turn EXCEPT ![w] = NoTurn]
  /\ UNCHANGED <<front, Kept3>>

Work(w) ==
  \/ Begin(w) \/ End(w)
  \/ Attach(w) \/ ToggleWrite(w) \/ Clear(w) \/ Resume(w) \/ GoalStop(w) \/ StartGoal(w)
  \/ StartTurn(w) \/ Token(w) \/ EndTurn(w) \/ Interrupt(w) \/ Choose(w)
  \/ StartRound(w) \/ LeaveGoal(w) \/ RefuseRound(w) \/ EndRound(w) \/ FailRound(w)

Next ==
  \/ \E w \in Workers : Work(w) \/ Submit(w)
  \/ TypeAhead \/ Drain \/ Cancel \/ Quit

\* The worker runs, a turn ends (Slots!TurnEnds), the user answers the plan's
\* question, and the UI thread fires its timers.
Fairness ==
  /\ WF_vars(Drain)
  /\ \A w \in Workers : WF_vars(Work(w)) /\ WF_vars(EndTurn(w) \/ EndRound(w))

Spec == Init /\ [][Next]_vars /\ Fairness

-----------------------------------------------------------------------------
\* A turn that continues a conversation continues the one of the turn right
\* before it in this session (TurnCarry, _carry_for_turn, and /clear, which is
\* to drop everything that carries the old conversation on). It does not hold
\* of a session that is cleared and then resumes an old one of the same length.
CarryIsPrevious ==
  \A w \in Workers : pc[w] = "turn" /\ turn[w].carried # {}
    => turns # <<>> /\ turn[w].carried = {turns[Len(turns)]}

\* What the user attached rides until a clean turn has used it or /clear drops
\* it, over interrupted, aborted and raised turns and failed rounds; and it is
\* never sent again after that (restore_attachments).
AttachmentsSurvive == owed = staged \union consumed

UsersOwn == \A w \in Workers : Interrupt(w) => pressed

\* Only the user interrupts: a turn that ends as interrupted was cancelled, or
\* the app quit, while its own line ran, never before (CancelToken.reset).
NoStaleCancel == [][UsersOwn]_vars

\* After a cancel no later turn of the line gets a token or a tool call
\* through; after /goal stop no later round begins at all (raise_if_cancelled,
\* on_input_submitted, the head of run_goal_loop).
StopIsHonoured ==
  \A w \in Workers : pc[w] = "turn" =>
    "stop" \notin turn[w].doomed /\ ("cancel" \in turn[w].doomed => ~turn[w].spoke)

\* Whatever was typed ahead runs, unless the user quits (_end_busy,
\* _maybe_drain), over goals that have to end first.
QueueDrains == queue # <<>> ~> queue = <<>> \/ exiting
==============================================================================
