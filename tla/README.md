# TLA+ models of luxe

Specifications of luxe's own core logic, the TLC runs that check them on small
instances, and TLAPS proofs for the parts that matter most. Paths below are
relative to the repository; `luxe/` stands for `src/luxe/`.

## 1. The system

luxe runs language-model agents on a working copy. A run of `luxe maintain`
lets an agent edit a repository and opens a pull request with what it did;
`luxe chat` keeps a conversation with the same agent loop; gitkit audits a
repository or applies a plan step by step; MCP connects both ways.

| Part | State it keeps | Operations | Hard about it |
|---|---|---|---|
| Repository lock (`luxe/locks.py`) | lockfile with the holder's record, kernel flock | `acquire_repo_lock`, `read_lock_info` | races, stale records, death of the holder |
| PR cycle (`luxe/pr.py`) | `pr_state.json`, git branches, the PR on GitHub | `open_pr`, `resume_pr`: commit, test, push, create, watch CI | lost answers, partial failure, resume |
| Run state (`luxe/run_state.py`) | run directory: spec, events, PR ledger | save, load, append | torn writes |
| Maintain pipeline (`luxe/maintain.py`, `luxe/cli/maint.py`) | `_Pipeline` | preflight, lock, pass, step limit, cleanup, PR cycle, teardown | two runs, MCP and the user on one tree |
| Agent loop (`luxe/agents/loop.py`, `loopstate.py`) | `LoopState`, messages | `run_agent` and its handlers | order of retries, guards and exits; stale dedup |
| Guardrails (`luxe/agents/guardrails.py`) | none (reads `LoopState`) | one check per guard | when they may fire |
| Compaction (`luxe/context.py`) | messages | `TieredCompact.compact` | what may be taken away |
| Spec gates (`luxe/spec_validator.py`) | none | predicates on calls | - |
| Model backend (`luxe/backend.py`) | one request's attempt, output flag, clocks | `chat`, `_with_retries`, `_stream_once`, `_chat_once` | retry after output, stalls that look alive |
| Slot manager (`luxe/chat/slots.py`, `repair.py`) | active endpoint, believed residency, degrade, pins | `backend_for`, `_swap_to`, `switch_backend`, `unload_all`, `note_turn_failure`, recovery | belief against the server, other clients, outages between two calls |
| Chat front end and turns (`luxe/chat/tui.py`, `controller.py`, `turn.py`, `session.py`) | queue, busy flag, cancel token, turns, carry, attachments | submit, cancel, drain, turns, commands | UI thread against worker, what the next turn inherits |
| Goal supervisor (`luxe/chat/supervisor.py`) | round, crashes, streaks, `goal_active` | `run_goal_loop`, `evaluate_goal_round` | verdicts from indirect evidence, stop from another thread |
| gitkit apply (`luxe/gitkit/apply.py`) | branch, step baseline, kept steps | one pass per plan step, keep, revert | operator and step in one tree, Ctrl-C |
| gitkit deep audit (`luxe/gitkit/deep/`) | map cache, chunk notes | survey, replan, save, load, chunk passes | edits and commits under a run of hours, crash between files |
| MCP client (`luxe/mcp/client.py`) | runtime per server: session, down, failures, counts | `start`, `sync_call`, `close` | two threads without a lock, late answers |
| MCP server (`luxe/mcp/server.py`) | rate windows | `luxe_maintain` | writes the working copy without the lock |
| Memory and ledger (`luxe/memory/`, `luxe/state/ledger.py`, `luxe/ephemeral.py`, `luxe/chat/resume.py`) | session directories, ledger on disk or in memory, facts and notes in `memory.md` | record, resume, clear, `/ephemeral`, evict | several sessions on one disk, death between two files, a mode that takes records back |
| Model store, tools, web, search, diagnostics, comparison, benchmarks | files, network | - | I/O; not modelled |

How they interact: the pipeline calls the lock, then the agent loop, then the
PR cycle; `luxe pr` calls the PR cycle alone, from the ledger on disk; the MCP
server and the user write the same working copy without either. The agent loop
calls the backend, the compaction, the guards and the tools. Chat drives the
agent loop from a worker thread and is itself driven by the UI thread and the
goal supervisor, whose rounds are turns of the same session. Before a turn the
slot manager decides which model answers on which endpoint; the turn's requests
then run on it, and what becomes of them comes back to the manager.

`PROJECT.json` lists every component with its status, and every hazard with the
line where it bites.

## 2. The modules

| Module | Models | Abstract / detailed |
|---|---|---|
| `RepoMutex` | what `acquire_repo_lock` promises | abstract specification |
| `RepoLock` | `luxe/locks.py`, line by line | implements `RepoMutex` |
| `PRCycle` | `luxe/pr.py` and the ledger of `luxe/run_state.py` | actions, composed by `Maintain` |
| `Maintain` | `luxe/maintain.py`, `luxe/cli/maint.py` around `PRCycle` | its locking implements `RepoMutex` |
| `AgentLoop` | `run_agent` with guards, compaction and spec gates | - |
| `PlanGate` | what `gitchange --apply` promises of a plan | abstract specification |
| `GitApply` | `luxe/gitkit/apply.py` | implements `PlanGate` |
| `Request` | one request of `luxe/backend.py` with its retries | actions, composed by `Slots` |
| `Slots` | `luxe/chat/slots.py`, `repair.py`, the failure kit of `turn.py` | composes `Request` |
| `Goal` | `luxe/chat/supervisor.py` | actions, composed by `Chat` |
| `Chat` | `luxe/chat/tui.py`, `controller.py`, `turn.py`, `session.py` and the commands that change either | composes `Goal` |
| `MapCache` | `luxe/gitkit/deep/`: the audit and its cache | - |
| `McpClient` | `luxe/mcp/client.py` | - |
| `Sessions` | `luxe/memory/session.py`, `luxe/state/ledger.py`, `luxe/ephemeral.py`, `luxe/chat/resume.py` and what turns and commands record | - |
| `Maintain_proofs` (with `RepoLock` and `PRCycle`), `AgentLoop_proofs`, `GitApply_proofs`, `Slots_proofs` (with `Request`), `Chat_proofs` (with `Goal`), `MapCache_proofs`, `McpClient_proofs`, `Sessions_proofs` | the theorems | - |
| `MCRepoLock`, `MCMaintain`, `MCAgentLoop`, `MCGitApply`, `MCSlots`, `MCChat`, `MCMapCache`, `MCMcpClient`, `MCSessions` | instances for TLC | - |

### RepoLock

One action per system call or decision of `acquire_repo_lock`: `TryFlock`,
`ReadLockInfo`, `CheckHolderAlive`, `RetryFlock`, `Truncate`, `WriteInfo`,
`WriteFails`, `Release`; the kernel adds `Spawn` and `Exit`. `at[p]` is the line
the process is at, `flock` who owns the kernel lock, `info` the pid in the
file, `seen[p]` the pid the process read. Pids are reused once their process is
gone. The lockfile is never unlinked, so there is one file. The specification is
`LockSpec`.

### PRCycle and Maintain

A commit history is the set of works in it: the work of a run (its name) and
of the user. Ancestry is inclusion. `head`, `tip`, `tree` are the working copy;
`pushed`, `prs` GitHub; `mem`, `disk` the `PRState` of each process and its
file; `pc`, `unsaved` where a process is. Each step of `open_pr`/`resume_pr` is
an action with its guard (`At`: reached, checkpointed, not done), its effect on
git or GitHub and its `Conclude`; the `save_pr_state` after it is the action
`Save`, so that a death can fall in between. `Faults` says what the environment
may do: refuse a command, lose its answer, fail `git status`, kill the process,
tear the file, answer without a number, move the repository, serve MCP, resume
the cycle with `luxe pr`.

`Maintain` adds the stages of `maintain_pipeline`: `PlanBranch` and `ReadHead`
(the preflight, *before* the lock), `AcquireLock`, `AgentWrites`,
`AgentCommits`, `StepLimit`, `CleanupTurn`, `StartPR`, `Teardown`, `Die`, and
outside the lock `ResumePR`, `Serve`, `UserMoves`.

Taken as given: a run directory has one process at a time (two `luxe pr` on the
same run at once are not modelled); a push is fast-forward only; GitHub has at
most one open PR per branch.

### AgentLoop

`pc` is the place in the body of the `for step in range(max_steps)` loop:
`guards`, `compact`, `chat`, `dispatch`. The reply is chosen freely (text or
none, cut off or not, structured or recovered calls), as is what a call brings
(output, nothing, error). A call is its dedup key. The guards are the real
conditions on step, call and write counters; token counts and convergence
scores only decide between "due" and "fires". `shown[k]` says how many
assistant iterations ago the last result of call `k` was appended, or that
compaction took it. `current`, `recent`, `unsent`, `fresh` are history
variables that the properties compare the state with.

Not in it: the adaptive policy, `idle_narrow`, token calibration, the clamp of
one long result, redaction, messages carried from an earlier turn, and
`/loopguard off`. Retries switched off are the same as a maximum of 0.

### GitApply

`pc` is the place in `run_apply`: the preflight (`start`, `checked`,
`branched`), the plan (`plan`, `planned`, `ready`), the step loop (`next`,
`pass`, `raised`, `diff`, `review`, `keep`, `committed`) and the ends. `branch`
is what the gitchange branch holds beyond its start, `edits`, `untracked` and
`intent` are the tracked changes, the untracked files and the `git add -N`
entries of the working copy. `baseline`, `frozen` and `known` are `baseline`,
`step_files` and `branch_head` of `_ApplyRun`; `outcome` is its four lists. A
step's changes and its new file are both named by the step. The operator, and a
verify command they confirm, create files at any time but during a pass: what
appears during a pass is the pass's, as `_step_new_files` has it.

`Untracked` is what `git ls-files` may answer: a listing that fails is an empty
one for the code (the fault `listing`), so that an operator's file can become
the step's (`BeginStep`, `Order`), and a step's file nobody's (`PassReturns`,
`Revert`). `miscounted` is a history variable with the marks that were put on
the wrong side of that line; every property that a failed listing can break
names it. A `git commit` that fails may be one that timed out after it landed
(`CommitFails`). Ctrl-C may fall anywhere in the step loop, also at the question
that follows a raised pass.

Left out: the operator's own edits of tracked files (the code gives them to the
step), the mirror (excluded from every check in the code), failures of `reset`,
`checkout` and `clean`, whose exit code the code does not look at, and a killed
process.

### Request and Slots

`Request` is one call of `Backend.chat`. `attempt` is the retry loop's,
`output` and `decoding` are the flags of `_Attempt` and `_StreamAccumulator`,
`silent` and `quiet` the two clocks: since the last byte (httpx's read timeout)
and since the last progress (the stall deadlines). The server is free: every
class of failure `classify_failure` tells apart, keepalives that are bytes and
not progress, a sink that raises in the middle. `shown` and `stalls` are
history.

`Slots` keeps what the manager believes (`resident`, `ours`, `degraded`,
`enforced`, `checked`) apart from what the endpoints have (`loaded`). A turn
goes through `BackendFor`, `Enforce`, `Swap`, `Guard` (a load per `pc`), asks
(`AskModel`, then the steps of `Request`, by the endpoint in `Served` or alone in
`Waits`), asks again or ends (`TurnGoesOn`), and a failed one goes through
`Repair` or `Recover`. Between turns the user pins, switches and unloads; in between
anything, an endpoint goes down, another client of a shared endpoint loads or
frees a model, and the engine of an owned one is replaced under its process.

What decides between the two is the text of the failure (`Signed`): with the
signature of a missing module an owned endpoint is restarted, stale or not,
unless the cooldown is armed; without it a stale engine's failure goes to
`note_turn_failure` like any other. The restart may work, may bring back the
stale build, or may leave the endpoint down (`Restart`); brew may run and change
nothing, and may not be found, which arms no cooldown. Its notice ends the
recovery in every case, and main stays. `lost` counts the turns of an unpinned
slot that main cost on an endpoint that answers and that no restart was tried
for. Where brew is never found, each failure with the signature costs a turn
and degrades nothing; `TurnEnds` and `OneModelInRam` are about those turns too,
`MainIsGivenUp` counts the others.

As the code has it: the model is read (`turn.py:222`) before `backend_for`
runs; `/unload` on a shared endpoint frees everything on it and keeps
`_loaded_by_us`; a load guard that fails because the endpoint is down degrades
main, and so does a failed swap, which can announce the fallback while main is
what runs when main is also the override; `ours` has no endpoint in its key; a
claim is made before the load. Not in it: the wording of the notices,
memory-pressure checks, catalogue refreshes, and an owned endpoint that brew did
not install (it is never restarted).

### Goal and Chat

`Chat` has the UI thread's events (`Submit`, `TypeAhead`, `Cancel`, `Quit`,
`Drain`), the worker's life (`Begin`, the body of a line, turns and rounds,
`End`) and the session they share. A turn's `frame` is its persona and tools,
what `carry_frame` digests; `carried` the turn whose conversation it continues;
`carry` the conversation handed on, with its turn, its frame and the number of
turns the session had then. `staged` and `consumed` are the attachments
before and in a turn; a cancelled or crashed turn gives them back. `Goal` has
the loop's locals (`judge`) and evaluates a round by what can be seen of it:
files, tests, ledger, calls. Outcomes of rounds are open.

With one worker no key arrives between the dispatch of a line and the busy flag
its worker sets; the window itself (`tui.py:499`) is a hazard without a
property. Not in it: the line REPL, the effect of freeform turns on the ledger,
model text, rendering; a refusal by the spend cap is the disjunct of
`StartTurn` and `RefuseRound` that records nothing.

### MapCache

A file's content is a version. The four files of the map (`headFile`,
`survey`, `plan`, `crumb`) are written one by one by `save_map`, and `Stop` may
come between any two; `notes` are the chunk notes with the hashes they carry.
A run pins `HEAD`, then hashes the tree, surveys, plans and reads chunk after
chunk while the operator edits and commits. `heavy` stands for the replan's
triggers that count tokens and chunk growth. `Hashes` is what
`worktree_file_shas` may answer: all hashes, none when `git status` fails, and
any part of them when the listing of `HEAD` or a batch of `git hash-object`
fails. `mixed` is history: why the map at hand is not of one tree (it moved
under the survey, a save was cut short, a file had no hash). Not in it: several kinds of
report, the diff mode, two runs at once, the report written at the end.

### McpClient

The caller's thread (`main`) and the event loop's tasks (`task`, `coro`)
share the runtime of a server without a lock, and every write of either is a
step of its own. `strays` are coroutines nobody waits for any more: their
effects still arrive. A late answer, a hung connect, a server that goes away,
the 120 s of `start` and a Ctrl-C in the wait are all steps. Not in it: the
stop and join of the loop's thread, and a task that first begins after the
sweep of `start`.

### Sessions

Each session is a process with its turns, its mode (`quiet`) and its ledger in
memory (`held`); on disk it has `meta`, the transcript `log`, `fold`, `ledger`
and the telemetry `runs`. A turn is `Ask` (prepare_turn: question and fold),
`Work` (the ledger), and `Answer` or `Raise`. `Reads` is one record of
`_pair_turns`, `Reading` what it has read after each of them, and `Pairs` what it
returns; `Resume` brings another session's turns and
copies them into its own transcript. `/ephemeral on` is `Enable`, then the purge
of the directory (`PurgePart` any number of times, `PurgeSession`) and of the
telemetry (`PurgeRuns`), and the process may die between any two; off is
`Disable`. `Start` lists the old sessions and `Evict` removes them one by one,
whatever has happened to them since.

`shutil.rmtree(ignore_errors=True)` takes the files of a directory one after the
other and passes over what it cannot remove. So does the model, within two
bounds: up to `MaxInParts` turns asked, and while fewer than `MaxBroken` other
sessions have lost files. A step of `Removes` then takes one file or none, other
sessions run in between, and the last one may leave files. Past the bounds a
directory goes at once, and once a session is broken no turn is asked past
`MaxInParts`. A session is `broken` once it lost files other than in a
purge that left nothing, or resumed one of which that is so; it is
history, and what the properties say of such a session is only that no text of
an ephemeral turn reaches its records.

A text is the number of its turn, raised by `MaxAsked` when the turn was taken
while ephemeral, so that one sees where such a text ends up. `said`, `worked` and
`broken` are history: what a resume should bring back, what the ledger should
hold, and where neither can be expected. Not in it: the facts and notes in
`memory.md`, the debug log, reuse of a run id after a turn that raised.

## 3. The runs

Every run finishes within three minutes with two workers.

| Run | Instance | Shows |
|---|---|---|
| `repo_lock` | 3 processes, 3 pids | the record names the holder, refinement of `RepoMutex` (mutual exclusion) |
| `maintain_faults` | 1 run, every fault | ledger and world, sticky labels and verdicts, eventual PR |
| `maintain_pair` | 2 runs, 2 branch names, refused commands, lost answers, deaths | who writes, what is pushed was tested, release |
| `agent_loop` | 4 calls, 4 steps, 2 calls per reply, limits of 1 to 3 | exits, retries, dedup, compaction, zero-call spec |
| `git_apply` | 3 steps, any prerequisites, 2 operator files, git failures, failing listings, raised passes, Ctrl-C | what is on the branch, what is left in the tree, when an operator's file is lost, refinement of `PlanGate` |
| `endpoint` | an owned and a shared endpoint, 3 models, 5 scenarios of two hazards | no replay, one model in memory, nothing leaked, degrade obeyed, turns end |
| `chat` | 1 worker, 1 file, scripts of 3 or 4 lines, goals of 3 rounds | what a turn inherits, cancel, queue, verdicts |
| `map_cache` | 3 files, 2 versions, 3 commits, 2 edits, chunks of 2, failing hashes | the plan covers what was hashed, survey and notes are of what they claim |
| `mcp_client` | 2 servers, breaker 2, caps 3 and 4 | breaker, caps, sessions under late answers |
| `sessions` | 2 sessions, 2 turns in all, one eviction, purges and evictions at once or in parts | what a resume restores, what the ledger holds, what an ephemeral session leaves, also where a directory is half removed |
| `chat_carry` | violation | a resumed session carries the conversation of turns it no longer has |
| `map_cache_torn` | violation | a crash inside `save_map` leaves files no chunk covers |

The properties:

* `repo_lock`: `RecordNamesHolder`, `RefinesMutex`.
* `maintain_faults`: `IncompleteNeverReady` (a run cut off by the step limit
  never becomes a PR ready for review), `FailingTestsStayDraft`,
  `LedgerTracksTheWorld` (at most one step apart, whatever dies), and
  `EventuallyOpened` (committed work gets its PR unless the ledger is torn).
* `maintain_pair`: `OnlyHolderWrites`, `TestedIsWhatShips`, `LockIsReleased`.
* `agent_loop`: `ExitsAreEarned` (the habituation exit and the idle exit end
  only runs they are about), `ZeroCallsMeansNone`, `UnmetIsReprompted`,
  `NewResultsArriveWhole`, `ObservationsReopen`.
* `git_apply`: `BranchIsKept` (kept steps and commits agree, also when Ctrl-C
  falls between a commit and its record), `NothingLeftBehind`, `AbortRestores`,
  `OperatorFilesSurvive` (a file the operator made outside a pass is committed or
  deleted only when a listing of its step failed, or by Ctrl-C between a raised
  pass and the next step if it is younger than the step), `RefinesPlanGate`.
* `endpoint` (module `Slots`): `ShownOnce` (what the user saw of a request is its last
  attempt's alone), `OneModelInRam`, `LeavesNothing` (at the end the session's
  models are gone from its endpoint), `MainIsGivenUp` (of the turns main costs
  on an endpoint that answers, at most one is not spent on a restart, and once
  given up main answers for no unpinned slot), `TurnEnds`.
* `chat`: `CarryIsPrevious` (a turn is built on the conversation of the turn
  before it, or on none), `AttachmentsSurvive` (attached is answered, cleared
  or still there), `StopIsHonoured` (no round starts after `/goal stop`, and
  none gets a token through after a cancel), `DoneIsEarned`, `IdleIsEarned` (the
  verdicts rest on the rounds they claim to), `NoStaleCancel` (a turn is not
  cancelled by a key pressed for another), `QueueDrains`.
* `map_cache`: `EveryFileIsPlanned` (every file that has a hash is in a chunk,
  and nothing else when none went without), `CacheIsCurrent` (the survey a run
  keeps and the notes it folds in are about the tree it audits).
  `map_cache_torn`: `NothingIsLeftOut`.
* `mcp_client`: `BreakerTrips`, `CapsBoundCalls`, `UpHasSession`.
* `sessions`: `Resumable` (a resume brings back what was said since the last
  `/clear` or purge, and every transcript can be found), `LedgerFollows` (the
  ledger survives `/ephemeral on` and is what it should be in either mode), both
  of sessions that are not `broken`, and `EphemeralLeavesNothing` (once a purge
  that could remove every file is over, none is there; and no text of an
  ephemeral turn reaches a transcript, a ledger or the telemetry, broken or not).

Every property was also held against a plausible bug of the code it is about
(the definitions named `M...`, each beside the definition it changes), and is
violated by it.

### Bounds

* Three processes are enough for the lock: an owner, a process between its two
  attempts, and one more that can slip in between; three pids let one be reused
  while the others live.
* One run is enough for the faults, which are about one ledger against the
  world; two runs are needed for the lock, the branch numbering and the tree.
  With two runs the faults are those of git and of the process; `luxe pr`, which
  takes no lock, is off there, because with it `TestedIsWhatShips` does not hold
  (see 5), and so are MCP, the user and a failing `git status`, which
  `OnlyHolderWrites` and `TestedIsWhatShips` are stated without. Each of them is a hypothesis of the
  theorem that covers any number of runs.
* `MaxBranch` bounds the numbering of `plan_branch_name` (b, b-2): one name per
  run is enough as every run takes at most one.
* The loop's thresholds (steps 4 to 20 in the code) are scaled to 1 and 2 so
  that every guard comes due within `MaxSteps` = 4; their order and their
  comparisons are those of the code. `CountMax` is above every threshold a
  counter is compared with, so stopping there hides nothing. `KeepRecent` = 1
  makes compaction bite after two iterations. The four calls are one that dedup
  lets through (`read_file`), one it does not, one write and one that is
  rejected.
* Three plan steps allow a chain and a fork of prerequisites with one more step
  after a discard; two operator files, one in the baseline and one made later.
* A request has two attempts: one to fail and one to retry, and the last
  attempt's rule. `ReadTicks` = `StallTicks` = 1 and `DecodeTicks` = 0 let a
  padded connection outlive the read timeout and be caught by the deadline,
  before and after the first token. `MaxFragments` = 1 is enough for "some
  output"; `MaxMoves` = 2 is an outage and its end, or a load and an unload of
  another client.
* `Scenarios` splits the hazards of `Slots` into pairs, so that each meets the
  failure it can interfere with; all five at once are too many states.
* Chat scripts of four lines reach a turn, a cancel, a retry and a clear in any
  order; a goal of three rounds reaches every verdict with thresholds of 2
  (code: `_GOAL_DONE_ROUNDS` and its neighbours).
* Three files in chunks of two give a full chunk, a partial one and a new file
  that moves the packing; two edits allow a change and a change back (ABA).
* The breaker at 2 tells a first failure from the one that trips it; the caps
  are above it, so that each can be the one that stops the calls. One stray
  call is one more than the code counts.
* Two sessions, one of them to resume or evict the other; two turns in all are
  a failed one and one after it, before or after a `/clear`, a resume or a
  toggle. `MaxRecords` = 3 leaves room for a question, its error and the cut;
  `MaxAged` = 1: each session is evicted by the other. With
  `MaxInParts` = 1 a directory goes in parts while it holds one turn, which is
  enough: each of its four files is then there to be left, read or missed.
  `MaxBroken` = 1: one half-removed session beside one that is whole and may
  resume it; a session broken by its own purge may be broken further.
* The violation runs have the smallest instance that shows what they are about.
* Deadlock is checked where something can always happen (`repo_lock`,
  `map_cache`). The other runs end: every session, pass and pipeline stops.

### Fairness

`Maintain!Progress` is weak fairness of what a started run does of its own
accord (acquire, label, clean up, PR steps, teardown). The code justifies it:
the agent has `max_steps`, every git and gh call a timeout, `watch_ci` a
deadline. Deaths, resumes, the agent's writes and the environment have none.
`LockIsReleased` needs only this. `EventuallyOpened` is about a user who keeps
calling `luxe pr` while faults stop at some time: `Persistence` says exactly
that and is part of `PersistentSpec` only.

`SlotsFairness`: the manager's own steps run, time passes on a request (that is
what the timeouts are), a backoff ends. That a turn at some time asks no more is
up to the agent loop, which has `max_steps`, and is the strong fairness of
`TurnGoesOn("idle")`; the server owes nothing.

`Chat`: the drain timer fires, a worker works, the user answers the question
after a plan, a turn or round ends (it has `max_steps`, and its requests end by
`TurnEnds`). Keys have none.

The other modules state safety only.

## 4. What is proved

For every value of the constants (any number of runs, processes, servers,
files, calls, endpoints; any thresholds, scripts and plans; any set of faults
the theorem does not exclude). What a theorem assumes beyond the modules' named
`ASSUME`s (names and sentinels are distinct, bounds are naturals) is in its
`ASSUME` and named here.

* `Maintain_proofs`, first about `RepoLock`: `LockTypes`, `OwnershipIsSound`,
  `RecordIsSound` (`RecordNamesHolder`), and `LockRefinement` (`RepoLock`
  implements `RepoMutex`). The inductive invariant `LockInv` is
  `TypeOK /\ OwnerIsInside /\ RecordNamesHolder`: the three are inductive only
  together, as the record can be relied on only while the flock identifies its
  one writer.

  Then about the pipeline, with the lemmas about `PRCycle`. `PRInv` adds to the label
  property what makes it inductive: the checkout is on a branch that exists,
  and a run that is running or has a loadable ledger has a real branch and
  carries its job's incomplete label, in memory and on disk. `StageInv` says
  that before the PR cycle is opened there is no process, no ledger and no PR,
  and that the run inside the lock is the one in the guarded stages.
  `IInv == PRInv /\ StageInv` gives `TypeCorrect`, `LabelIsSound`
  (`IncompleteNeverReady`), `RunsExclude` (the pipeline locks as `RepoMutex`
  allows), `HolderWrites` (`OnlyHolderWrites`, where neither MCP nor the user
  touches the working copy) and `FailingStaysDraft` (`FailingTestsStayDraft`,
  where `draft_on_test_failure` is on, as it is by default).
  `Ledgers` adds where a process stands against what it has recorded
  (`Reached`), and that memory, disk and the world are in step (`LedgerInv`):
  `LedgerIsTrue` (`LedgerTracksTheWorld`). `LedgerInv` holds of a run whose branch no other
  run was given, and the theorem says so: two runs that plan before either has
  committed get the same branch name, and then one's push is the other's.
  `ShipInv` (between commit and push the branch is checked out, the tree is
  clean and the tip is what was tested) gives `TestedShips`
  (`TestedIsWhatShips`), where nobody who takes no lock comes in between and
  `git status` answers.

* `AgentLoop_proofs`: `TypeCorrect`, `ExitsEarned`, `ZeroMeansNone`,
  `UnmetIsTold`, `ResultsArrive`, `RefusalsAreCurrent`, which are all the
  properties of the `agent_loop` run. The invariant is a conjunction of parts
  that need only each other's types: `Heeding` (a nudge is unsent for no longer
  than its step; once there was one, a write has heeded it), `Idling` (the last
  `idle` calls brought nothing, as far back as the history goes), `Gated`,
  `Whole` (a result of this step is the newest there is), `Reopening` (what the
  dedup refuses, writes apart, was asked since the last write).

* `GitApply_proofs`: where only the executor commits, `IInv` (types, `Place`,
  `Tree`, `Ledger`) gives `TypeCorrect`, `BranchHoldsKept`, `TreeIsClean`,
  `AbortsRestore`, `FilesSurvive` (`OperatorFilesSurvive`) and `Refinement`
  (`GitApply` implements `PlanGate`), with Ctrl-C anywhere and with listings that
  fail. What makes it inductive is that `frozen` is within the step's own files
  wherever it is set, and that during a pass all that is new since `baseline` is
  the step's, both up to `miscounted`: then a revert or a commit can touch a
  file of the operator only where the theorem says so.

* `Slots_proofs`: for a request alone `RequestTypeCorrect`, `NoReplay`
  (`ShownOnce`) and `OneStall` (`StallSpentOnce`): without output nothing is
  shown of the attempt, and a stall is always of the attempt that failed. The
  theorem `StepKeeps` carries that over to the requests of a session
  (`SessionShowsOnce`). `SlotsInv` gives `OneModel` (`OneModelInRam`),
  `SessionLeavesNothing` (`LeavesNothing`) and `MainStaysGivenUp`
  (`MainIsGivenUp`). Its parts: within a turn target, backend and resident
  agree from the steps on that make them agree (`Turning`); what the manager
  believes of an endpoint counts once it has looked since it chose it and is not
  in a swap (`Settled`: `Owned`, `Claimed`); and whatever this session loaded is
  still there, was taken by others, was missed by an unload, or may be freed
  (`Accounted`).

* `Chat_proofs`, with the lemmas about `Goal`: with one worker, `ChatInv` gives
  `AttachmentsRide` (`AttachmentsSurvive`), `StopsAreHonoured`,
  `CancelsAreFresh` (`NoStaleCancel`), `VerdictsAreEarned` (`DoneIsEarned`) and
  `IdlenessIsEarned`, for every script and every threshold. Its parts are
  `Shape` (the tables and the worker's place), `Pressing` and `Flag` (the token
  and `goal_active` against what the user pressed and where the worker is),
  `Ride` (an attachment is staged or in the turn that runs, never both) and
  `Verdicts` (the loop's streaks count the rounds on record).
  `CarriesThePrevious` (`CarryIsPrevious`) is for scripts that do not hold both
  `/clear` and `/resume`: `Carried` says that the carry is of the last turn
  whenever its count is the session's, which a session that loses turns and gets
  old ones breaks (the finding of `chat_carry`). With two workers the window
  between dispatch and busy flag is open and the session's state is raced for;
  nothing is proved of that.

* `MapCache_proofs`: `EveryFilePlanned` (`EveryFileIsPlanned`) and
  `CacheStaysCurrent` (`CacheIsCurrent`), with no hypothesis; hashes may fail. `MapInv` is about
  three moments: while a survey is under way its draft is of the tree, as long
  as nobody moved it (`Surveyed`); while `save_map` runs, the draft and what of
  it is on disk are of one set of hashes (`Drafted`, `Saved`); at rest the map on
  disk is of the hashes in its breadcrumb (`OnDisk`). `ReplanCovers` and
  `ReplanReads` carry that over from the old hashes to the new: pruning and
  appending covers the new files, and where the framing trigger is silent the
  survey is what a new one would have read.

* `McpClient_proofs`: `BreakerHolds` (`BreakerTrips`), `StartIsHonest`
  (`UpHasSession`) and `CapsHold` (`CapsBoundCalls`). A call is counted in
  exactly one place: to be submitted, on the loop, sent, or nobody's any more.
  The last of these is a sum over the servers; it is taken as the cardinality of
  the set of such calls, which a step changes by one element.

* `Sessions_proofs`, for any number of sessions, turns, cuts and evictions:
  `WhatIsResumed` (`Resumable`), `LedgerIsCarried` (`LedgerFollows`) and
  `NothingIsLeft` (`EphemeralLeavesNothing`), with no hypothesis, whether
  directories go at once or in parts. `NothingIsLeft` is about the transcript,
  the ledger and the telemetry; `fold.jsonl` takes such a text (section 5).
  What `_pair_turns` makes of a transcript is a recursion over its records, so
  these need facts by induction. The library's induction theorems take an
  operator as a parameter, which the provers cannot instantiate; `Induction`
  states it for a *set* of numbers (one that has 0 and the successor of each of
  its members is `Nat`) and follows from `WFMin`, that `<` has least elements.
  On it rest `ReadingIs` (the recursion has a solution, prefix by prefix),
  `ReadingOfNext` (one record more), and `CopiesRead`: a conversation copied
  behind a transcript, question and answer by question and answer, adds exactly
  its turns. The invariant has four parts per session. `Kept`: what is on disk
  follows where the process is, nothing before it starts and, unless it is
  broken, nothing once its purge is over. `Asking`: a running turn has a text,
  one that may be recorded unless it is ephemeral. `Ledgers`: a ledger in memory exists only while the
  session is ephemeral, and what a live session loads is what it recorded.
  `Transcript`: a directory that is whole and can be found says what was said, and *the
  question of the running turn is the one that waits at its end*; without that
  last part the answer could be paired with another question, which is what
  makes the property one of several steps. Each step changes one session, and
  `SameKeeps` settles all the others.

Only model-checked:

* liveness (`LockIsReleased`, `EventuallyOpened`, `TurnEnds`, `QueueDrains`):
  fairness and `ENABLED` are out of the prover's reach.

Every safety invariant and action property that a run checks is also a theorem;
the hypotheses named above are where a theorem says less than "whatever
happens". The two violation runs are counterexamples, and nothing is proved of
them.

## 5. What disagrees with the documents

Shown by a run:

* session.py:332-334: a carry is retired by `/clear`, `/retry` and `/resume`. It is
  retired by a turn count alone: after `/clear` and a `/resume` of a session of
  the same length the next turn continues the cleared conversation
  (`chat_carry`).
* mapcache.py:297-299: a crash in `save_map` leaves the old breadcrumb pointing
  at the old heavy files. It can leave it pointing at new ones, and a file that
  comes back is then in no chunk (`map_cache_torn`).

Met while modelling; the modules have the code's behaviour:

* mapcache.py:272: content that cannot be hashed is never reusable, and
  mapcache.py:202-203: a file without a hash is always dirty. `plan_incremental`
  takes it for deleted and prunes it from its chunk, and the audit goes on
  without it (`Hashes`, `Pruned`); `EveryFileIsPlanned` is therefore about the
  files that were hashed.
* pr.py:75-76: a git crash is never graded as an agent outcome. The commit step
  takes a failed `git status` for a clean tree and reports an agent that wrote
  nothing (`SeenDirty`, fault `status`). `TestedIsWhatShips` needs `git status`
  to answer for the same reason.
* gitkit.sdd:94-96: a discard never removes an untracked file the operator made.
  After a raised pass `step_files` is unset, and Ctrl-C at the question that
  follows reverts once more, with everything new since the step began
  (`Interrupt`); it is an exception in `OperatorFilesSurvive`. A listing that
  failed when the step began has the same effect on any revert.
* cmd_toggles.py:590-593: the turns taken while ephemeral were never recorded and
  do not come back. `session.turns` keeps them, and the first fold after
  `/ephemeral off` (turn.py:463) writes their text to `fold.jsonl` (`Ask` after
  `Disable`); so do the notes at the end of the session to `memory.md`, which is
  not modelled. `EphemeralLeavesNothing` leaves the fold out.

* locks.py:1: two runs do not trample each other. `_preflight` takes the branch
  name, the base and the clean-tree check before the lock, so a run that waited
  there ships what the run before it left (`PlanBranch`, `ReadHead`, `AcquireLock`).
* session.py:332-334 and chat.sdd:40-41 again: `/retry` retires the carry. It only
  submits the last question again (commands.py:340-349), so that a turn that
  ended cleanly is carried into its own retry; only a turn that left no carry
  has none.
* session.py:197-202: a session that either rule keeps survives the eviction;
  the rules are applied to a list made before, and a session used since is
  removed with the others (`Evict`).
* README.md:327-328 speaks of drift detection between HEAD and `base_sha`;
  `resume_pr` has none.
* README.md:332-334: `luxe pr` picks up where the run left off, but not when
  `gh pr create` succeeded without an answer: the PR is never recorded.
* locks.py:1 again: `luxe pr` takes no lock (maint.py:150). With a third run, a
  resumed cycle checks out its branch between another run's commit and its
  tests, which then run on the wrong tree; `TestedShips` has to assume that
  nobody resumes meanwhile.
* locks.py:3-5 names the MCP server among the lock's users; it takes no lock
  (action `Serve`; `HolderWrites` has to assume it away).
* guardrails.py:586-590 tells the model that a refused call's result was
  provided above; compaction may have dropped it.
* apply.py:74-76: the operator's files are never the step's. When `git ls-files`
  fails the baseline is empty, and they are: kept steps commit them, reverts
  delete them (apply.py:68; the exception `miscounted` of `OperatorFilesSurvive`).
* apply.py:586-587: when the commit fails, the step's work stays in the tree. A
  commit that timed out may have landed (apply.py:236-237, `CommitFails`).
* apply.py:82-83 takes HEAD for the kept steps; the pass may commit through
  bash, and such a commit survives its step's discard.
* slots.py:90-92 promises that others' models on a shared endpoint are left
  alone; `/unload` frees all of them (`UnloadCommand`).
* slots.py:575-577: a repair that was refused falls through to the degrade. One
  that was tried and failed does not, and where brew is not found it is tried
  again at every failure (repair.py:229-235, `Repair`): main is then never given up.
* ephemeral.py:60-73: the purge removes the session's own directories. It passes
  over what it cannot remove and lists only what is gone (`PurgePart`, `PurgeSession`, `PurgeRuns`).
* chat.sdd:140-151: an endpoint that is down does not degrade main; the load
  guard degrades it for whatever made the load fail (`Guard`).
* supervisor.py:176-182 says that the ledger must corroborate DONE; green tests
  alone do. A round whose request fails after esc and before the first token
  counts as a crash.

Not a property, as the code leaves it open: `_do_watch_ci` ignores the result
of `gh pr ready`, so the record may say draft while the PR is not; after
`_end_busy` a new submission can overtake the queue for 50 ms; at the ledger's
list cap finished work no longer counts as progress; a successful connect after
the 120 s leaves its server down.

## 6. Plan

Done: lock, PR cycle, pipeline, agent loop, gitkit apply, requests and slots,
chat and goals, the deep audit's cache, the MCP client, the session store;
proofs of every safety property the passing runs check.

Next, in this order:

1. Project memory (`luxe/memory/project.py`, `luxe/chat/notes.py`): two sessions
   that read, change and replace one `memory.md`.
2. Chat with two workers, for what the window at `tui.py:499` can do.

Not modelled, and not planned: presentation, parsing, prompts, network and
document tools, host diagnostics, benchmarks and scripts. They keep no state
that another step depends on, or do nothing but I/O. They are the larger part
of the code, so the models cover a small part of its lines and most of its
control.
