------------------------------ MODULE Sessions ------------------------------
(***************************************************************************)
(* What chat sessions leave on disk and take from it: the session          *)
(* directories (src/luxe/memory/session.py) with transcript, fold and      *)
(* ledger (src/luxe/state/ledger.py), the run telemetry, the mode that     *)
(* writes none of them (src/luxe/ephemeral.py, /ephemeral), /resume,       *)
(* /clear and the background eviction of old sessions.                     *)
(*                                                                         *)
(* Each session is one process; all of them share the disk without a lock, *)
(* and any may be killed between two steps. A text is the number of the    *)
(* turn it is of, wherever it is kept, plus MaxAsked if the turn was taken *)
(* while its session was ephemeral.                                        *)
(***************************************************************************)
EXTENDS Naturals, Sequences, SequencesExt

CONSTANTS Ids,        \* the sessions
          MaxAsked,   \* bound: the turns asked in all sessions
          MaxRecords, \* bound: the length of a transcript that /clear still adds to
          MaxAged,    \* bound: the sessions old or broken that are still to age
          MaxInParts, \* bound: the turns asked where an rmtree may be seen half done,
                      \* be cut short or leave files
          MaxBroken   \* bound: the sessions that lost a part of their files

ASSUME SessionsAssumption ==
  {MaxAsked, MaxRecords, MaxAged, MaxInParts, MaxBroken} \subseteq Nat

VARIABLES
  at,        \* where the process of each session is
  quiet,     \* is_ephemeral()
  turns,     \* session.turns
  resumed,   \* session.resumed_ids
  held,      \* ledger._MEMORY, or NoLedger
  asking,    \* the turn that runs
  meta,      \* meta.json is there
  log,       \* transcript.jsonl
  fold,      \* fold.jsonl: the turns whose text it may hold
  ledger,    \* ledger.json: the turns that recorded something in it
  runs,      \* the turns of which there is telemetry under ~/.luxe/runs
  aged,      \* the sessions that both rules of the eviction give up
  doomed,    \* what the eviction thread of each session has listed
  asked,     \* the number of turns asked
  said,      \* history: what each session has said, on the record
  worked,    \* history: the turns whose work its ledger is to hold
  broken     \* history: the sessions an eviction, or a part of a purge, took files of

process == <<at, quiet, turns, resumed, held, asking>>
directory == <<meta, log, fold, ledger>>
disk == <<directory, runs>>
gc == <<aged, doomed>>
history == <<said, worked, broken>>
vars == <<process, disk, gc, asked, history>>

Turn(user, answer) == [user |-> user, answer |-> answer]
Record(kind, text) == [kind |-> kind, text |-> text]
NoText == 0
All == 1 .. 2 * MaxAsked
Hidden == {n \in All : n > MaxAsked}
NoLedger == {NoText}

Init ==
  /\ at = [s \in Ids |-> "unborn"] /\ quiet = [s \in Ids |-> FALSE]
  /\ turns = [s \in Ids |-> <<>>] /\ resumed = [s \in Ids |-> {}]
  /\ held = [s \in Ids |-> NoLedger] /\ asking = [s \in Ids |-> NoText]
  /\ meta = [s \in Ids |-> FALSE] /\ log = [s \in Ids |-> <<>>]
  /\ fold = [s \in Ids |-> {}] /\ ledger = [s \in Ids |-> {}] /\ runs = [s \in Ids |-> {}]
  /\ aged = {} /\ doomed = [s \in Ids |-> {}] /\ asked = 0
  /\ said = [s \in Ids |-> <<>>] /\ worked = [s \in Ids |-> {}]
  /\ broken = {}

-----------------------------------------------------------------------------
(***************************************************************************)
(* Reading a transcript back.                                              *)
(***************************************************************************)

Blank == [turns |-> <<>>, pending |-> NoText]

Flushed(acc) == IF acc.pending = NoText THEN acc.turns
                ELSE Append(acc.turns, Turn(acc.pending, NoText))

\* Mutant of Reads: the cut forgets the turns before it, not the question.
MReadsPastClear(acc, r) ==
  CASE r.kind = "clear" -> [acc EXCEPT !.turns = <<>>]
    [] r.kind = "user" -> [turns |-> Flushed(acc), pending |-> r.text]
    [] r.kind = "assistant" -> [turns |-> Append(acc.turns, Turn(acc.pending, r.text)),
                                pending |-> NoText]
    [] OTHER -> acc

\* One record: an answer goes with the question before it; a question without
\* one is a turn of its own; a cut drops both.
Reads(acc, r) ==
  CASE r.kind = "clear" -> Blank
    [] r.kind = "user" -> [turns |-> Flushed(acc), pending |-> r.text]
    [] r.kind = "assistant" -> [turns |-> Append(acc.turns, Turn(acc.pending, r.text)),
                                pending |-> NoText]
    [] OTHER -> acc

\* What is read once the first n records are, for every n.
Reading(records) ==
  LET read[n \in 0 .. Len(records)] ==
        IF n = 0 THEN Blank ELSE Reads(read[n - 1], records[n])
  IN  read

\* _pair_turns
Pairs(records) == Flushed(Reading(records)[Len(records)])

Texts(ts) == {t.user : t \in Range(ts)}

-----------------------------------------------------------------------------
(***************************************************************************)
(* Writing. Every writer looks at the mode first.                          *)
(***************************************************************************)

\* append_turn, for a sequence of records; it makes the directory if need be.
Writes(s, records) == log' = IF quiet[s] THEN log ELSE [log EXCEPT ![s] = @ \o records]

\* ledger.load and ledger.save: while quiet the memory is the ledger.
Held(s) == IF held[s] = NoLedger THEN {} ELSE held[s]
Load(s) == IF quiet[s] THEN Held(s) ELSE ledger[s]
Save(s, items) ==
  IF quiet[s] THEN held' = [held EXCEPT ![s] = items] /\ UNCHANGED ledger
  ELSE ledger' = [ledger EXCEPT ![s] = items] /\ UNCHANGED held

To(s, from, to) == at[s] = from /\ at' = [at EXCEPT ![s] = to]

\* new_session, and start_session_gc, which lists what is old; an ephemeral
\* session neither writes nor deletes.
Start(s, q) ==
  /\ To(s, "unborn", "rest")
  /\ quiet' = [quiet EXCEPT ![s] = q]
  /\ meta' = [meta EXCEPT ![s] = ~q]
  /\ doomed' = [doomed EXCEPT ![s] = IF q THEN {} ELSE aged]
  /\ UNCHANGED <<turns, resumed, held, asking, log, fold, ledger, runs, aged, asked, history>>

\* prepare_turn: the question is recorded, and, unless the turn continues a
\* carried conversation, the fold of all the turns before it.
Ask(s, carried) ==
  /\ To(s, "rest", "turn") /\ asked < MaxAsked
  /\ broken # {} => asked < MaxInParts
  /\ carried => turns[s] # <<>>
  /\ asked' = asked + 1
  /\ asking' = [asking EXCEPT ![s] = IF quiet[s] THEN asked' + MaxAsked ELSE asked']
  /\ Writes(s, <<Record("user", asking'[s])>>)
  /\ fold' = IF quiet[s] \/ carried THEN fold
             ELSE [fold EXCEPT ![s] = @ \union Texts(turns[s])]
  /\ runs' = IF quiet[s] THEN runs ELSE [runs EXCEPT ![s] = @ \union {asked'}]
  /\ said' = IF quiet[s] THEN said ELSE [said EXCEPT ![s] = Append(@, Turn(asked', NoText))]
  /\ UNCHANGED <<quiet, turns, resumed, held, meta, ledger, gc, worked, broken>>

\* update_ledger and record_files: read, change, write.
Work(s) ==
  /\ at[s] = "turn" /\ asking[s] \notin Load(s)
  /\ Save(s, Load(s) \union {asking[s]})
  /\ worked' = [worked EXCEPT ![s] = @ \union {asking[s]}]
  /\ UNCHANGED <<at, quiet, turns, resumed, asking, meta, log, fold, runs, gc, asked,
                 said, broken>>

\* touch: a session without meta.json is left as it is.
Touched(s) == IF quiet[s] \/ ~meta[s] THEN aged ELSE aged \ {s}

\* finalize_turn. An interrupted turn may have no text. The error that
\* note_aborted_turn adds to the record is one no reader looks at.
Answer(s, text) ==
  /\ To(s, "turn", "rest")
  /\ turns' = [turns EXCEPT ![s] = Append(@, Turn(asking[s], text))]
  /\ Writes(s, <<Record("assistant", text)>>)
  /\ aged' = Touched(s)
  /\ said' = IF quiet[s] THEN said
             ELSE [said EXCEPT ![s] = Append(Front(@), Turn(asking[s], text))]
  /\ asking' = [asking EXCEPT ![s] = NoText]
  /\ UNCHANGED <<quiet, resumed, held, meta, fold, ledger, runs, doomed, asked,
                 worked, broken>>

\* An exception leaves the turn: it is no turn of the session, but its question
\* stays on the record.
Raise(s) ==
  /\ To(s, "turn", "rest")
  /\ Writes(s, <<Record("error", NoText)>>)
  /\ asking' = [asking EXCEPT ![s] = NoText]
  /\ UNCHANGED <<quiet, turns, resumed, held, meta, fold, ledger, runs, gc, asked, history>>

\* /clear: the turns and the ledger go, wherever it is, and the cut is marked.
\* Bounds: MaxRecords, and not twice in a row.
Clear(s) ==
  /\ at[s] = "rest" /\ Len(log[s]) < MaxRecords
  /\ turns[s] # <<>> \/ (log[s] # <<>> /\ Last(log[s]).kind # "clear")
  /\ turns' = [turns EXCEPT ![s] = <<>>]
  /\ held' = [held EXCEPT ![s] = NoLedger]
  /\ ledger' = IF quiet[s] THEN ledger ELSE [ledger EXCEPT ![s] = {}]
  /\ Writes(s, <<Record("clear", NoText)>>)
  /\ said' = IF quiet[s] THEN said ELSE [said EXCEPT ![s] = <<>>]
  /\ worked' = [worked EXCEPT ![s] = {}]
  /\ UNCHANGED <<at, quiet, resumed, asking, meta, fold, runs, gc, asked, broken>>

\* What resume_into writes of the turns it brings: an answer only if there is one.
Copies(ts) ==
  LET copy(t) == <<Record("user", t.user)>>
                 \o (IF t.answer = NoText THEN <<>> ELSE <<Record("assistant", t.answer)>>)
  IN  FlattenSeq([i \in DOMAIN ts |-> copy(ts[i])])

Whole(s) == s \notin broken /\ at[s] # "purging"

\* /resume: another session's turns, once, also into this one's transcript. What
\* is read of a directory that is not whole is not what was said there.
Resume(s, t) ==
  /\ at[s] = "rest" /\ t # s /\ t \notin resumed[s] /\ meta[t]
  /\ turns' = [turns EXCEPT ![s] = @ \o Pairs(log[t])]
  /\ Writes(s, Copies(Pairs(log[t])))
  /\ resumed' = [resumed EXCEPT ![s] = @ \union {t}]
  /\ said' = IF quiet[s] THEN said ELSE [said EXCEPT ![s] = @ \o said[t]]
  /\ broken' = IF Whole(t) THEN broken ELSE broken \union {s}
  /\ UNCHANGED <<at, quiet, held, asking, meta, fold, ledger, runs, gc, asked, worked>>

-----------------------------------------------------------------------------
(***************************************************************************)
(* /ephemeral.                                                             *)
(***************************************************************************)

\* Mutant of HoldLedger: the ledger is not carried over.
MHoldNothing(s) == UNCHANGED held

\* hold_in_memory
HoldLedger(s) == held' = [held EXCEPT ![s] = IF @ = NoLedger THEN ledger[s] ELSE @]

\* ON: the ledger and the mode are the process's own, so this is one step; then
\* the purge of what is on disk, in two.
Enable(s) ==
  /\ To(s, "rest", "enabled") /\ ~quiet[s]
  /\ HoldLedger(s)
  /\ quiet' = [quiet EXCEPT ![s] = TRUE]
  /\ UNCHANGED <<turns, resumed, asking, disk, gc, asked, history>>

Bare(s) == ~meta[s] /\ log[s] = <<>> /\ fold[s] = {} /\ ledger[s] = {}

Files == {"meta", "transcript", "fold", "ledger"}

\* Bounds: MaxInParts, MaxBroken.
InParts(s) == asked <= MaxInParts /\ Cardinality(broken \ {s}) < MaxBroken

\* rmtree takes one file after the other, in any order, and passes over those it
\* cannot remove: within the bounds at most one at a step, else all at once.
Removes(s) ==
  \E left \in IF InParts(s) THEN {Files} \union {Files \ {f} : f \in Files} ELSE {{}} :
    /\ meta' = [meta EXCEPT ![s] = @ /\ "meta" \in left]
    /\ log' = [log EXCEPT ![s] = IF "transcript" \in left THEN @ ELSE <<>>]
    /\ fold' = [fold EXCEPT ![s] = IF "fold" \in left THEN @ ELSE {}]
    /\ ledger' = [ledger EXCEPT ![s] = IF "ledger" \in left THEN @ ELSE {}]
    /\ aged' = IF meta'[s] THEN aged ELSE aged \ {s}

Broken(s, unless) == broken' = IF unless THEN broken ELSE broken \union {s}

\* purge_session: the directory of the session, a part of it ...
PurgePart(s) ==
  /\ at[s] \in {"enabled", "purging"} /\ at' = [at EXCEPT ![s] = "purging"]
  /\ InParts(s) /\ Removes(s)
  /\ UNCHANGED <<quiet, turns, resumed, held, asking, runs, doomed, asked, history>>

\* ... after the other ...
PurgeSession(s) ==
  /\ at[s] \in {"enabled", "purging"} /\ at' = [at EXCEPT ![s] = "purged"]
  /\ Removes(s)
  /\ said' = [said EXCEPT ![s] = <<>>]
  /\ Broken(s, Bare(s)')
  /\ UNCHANGED <<quiet, turns, resumed, held, asking, runs, doomed, asked, worked>>

\* Mutant of PurgeRuns: the telemetry is left where it is.
MPurgeNoRuns(s) ==
  /\ To(s, "purged", "rest")
  /\ UNCHANGED <<quiet, turns, resumed, held, asking, disk, gc, asked, history>>

\* ... then its runs, of which the same holds.
PurgeRuns(s) ==
  /\ To(s, "purged", "rest")
  /\ \E left \in IF InParts(s) THEN SUBSET runs[s] ELSE {{}} :
       runs' = [runs EXCEPT ![s] = left] /\ Broken(s, left = {})
  /\ UNCHANGED <<quiet, turns, resumed, held, asking, directory, gc, asked, said, worked>>

\* OFF: restore_meta, forget_in_memory.
Disable(s) ==
  /\ at[s] = "rest" /\ quiet[s]
  /\ quiet' = [quiet EXCEPT ![s] = FALSE]
  /\ meta' = [meta EXCEPT ![s] = TRUE] /\ aged' = aged \ {s}
  /\ held' = [held EXCEPT ![s] = NoLedger] /\ worked' = [worked EXCEPT ![s] = {}]
  /\ UNCHANGED <<at, turns, resumed, asking, log, fold, ledger, runs, doomed, asked,
                 said, broken>>

-----------------------------------------------------------------------------
(***************************************************************************)
(* The end of a session, its death, and the eviction of old ones.          *)
(***************************************************************************)

\* The process ends, or is killed, in a turn or in the middle of the purge: with
\* it goes what it held in memory, and its eviction thread.
Die(s) ==
  /\ at[s] \notin {"unborn", "gone"}
  /\ at' = [at EXCEPT ![s] = "gone"]
  /\ quiet' = [quiet EXCEPT ![s] = FALSE] /\ turns' = [turns EXCEPT ![s] = <<>>]
  /\ resumed' = [resumed EXCEPT ![s] = {}] /\ held' = [held EXCEPT ![s] = NoLedger]
  /\ asking' = [asking EXCEPT ![s] = NoText] /\ doomed' = [doomed EXCEPT ![s] = {}]
  /\ worked' = [worked EXCEPT ![s] = {}]
  /\ Broken(s, at[s] = "purging" => Bare(s))
  /\ UNCHANGED <<directory, runs, aged, asked, said>>

\* Thirty days without a turn, and fifty more recent sessions. Bound: MaxAged.
\* No turn and no command takes thirty days.
Age(t) ==
  /\ at[t] \in {"rest", "gone"} /\ meta[t] /\ t \notin aged
  /\ Cardinality(aged \union broken) < MaxAged
  /\ aged' = aged \union {t}
  /\ UNCHANGED <<process, disk, doomed, asked, history>>

\* gc_sessions removes one directory after the other, also in parts, whatever
\* has happened to the session since the list was made.
Evict(s, t) ==
  /\ t \in doomed[s]
  /\ doomed' = [doomed EXCEPT ![s] = @ \ {t}] \/ (InParts(t) /\ UNCHANGED doomed)
  /\ Removes(t)
  /\ Broken(t, directory' = directory)
  /\ UNCHANGED <<process, runs, asked, said, worked>>

Next ==
  \E s \in Ids :
    \/ \E b \in BOOLEAN : Start(s, b) \/ Ask(s, b)
    \/ Work(s) \/ Raise(s) \/ \E text \in {asking[s], NoText} : Answer(s, text)
    \/ Clear(s) \/ Die(s) \/ Age(s)
    \/ Enable(s) \/ PurgePart(s) \/ PurgeSession(s) \/ PurgeRuns(s) \/ Disable(s)
    \/ \E t \in Ids : Resume(s, t) \/ Evict(s, t)

Spec == Init /\ [][Next]_vars
-----------------------------------------------------------------------------
(***************************************************************************)
(* Properties.                                                             *)
(***************************************************************************)

\* What /resume brings back of a session is what it has said since its last
\* /clear or purge, failed questions and resumed turns included, and no
\* transcript is an orphan no resume finds (resume.py:33-62, session.py:101-107,
\* cmd_toggles.py:623-630): unless an rmtree has taken a part of its directory,
\* or the session has resumed one of which that is so.
Resumable ==
  \A s \in Ids : Whole(s) =>
    /\ log[s] # <<>> => meta[s]
    /\ meta[s] => Pairs(log[s]) = said[s]

\* /ephemeral on keeps the working state and off drops it: what the goal
\* supervisor, /diff and the prompt read is what was recorded since the last
\* /clear or off (ledger.py:79-102, cmd_toggles.py:589-602).
LedgerFollows ==
  \A s \in Ids \ broken : at[s] \notin {"unborn", "gone"} => Load(s) = worked[s]

\* While a session is ephemeral, past a purge that could remove every file,
\* nothing of it is on disk; and what was said meanwhile never reaches a
\* transcript, a ledger or the telemetry, also where files were left
\* (ephemeral.py:46-73, cmd_toggles.py:556-565, 590-593). Of the fold the code
\* does not keep it: prepare_turn folds what session.turns has (turn.py:463).
EphemeralLeavesNothing ==
  \A s \in Ids :
    /\ quiet[s] /\ at[s] \in {"rest", "turn"} /\ s \notin broken =>
         Bare(s) /\ runs[s] = {}
    /\ Hidden \intersect (Texts(Pairs(log[s])) \union ledger[s] \union runs[s]) = {}
=============================================================================
