------------------------------ MODULE MapCache ------------------------------
(***************************************************************************)
(* The deep git audit and its cache (src/luxe/gitkit/deep): a survey pass  *)
(* and a partition of the repository into chunks, kept as the map of the   *)
(* repository, and one note per analysed chunk, reused while the files of  *)
(* the chunk are what they were. A run takes hours; the operator edits and *)
(* commits meanwhile, and a run may be cancelled or die at any step.       *)
(*                                                                         *)
(* A file's content is a version. Of a survey what counts is which framing *)
(* files it read, and in which version; of a note, what its pass read.     *)
(***************************************************************************)
EXTENDS Naturals, Sequences, FiniteSets, Functions

CONSTANTS Files, Framing,  \* the files, and those _FRAMING_RE matches
          Versions,        \* what a file may hold
          Born,            \* the files of the first commit
          Pack(_),         \* build_chunks: a set of files as a sequence of chunks
          MaxDeltaChunks,  \* _MAX_DELTA_CHUNKS
          ChurnPercent,    \* _MAX_FILE_CHURN_FRAC
          Gone,            \* a file of the cache that is not there
          MaxHeads,        \* bound: commits made
          MaxEdits         \* bound: edits of the working tree

ASSUME MapCacheAssumption ==
  /\ Framing \subseteq Files /\ Born \subseteq Files /\ IsFiniteSet(Files)
  /\ \A S \in SUBSET Files : Pack(S) \in Seq(SUBSET Files) /\ UNION Range(Pack(S)) = S
  /\ {MaxDeltaChunks, ChurnPercent, MaxHeads, MaxEdits} \subseteq Nat

VARIABLES
  tree,      \* the working tree: the version of every file that exists
  head,      \* HEAD
  commits,   \* the tree of every commit
  edits,     \* edits made
  headFile, survey, plan, crumb,  \* map/: head, survey_notes.md, chunks.json, mapped.json
  notes,     \* map/notes/<kind>/chunk-NN.json
  pc,        \* where the run is
  fresh,     \* the run takes neither map nor notes from the cache (--rebuild-map)
  pinned,    \* run.head, read when the run starts
  shas,      \* run.current_shas, or the empty function
  draft,     \* what save_map is to write
  reused,    \* the chunks whose cached note the run folds in
  next,      \* the chunk whose turn it is
  moved,     \* history: the tree changed between a survey and its last save
  mixed      \* history: why the map on disk may be of two moments

repo == <<tree, head, commits, edits>>
map == <<headFile, survey, plan, crumb>>
run == <<pc, fresh, pinned, shas, draft, reused, next>>
vars == <<repo, map, notes, run, moved, mixed>>

Nothing == <<>>
Trees == UNION {[S -> Versions] : S \in SUBSET Files}
NoDraft == [parts |-> <<>>, read |-> Nothing, files |-> Nothing, delta |-> 0, again |-> FALSE]

Init ==
  /\ tree \in [Born -> Versions] /\ head = 1 /\ commits = <<tree>> /\ edits = 0
  /\ headFile = Gone /\ survey = Gone /\ plan = Gone /\ crumb = Gone
  /\ notes = Nothing
  /\ pc = "idle" /\ fresh = FALSE /\ pinned = 1 /\ shas = Nothing /\ draft = NoDraft
  /\ reused = {} /\ next = 1
  /\ moved = FALSE /\ mixed = {}

\* run_deep_report ends, in one way or another: only the disk is kept.
Over ==
  /\ pc' = "idle" /\ fresh' = FALSE /\ pinned' = 1 /\ shas' = Nothing /\ draft' = NoDraft
  /\ reused' = {} /\ next' = 1

-----------------------------------------------------------------------------
(***************************************************************************)
(* Stages 0 and 1: the map, from the cache, from the cache and the tree,   *)
(* or from a survey.                                                       *)
(***************************************************************************)

\* map_status: the breadcrumb says whether there was a map, and of which HEAD;
\* then the heavy files are looked for.
MapStatus(h) ==
  CASE crumb = Gone -> "MISSING"
    [] crumb # Gone /\ crumb.head # h -> "STALE"
    [] crumb # Gone /\ crumb.head = h ->
         IF survey = Gone \/ plan = Gone \/ headFile # h THEN "PARTIAL" ELSE "FRESH"

\* What worktree_file_shas answers: the hashes of HEAD for the files that are
\* as committed, and those of git hash-object for the others. The listing of
\* HEAD may fail, and so may any batch of hash-object: the files then have no
\* hash. When `git status` fails, none has.
Clean == {f \in DOMAIN tree \cap DOMAIN commits[head] : tree[f] = commits[head][f]}
Hashes == {Nothing} \union {Restrict(tree, listed \union hashed) :
                             listed \in {{}, Clean}, hashed \in SUBSET (DOMAIN tree \ Clean)}

Missing(now) == IF DOMAIN now = DOMAIN tree THEN {} ELSE {"unhashed"}

\* _plan_stage, as far as the first decision. A damaged map is rebuilt, or the
\* operator cancels. Staleness counts only when the breadcrumb has hashes.
Start(rebuild) ==
  /\ pc = "idle"
  /\ pinned' = head /\ fresh' = rebuild
  /\ LET status == MapStatus(head)
     IN  \/ /\ ~rebuild /\ status = "FRESH"
            /\ pc' = "notes"
            /\ draft' = [NoDraft EXCEPT !.parts = plan.parts, !.read = survey.read, !.again = TRUE]
         \/ /\ ~rebuild /\ status = "STALE" /\ crumb.files # Nothing
            /\ pc' = "replan" /\ draft' = NoDraft
         \/ /\ \/ rebuild \/ status \in {"MISSING", "PARTIAL"}
               \/ status = "STALE" /\ crumb.files = Nothing
            /\ pc' = "survey" /\ draft' = NoDraft
         \/ /\ ~rebuild /\ status = "PARTIAL"
            /\ pc' = "idle" /\ draft' = NoDraft
  /\ UNCHANGED <<repo, map, notes, shas, reused, next, moved, mixed>>

\* plan_incremental: which files changed between two states of the tree.
Deleted(old, new) == DOMAIN old \ DOMAIN new
Added(old, new) == DOMAIN new \ DOMAIN old
Modified(old, new) == {f \in DOMAIN old \cap DOMAIN new : old[f] # new[f]}
Touched(old, new) == Deleted(old, new) \union Added(old, new) \union Modified(old, new)

\* A file the survey read changed, or one appeared that it would read.
FramingHit(old, new, framing) ==
  \/ Touched(old, new) \cap framing # {}
  \/ Added(old, new) \cap Framing # {}

Churned(old, new) ==
  100 * Cardinality(Deleted(old, new) \union Added(old, new)) > ChurnPercent * Cardinality(DOMAIN old)

\* Mutant of Pruned: deleted files stay in their chunks.
MUnpruned(parts, old, new) == parts

\* Deleted files are pruned from their chunks. What is in no chunk then rides
\* in delta chunks, if it is new.
Pruned(parts, old, new) == [i \in DOMAIN parts |-> parts[i] \ Deleted(old, new)]
Deltas(parts, old, new) == Pack(Added(old, new) \ UNION Range(Pruned(parts, old, new)))

\* _incremental_replan. The triggers that weigh tokens and chunk counts are
\* data: they may fire.
Replan ==
  /\ pc = "replan"
  /\ \E now \in Hashes, heavy \in BOOLEAN :
       IF survey = Gone \/ plan = Gone
       THEN pc' = "survey" /\ UNCHANGED <<shas, draft, mixed>>
       ELSE LET old == crumb.files
                delta == crumb.delta + Len(Deltas(plan.parts, old, now))
            IN  /\ shas' = now
                /\ IF \/ FramingHit(old, now, DOMAIN survey.read) \/ Churned(old, now)
                      \/ delta > MaxDeltaChunks \/ heavy
                   THEN pc' = "survey" /\ UNCHANGED <<draft, mixed>>
                   ELSE /\ pc' = "save head" /\ mixed' = mixed \union Missing(now)
                        /\ draft' = [parts |-> Pruned(plan.parts, old, now)
                                                 \o Deltas(plan.parts, old, now),
                                     read |-> survey.read, files |-> now,
                                     delta |-> delta, again |-> TRUE]
  /\ UNCHANGED <<repo, map, notes, fresh, pinned, reused, next, moved>>

\* The survey pass: it is given the framing files that exist and reads them
\* now; what it says is kept, whatever it says.
SurveyBegins ==
  /\ pc = "survey"
  /\ pc' = "surveying"
  /\ draft' = [NoDraft EXCEPT !.read = Restrict(tree, Framing \cap DOMAIN tree)]
  /\ moved' = FALSE
  /\ UNCHANGED <<repo, map, notes, fresh, pinned, shas, reused, next, mixed>>

SurveyEnds ==
  /\ pc = "surveying"
  /\ pc' = "save head"
  /\ draft' = [draft EXCEPT !.parts = Pack(DOMAIN tree)]
  /\ UNCHANGED <<repo, map, notes, fresh, pinned, shas, reused, next, moved, mixed>>

-----------------------------------------------------------------------------
(***************************************************************************)
(* save_map: each file is replaced at once, the breadcrumb last. After a   *)
(* survey the hashes are taken when the breadcrumb is written.             *)
(***************************************************************************)

SaveHead ==
  /\ pc = "save head"
  /\ pc' = "save survey" /\ headFile' = pinned
  /\ UNCHANGED <<repo, survey, plan, crumb, notes, fresh, pinned, shas, draft, reused, next,
                 moved, mixed>>

SaveSurvey ==
  /\ pc = "save survey"
  /\ pc' = "save plan" /\ survey' = [read |-> draft.read]
  /\ UNCHANGED <<repo, headFile, plan, crumb, notes, fresh, pinned, shas, draft, reused, next,
                 moved, mixed>>

SavePlan ==
  /\ pc = "save plan"
  /\ pc' = "save crumb" /\ plan' = [parts |-> draft.parts]
  /\ UNCHANGED <<repo, headFile, survey, crumb, notes, fresh, pinned, shas, draft, reused, next,
                 moved, mixed>>

SaveCrumb ==
  /\ pc = "save crumb"
  /\ \E now \in Hashes :
       LET files == IF draft.again THEN draft.files ELSE now
       IN  /\ pc' = "notes"
           /\ crumb' = [head |-> pinned, files |-> files, delta |-> draft.delta]
           /\ draft' = [draft EXCEPT !.files = files]
           /\ mixed' = IF draft.again THEN mixed ELSE IF moved THEN {"drift"} ELSE Missing(now)
  /\ moved' = FALSE
  /\ UNCHANGED <<repo, headFile, survey, plan, notes, fresh, pinned, shas, reused, next>>

-----------------------------------------------------------------------------
(***************************************************************************)
(* Stage 2: the chunks.                                                    *)
(***************************************************************************)

Of(part) == Restrict(shas, part \cap DOMAIN shas)

\* Mutant of Valid: the hashes are not compared.
MValidByFiles(note, part) == note.files = part

\* chunk_note_is_valid: exactly these files, each with a hash and that hash.
Valid(note, part) ==
  /\ note.files = part
  /\ part \subseteq DOMAIN shas
  /\ note.shas = Restrict(shas, part)

\* _reuse_notes, on the hashes of the replan or those of now; then the
\* operator is asked, when the plan is long.
ReuseNotes ==
  /\ pc = "notes" /\ shas # Nothing
  /\ pc' = "chunks" /\ next' = 1
  /\ reused' = IF fresh THEN {}
               ELSE {i \in DOMAIN draft.parts \cap DOMAIN notes :
                       draft.parts[i] # {} /\ Valid(notes[i], draft.parts[i])}
  /\ UNCHANGED <<repo, map, notes, fresh, pinned, shas, draft, moved, mixed>>

HashTree ==
  /\ pc = "notes" /\ shas = Nothing
  /\ shas' \in Hashes
  /\ pc' = IF shas' = Nothing THEN "chunks" ELSE pc
  /\ UNCHANGED <<repo, map, notes, fresh, pinned, draft, reused, next, moved, mixed>>

Chunk == draft.parts[next]
AtChunk == pc = "chunks" /\ next \in DOMAIN draft.parts

\* A chunk without files, or whose note is folded in.
SkipChunk ==
  /\ AtChunk /\ (Chunk = {} \/ next \in reused)
  /\ next' = next + 1
  /\ UNCHANGED <<repo, map, notes, pc, fresh, pinned, shas, draft, reused, moved, mixed>>

Note(whole) == [files |-> Chunk, shas |-> Of(Chunk), whole |-> whole,
                seen |-> Restrict(tree, Chunk \cap DOMAIN tree)]

\* _analyze_chunk and record_chunk: the pass reads the files as they are; only
\* a contribution all of whose passes ended well is kept.
AnalyzeChunk(whole) ==
  /\ AtChunk /\ Chunk # {} /\ next \notin reused
  /\ next' = next + 1
  /\ notes' = IF whole
              THEN [i \in DOMAIN notes \union {next} |-> IF i = next THEN Note(TRUE) ELSE notes[i]]
              ELSE notes
  /\ UNCHANGED <<repo, map, pc, fresh, pinned, shas, draft, reused, moved, mixed>>

\* The synthesis, and the report.
Finish ==
  /\ pc = "chunks" /\ next \notin DOMAIN draft.parts
  /\ Over
  /\ UNCHANGED <<repo, map, notes, moved, mixed>>

\* save_map has written some of its files and not the last.
Saving == pc \in {"save survey", "save plan", "save crumb"}

\* Ctrl-C, a declined plan, a failed write or the death of the process.
Stop ==
  /\ pc # "idle"
  /\ Over /\ moved' = FALSE
  /\ mixed' = IF Saving THEN mixed \union {"torn"} ELSE mixed
  /\ UNCHANGED <<repo, map, notes>>

-----------------------------------------------------------------------------
(***************************************************************************)
(* The operator, at any time.                                              *)
(***************************************************************************)

Moves == moved \/ pc \in {"surveying", "save head"} \/ Saving

Edit(t) ==
  /\ edits < MaxEdits /\ edits' = edits + 1
  /\ tree' = t /\ moved' = Moves
  /\ UNCHANGED <<head, commits, map, notes, run, mixed>>

\* One file is written, or deleted.
EditFile(f) ==
  \/ \E v \in Versions :
       LET written == [g \in DOMAIN tree \union {f} |-> IF g = f THEN v ELSE tree[g]]
       IN  written # tree /\ Edit(written)
  \/ f \in DOMAIN tree /\ Edit(Restrict(tree, DOMAIN tree \ {f}))

Commit ==
  /\ Len(commits) < MaxHeads /\ tree # commits[head]
  /\ commits' = Append(commits, tree) /\ head' = Len(commits) + 1
  /\ UNCHANGED <<tree, edits, map, notes, run, moved, mixed>>

Checkout(h) ==
  /\ h # head /\ tree = commits[head] /\ edits < MaxEdits /\ edits' = edits + 1
  /\ head' = h /\ tree' = commits[h] /\ moved' = Moves
  /\ UNCHANGED <<commits, map, notes, run, mixed>>

\* A heavy file is deleted by hand.
Damage ==
  /\ crumb # Gone /\ edits < MaxEdits /\ edits' = edits + 1
  /\ \/ survey # Gone /\ survey' = Gone /\ UNCHANGED plan
     \/ plan # Gone /\ plan' = Gone /\ UNCHANGED survey
  /\ UNCHANGED <<tree, head, commits, headFile, crumb, notes, run, moved, mixed>>

Deep ==
  \/ Replan \/ SurveyBegins \/ SurveyEnds \/ SaveHead \/ SaveSurvey \/ SavePlan \/ SaveCrumb
  \/ ReuseNotes \/ HashTree \/ SkipChunk \/ Finish \/ Stop
  \/ \E b \in BOOLEAN : Start(b) \/ AnalyzeChunk(b)

Next ==
  \/ Deep
  \/ \E f \in Files : EditFile(f)
  \/ Commit \/ Damage
  \/ \E h \in DOMAIN commits : Checkout(h)

Spec == Init /\ [][Next]_vars

-----------------------------------------------------------------------------
\* The run planned its chunks itself, against the hashes draft.files.
Planned == pc \in {"notes", "chunks"} /\ draft.files # Nothing

\* No file that has a hash is left out of an audit without a word: when a run
\* planned its chunks, anew or from an older map, they cover the files it
\* hashed, and no others when none went without a hash since the last survey
\* (_incremental_replan, plan_incremental), over any history of edits, commits,
\* runs and damage. Excepted are maps of two moments: the tree changed under
\* the survey, or a run died in save_map.
EveryFileIsPlanned ==
  Planned =>
    /\ mixed \subseteq {"unhashed"} => DOMAIN draft.files \subseteq UNION Range(draft.parts)
    /\ mixed = {} => UNION Range(draft.parts) = DOMAIN draft.files

\* The same without the exception for a run that dies in save_map, which its
\* comment excludes: the old breadcrumb then points at the old heavy files.
\* The code does not keep this.
NothingIsLeftOut ==
  Planned /\ mixed \subseteq {"torn"} => UNION Range(draft.parts) = DOMAIN draft.files

\* A survey read every framing file of files, in that version.
Describes(read, files) ==
  \A f \in Framing \cap DOMAIN files : f \in DOMAIN read /\ read[f] = files[f]

\* What a run takes from the cache is about the tree it audits. The survey it
\* keeps describes every framing file as the run hashed it, however many
\* commits ago it was made, and no other when none went without a hash since
\* (the framing trigger of plan_incremental). A note that is folded in
\* comes from passes that all ended well, and read the contents the run hashed,
\* unless the tree changed between the hashes and the pass of the run that made
\* it (_cacheable, chunk_note_is_valid).
CacheIsCurrent ==
  /\ Planned =>
       /\ mixed \subseteq {"unhashed"} => Describes(draft.read, draft.files)
       /\ mixed = {} => draft.read = Restrict(draft.files, Framing \cap DOMAIN draft.files)
  /\ pc = "chunks" => \A i \in reused :
       /\ notes[i].whole
       /\ notes[i].seen = notes[i].shas => notes[i].seen = Of(draft.parts[i])
==============================================================================
