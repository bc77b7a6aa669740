--------------------------- MODULE MapCache_proofs ---------------------------
(***************************************************************************)
(* The cache of the deep audit for every repository, every way build_chunks *)
(* may partition it, and any history of edits, commits, checkouts, damage, *)
(* runs, cancels and deaths: a run's plan covers the files it hashed, and  *)
(* what it takes from the cache is about them.                             *)
(*                                                                         *)
(* The argument is about three moments. While a survey is under way its    *)
(* draft is of the tree as it is, as long as nobody has moved it. While    *)
(* save_map runs the draft, and what of it is on disk, is of one set of    *)
(* hashes. And at rest the map on disk is of the hashes in its breadcrumb; *)
(* Replan carries that over from the old hashes to the new ones.           *)
(***************************************************************************)
EXTENDS MapCache, TLAPS

Parts == Seq(SUBSET Files)

\* A plan of these files, and one with these files; a survey that read the
\* framing files among them.
Covers(parts, files) == UNION Range(parts) = DOMAIN files
Reaches(parts, files) == DOMAIN files \subseteq UNION Range(parts)
ReadOf(files) == Restrict(files, Framing \cap DOMAIN files)

\* What holds although a file went without a hash, and what holds otherwise.
Whole == mixed = {}
Gapped == mixed \subseteq {"unhashed"}

Shapes ==
  /\ tree \in Trees /\ commits \in Seq(Trees) /\ head \in 1 .. Len(commits)
  /\ plan # Gone => plan.parts \in Parts
  /\ crumb # Gone /\ crumb.files # Nothing => crumb.files \in Trees
  /\ draft = [parts |-> draft.parts, read |-> draft.read, files |-> draft.files,
              delta |-> draft.delta, again |-> draft.again]
  /\ draft.parts \in Parts
  /\ draft.files # Nothing => draft.files \in Trees

InSave == pc \in {"save head", "save survey", "save plan", "save crumb"}

\* What a survey drafts is of the tree, unless the tree moves.
Surveyed ==
  /\ moved => pc = "surveying" \/ InSave
  /\ pc = "surveying" => ~draft.again
  /\ pc = "surveying" /\ ~moved => draft.read = ReadOf(tree)
  /\ InSave /\ ~draft.again /\ ~moved =>
       Covers(draft.parts, tree) /\ draft.read = ReadOf(tree)

\* What is to be saved, is being saved, or is planned with, is of its hashes.
Drafted ==
  draft.files # Nothing /\ ((InSave /\ draft.again) \/ pc \in {"notes", "chunks"}) =>
    /\ Whole => Covers(draft.parts, draft.files) /\ draft.read = ReadOf(draft.files)
    /\ Gapped => Reaches(draft.parts, draft.files) /\ Describes(draft.read, draft.files)

\* save_map has got this far.
Saved ==
  /\ pc \in {"save plan", "save crumb"} => survey = Gone \/ survey.read = draft.read
  /\ pc = "save crumb" => plan = Gone \/ plan.parts = draft.parts

\* The map at rest is of the hashes in its breadcrumb.
OnDisk ==
  ~Saving /\ crumb # Gone /\ crumb.files # Nothing =>
    /\ survey # Gone => /\ Whole => survey.read = ReadOf(crumb.files)
                        /\ Gapped => Describes(survey.read, crumb.files)
    /\ plan # Gone => /\ Whole => Covers(plan.parts, crumb.files)
                      /\ Gapped => Reaches(plan.parts, crumb.files)

\* A replan starts from a breadcrumb with hashes.
Replans == pc = "replan" => crumb # Gone /\ crumb.files # Nothing

\* Only whole notes are kept, and those that are folded in are valid still.
Reuses ==
  /\ pc # "chunks" => reused = {}
  /\ \A i \in DOMAIN notes : notes[i].whole
  /\ pc = "chunks" => \A i \in reused : i \in DOMAIN notes /\ Valid(notes[i], draft.parts[i])

MapInv == Shapes /\ Surveyed /\ Drafted /\ Saved /\ OnDisk /\ Replans /\ Reuses

-----------------------------------------------------------------------------
(***************************************************************************)
(* Trees, parts, and what plan_incremental makes of them.                  *)
(***************************************************************************)

LEMMA TreeIsPartial ==
  ASSUME NEW t \in Trees
  PROVE  /\ DOMAIN t \subseteq Files /\ t \in [DOMAIN t -> Versions]
         /\ \A S \in SUBSET DOMAIN t : Restrict(t, S) \in Trees
<1>1. PICK S \in SUBSET Files : t \in [S -> Versions]
  BY DEF Trees
<1>2. DOMAIN t = S
  BY <1>1
<1>3. ASSUME NEW R \in SUBSET DOMAIN t
      PROVE  Restrict(t, R) \in Trees
  <2>1. R \in SUBSET Files /\ Restrict(t, R) \in [R -> Versions]
    BY <1>1, <1>2, <1>3 DEF Restrict
  <2> QED
    BY <2>1 DEF Trees
<1> QED
  BY <1>1, <1>2, <1>3

\* Every answer of worktree_file_shas is a part of the tree; and one that
\* lacks no file is the tree.
LEMMA HashesOfTheTree ==
  ASSUME tree \in Trees, NEW now \in Hashes
  PROVE  /\ DOMAIN now \subseteq DOMAIN tree /\ DOMAIN now \subseteq Files
         /\ \A f \in DOMAIN now : now[f] = tree[f]
         /\ now # Nothing => now \in Trees
         /\ now # Nothing /\ Missing(now) = {} => now = tree
<1>1. CASE now = Nothing
  <2>1. DOMAIN Nothing = {}
    BY DEF Nothing
  <2> QED
    BY <1>1, <2>1
<1>2. CASE now # Nothing
  <2>1. PICK known \in SUBSET DOMAIN tree : now = Restrict(tree, known)
    <3>1. PICK listed \in {{}, Clean}, hashed \in SUBSET (DOMAIN tree \ Clean) :
            now = Restrict(tree, listed \union hashed)
      BY <1>2 DEF Hashes
    <3>2. Clean \subseteq DOMAIN tree
      BY DEF Clean
    <3> QED
      BY <3>1, <3>2
  <2>2. DOMAIN now = known /\ \A f \in known : now[f] = tree[f]
    BY <2>1 DEF Restrict
  <2>3. now \in Trees /\ DOMAIN tree \subseteq Files /\ tree = [f \in DOMAIN tree |-> tree[f]]
    BY <2>1, TreeIsPartial
  <2>4. ASSUME Missing(now) = {}
        PROVE  now = tree
    <3>1. known = DOMAIN tree
      BY <2>2, <2>4 DEF Missing
    <3> QED
      BY <2>1, <2>3, <3>1 DEF Restrict
  <2> QED
    BY <2>2, <2>3, <2>4
<1> QED
  BY <1>1, <1>2

\* Two functions that agree on two equal sets are restricted to the same.
LEMMA SameRestrict ==
  ASSUME NEW f, NEW g, NEW S, NEW T, S = T, \A x \in S : f[x] = g[x]
  PROVE  Restrict(f, S) = Restrict(g, T)
  BY DEF Restrict

LEMMA PackCovers ==
  ASSUME NEW S \in SUBSET Files
  PROVE  Pack(S) \in Parts /\ UNION Range(Pack(S)) = S
  BY MapCacheAssumption DEF Parts

LEMMA PartsJoin ==
  ASSUME NEW s \in Parts, NEW t \in Parts
  PROVE  s \o t \in Parts /\ UNION Range(s \o t) = (UNION Range(s)) \cup (UNION Range(t))
<1>1. /\ s \o t \in Parts /\ Len(s \o t) = Len(s) + Len(t)
      /\ DOMAIN s = 1 .. Len(s) /\ DOMAIN t = 1 .. Len(t) /\ DOMAIN (s \o t) = 1 .. Len(s) + Len(t)
      /\ Len(s) \in Nat /\ Len(t) \in Nat
  BY DEF Parts
<1>2. \A i \in 1 .. Len(s) : i \in 1 .. Len(s) + Len(t) /\ (s \o t)[i] = s[i]
  BY <1>1 DEF Parts
<1>3. \A i \in 1 .. Len(t) : Len(s) + i \in 1 .. Len(s) + Len(t) /\ (s \o t)[Len(s) + i] = t[i]
  BY <1>1 DEF Parts
<1>4. \A i \in 1 .. Len(s) + Len(t) : i \in 1 .. Len(s) \/ \E j \in 1 .. Len(t) : i = Len(s) + j
  <2> SUFFICES ASSUME NEW i \in 1 .. Len(s) + Len(t), i \notin 1 .. Len(s)
               PROVE  \E j \in 1 .. Len(t) : i = Len(s) + j
    OBVIOUS
  <2>1. i - Len(s) \in 1 .. Len(t) /\ i = Len(s) + (i - Len(s))
    BY <1>1
  <2> QED
    BY <2>1
<1> DEFINE joined == s \o t
<1>5. \A i \in 1 .. Len(s) + Len(t) : joined[i] \in Range(s) \cup Range(t)
  BY <1>1, <1>2, <1>3, <1>4 DEF Range
<1>6. \A i \in 1 .. Len(s) : s[i] \in Range(joined)
  BY <1>1, <1>2 DEF Range
<1>7. \A i \in 1 .. Len(t) : t[i] \in Range(joined)
  BY <1>1, <1>3 DEF Range
<1>8. DOMAIN joined = 1 .. Len(s) + Len(t)
  BY <1>1
<1> HIDE DEF joined
<1>9. Range(joined) = Range(s) \cup Range(t)
  BY <1>1, <1>5, <1>6, <1>7, <1>8 DEF Range
<1> QED
  BY <1>1, <1>9 DEF joined

LEMMA PrunedParts ==
  ASSUME NEW parts \in Parts, NEW old, NEW new
  PROVE  /\ Pruned(parts, old, new) \in Parts
         /\ UNION Range(Pruned(parts, old, new)) = (UNION Range(parts)) \ Deleted(old, new)
<1> DEFINE D == Deleted(old, new)
           pruned == [i \in DOMAIN parts |-> parts[i] \ D]
<1>1. DOMAIN parts = 1 .. Len(parts) /\ Len(parts) \in Nat /\ \A i \in DOMAIN parts : parts[i] \in SUBSET Files
  BY DEF Parts
<1>2. \A i \in 1 .. Len(parts) : parts[i] \ D \in SUBSET Files
  BY <1>1
<1>3. pruned \in Parts
  BY <1>1, <1>2 DEF Parts
<1>4. UNION Range(pruned) = (UNION Range(parts)) \ D
  BY DEF Range
<1> QED
  BY <1>3, <1>4 DEF Pruned

\* Pruning what is gone and appending what is new covers the new files.
LEMMA ReplanCovers ==
  ASSUME NEW parts \in Parts, NEW old, NEW new, DOMAIN new \subseteq Files
  PROVE  /\ Pruned(parts, old, new) \o Deltas(parts, old, new) \in Parts
         /\ Covers(parts, old) => Covers(Pruned(parts, old, new) \o Deltas(parts, old, new), new)
         /\ Reaches(parts, old) => Reaches(Pruned(parts, old, new) \o Deltas(parts, old, new), new)
<1> DEFINE more == Added(old, new) \ UNION Range(Pruned(parts, old, new))
<1>1. more \in SUBSET Files
  BY DEF Added
<1>2. Deltas(parts, old, new) \in Parts /\ UNION Range(Deltas(parts, old, new)) = more
  BY <1>1, PackCovers DEF Deltas
<1>3. /\ Pruned(parts, old, new) \in Parts
      /\ UNION Range(Pruned(parts, old, new)) = (UNION Range(parts)) \ Deleted(old, new)
  BY PrunedParts
<1>4. /\ Pruned(parts, old, new) \o Deltas(parts, old, new) \in Parts
      /\ UNION Range(Pruned(parts, old, new) \o Deltas(parts, old, new))
           = ((UNION Range(parts)) \ Deleted(old, new)) \cup more
  BY <1>2, <1>3, PartsJoin
<1>5. ASSUME UNION Range(parts) = DOMAIN old
      PROVE  ((UNION Range(parts)) \ Deleted(old, new)) \cup more = DOMAIN new
  BY <1>3, <1>5 DEF Added, Deleted
<1>6. ASSUME DOMAIN old \subseteq UNION Range(parts)
      PROVE  DOMAIN new \subseteq ((UNION Range(parts)) \ Deleted(old, new)) \cup more
  BY <1>3, <1>6 DEF Added, Deleted
<1> QED
  BY <1>4, <1>5, <1>6 DEF Covers, Reaches

\* When no framing file was touched, what the survey read is what it would read.
LEMMA ReplanReads ==
  ASSUME NEW old, NEW new, NEW read, read = ReadOf(old), ~FramingHit(old, new, DOMAIN read)
  PROVE  read = ReadOf(new)
<1>1. DOMAIN read = Framing \cap DOMAIN old
  BY DEF ReadOf, Restrict
<1>2. Framing \cap DOMAIN old = Framing \cap DOMAIN new
  BY <1>1 DEF FramingHit, Touched, Added, Deleted
<1>3. \A f \in Framing \cap DOMAIN old : old[f] = new[f]
  BY <1>1, <1>2 DEF FramingHit, Touched, Modified
<1> QED
  BY <1>2, <1>3, SameRestrict DEF ReadOf

LEMMA ReplanDescribes ==
  ASSUME NEW old, NEW new, NEW read, Describes(read, old), ~FramingHit(old, new, DOMAIN read)
  PROVE  Describes(read, new)
<1> SUFFICES ASSUME NEW f \in Framing \cap DOMAIN new
             PROVE  f \in DOMAIN read /\ read[f] = new[f]
  BY DEF Describes
<1>1. f \in DOMAIN old
  BY DEF FramingHit, Added
<1>2. f \in DOMAIN read /\ read[f] = old[f]
  BY <1>1 DEF Describes
<1>3. old[f] = new[f]
  BY <1>1, <1>2 DEF FramingHit, Touched, Modified
<1> QED
  BY <1>2, <1>3

-----------------------------------------------------------------------------
(***************************************************************************)
(* The steps of a run.                                                     *)
(***************************************************************************)

Drawn(p, r, f, d, a) == [parts |-> p, read |-> r, files |-> f, delta |-> d, again |-> a]

\* A run that is over leaves no draft, whatever it had one of.
LEMMA OverKeeps ==
  ASSUME MapInv, Over, UNCHANGED <<repo, map, notes>>,
         mixed \subseteq mixed', Saving => "torn" \in mixed', ~moved'
  PROVE  MapInv'
<1> USE DEF repo, map
<1>1. pc' = "idle" /\ draft' = NoDraft /\ reused' = {}
  BY DEF Over
<1>2. draft'.parts = <<>> /\ draft'.files = Nothing
  BY <1>1 DEF NoDraft
<1>3. <<>> \in Parts
  BY DEF Parts
<1>4. Shapes'
  BY <1>1, <1>2, <1>3 DEF MapInv, Shapes, NoDraft
<1>5. Surveyed' /\ Drafted' /\ Saved' /\ Replans'
  BY <1>1 DEF Surveyed, Drafted, Whole, Gapped, Saved, Replans, InSave
<1>6. OnDisk'
  BY <1>1 DEF MapInv, OnDisk, Whole, Gapped
<1>7. Reuses'
  BY <1>1 DEF MapInv, Reuses
<1> QED
  BY <1>4, <1>5, <1>6, <1>7 DEF MapInv

LEMMA Overs ==
  ASSUME MapInv, Finish \/ Stop
  PROVE  MapInv'
<1>1. CASE Finish
  <2>1. ~moved /\ ~Saving
    BY <1>1 DEF Finish, MapInv, Surveyed, InSave, Saving
  <2> QED
    BY <1>1, <2>1, OverKeeps DEF Finish
<1>2. CASE Stop
  BY <1>2, OverKeeps DEF Stop
<1> QED
  BY <1>1, <1>2

LEMMA StartKeeps ==
  ASSUME MapInv, NEW rebuild \in BOOLEAN, Start(rebuild)
  PROVE  MapInv'
<1> USE DEF repo, map
<1>1. /\ pc = "idle" /\ UNCHANGED <<tree, head, commits, survey, plan, crumb, notes, reused, moved, mixed>>
      /\ ~moved
  BY DEF Start, MapInv, Surveyed, InSave
<1>2. \/ pc' \in {"idle", "survey"} /\ draft' = NoDraft
      \/ pc' = "replan" /\ draft' = NoDraft /\ crumb # Gone /\ crumb.files # Nothing
      \/ pc' = "notes" /\ plan # Gone
         /\ draft' = Drawn(plan.parts, survey.read, Nothing, 0, TRUE)
  BY DEF Start, MapStatus, NoDraft, Drawn
<1>3. /\ draft' = [parts |-> draft'.parts, read |-> draft'.read, files |-> draft'.files,
                   delta |-> draft'.delta, again |-> draft'.again]
      /\ draft'.files = Nothing
      /\ draft'.parts = <<>> \/ (plan # Gone /\ draft'.parts = plan.parts)
  <2>1. CASE draft' = NoDraft
    BY <2>1 DEF NoDraft
  <2>2. CASE plan # Gone /\ draft' = Drawn(plan.parts, survey.read, Nothing, 0, TRUE)
    BY <2>2 DEF Drawn
  <2> QED
    BY <1>2, <2>1, <2>2
<1>4. <<>> \in Parts
  BY DEF Parts
<1>5. Shapes'
  BY <1>1, <1>3, <1>4 DEF MapInv, Shapes
<1>6. Surveyed' /\ Drafted' /\ Saved' /\ Replans'
  BY <1>1, <1>2, <1>3 DEF Surveyed, Drafted, Whole, Gapped, Saved, Replans, InSave
<1>7. OnDisk'
  BY <1>1 DEF MapInv, OnDisk, Whole, Gapped, Saving
<1>8. Reuses'
  BY <1>1, <1>2 DEF MapInv, Reuses
<1> QED
  BY <1>5, <1>6, <1>7, <1>8 DEF MapInv

\* The map at rest covers the old hashes; the draft covers the new ones.
LEMMA ReplanKeeps ==
  ASSUME MapInv, Replan
  PROVE  MapInv'
<1> USE DEF repo, map
<1>1. /\ pc = "replan" /\ crumb # Gone /\ crumb.files # Nothing /\ ~moved
      /\ UNCHANGED <<tree, head, commits, survey, plan, crumb, notes, reused, moved>>
  /\ mixed \subseteq mixed'
  BY DEF Replan, MapInv, Replans, Surveyed, InSave
<1>2. OnDisk' /\ Replans' /\ Reuses' /\ Saved'
  <2>1. pc' \in {"survey", "save head"}
    BY DEF Replan
  <2> QED
    BY <1>1, <2>1 DEF MapInv, OnDisk, Whole, Gapped, Replans, Reuses, Saving, Saved
<1>3. CASE pc' = "survey" /\ draft' = draft
  BY <1>1, <1>2, <1>3 DEF MapInv, Shapes, Surveyed, Drafted, Whole, Gapped, InSave
<1>4. CASE ~(pc' = "survey" /\ draft' = draft)
  <2> DEFINE old == crumb.files
  <2>1. PICK now \in Hashes :
          /\ survey # Gone /\ plan # Gone /\ pc' = "save head"
          /\ mixed' = mixed \union Missing(now)
          /\ ~FramingHit(old, now, DOMAIN survey.read)
          /\ \E delta : draft' = Drawn(Pruned(plan.parts, old, now) \o Deltas(plan.parts, old, now),
                                       survey.read, now, delta, TRUE)
    BY <1>4 DEF Replan, Drawn
  <2>2. plan.parts \in Parts /\ tree \in Trees
    BY <2>1 DEF MapInv, Shapes
  <2>3. DOMAIN now \subseteq Files /\ (now # Nothing => now \in Trees)
    BY <2>2, HashesOfTheTree
  <2>4. /\ draft'.parts = Pruned(plan.parts, old, now) \o Deltas(plan.parts, old, now)
        /\ draft'.read = survey.read /\ draft'.files = now /\ draft'.again = TRUE
        /\ draft' = [parts |-> draft'.parts, read |-> draft'.read, files |-> draft'.files,
                     delta |-> draft'.delta, again |-> draft'.again]
    <3>1. PICK delta : draft' = Drawn(Pruned(plan.parts, old, now) \o Deltas(plan.parts, old, now),
                                      survey.read, now, delta, TRUE)
      BY <2>1
    <3> DEFINE fit == Pruned(plan.parts, old, now) \o Deltas(plan.parts, old, now)
    <3>2. draft' = Drawn(fit, survey.read, now, delta, TRUE)
      BY <3>1
    <3> HIDE DEF fit, old
    <3>3. /\ draft'.parts = fit /\ draft'.read = survey.read /\ draft'.files = now
          /\ draft'.again = TRUE
      BY <3>2 DEF Drawn
    <3>4. draft' = [parts |-> draft'.parts, read |-> draft'.read, files |-> draft'.files,
                    delta |-> draft'.delta, again |-> draft'.again]
      BY <3>2 DEF Drawn
    <3> QED
      BY <3>3, <3>4 DEF fit
  <2>5. /\ draft'.parts \in Parts
        /\ Covers(plan.parts, old) => Covers(draft'.parts, now)
        /\ Reaches(plan.parts, old) => Reaches(draft'.parts, now)
    BY <2>2, <2>3, <2>4, ReplanCovers
  <2>6. /\ survey.read = ReadOf(old) => draft'.read = ReadOf(now)
        /\ Describes(survey.read, old) => Describes(draft'.read, now)
    BY <2>1, <2>4, ReplanReads, ReplanDescribes
  <2>7. /\ Whole => survey.read = ReadOf(old) /\ Covers(plan.parts, old)
        /\ Gapped => Describes(survey.read, old) /\ Reaches(plan.parts, old)
    BY <1>1, <2>1 DEF MapInv, OnDisk, Whole, Gapped, Saving
  <2>8. Shapes'
    BY <1>1, <2>3, <2>4, <2>5 DEF MapInv, Shapes
  <2>9. Surveyed' /\ Drafted'
    <3>1. Surveyed'
      BY <1>1, <2>1, <2>4 DEF Surveyed, InSave
    <3>2. (Whole' => Whole) /\ (Gapped' => Gapped)
      BY <1>1 DEF Whole, Gapped
    <3>3. /\ Whole' => Covers(draft'.parts, draft'.files) /\ draft'.read = ReadOf(draft'.files)
          /\ Gapped' => Reaches(draft'.parts, draft'.files) /\ Describes(draft'.read, draft'.files)
      BY <2>4, <2>5, <2>6, <2>7, <3>2
    <3>4. Drafted'
      BY <3>3 DEF Drafted, Whole, Gapped, Covers, Reaches, Describes, ReadOf
    <3> QED
      BY <3>1, <3>4
  <2> QED
    BY <1>2, <2>8, <2>9 DEF MapInv
<1> QED
  BY <1>3, <1>4

\* The survey pass reads the tree now, and its chunks are of the tree then.
LEMMA SurveyKeeps ==
  ASSUME MapInv, SurveyBegins \/ SurveyEnds
  PROVE  MapInv'
<1> USE DEF repo, map
<1>1. tree \in Trees /\ DOMAIN tree \subseteq Files
  BY TreeIsPartial DEF MapInv, Shapes
<1>2. CASE SurveyBegins
  <2>1. /\ pc' = "surveying" /\ draft' = Drawn(<<>>, ReadOf(tree), Nothing, 0, FALSE) /\ moved' = FALSE
        /\ UNCHANGED <<tree, head, commits, survey, plan, crumb, notes, reused, mixed>>
        /\ ~Saving /\ pc = "survey"
    BY <1>2 DEF SurveyBegins, NoDraft, Drawn, ReadOf, Saving
  <2>2. /\ draft'.parts = <<>> /\ draft'.files = Nothing /\ draft'.again = FALSE
        /\ draft'.read = ReadOf(tree)
        /\ draft' = [parts |-> draft'.parts, read |-> draft'.read, files |-> draft'.files,
                     delta |-> draft'.delta, again |-> draft'.again]
    BY <2>1 DEF Drawn
  <2>3. <<>> \in Parts
    BY DEF Parts
  <2>4. Shapes'
    BY <2>1, <2>2, <2>3 DEF MapInv, Shapes
  <2>5. Surveyed' /\ Drafted' /\ Saved' /\ Replans'
    BY <2>1, <2>2 DEF Surveyed, Drafted, Whole, Gapped, Saved, Replans, InSave
  <2>6. OnDisk' /\ Reuses'
    BY <2>1 DEF MapInv, OnDisk, Whole, Gapped, Reuses, Saving
  <2> QED
    BY <2>4, <2>5, <2>6 DEF MapInv
<1>3. CASE SurveyEnds
  <2>1. /\ pc = "surveying" /\ pc' = "save head"
        /\ draft' = [draft EXCEPT !.parts = Pack(DOMAIN tree)]
        /\ UNCHANGED <<tree, head, commits, survey, plan, crumb, notes, reused, moved, mixed>>
    BY <1>3 DEF SurveyEnds
  <2>2. Pack(DOMAIN tree) \in Parts /\ Covers(Pack(DOMAIN tree), tree)
    BY <1>1, PackCovers DEF Covers
  <2>3. /\ draft'.parts = Pack(DOMAIN tree) /\ draft'.files = draft.files
        /\ draft'.again = draft.again /\ draft'.read = draft.read
        /\ draft' = [parts |-> draft'.parts, read |-> draft'.read, files |-> draft'.files,
                     delta |-> draft'.delta, again |-> draft'.again]
    BY <2>1 DEF MapInv, Shapes
  <2>4. Shapes'
    BY <2>1, <2>2, <2>3 DEF MapInv, Shapes
  <2>5. ~draft'.again /\ (~moved => draft'.read = ReadOf(tree))
    BY <2>1, <2>3 DEF MapInv, Surveyed
  <2>6. Surveyed' /\ Drafted' /\ Saved' /\ Replans'
    BY <2>1, <2>2, <2>3, <2>5 DEF Surveyed, Drafted, Whole, Gapped, Saved, Replans, InSave
  <2>7. OnDisk' /\ Reuses'
    BY <2>1 DEF MapInv, OnDisk, Whole, Gapped, Reuses, Saving
  <2> QED
    BY <2>4, <2>6, <2>7 DEF MapInv
<1> QED
  BY <1>2, <1>3

\* save_map, up to the breadcrumb: what it writes is the draft.
LEMMA SavingKeeps ==
  ASSUME MapInv, SaveHead \/ SaveSurvey \/ SavePlan
  PROVE  MapInv'
<1> USE DEF repo, map
<1>1. /\ pc \in {"save head", "save survey", "save plan"}
      /\ pc' \in {"save survey", "save plan", "save crumb"}
      /\ UNCHANGED <<tree, head, commits, crumb, notes, draft, reused, shas, moved, mixed>>
  BY DEF SaveHead, SaveSurvey, SavePlan
<1>2. \/ pc' = "save survey" /\ plan' = plan
      \/ pc' = "save plan" /\ plan' = plan /\ survey'.read = draft.read
      \/ pc' = "save crumb" /\ pc = "save plan" /\ survey' = survey /\ plan'.parts = draft.parts
  <2>1. CASE SaveHead
    BY <2>1 DEF SaveHead
  <2>2. CASE SaveSurvey
    <3>1. survey' = [read |-> draft.read]
      BY <2>2 DEF SaveSurvey
    <3>2. survey'.read = draft.read
      BY <3>1
    <3> QED
      BY <2>2, <3>2 DEF SaveSurvey
  <2>3. CASE SavePlan
    <3>1. plan' = [parts |-> draft.parts]
      BY <2>3 DEF SavePlan
    <3>2. plan'.parts = draft.parts
      BY <3>1
    <3> QED
      BY <2>3, <3>2 DEF SavePlan
  <2> QED
    BY <2>1, <2>2, <2>3
<1>3. Shapes'
  BY <1>1, <1>2 DEF MapInv, Shapes
<1>4. Surveyed' /\ Drafted' /\ Replans' /\ Reuses' /\ OnDisk'
  BY <1>1 DEF MapInv, Surveyed, Drafted, Whole, Gapped, Replans, Reuses, OnDisk, InSave, Saving
<1>5. Saved'
  BY <1>1, <1>2 DEF MapInv, Saved
<1> QED
  BY <1>3, <1>4, <1>5 DEF MapInv

\* The breadcrumb: after a survey, with the hashes of this moment.
LEMMA CrumbKeeps ==
  ASSUME MapInv, SaveCrumb
  PROVE  MapInv'
<1> USE DEF repo, map
<1>1. PICK now \in Hashes :
        LET files == IF draft.again THEN draft.files ELSE now
        IN  /\ pc' = "notes"
            /\ crumb' = [head |-> pinned, files |-> files, delta |-> draft.delta]
            /\ draft' = [draft EXCEPT !.files = files]
            /\ mixed' = IF draft.again THEN mixed ELSE IF moved THEN {"drift"} ELSE Missing(now)
  BY DEF SaveCrumb
<1> DEFINE files == IF draft.again THEN draft.files ELSE now
<1>2. /\ pc = "save crumb" /\ moved' = FALSE
      /\ UNCHANGED <<tree, head, commits, survey, plan, notes, reused>>
  BY DEF SaveCrumb
<1>3. /\ draft'.parts = draft.parts /\ draft'.files = files /\ draft'.read = draft.read
      /\ draft' = [parts |-> draft'.parts, read |-> draft'.read, files |-> draft'.files,
                   delta |-> draft'.delta, again |-> draft'.again]
      /\ crumb'.files = files
  BY <1>1 DEF MapInv, Shapes
<1>4. files # Nothing => files \in Trees
  BY HashesOfTheTree DEF MapInv, Shapes
<1>5. Shapes'
  BY <1>2, <1>3, <1>4 DEF MapInv, Shapes
<1>6. files # Nothing =>
        /\ Whole' => Covers(draft.parts, files) /\ draft.read = ReadOf(files)
        /\ Gapped' => Reaches(draft.parts, files) /\ Describes(draft.read, files)
  <2>1. CASE draft.again
    BY <1>1, <1>2, <2>1 DEF MapInv, Drafted, InSave, Whole, Gapped
  <2>2. CASE ~draft.again
    <3> SUFFICES ASSUME now # Nothing, Gapped'
                 PROVE  /\ Whole' => Covers(draft.parts, now) /\ draft.read = ReadOf(now)
                        /\ Reaches(draft.parts, now) /\ Describes(draft.read, now)
      BY <2>2 DEF Whole, Gapped
    <3>1. ~moved /\ mixed' = Missing(now)
      BY <1>1, <2>2 DEF Gapped
    <3>2. Covers(draft.parts, tree) /\ draft.read = ReadOf(tree) /\ tree \in Trees
      BY <1>2, <2>2, <3>1 DEF MapInv, Surveyed, InSave, Shapes
    <3>3. Whole' => now = tree
      BY <3>1, <3>2, HashesOfTheTree DEF Whole
    <3>4. DOMAIN now \subseteq DOMAIN tree /\ \A f \in DOMAIN now : now[f] = tree[f]
      BY <3>2, HashesOfTheTree
    <3>5. Reaches(draft.parts, now)
      BY <3>2, <3>4 DEF Covers, Reaches
    <3>6. Describes(draft.read, now)
      BY <3>2, <3>4 DEF Describes, ReadOf, Restrict
    <3> QED
      BY <3>2, <3>3, <3>5, <3>6
  <2> QED
    BY <2>1, <2>2
<1> HIDE DEF files
<1>7. Drafted'
  BY <1>3, <1>6 DEF Drafted, Whole, Gapped
<1>8. OnDisk'
  <2>1. /\ survey = Gone \/ survey.read = draft.read
        /\ plan = Gone \/ plan.parts = draft.parts
    BY <1>2 DEF MapInv, Saved
  <2> QED
    BY <1>2, <1>3, <1>6, <2>1 DEF OnDisk, Whole, Gapped
<1>9. Surveyed' /\ Saved' /\ Replans' /\ Reuses'
  <2>1. pc' = "notes"
    BY <1>1
  <2> QED
    BY <1>2, <2>1 DEF MapInv, Surveyed, Saved, Replans, Reuses, InSave
<1> QED
  BY <1>5, <1>7, <1>8, <1>9 DEF MapInv

\* The chunks: the notes folded in are valid when they are chosen, and only
\* the others are written.
LEMMA ChunksKeep ==
  ASSUME MapInv, ReuseNotes \/ HashTree \/ SkipChunk \/ \E whole \in BOOLEAN : AnalyzeChunk(whole)
  PROVE  MapInv'
<1> USE DEF repo, map
<1>1. /\ pc \in {"notes", "chunks"} /\ pc' \in {"notes", "chunks"}
      /\ UNCHANGED <<tree, head, commits, survey, plan, crumb, draft, moved, mixed>>
  BY DEF ReuseNotes, HashTree, SkipChunk, AnalyzeChunk, AtChunk
<1>2. Shapes' /\ Surveyed' /\ Drafted' /\ Saved' /\ OnDisk' /\ Replans'
  <2>1. Shapes'
    BY <1>1 DEF MapInv, Shapes
  <2>2. Surveyed' /\ Replans'
    BY <1>1 DEF MapInv, Surveyed, Replans, InSave, Saving
  <2>3. Drafted'
    BY <1>1 DEF MapInv, Drafted, Whole, Gapped, InSave, Saving
  <2>4. Saved'
    BY <1>1 DEF MapInv, Saved
  <2>5. OnDisk'
    BY <1>1 DEF MapInv, OnDisk, Whole, Gapped, Saving
  <2> QED
    BY <2>1, <2>2, <2>3, <2>4, <2>5
<1>3. Reuses'
  <2>1. CASE ReuseNotes
    <3>1. /\ pc' = "chunks" /\ UNCHANGED <<notes, shas>>
          /\ \/ reused' = {}
             \/ reused' = {i \in DOMAIN draft.parts \cap DOMAIN notes :
                             draft.parts[i] # {} /\ Valid(notes[i], draft.parts[i])}
      BY <2>1 DEF ReuseNotes
    <3>2. \A i \in reused' : i \in DOMAIN notes /\ Valid(notes[i], draft.parts[i])
      BY <3>1
    <3>3. \A i : Valid(notes[i], draft.parts[i]) => Valid(notes[i], draft.parts[i])'
      BY <1>1, <3>1 DEF Valid
    <3> QED
      BY <1>1, <3>1, <3>2, <3>3 DEF MapInv, Reuses
  <2>2. CASE HashTree
    <3>1. reused = {} /\ UNCHANGED <<reused, notes>>
      BY <2>2 DEF HashTree, MapInv, Reuses
    <3> QED
      BY <3>1 DEF MapInv, Reuses
  <2>3. CASE SkipChunk
    BY <1>1, <2>3 DEF MapInv, Reuses, SkipChunk, AtChunk, Valid
  <2>4. ASSUME NEW whole \in BOOLEAN, AnalyzeChunk(whole)
        PROVE  Reuses'
    <3>1. /\ pc = "chunks" /\ pc' = "chunks" /\ next \notin reused /\ UNCHANGED <<reused, shas>>
          /\ \/ notes' = notes
             \/ whole /\ notes' = [i \in DOMAIN notes \union {next} |->
                                     IF i = next THEN Note(TRUE) ELSE notes[i]]
      BY <2>4 DEF AnalyzeChunk, AtChunk
    <3>2. CASE notes' = notes
      <4>1. \A i : Valid(notes[i], draft.parts[i]) => Valid(notes[i], draft.parts[i])'
        BY <1>1, <3>1, <3>2 DEF Valid
      <4> QED
        BY <3>1, <3>2, <4>1 DEF MapInv, Reuses
    <3>3. CASE notes' = [i \in DOMAIN notes \union {next} |-> IF i = next THEN Note(TRUE) ELSE notes[i]]
      <4>1. Note(TRUE).whole = TRUE
        BY DEF Note
      <4>2. \A i \in DOMAIN notes' : notes'[i].whole
        BY <3>3, <4>1 DEF MapInv, Reuses
      <4>3. \A i \in reused : i \in DOMAIN notes' /\ notes'[i] = notes[i]
        BY <3>1, <3>3 DEF MapInv, Reuses
      <4>4. \A i \in reused : Valid(notes[i], draft.parts[i])
        BY <3>1 DEF MapInv, Reuses
      <4> QED
        <5>1. \A i \in reused : Valid(notes[i], draft.parts[i])'
          BY <1>1, <3>1, <4>3, <4>4 DEF Valid
        <5> QED
          BY <3>1, <4>2, <4>3, <5>1 DEF Reuses
    <3> QED
      BY <3>1, <3>2, <3>3
  <2> QED
    BY <2>1, <2>2, <2>3, <2>4
<1> QED
  BY <1>2, <1>3 DEF MapInv

\* The operator: whoever moves the tree while a map is made leaves a mark.
LEMMA OperatorKeeps ==
  ASSUME MapInv, Damage \/ Commit \/ (\E f \in Files : EditFile(f)) \/ \E h \in DOMAIN commits : Checkout(h)
  PROVE  MapInv'
<1> USE DEF repo, map, run
<1>1. tree \in Trees /\ commits \in Seq(Trees) /\ head \in 1 .. Len(commits)
  BY DEF MapInv, Shapes
<1>2. CASE Damage
  <2>1. /\ UNCHANGED <<tree, head, commits, crumb, notes, run, moved, mixed>>
        /\ survey' = survey \/ survey' = Gone
        /\ plan' = plan \/ plan' = Gone
    BY <1>2 DEF Damage
  <2>2. Shapes' /\ Surveyed' /\ Replans'
    BY <2>1 DEF MapInv, Shapes, Surveyed, Replans, InSave
  <2>3. Drafted'
    BY <2>1 DEF MapInv, Drafted, Whole, Gapped, InSave
  <2>4. Saved'
    BY <2>1 DEF MapInv, Saved
  <2>5. OnDisk'
    BY <2>1 DEF MapInv, OnDisk, Whole, Gapped, Saving
  <2>6. Reuses'
    BY <2>1 DEF MapInv, Reuses, Valid
  <2> QED
    BY <2>2, <2>3, <2>4, <2>5, <2>6 DEF MapInv
<1>3. CASE Commit
  <2>1. /\ UNCHANGED <<tree, map, notes, run, moved, mixed>>
        /\ commits' = Append(commits, tree) /\ head' = Len(commits) + 1
    BY <1>3 DEF Commit
  <2>2. commits' \in Seq(Trees) /\ head' \in 1 .. Len(commits')
    BY <1>1, <2>1
  <2>3. Shapes'
    BY <2>1, <2>2 DEF MapInv, Shapes
  <2>4. Surveyed' /\ Replans'
    BY <2>1 DEF MapInv, Surveyed, Replans, InSave, Saving
  <2>5. Drafted'
    BY <2>1 DEF MapInv, Drafted, Whole, Gapped, InSave, Saving
  <2>6. Saved'
    BY <2>1 DEF MapInv, Saved
  <2>7. OnDisk'
    BY <2>1 DEF MapInv, OnDisk, Whole, Gapped, Saving
  <2>8. Reuses'
    BY <2>1 DEF MapInv, Reuses, Valid
  <2> QED
    BY <2>3, <2>4, <2>5, <2>6, <2>7, <2>8 DEF MapInv
<1>4. ASSUME tree' \in Trees, head' \in 1 .. Len(commits), moved' = Moves,
             UNCHANGED <<commits, map, notes, run, mixed>>
      PROVE  MapInv'
  <2>1. Shapes'
    BY <1>1, <1>4 DEF MapInv, Shapes
  <2>2. Surveyed'
    <3>1. moved => pc = "surveying" \/ InSave
      BY DEF MapInv, Surveyed
    <3>2. moved' <=> pc = "surveying" \/ InSave
      BY <1>4, <3>1 DEF Moves, InSave, Saving
    <3>3. pc = "surveying" => ~draft.again
      BY DEF MapInv, Surveyed
    <3> QED
      BY <1>4, <3>2, <3>3 DEF Surveyed, InSave
  <2>3. Replans'
    BY <1>4 DEF MapInv, Replans, InSave, Saving
  <2>4. Drafted'
    BY <1>4 DEF MapInv, Drafted, Whole, Gapped, InSave, Saving
  <2>5. Saved'
    BY <1>4 DEF MapInv, Saved
  <2>6. OnDisk'
    BY <1>4 DEF MapInv, OnDisk, Whole, Gapped, Saving
  <2>7. Reuses'
    BY <1>4 DEF MapInv, Reuses, Valid
  <2> QED
    BY <2>1, <2>2, <2>3, <2>4, <2>5, <2>6, <2>7 DEF MapInv
<1>5. ASSUME NEW t \in Trees, Edit(t)
      PROVE  MapInv'
  <2>1. tree' = t /\ moved' = Moves /\ UNCHANGED <<head, commits, map, notes, run, mixed>>
    BY <1>5 DEF Edit
  <2> QED
    BY <1>1, <1>4, <1>5, <2>1
<1>6. ASSUME NEW f \in Files, EditFile(f)
      PROVE  MapInv'
  <2> DEFINE written(v) == [g \in DOMAIN tree \union {f} |-> IF g = f THEN v ELSE tree[g]]
             without == Restrict(tree, DOMAIN tree \ {f})
  <2>1. \/ \E v \in Versions : Edit(written(v))
        \/ Edit(without)
    BY <1>6 DEF EditFile
  <2>2. without \in Trees
    BY <1>1, TreeIsPartial
  <2>3. ASSUME NEW v \in Versions
        PROVE  written(v) \in Trees
    <3>1. DOMAIN tree \subseteq Files /\ tree \in [DOMAIN tree -> Versions]
      BY <1>1, TreeIsPartial
    <3>2. written(v) \in [DOMAIN tree \union {f} -> Versions] /\ DOMAIN tree \union {f} \in SUBSET Files
      BY <3>1
    <3> QED
      BY <3>2 DEF Trees
  <2> HIDE DEF written, without
  <2> QED
    BY <1>5, <2>1, <2>2, <2>3
<1>7. ASSUME NEW h \in DOMAIN commits, Checkout(h)
      PROVE  MapInv'
  <2>1. tree' = commits[h] /\ head' = h /\ moved' = Moves /\ UNCHANGED <<commits, map, notes, run, mixed>>
    BY <1>7 DEF Checkout
  <2>2. h \in 1 .. Len(commits) /\ commits[h] \in Trees
    BY <1>1
  <2> QED
    BY <1>4, <2>1, <2>2
<1> QED
  BY <1>2, <1>3, <1>6, <1>7

-----------------------------------------------------------------------------
(***************************************************************************)
(* The invariant, and what follows from it.                                *)
(***************************************************************************)

LEMMA InitInv == Init => MapInv
<1> SUFFICES ASSUME Init PROVE MapInv
  OBVIOUS
<1>1. tree \in Trees
  BY MapCacheAssumption DEF Init, Trees
<1>2. commits \in Seq(Trees) /\ head \in 1 .. Len(commits)
  <2>1. commits = <<tree>> /\ head = 1
    BY DEF Init
  <2>2. <<tree>> \in Seq(Trees) /\ Len(<<tree>>) = 1
    BY <1>1
  <2> QED
    BY <2>1, <2>2
<1>3. <<>> \in Parts
  BY DEF Parts
<1>4. draft.parts = <<>> /\ draft.files = Nothing
      /\ draft = [parts |-> draft.parts, read |-> draft.read, files |-> draft.files,
                  delta |-> draft.delta, again |-> draft.again]
  BY DEF Init, NoDraft
<1>5. Shapes
  BY <1>1, <1>2, <1>3, <1>4 DEF Init, Shapes
<1>6. Surveyed /\ Drafted /\ Saved /\ OnDisk /\ Replans
  BY DEF Init, Surveyed, Drafted, Whole, Gapped, Saved, OnDisk, Replans, InSave, Saving
<1>7. Reuses
  <2>1. pc = "idle" /\ reused = {} /\ notes = <<>>
    BY DEF Init, Nothing
  <2> QED
    BY <2>1 DEF Reuses
<1> QED
  BY <1>5, <1>6, <1>7 DEF MapInv

LEMMA StepInv == MapInv /\ [Next]_vars => MapInv'
<1> SUFFICES ASSUME MapInv, [Next]_vars PROVE MapInv'
  OBVIOUS
<1>1. CASE Deep
  BY <1>1, Overs, StartKeeps, ReplanKeeps, SurveyKeeps, SavingKeeps, CrumbKeeps, ChunksKeep DEF Deep
<1>2. CASE Damage \/ Commit \/ (\E f \in Files : EditFile(f)) \/ \E h \in DOMAIN commits : Checkout(h)
  BY <1>2, OperatorKeeps
<1>3. CASE UNCHANGED vars
  <2>1. UNCHANGED <<tree, head, commits, survey, plan, crumb, notes, pc, shas, draft, reused, moved, mixed>>
    BY <1>3 DEF vars, repo, map, run
  <2>2. Shapes'
    BY <2>1 DEF MapInv, Shapes
  <2>3. Surveyed' /\ Replans'
    BY <2>1 DEF MapInv, Surveyed, Replans, InSave, Saving
  <2>4. Drafted'
    BY <2>1 DEF MapInv, Drafted, Whole, Gapped, InSave, Saving
  <2>5. Saved'
    BY <2>1 DEF MapInv, Saved
  <2>6. OnDisk'
    BY <2>1 DEF MapInv, OnDisk, Whole, Gapped, Saving
  <2>7. Reuses'
    BY <2>1 DEF MapInv, Reuses, Valid
  <2> QED
    BY <2>2, <2>3, <2>4, <2>5, <2>6, <2>7 DEF MapInv
<1> QED
  BY <1>1, <1>2, <1>3 DEF Next

LEMMA Invariance == Spec => []MapInv
  BY InitInv, StepInv, PTL DEF Spec

\* No file is left out of an audit without a word: whatever was edited,
\* committed, checked out or deleted between two runs, and however build_chunks
\* packs, the chunks of _incremental_replan and of a survey cover the files that
\* have a hash, and no others when none went without, unless the tree moved
\* under the survey or a run died in save_map.
THEOREM EveryFilePlanned == Spec => []EveryFileIsPlanned
<1>1. MapInv => EveryFileIsPlanned
  BY DEF MapInv, Drafted, Whole, Gapped, EveryFileIsPlanned, Planned, Covers, Reaches
<1> QED
  BY <1>1, Invariance, PTL

\* The survey a replan keeps is of the framing files as the run hashed them, and a
\* note folded in is whole and of the contents the run hashed
\* (plan_incremental's framing trigger, _cacheable, chunk_note_is_valid).
THEOREM CacheStaysCurrent == Spec => []CacheIsCurrent
<1>1. ASSUME MapInv
      PROVE  CacheIsCurrent
  <2>1. Planned =>
          /\ mixed \subseteq {"unhashed"} => Describes(draft.read, draft.files)
          /\ mixed = {} => draft.read = Restrict(draft.files, Framing \cap DOMAIN draft.files)
    BY <1>1 DEF MapInv, Drafted, Whole, Gapped, Planned, ReadOf
  <2>2. ASSUME NEW i \in reused, pc = "chunks"
        PROVE  notes[i].whole /\ notes[i].shas = Of(draft.parts[i])
    <3>1. /\ notes[i].whole /\ draft.parts[i] \subseteq DOMAIN shas
          /\ notes[i].shas = Restrict(shas, draft.parts[i])
      BY <1>1, <2>2 DEF MapInv, Reuses, Valid
    <3>2. draft.parts[i] \cap DOMAIN shas = draft.parts[i]
      BY <3>1
    <3> QED
      BY <3>1, <3>2 DEF Of
  <2> QED
    BY <2>1, <2>2 DEF CacheIsCurrent
<1> QED
  BY <1>1, Invariance, PTL
=============================================================================
