-------------------------- MODULE Sessions_proofs --------------------------
(***************************************************************************)
(* Sessions for any number of sessions, turns and records: what /resume    *)
(* brings back, that the ledger follows /ephemeral, and that an ephemeral  *)
(* session leaves nothing behind.                                          *)
(*                                                                         *)
(* What a transcript says is defined by a recursion over its records. The  *)
(* lemmas about that recursion (one record more; a whole conversation      *)
(* copied in) rest on induction over Nat, which is stated here for a set   *)
(* of numbers and follows from the well-foundedness of < on Nat.           *)
(***************************************************************************)
EXTENDS Sessions, WellFoundedInduction, TLAPS

OnRecord == 0 .. MaxAsked            \* the texts of turns that were not ephemeral
Kinds == {"user", "assistant", "error", "clear"}
Records == {r \in [kind : Kinds, text : Nat] : r.kind = "user" => r.text \in OnRecord}
Turns == [user : OnRecord, answer : Nat]
Readings == [turns : Seq(Turns), pending : OnRecord]

\* What a transcript says, the question that still waits for its answer apart.
ReadingOf(records) == Reading(records)[Len(records)]

-----------------------------------------------------------------------------
(***************************************************************************)
(* Induction over Nat, and the recursion that reads a transcript.          *)
(***************************************************************************)

\* A set of numbers with 0 and the successor of each of its members is Nat.
LEMMA Induction ==
  ASSUME NEW T \in SUBSET Nat, 0 \in T, \A n \in T : n + 1 \in T
  PROVE  T = Nat
<1> DEFINE R == OpToRel(<, Nat)
<1>1. IsWellFoundedOn(R, Nat)
  BY NatLessThanWellFounded
<1>2. \A m, n \in Nat : <<m, n>> \in R <=> m < n
  BY DEF OpToRel
<1> HIDE DEF R
<1>3. ASSUME Nat \ T # {}
      PROVE  FALSE
  <2>1. PICK n \in Nat \ T : \A m \in Nat \ T : ~(<<m, n>> \in R)
    BY <1>1, <1>3, WFMin
  <2>2. n # 0 /\ n - 1 \in Nat
    BY <2>1
  <2>3. n - 1 \in T
    <3>1. n - 1 < n
      BY <2>2
    <3>2. <<n - 1, n>> \in R
      BY <1>2, <2>2, <3>1, Zenon
    <3> QED
      BY <2>1, <2>2, <3>2, Zenon
  <2>4. (n - 1) + 1 = n
    BY <2>2
  <2> QED
    BY <2>1, <2>3, <2>4
<1> QED
  BY <1>3

\* The recursion of Reading has a solution: it is what its definition says.
LEMMA ReadingIs ==
  ASSUME NEW S, NEW records \in Seq(S)
  PROVE  Reading(records) =
           [n \in 0 .. Len(records) |->
              IF n = 0 THEN Blank ELSE Reads(Reading(records)[n - 1], records[n])]
<1> DEFINE Solves(f, k) ==
             f = [n \in 0 .. k |-> IF n = 0 THEN Blank ELSE Reads(f[n - 1], records[n])]
           T == {k \in Nat : \E f : Solves(f, k)}
<1>1. 0 \in T
  <2> DEFINE f == [n \in {0} |-> Blank]
  <2>1. Solves(f, 0)
    OBVIOUS
  <2> QED
    BY <2>1
<1>2. ASSUME NEW k \in T
      PROVE  k + 1 \in T
  <2>1. k \in Nat
    OBVIOUS
  <2>2. PICK f : Solves(f, k)
    OBVIOUS
  <2> DEFINE g == [n \in 0 .. k + 1 |-> IF n = k + 1 THEN Reads(f[k], records[n]) ELSE f[n]]
  <2>3. f = [n \in 0 .. k |-> IF n = 0 THEN Blank ELSE Reads(f[n - 1], records[n])]
    BY <2>2
  <2>4. ASSUME NEW n \in 0 .. k + 1
        PROVE  g[n] = IF n = 0 THEN Blank ELSE Reads(g[n - 1], records[n])
    <3>1. CASE n = k + 1
      <4>1. g[n] = Reads(f[k], records[n]) /\ n # 0 /\ n - 1 = k /\ k \in 0 .. k + 1 /\ k # k + 1
        BY <2>1, <3>1
      <4>2. g[k] = f[k]
        BY <4>1
      <4> QED
        BY <4>1, <4>2
    <3>2. CASE n # k + 1
      <4>1. n \in 0 .. k /\ g[n] = f[n]
        BY <2>1, <3>2
      <4>2. n # 0 => n - 1 \in 0 .. k + 1 /\ n - 1 # k + 1
        BY <2>1, <3>2
      <4>3. n # 0 => g[n - 1] = f[n - 1]
        BY <4>2
      <4>4. f[n] = IF n = 0 THEN Blank ELSE Reads(f[n - 1], records[n])
        BY <2>3, <4>1
      <4> QED
        BY <4>1, <4>3, <4>4
    <3> QED
      BY <3>1, <3>2
  <2>5. Solves(g, k + 1)
    BY <2>4
  <2> HIDE DEF g
  <2> QED
    BY <2>1, <2>5
<1>3. T = Nat
  <2> HIDE DEF T
  <2>1. T \subseteq Nat
    BY DEF T
  <2> QED
    BY <1>1, <1>2, <2>1, Induction
<1>4. \E f : Solves(f, Len(records))
  <2>1. Len(records) \in Nat
    OBVIOUS
  <2> QED
    BY <1>3, <2>1
<1> DEFINE read[n \in 0 .. Len(records)] ==
             IF n = 0 THEN Blank ELSE Reads(read[n - 1], records[n])
<1>5. Reading(records) = read
  BY DEF Reading
<1>6. Solves(read, Len(records))
  BY <1>4, Zenon
<1> HIDE DEF read
<1> QED
  BY <1>5, <1>6

\* Nothing is read of an empty transcript.
LEMMA ReadingOfNone == ReadingOf(<<>>) = Blank
<1>1. <<>> \in Seq(Nat) /\ Len(<<>>) = 0
  OBVIOUS
<1>2. Reading(<<>>) = [n \in 0 .. 0 |-> IF n = 0 THEN Blank ELSE Reads(Reading(<<>>)[n - 1], <<>>[n])]
  BY <1>1, ReadingIs
<1>3. Reading(<<>>)[0] = Blank
  BY <1>2
<1> QED
  BY <1>1, <1>3 DEF ReadingOf

\* One record more is read on top of what was read before it.
LEMMA ReadingOfNext ==
  ASSUME NEW S, NEW records \in Seq(S), NEW r \in S
  PROVE  ReadingOf(records \o <<r>>) = Reads(ReadingOf(records), r)
<1> DEFINE more == records \o <<r>>
           a == Reading(records)
           b == Reading(more)
           T == {n \in Nat : n <= Len(records) => a[n] = b[n]}
<1>1. /\ Len(records) \in Nat /\ more \in Seq(S) /\ Len(more) = Len(records) + 1
      /\ more[Len(records) + 1] = r
      /\ \A n \in 1 .. Len(records) : more[n] = records[n]
  OBVIOUS
<1> HIDE DEF more
<1>2. a = [n \in 0 .. Len(records) |-> IF n = 0 THEN Blank ELSE Reads(a[n - 1], records[n])]
  BY ReadingIs
<1>3. b = [n \in 0 .. Len(records) + 1 |-> IF n = 0 THEN Blank ELSE Reads(b[n - 1], more[n])]
  BY <1>1, ReadingIs
<1> HIDE DEF a, b
<1>4. a[0] = Blank /\ b[0] = Blank
  BY <1>1, <1>2, <1>3
<1>5. ASSUME NEW n \in Nat, n # 0
      PROVE  /\ n <= Len(records) => a[n] = Reads(a[n - 1], records[n])
             /\ n <= Len(records) + 1 => b[n] = Reads(b[n - 1], more[n])
  <2>1. n <= Len(records) => n \in 0 .. Len(records)
    BY <1>1
  <2>2. n <= Len(records) + 1 => n \in 0 .. Len(records) + 1
    BY <1>1
  <2>3. n <= Len(records) => a[n] = Reads(a[n - 1], records[n])
    BY <1>2, <1>5, <2>1
  <2>4. n <= Len(records) + 1 => b[n] = Reads(b[n - 1], more[n])
    BY <1>3, <1>5, <2>2
  <2> QED
    BY <2>3, <2>4
<1>6. 0 \in T
  BY <1>4
<1>7. ASSUME NEW n \in T
      PROVE  n + 1 \in T
  <2>1. n \in Nat /\ n + 1 # 0 /\ (n + 1) - 1 = n
    OBVIOUS
  <2>2. CASE n + 1 <= Len(records)
    <3>1. n <= Len(records) /\ n + 1 \in 1 .. Len(records) /\ n + 1 <= Len(records) + 1
      BY <1>1, <2>1, <2>2
    <3>2. a[n] = b[n]
      BY <3>1
    <3>3. a[n + 1] = Reads(a[n], records[n + 1]) /\ b[n + 1] = Reads(b[n], more[n + 1])
      BY <1>5, <2>1, <2>2, <3>1
    <3> QED
      BY <1>1, <2>1, <3>1, <3>2, <3>3
  <2> QED
    BY <2>1, <2>2
<1>8. T = Nat
  <2> HIDE DEF T
  <2>1. T \subseteq Nat
    BY DEF T
  <2> QED
    BY <1>6, <1>7, <2>1, Induction
<1>9. a[Len(records)] = b[Len(records)]
  BY <1>1, <1>8
<1>10. b[Len(records) + 1] = Reads(b[Len(records)], r)
  <2>1. Len(records) + 1 \in Nat /\ Len(records) + 1 # 0 /\ (Len(records) + 1) - 1 = Len(records)
        /\ Len(records) + 1 <= Len(records) + 1
    BY <1>1
  <2> QED
    BY <1>1, <1>5, <2>1
<1> QED
  BY <1>1, <1>9, <1>10 DEF ReadingOf, a, b, more

-----------------------------------------------------------------------------
(***************************************************************************)
(* What one record does to what was read.                                  *)
(***************************************************************************)

LEMMA BlankIsReading == Blank \in Readings /\ Flushed(Blank) = <<>>
<1>1. Blank.turns = <<>> /\ Blank.pending = 0
  BY DEF Blank, NoText
<1>2. <<>> \in Seq(Turns) /\ 0 \in OnRecord
  BY SessionsAssumption DEF OnRecord
<1> QED
  BY <1>1, <1>2 DEF Blank, Readings, Flushed, NoText

LEMMA FlushedType ==
  ASSUME NEW acc \in Readings
  PROVE  Flushed(acc) \in Seq(Turns)
<1>1. acc.turns \in Seq(Turns) /\ acc.pending \in OnRecord
  BY DEF Readings
<1>2. Turn(acc.pending, NoText) \in Turns
  BY <1>1 DEF Turn, Turns, NoText
<1> QED
  BY <1>1, <1>2 DEF Flushed

LEMMA ReadsUser ==
  ASSUME NEW acc \in Readings, NEW text \in OnRecord
  PROVE  /\ Record("user", text) \in Records
         /\ Reads(acc, Record("user", text)) = [turns |-> Flushed(acc), pending |-> text]
         /\ Reads(acc, Record("user", text)) \in Readings
         /\ text # NoText => Flushed(Reads(acc, Record("user", text)))
                               = Append(Flushed(acc), Turn(text, NoText))
<1>1. /\ Record("user", text).kind = "user" /\ Record("user", text).text = text
      /\ Record("user", text) \in Records
  BY SessionsAssumption DEF Record, Records, Kinds, OnRecord
<1>2. Reads(acc, Record("user", text)) = [turns |-> Flushed(acc), pending |-> text]
  BY <1>1 DEF Reads
<1>3. Flushed(acc) \in Seq(Turns)
  BY FlushedType
<1> DEFINE next == [turns |-> Flushed(acc), pending |-> text]
<1>4. next \in Readings /\ next.turns = Flushed(acc) /\ next.pending = text
  BY <1>3 DEF Readings
<1> HIDE DEF next
<1>5. text # NoText => Flushed(next) = Append(Flushed(acc), Turn(text, NoText))
  BY <1>4 DEF Flushed
<1> QED
  BY <1>1, <1>2, <1>4, <1>5 DEF next

LEMMA ReadsAssistant ==
  ASSUME NEW acc \in Readings, NEW text \in Nat
  PROVE  /\ Record("assistant", text) \in Records
         /\ Reads(acc, Record("assistant", text)) \in Readings
         /\ Flushed(Reads(acc, Record("assistant", text)))
              = Append(acc.turns, Turn(acc.pending, text))
<1>1. /\ Record("assistant", text).kind = "assistant" /\ Record("assistant", text).text = text
      /\ Record("assistant", text) \in Records
  BY DEF Record, Records, Kinds
<1> DEFINE next == [turns |-> Append(acc.turns, Turn(acc.pending, text)), pending |-> NoText]
<1>2. Reads(acc, Record("assistant", text)) = next
  BY <1>1 DEF Reads
<1>3. acc.turns \in Seq(Turns) /\ acc.pending \in OnRecord
  BY DEF Readings
<1>4. Append(acc.turns, Turn(acc.pending, text)) \in Seq(Turns) /\ NoText \in OnRecord
  <2>1. Turn(acc.pending, text) \in Turns
    BY <1>3 DEF Turn, Turns
  <2> QED
    BY <1>3, <2>1, SessionsAssumption DEF NoText, OnRecord
<1>5. next.turns = Append(acc.turns, Turn(acc.pending, text)) /\ next.pending = NoText
  OBVIOUS
<1>6. next \in Readings
  BY <1>4 DEF Readings
<1> HIDE DEF next
<1>7. Flushed(next) = Append(acc.turns, Turn(acc.pending, text))
  BY <1>5 DEF Flushed
<1> QED
  BY <1>1, <1>2, <1>6, <1>7

LEMMA ReadsClear ==
  ASSUME NEW acc
  PROVE  Record("clear", NoText) \in Records /\ Reads(acc, Record("clear", NoText)) = Blank
<1>1. Record("clear", NoText).kind = "clear" /\ Record("clear", NoText) \in Records
  BY DEF Record, Records, Kinds, NoText
<1> QED
  BY <1>1 DEF Reads

LEMMA ReadsError ==
  ASSUME NEW acc
  PROVE  Record("error", NoText) \in Records /\ Reads(acc, Record("error", NoText)) = acc
<1>1. Record("error", NoText).kind = "error" /\ Record("error", NoText) \in Records
  BY DEF Record, Records, Kinds, NoText
<1> QED
  BY <1>1 DEF Reads

-----------------------------------------------------------------------------
(***************************************************************************)
(* A conversation copied in: reading the copy gives the conversation back. *)
(***************************************************************************)

LEMMA ConcatAssociates ==
  /\ \A a, b, c \in Seq(Records) : (a \o b) \o c = a \o (b \o c)
  /\ \A a, b, c \in Seq(Turns) : (a \o b) \o c = a \o (b \o c)
<1>1. \A a, b, c \in Seq(Records) : (a \o b) \o c = a \o (b \o c)
  OBVIOUS
<1>2. \A a, b, c \in Seq(Turns) : (a \o b) \o c = a \o (b \o c)
  OBVIOUS
<1> QED
  BY <1>1, <1>2

CopyOf(t) == <<Record("user", t.user)>>
             \o (IF t.answer = NoText THEN <<>> ELSE <<Record("assistant", t.answer)>>)

\* Copies is the copies of the turns, one after the other.
LEMMA CopiesAre ==
  ASSUME NEW ts \in Seq(Turns)
  PROVE  \E f : /\ f[0] = <<>> /\ f[Len(ts)] = Copies(ts)
                /\ \A n \in 1 .. Len(ts) : f[n] = f[n - 1] \o CopyOf(ts[n])
<1> DEFINE seqs == [i \in DOMAIN ts |-> CopyOf(ts[i])]
           Solves(f, k) ==
             f = [i \in 1 .. k |-> IF i = 1 THEN seqs[i] ELSE f[i - 1] \o seqs[i]]
           T == {k \in Nat : \E f : Solves(f, k)}
<1>1. Len(ts) \in Nat /\ DOMAIN ts = 1 .. Len(ts)
  OBVIOUS
<1>2. seqs \in Seq(Seq(Records)) /\ Len(seqs) = Len(ts) /\ \A n \in 1 .. Len(ts) : seqs[n] = CopyOf(ts[n])
  <2>1. ASSUME NEW i \in 1 .. Len(ts)
        PROVE  CopyOf(ts[i]) \in Seq(Records)
    <3> HIDE DEF seqs, T
    <3>0. ts[i] \in Turns
      BY <2>1
    <3>1. ts[i].user \in OnRecord /\ ts[i].answer \in Nat
      BY <3>0 DEF Turns
    <3>2. Record("user", ts[i].user) \in Records /\ Record("assistant", ts[i].answer) \in Records
      BY <3>1, BlankIsReading, ReadsUser, ReadsAssistant
    <3> QED
      BY <3>2 DEF CopyOf
  <2> QED
    BY <1>1, <2>1
<1> HIDE DEF seqs
<1>3. 0 \in T
  <2> DEFINE f == [i \in 1 .. 0 |-> IF i = 1 THEN seqs[i] ELSE <<>>]
  <2>1. Solves(f, 0)
    OBVIOUS
  <2> QED
    BY <2>1
<1>4. ASSUME NEW k \in T
      PROVE  k + 1 \in T
  <2>1. k \in Nat
    OBVIOUS
  <2>2. PICK f : Solves(f, k)
    OBVIOUS
  <2> DEFINE last == IF k = 0 THEN seqs[1] ELSE f[k] \o seqs[k + 1]
             g == [n \in 1 .. k + 1 |-> IF n = k + 1 THEN last ELSE f[n]]
  <2>3. f = [i \in 1 .. k |-> IF i = 1 THEN seqs[i] ELSE f[i - 1] \o seqs[i]]
    BY <2>2
  <2>4. ASSUME NEW n \in 1 .. k + 1
        PROVE  g[n] = IF n = 1 THEN seqs[n] ELSE g[n - 1] \o seqs[n]
    <3>1. CASE n = k + 1
      <4>1. g[n] = last /\ (n = 1 <=> k = 0) /\ n - 1 = k
            /\ (k # 0 => k \in 1 .. k + 1 /\ k # k + 1)
        BY <2>1, <3>1
      <4>2. k # 0 => g[k] = f[k]
        BY <4>1
      <4> QED
        BY <3>1, <4>1, <4>2
    <3>2. CASE n # k + 1
      <4>1. n \in 1 .. k /\ g[n] = f[n]
        BY <2>1, <3>2
      <4>2. n # 1 => n - 1 \in 1 .. k + 1 /\ n - 1 # k + 1
        BY <2>1, <3>2
      <4>3. n # 1 => g[n - 1] = f[n - 1]
        BY <4>2
      <4>4. f[n] = IF n = 1 THEN seqs[n] ELSE f[n - 1] \o seqs[n]
        BY <2>3, <4>1
      <4> QED
        BY <4>1, <4>3, <4>4
    <3> QED
      BY <3>1, <3>2
  <2>5. Solves(g, k + 1)
    BY <2>4
  <2> HIDE DEF g
  <2>6. \E h : Solves(h, k + 1)
    BY <2>5
  <2> HIDE DEF Solves
  <2> QED
    BY <2>1, <2>6
<1>5. T = Nat
  <2> HIDE DEF T
  <2>1. T \subseteq Nat
    BY DEF T
  <2> QED
    BY <1>3, <1>4, <2>1, Induction
<1>6. \E f : Solves(f, Len(seqs))
  BY <1>1, <1>2, <1>5
<1> DEFINE flatten[i \in 1 .. Len(seqs)] ==
             IF i = 1 THEN seqs[i] ELSE flatten[i - 1] \o seqs[i]
<1>7. Solves(flatten, Len(seqs))
  BY <1>6, Zenon
<1>8. Copies(ts) = IF Len(seqs) = 0 THEN seqs ELSE flatten[Len(seqs)]
  BY DEF Copies, FlattenSeq, CopyOf, seqs
<1> HIDE DEF flatten
<1> DEFINE f == [n \in 0 .. Len(ts) |-> IF n = 0 THEN <<>> ELSE flatten[n]]
<1>9. f[0] = <<>> /\ f[Len(ts)] = Copies(ts)
  <2>1. CASE Len(ts) = 0
    <3>1. seqs = <<>>
      BY <1>2, <2>1
    <3> QED
      BY <1>2, <1>8, <2>1, <3>1
  <2>2. CASE Len(ts) # 0
    BY <1>1, <1>2, <1>8, <2>2
  <2> QED
    BY <2>1, <2>2
<1>10. ASSUME NEW n \in 1 .. Len(ts)
       PROVE  f[n] = f[n - 1] \o CopyOf(ts[n])
  <2>1. flatten[n] = IF n = 1 THEN seqs[n] ELSE flatten[n - 1] \o seqs[n]
    BY <1>2, <1>7
  <2>2. f[n] = flatten[n] /\ f[n - 1] = IF n = 1 THEN <<>> ELSE flatten[n - 1]
    BY <1>1, <1>10
  <2>3. CASE n = 1
    <3>1. <<>> \o seqs[n] = seqs[n]
      BY <1>1, <1>2
    <3> QED
      BY <1>2, <2>1, <2>2, <2>3, <3>1
  <2>4. CASE n # 1
    BY <1>2, <2>1, <2>2, <2>4
  <2> QED
    BY <2>3, <2>4
<1> HIDE DEF f
<1> QED
  BY <1>9, <1>10

\* The copy of one turn says that turn, whatever was said before.
LEMMA CopyReads ==
  ASSUME NEW l \in Seq(Records), ReadingOf(l) \in Readings,
         NEW t \in Turns
  PROVE  /\ CopyOf(t) \in Seq(Records)
         /\ ReadingOf(l \o CopyOf(t)) \in Readings
         /\ t.user # NoText =>
              Flushed(ReadingOf(l \o CopyOf(t))) = Append(Flushed(ReadingOf(l)), t)
<1> DEFINE u == Record("user", t.user)
           a == Record("assistant", t.answer)
           asked1 == ReadingOf(l \o <<u>>)
<1>1. t.user \in OnRecord /\ t.answer \in Nat /\ t = Turn(t.user, t.answer)
  BY DEF Turns, Turn
<1>2. /\ u \in Records /\ asked1 = [turns |-> Flushed(ReadingOf(l)), pending |-> t.user]
      /\ asked1 \in Readings
      /\ t.user # NoText => Flushed(asked1) = Append(Flushed(ReadingOf(l)), Turn(t.user, NoText))
  <2>1. /\ u \in Records
        /\ Reads(ReadingOf(l), u) = [turns |-> Flushed(ReadingOf(l)), pending |-> t.user]
        /\ Reads(ReadingOf(l), u) \in Readings
        /\ t.user # NoText => Flushed(Reads(ReadingOf(l), u))
                                = Append(Flushed(ReadingOf(l)), Turn(t.user, NoText))
    BY <1>1, ReadsUser
  <2>2. asked1 = Reads(ReadingOf(l), u)
    BY <2>1, ReadingOfNext
  <2> QED
    BY <2>1, <2>2
<1>3. a \in Records
  BY <1>1, BlankIsReading, ReadsAssistant
<1>4. CopyOf(t) = <<u>> \o (IF t.answer = NoText THEN <<>> ELSE <<a>>)
  BY DEF CopyOf
<1> HIDE DEF u, a
<1>5. CASE t.answer = NoText
  <2>1. CopyOf(t) = <<u>>
    <3>1. <<u>> \o <<>> = <<u>>
      BY <1>2
    <3> QED
      BY <1>4, <1>5, <3>1
  <2> QED
    BY <1>1, <1>2, <1>5, <2>1
<1>6. CASE t.answer # NoText
  <2>1. CopyOf(t) = <<u>> \o <<a>>
    BY <1>4, <1>6
  <2>2. l \o CopyOf(t) = (l \o <<u>>) \o <<a>> /\ l \o <<u>> \in Seq(Records)
        /\ CopyOf(t) \in Seq(Records)
    BY <1>2, <1>3, <2>1
  <2>3. ReadingOf(l \o CopyOf(t)) = Reads(asked1, a)
    BY <1>3, <2>2, ReadingOfNext
  <2>4. /\ Reads(asked1, a) \in Readings
        /\ Flushed(Reads(asked1, a)) = Append(asked1.turns, Turn(asked1.pending, t.answer))
    BY <1>1, <1>2, ReadsAssistant DEF a
  <2>5. asked1.turns = Flushed(ReadingOf(l)) /\ asked1.pending = t.user
    BY <1>2
  <2> HIDE DEF asked1
  <2> QED
    BY <1>1, <2>2, <2>3, <2>4, <2>5
<1> QED
  BY <1>5, <1>6

\* /resume: reading a transcript to which a conversation was copied gives what
\* it said before and then that conversation.
LEMMA CopiesRead ==
  ASSUME NEW l \in Seq(Records), ReadingOf(l) \in Readings,
         NEW ts \in Seq(Turns)
  PROVE  /\ Copies(ts) \in Seq(Records)
         /\ ReadingOf(l \o Copies(ts)) \in Readings
         /\ (\A i \in 1 .. Len(ts) : ts[i].user # NoText) =>
              Flushed(ReadingOf(l \o Copies(ts))) = Flushed(ReadingOf(l)) \o ts
<1>1. PICK f : /\ f[0] = <<>> /\ f[Len(ts)] = Copies(ts)
               /\ \A n \in 1 .. Len(ts) : f[n] = f[n - 1] \o CopyOf(ts[n])
  BY CopiesAre
<1> DEFINE Asked == \A i \in 1 .. Len(ts) : ts[i].user # NoText
           Says(n) == /\ f[n] \in Seq(Records)
                      /\ ReadingOf(l \o f[n]) \in Readings
                      /\ Asked => Flushed(ReadingOf(l \o f[n]))
                                    = Flushed(ReadingOf(l)) \o SubSeq(ts, 1, n)
           T == {n \in Nat : n <= Len(ts) => Says(n)}
<1>2. Len(ts) \in Nat /\ Flushed(ReadingOf(l)) \in Seq(Turns)
  BY FlushedType
<1>3. Says(0)
  <2>1. f[0] = <<>> /\ l \o <<>> = l /\ <<>> \in Seq(Records)
    BY <1>1
  <2>2. SubSeq(ts, 1, 0) = <<>>
    OBVIOUS
  <2>3. Flushed(ReadingOf(l)) \o <<>> = Flushed(ReadingOf(l))
    BY <1>2
  <2> QED
    BY <2>1, <2>2, <2>3
<1>4. ASSUME NEW n \in Nat, Says(n), n + 1 <= Len(ts)
      PROVE  Says(n + 1)
  <2>1. n + 1 \in 1 .. Len(ts) /\ (n + 1) - 1 = n
    BY <1>2, <1>4
  <2>2. ts[n + 1] \in Turns /\ (Asked => ts[n + 1].user # NoText)
    BY <2>1
  <2>3. f[n + 1] = f[n] \o CopyOf(ts[n + 1])
    BY <1>1, <2>1
  <2>4. l \o f[n] \in Seq(Records)
    BY <1>4
  <2>5. /\ CopyOf(ts[n + 1]) \in Seq(Records)
        /\ ReadingOf((l \o f[n]) \o CopyOf(ts[n + 1])) \in Readings
        /\ Asked => Flushed(ReadingOf((l \o f[n]) \o CopyOf(ts[n + 1])))
                      = Append(Flushed(ReadingOf(l \o f[n])), ts[n + 1])
    BY <1>4, <2>2, <2>4, CopyReads
  <2>6. f[n + 1] \in Seq(Records) /\ l \o f[n + 1] = (l \o f[n]) \o CopyOf(ts[n + 1])
    <3>1. f[n] \in Seq(Records) /\ CopyOf(ts[n + 1]) \in Seq(Records)
      BY <1>4, <2>5
    <3> HIDE DEF Says, T
    <3>2. f[n] \o CopyOf(ts[n + 1]) \in Seq(Records)
      BY <3>1
    <3>3. (l \o f[n]) \o CopyOf(ts[n + 1]) = l \o (f[n] \o CopyOf(ts[n + 1]))
      BY <2>4, <3>1, ConcatAssociates, Zenon
    <3> QED
      BY <2>3, <3>2, <3>3, Zenon
  <2>7. Append(Flushed(ReadingOf(l)) \o SubSeq(ts, 1, n), ts[n + 1])
          = Flushed(ReadingOf(l)) \o SubSeq(ts, 1, n + 1)
    <3> HIDE DEF Says, T
    <3>1. SubSeq(ts, 1, n + 1) = SubSeq(ts, 1, n) \o <<ts[n + 1]>>
      BY <1>2, <2>1
    <3>2. SubSeq(ts, 1, n) \in Seq(Turns) /\ <<ts[n + 1]>> \in Seq(Turns)
      BY <2>1, <2>2
    <3>3. Flushed(ReadingOf(l)) \o SubSeq(ts, 1, n) \in Seq(Turns)
      BY <1>2, <3>2
    <3>4. Append(Flushed(ReadingOf(l)) \o SubSeq(ts, 1, n), ts[n + 1])
            = (Flushed(ReadingOf(l)) \o SubSeq(ts, 1, n)) \o <<ts[n + 1]>>
      BY <2>2, <3>3
    <3>5. (Flushed(ReadingOf(l)) \o SubSeq(ts, 1, n)) \o <<ts[n + 1]>>
            = Flushed(ReadingOf(l)) \o (SubSeq(ts, 1, n) \o <<ts[n + 1]>>)
      <4>1. Flushed(ReadingOf(l)) \in Seq(Turns)
        BY <1>2
      <4> QED
        BY <3>2, <4>1, ConcatAssociates, Zenon
    <3> QED
      BY <3>1, <3>4, <3>5, Zenon
  <2> QED
    BY <1>4, <2>5, <2>6, <2>7
<1>5. T = Nat
  <2>1. 0 \in T
    BY <1>3
  <2>2. ASSUME NEW n \in T
        PROVE  n + 1 \in T
    <3>1. n \in Nat /\ (n + 1 <= Len(ts) => n <= Len(ts))
      BY <1>2
    <3> HIDE DEF Says
    <3> QED
      BY <1>4, <3>1
  <2> HIDE DEF T
  <2>3. T \subseteq Nat
    BY DEF T
  <2> QED
    BY <2>1, <2>2, <2>3, Induction
<1>6. Says(Len(ts))
  <2> HIDE DEF Says
  <2> QED
    BY <1>2, <1>5
<1>7. SubSeq(ts, 1, Len(ts)) = ts
  OBVIOUS
<1> QED
  BY <1>1, <1>6, <1>7

-----------------------------------------------------------------------------
(***************************************************************************)
(* The invariant.                                                          *)
(***************************************************************************)

Places == {"unborn", "rest", "turn", "enabled", "purging", "purged", "gone"}

Shapes ==
  /\ at \in [Ids -> Places] /\ quiet \in [Ids -> BOOLEAN] /\ meta \in [Ids -> BOOLEAN]
  /\ asking \in [Ids -> Nat] /\ asked \in OnRecord
  /\ held \in [Ids -> SUBSET Nat] /\ ledger \in [Ids -> SUBSET Nat]
  /\ runs \in [Ids -> SUBSET Nat] /\ worked \in [Ids -> SUBSET Nat]
  /\ fold = [s \in Ids |-> fold[s]]
  /\ log \in [Ids -> Seq(Records)] /\ said \in [Ids -> Seq(Turns)]

\* What is on disk follows where the process is: nothing before it starts, and
\* nothing once it is ephemeral and its purge, if it took every file, is over.
Kept(s) ==
  /\ at[s] = "unborn" => /\ Bare(s) /\ runs[s] = {} /\ said[s] = <<>>
                         /\ ~quiet[s] /\ held[s] = NoLedger /\ worked[s] = {}
  /\ at[s] \in {"enabled", "purging", "purged"} => quiet[s]
  /\ at[s] = "gone" => ~quiet[s]
  /\ s \notin broken /\ quiet[s] /\ at[s] \in {"purged", "rest", "turn"} => Bare(s) /\ said[s] = <<>>
  /\ s \notin broken /\ quiet[s] /\ at[s] \in {"rest", "turn"} => runs[s] = {}

\* A turn has a text, of the kind that may be recorded unless it is ephemeral.
Asking(s) ==
  at[s] = "turn" => asking[s] # NoText /\ (~quiet[s] => asking[s] \in OnRecord)

\* The memory holds a ledger only while the session is ephemeral.
Ledgers(s) ==
  /\ ledger[s] \subseteq OnRecord \ {NoText} /\ runs[s] \subseteq OnRecord
  /\ ~quiet[s] => held[s] = NoLedger
  /\ s \notin broken /\ at[s] \notin {"unborn", "gone"} => Load(s) = worked[s]

\* The transcript of a session whose directory is whole says what was said, it
\* can be found, and the question of a running turn waits at its end.
Transcript(s) ==
  /\ ReadingOf(log[s]) \in Readings
  /\ Whole(s) =>
       /\ meta[s] => /\ Pairs(log[s]) = said[s]
                     /\ \A i \in 1 .. Len(said[s]) : said[s][i].user # NoText
       /\ log[s] # <<>> => meta[s]
       /\ at[s] \in {"rest", "turn"} /\ ~quiet[s] => meta[s]
       /\ at[s] = "turn" /\ ~quiet[s] => ReadingOf(log[s]).pending = asking[s]

SessionInv(s) == Kept(s) /\ Asking(s) /\ Ledgers(s) /\ Transcript(s)
Inv == Shapes /\ \A s \in Ids : SessionInv(s)

\* A step that leaves what is said of a session alone keeps it.
Same(q) ==
  /\ at'[q] = at[q] /\ quiet'[q] = quiet[q] /\ held'[q] = held[q] /\ asking'[q] = asking[q]
  /\ meta'[q] = meta[q] /\ log'[q] = log[q] /\ fold'[q] = fold[q] /\ ledger'[q] = ledger[q]
  /\ runs'[q] = runs[q] /\ said'[q] = said[q] /\ worked'[q] = worked[q]
  /\ q \in broken' <=> q \in broken

LEMMA SameKeeps ==
  ASSUME NEW q, SessionInv(q), Same(q)
  PROVE  SessionInv(q)'
<1> USE DEF Same
<1>1. Kept(q)'
  BY DEF SessionInv, Kept, Bare
<1>2. Asking(q)'
  BY DEF SessionInv, Asking
<1>3. Ledgers(q)'
  BY DEF SessionInv, Ledgers, Load, Held
<1>4. Transcript(q)'
  BY DEF SessionInv, Transcript, Whole
<1> QED
  BY <1>1, <1>2, <1>3, <1>4 DEF SessionInv

LEMMA OneAtATime ==
  ASSUME Inv, NEW s \in Ids, Shapes', SessionInv(s)', \A q \in Ids \ {s} : Same(q)
  PROVE  Inv'
<1>1. ASSUME NEW q \in Ids
      PROVE  SessionInv(q)'
  BY SameKeeps DEF Inv
<1> QED
  BY <1>1 DEF Inv

LEMMA PairsAre == \A l : Pairs(l) = Flushed(ReadingOf(l))
  BY DEF Pairs, ReadingOf

\* An empty transcript says nothing.
LEMMA NothingSaid ==
  /\ ReadingOf(<<>>) \in Readings /\ Pairs(<<>>) = <<>> /\ Len(<<>>) = 0
  BY ReadingOfNone, BlankIsReading, PairsAre

\* A session starts with nothing.
LEMMA StartKeeps ==
  ASSUME Inv, NEW s \in Ids, NEW b \in BOOLEAN, Start(s, b)
  PROVE  Inv'
<1>1. Shapes /\ Kept(s) /\ Ledgers(s)
  BY DEF Inv, SessionInv
<1>2. /\ at[s] = "unborn" /\ at' = [at EXCEPT ![s] = "rest"]
      /\ quiet' = [quiet EXCEPT ![s] = b] /\ meta' = [meta EXCEPT ![s] = ~b]
      /\ UNCHANGED <<held, asking, asked, log, fold, ledger, runs, said, worked, broken>>
  BY DEF Start, To, history
<1>3. Shapes'
  BY <1>1, <1>2 DEF Shapes, Places
<1>4. \A q \in Ids \ {s} : Same(q)
  BY <1>1, <1>2 DEF Same, Shapes
<1>5. at'[s] = "rest" /\ (quiet'[s] <=> b) /\ (meta'[s] <=> ~b)
  BY <1>1, <1>2 DEF Shapes
<1>6. /\ log'[s] = <<>> /\ fold'[s] = {} /\ ledger'[s] = {} /\ runs'[s] = {} /\ said'[s] = <<>>
      /\ held'[s] = NoLedger /\ worked'[s] = {}
  BY <1>1, <1>2 DEF Kept, Bare
<1>7. Kept(s)'
  BY <1>5, <1>6 DEF Kept, Bare
<1>8. Asking(s)'
  BY <1>5 DEF Asking
<1>9. Ledgers(s)'
  BY <1>6 DEF Ledgers, Load, Held
<1>10. Transcript(s)'
  BY <1>5, <1>6, NothingSaid DEF Transcript, Whole
<1> QED
  BY <1>3, <1>4, <1>7, <1>8, <1>9, <1>10, OneAtATime DEF SessionInv

\* A question goes on the record of a session that is not ephemeral, and waits
\* there for its answer.
LEMMA AskKeeps ==
  ASSUME Inv, NEW s \in Ids, NEW b \in BOOLEAN, Ask(s, b)
  PROVE  Inv'
<1> DEFINE text == IF quiet[s] THEN asked' + MaxAsked ELSE asked'
<1>1. Shapes /\ Kept(s) /\ Ledgers(s) /\ Transcript(s)
  BY DEF Inv, SessionInv
<1>2. /\ at[s] = "rest" /\ at' = [at EXCEPT ![s] = "turn"]
      /\ asked < MaxAsked /\ asked' = asked + 1
      /\ asking' = [asking EXCEPT ![s] = text]
      /\ UNCHANGED <<quiet, held, meta, ledger, worked, broken>>
  BY DEF Ask, To
<1>3. /\ asked' \in OnRecord /\ asked' # 0 /\ text \in Nat /\ text # NoText
      /\ ~quiet[s] => text = asked'
  BY <1>1, <1>2, SessionsAssumption DEF Shapes, OnRecord, NoText
<1> HIDE DEF text
<1>4. at'[s] = "turn" /\ asking'[s] = text
  BY <1>1, <1>2 DEF Shapes
<1>5. CASE quiet[s]
  <2>1. UNCHANGED <<log, fold, runs, said>>
    BY <1>5 DEF Ask, Writes
  <2>2. Shapes'
    BY <1>1, <1>2, <1>3, <2>1 DEF Shapes, Places
  <2>3. \A q \in Ids \ {s} : Same(q)
    BY <1>1, <1>2, <2>1 DEF Same, Shapes
  <2>4. Kept(s)'
    BY <1>1, <1>2, <1>4, <1>5, <2>1 DEF Kept, Bare
  <2>5. Asking(s)'
    BY <1>2, <1>3, <1>4, <1>5 DEF Asking
  <2>6. Ledgers(s)'
    BY <1>1, <1>2, <1>4, <2>1 DEF Ledgers, Load, Held
  <2>7. Transcript(s)'
    BY <1>1, <1>2, <1>4, <1>5, <2>1 DEF Transcript, Whole
  <2> QED
    BY <2>2, <2>3, <2>4, <2>5, <2>6, <2>7, OneAtATime DEF SessionInv
<1>6. CASE ~quiet[s]
  <2> DEFINE r == Record("user", asked')
  <2>1. /\ log' = [log EXCEPT ![s] = @ \o <<r>>]
        /\ runs' = [runs EXCEPT ![s] = @ \union {asked'}]
        /\ said' = [said EXCEPT ![s] = Append(@, Turn(asked', NoText))]
        /\ fold' = [q \in Ids |-> fold'[q]] /\ \A q \in Ids \ {s} : fold'[q] = fold[q]
    <3>1. asking'[s] = asked'
      BY <1>3, <1>4, <1>6
    <3>2. log' = [log EXCEPT ![s] = @ \o <<Record("user", asking'[s])>>]
      BY <1>6 DEF Ask, Writes
    <3>3. /\ runs' = [runs EXCEPT ![s] = @ \union {asked'}]
          /\ said' = [said EXCEPT ![s] = Append(@, Turn(asked', NoText))]
      BY <1>6 DEF Ask
    <3>4. fold' = fold \/ fold' = [fold EXCEPT ![s] = @ \union Texts(turns[s])]
      BY DEF Ask
    <3>5. fold' = [q \in Ids |-> fold'[q]] /\ \A q \in Ids \ {s} : fold'[q] = fold[q]
      BY <1>1, <3>4 DEF Shapes
    <3> QED
      BY <3>1, <3>2, <3>3, <3>5
  <2>2. ReadingOf(log[s]) \in Readings /\ log[s] \in Seq(Records) /\ said[s] \in Seq(Turns)
    BY <1>1 DEF Transcript, Whole, Shapes
  <2>3. /\ r \in Records
        /\ Reads(ReadingOf(log[s]), r) = [turns |-> Flushed(ReadingOf(log[s])), pending |-> asked']
        /\ Reads(ReadingOf(log[s]), r) \in Readings
        /\ Flushed(Reads(ReadingOf(log[s]), r))
             = Append(Flushed(ReadingOf(log[s])), Turn(asked', NoText))
    BY <1>3, <2>2, ReadsUser DEF NoText
  <2> HIDE DEF r
  <2>4. log'[s] = log[s] \o <<r>> /\ log'[s] \in Seq(Records) /\ log'[s] # <<>>
    BY <1>1, <2>1, <2>2, <2>3 DEF Shapes
  <2>5. ReadingOf(log'[s]) = Reads(ReadingOf(log[s]), r)
    BY <2>2, <2>3, <2>4, ReadingOfNext
  <2>6. Turn(asked', NoText) \in Turns /\ Turn(asked', NoText).user = asked'
    BY <1>3 DEF Turn, Turns, NoText
  <2>7. said'[s] = Append(said[s], Turn(asked', NoText)) /\ said'[s] \in Seq(Turns)
    BY <1>1, <2>1, <2>2, <2>6 DEF Shapes
  <2>8. runs'[s] = runs[s] \union {asked'}
    BY <1>1, <2>1 DEF Shapes
  <2>9. Shapes'
    <3>1. log' \in [Ids -> Seq(Records)] /\ said' \in [Ids -> Seq(Turns)]
      BY <1>1, <2>1, <2>4, <2>7 DEF Shapes
    <3>2. runs' \in [Ids -> SUBSET Nat]
      BY <1>1, <1>3, <2>1 DEF Shapes, OnRecord
    <3> QED
      BY <1>1, <1>2, <1>3, <2>1, <3>1, <3>2 DEF Shapes, Places
  <2>10. \A q \in Ids \ {s} : Same(q)
    BY <1>1, <1>2, <2>1 DEF Same, Shapes
  <2>11. Kept(s)'
    BY <1>2, <1>4, <1>6 DEF Kept
  <2>12. Asking(s)'
    BY <1>3, <1>4, <1>6 DEF Asking
  <2>13. Ledgers(s)'
    BY <1>1, <1>2, <1>3, <1>4, <1>6, <2>8 DEF Ledgers, Load
  <2>14. Transcript(s)'
    <3> USE DEF Whole
    <3>1. Whole(s) /\ meta[s] => Pairs(log'[s]) = said'[s]
      BY <1>1, <2>3, <2>5, <2>7, PairsAre DEF Transcript
    <3>2. Whole(s) /\ meta[s] => \A i \in 1 .. Len(said'[s]) : said'[s][i].user # NoText
      BY <1>1, <1>3, <2>2, <2>6, <2>7 DEF Transcript, NoText
    <3>3. ReadingOf(log'[s]).pending = asked' /\ asking'[s] = asked'
      BY <1>3, <1>4, <1>6, <2>3, <2>5
    <3>4. meta'[s] = meta[s] /\ (Whole(s) => meta'[s])
      BY <1>1, <1>2, <1>6 DEF Transcript
    <3>5. Whole(s)' => Whole(s)
      BY <1>2, <1>4
    <3> QED
      BY <1>2, <2>3, <2>5, <3>1, <3>2, <3>3, <3>4, <3>5 DEF Transcript
  <2> QED
    BY <2>9, <2>10, <2>11, <2>12, <2>13, <2>14, OneAtATime DEF SessionInv
<1> QED
  BY <1>5, <1>6

\* Work goes into the ledger wherever that is.
LEMMA WorkKeeps ==
  ASSUME Inv, NEW s \in Ids, Work(s)
  PROVE  Inv'
<1> DEFINE items == Load(s) \union {asking[s]}
<1>1. Shapes /\ Kept(s) /\ Asking(s) /\ Ledgers(s) /\ Transcript(s)
  BY DEF Inv, SessionInv
<1>2. /\ at[s] = "turn" /\ worked' = [worked EXCEPT ![s] = @ \union {asking[s]}]
      /\ UNCHANGED <<at, quiet, asking, asked, meta, log, fold, runs, said, broken>>
      /\ quiet[s] => held' = [held EXCEPT ![s] = items] /\ ledger' = ledger
      /\ ~quiet[s] => ledger' = [ledger EXCEPT ![s] = items] /\ held' = held
  BY DEF Work, Save
<1>3. items \subseteq Nat /\ asking[s] \in items /\ asking[s] # NoText
  BY <1>1, <1>2 DEF Shapes, Asking, Load, Held
<1>4. Shapes'
  <2>1. worked' \in [Ids -> SUBSET Nat]
    BY <1>1, <1>2 DEF Shapes
  <2>2. held' \in [Ids -> SUBSET Nat] /\ ledger' \in [Ids -> SUBSET Nat]
    <3> HIDE DEF items
    <3>1. CASE quiet[s]
      BY <1>1, <1>2, <1>3, <3>1 DEF Shapes
    <3>2. CASE ~quiet[s]
      BY <1>1, <1>2, <1>3, <3>2 DEF Shapes
    <3> QED
      BY <3>1, <3>2
  <2> QED
    BY <1>1, <1>2, <2>1, <2>2 DEF Shapes
<1>5. \A q \in Ids \ {s} : Same(q)
  BY <1>1, <1>2 DEF Same, Shapes
<1>6. worked'[s] = worked[s] \union {asking[s]}
  BY <1>1, <1>2 DEF Shapes
<1>7. ASSUME quiet[s]
      PROVE  Kept(s)' /\ Ledgers(s)'
  <2>1. held'[s] = items /\ ledger' = ledger
    BY <1>1, <1>2, <1>7 DEF Shapes
  <2>2. Load(s)' = items
    BY <1>2, <1>3, <1>7, <2>1 DEF Load, Held, NoLedger
  <2>3. Ledgers(s)'
    BY <1>1, <1>2, <1>6, <1>7, <2>1, <2>2 DEF Ledgers
  <2>4. Kept(s)'
    BY <1>1, <1>2, <2>1 DEF Kept, Bare
  <2> QED
    BY <2>3, <2>4
<1>8. ASSUME ~quiet[s]
      PROVE  Kept(s)' /\ Ledgers(s)'
  <2>1. ledger'[s] = items /\ held' = held /\ Load(s) = ledger[s]
    BY <1>1, <1>2, <1>8 DEF Shapes, Load
  <2>2. asking[s] \in OnRecord
    BY <1>1, <1>2, <1>8 DEF Asking
  <2>3. Ledgers(s)'
    BY <1>1, <1>2, <1>3, <1>6, <1>8, <2>1, <2>2 DEF Ledgers, Load
  <2>4. Kept(s)'
    BY <1>1, <1>2, <1>8 DEF Kept
  <2> QED
    BY <2>3, <2>4
<1>9. Asking(s)' /\ Transcript(s)'
  BY <1>1, <1>2 DEF Asking, Transcript, Whole
<1> QED
  BY <1>4, <1>5, <1>7, <1>8, <1>9, OneAtATime DEF SessionInv

\* The answer goes with the question that waits for it.
LEMMA AnswerKeeps ==
  ASSUME Inv, NEW s \in Ids, NEW text \in {asking[s], NoText}, Answer(s, text)
  PROVE  Inv'
<1> DEFINE t == Turn(asking[s], text)
<1>1. Shapes /\ Kept(s) /\ Asking(s) /\ Ledgers(s) /\ Transcript(s)
  BY DEF Inv, SessionInv
<1>2. /\ at[s] = "turn" /\ at' = [at EXCEPT ![s] = "rest"]
      /\ asking' = [asking EXCEPT ![s] = NoText]
      /\ UNCHANGED <<quiet, held, asked, meta, fold, ledger, runs, worked, broken>>
  BY DEF Answer, To
<1>3. at'[s] = "rest" /\ text \in Nat
  BY <1>1, <1>2 DEF Shapes, NoText
<1>4. at' \in [Ids -> Places] /\ asking' \in [Ids -> Nat]
  BY <1>1, <1>2 DEF Shapes, Places, NoText
<1>5. Asking(s)'
  BY <1>3 DEF Asking
<1>6. CASE quiet[s]
  <2>1. UNCHANGED <<log, said>>
    BY <1>6 DEF Answer, Writes
  <2>2. Shapes'
    BY <1>1, <1>2, <1>4, <2>1 DEF Shapes
  <2>3. \A q \in Ids \ {s} : Same(q)
    BY <1>1, <1>2, <2>1 DEF Same, Shapes
  <2>4. Kept(s)'
    BY <1>1, <1>2, <1>3, <1>6, <2>1 DEF Kept, Bare
  <2>5. Ledgers(s)'
    BY <1>1, <1>2, <1>3 DEF Ledgers, Load, Held
  <2>6. Transcript(s)'
    BY <1>1, <1>2, <1>3, <1>6, <2>1 DEF Transcript, Whole
  <2> QED
    BY <1>5, <2>2, <2>3, <2>4, <2>5, <2>6, OneAtATime DEF SessionInv
<1>7. CASE ~quiet[s]
  <2> DEFINE r == Record("assistant", text)
             acc == ReadingOf(log[s])
  <2>1. /\ log' = [log EXCEPT ![s] = @ \o <<r>>]
        /\ said' = [said EXCEPT ![s] = Append(Front(@), t)]
    BY <1>7 DEF Answer, Writes
  <2>2. acc \in Readings /\ log[s] \in Seq(Records) /\ said[s] \in Seq(Turns)
    BY <1>1 DEF Transcript, Whole, Shapes
  <2>3. asking[s] \in OnRecord /\ asking[s] # NoText
    BY <1>1, <1>2, <1>7 DEF Asking
  <2>4. t \in Turns /\ t.user = asking[s]
    BY <1>3, <2>3 DEF Turn, Turns
  <2>5. /\ r \in Records /\ Reads(acc, r) \in Readings
        /\ Flushed(Reads(acc, r)) = Append(acc.turns, Turn(acc.pending, text))
    BY <1>3, <2>2, ReadsAssistant
  <2> HIDE DEF r, t
  <2>6. log'[s] = log[s] \o <<r>> /\ log'[s] \in Seq(Records)
    BY <1>1, <2>1, <2>2, <2>5 DEF Shapes
  <2>7. ReadingOf(log'[s]) = Reads(acc, r)
    BY <2>2, <2>5, <2>6, ReadingOfNext
  <2>8. said'[s] = Append(Front(said[s]), t)
    BY <1>1, <2>1 DEF Shapes
  <2>9. Front(said[s]) \in Seq(Turns)
    BY <2>2 DEF Front
  <2>10. Whole(s) /\ meta[s] =>
                    /\ Front(said[s]) = acc.turns /\ Turn(acc.pending, text) = t
                    /\ \A i \in 1 .. Len(acc.turns) : acc.turns[i].user # NoText
    <3>1. SUFFICES ASSUME Whole(s), meta[s]
                   PROVE  /\ Front(said[s]) = acc.turns /\ Turn(acc.pending, text) = t
                          /\ \A i \in 1 .. Len(acc.turns) : acc.turns[i].user # NoText
      OBVIOUS
    <3>2. acc.pending = asking[s] /\ said[s] = Flushed(acc)
      BY <1>1, <1>2, <1>7, <3>1, PairsAre DEF Transcript, Whole
    <3>3. Flushed(acc) = Append(acc.turns, Turn(asking[s], NoText))
      BY <2>3, <3>2 DEF Flushed
    <3>4. acc.turns \in Seq(Turns)
      BY <2>2 DEF Readings
    <3> HIDE DEF acc
    <3>5. Front(said[s]) = acc.turns
      BY <3>2, <3>3, <3>4 DEF Front
    <3>6. \A i \in 1 .. Len(acc.turns) : i \in 1 .. Len(said[s]) /\ said[s][i] = acc.turns[i]
      BY <3>2, <3>3, <3>4
    <3>7. \A i \in 1 .. Len(said[s]) : said[s][i].user # NoText
      BY <1>1, <3>1 DEF Transcript, Whole
    <3> QED
      BY <3>2, <3>5, <3>6, <3>7 DEF t
  <2>11. Shapes'
    <3>1. log' \in [Ids -> Seq(Records)]
      BY <1>1, <2>1, <2>6 DEF Shapes
    <3>2. said' \in [Ids -> Seq(Turns)]
      <4>1. Append(Front(said[s]), t) \in Seq(Turns)
        BY <2>4, <2>9
      <4> QED
        BY <1>1, <2>1, <4>1 DEF Shapes
    <3> QED
      BY <1>1, <1>2, <1>4, <3>1, <3>2 DEF Shapes
  <2>12. \A q \in Ids \ {s} : Same(q)
    BY <1>1, <1>2, <2>1 DEF Same, Shapes
  <2>13. Kept(s)'
    BY <1>2, <1>3, <1>7 DEF Kept
  <2>14. Ledgers(s)'
    BY <1>1, <1>2, <1>3 DEF Ledgers, Load, Held
  <2>15. Transcript(s)'
    <3>1. Whole(s) /\ meta[s] => Pairs(log'[s]) = said'[s]
      BY <2>5, <2>7, <2>8, <2>10, PairsAre
    <3>2. Whole(s) /\ meta[s] => \A i \in 1 .. Len(said'[s]) : said'[s][i].user # NoText
      BY <2>3, <2>4, <2>8, <2>9, <2>10
    <3>3. Whole(s)' => Whole(s) /\ meta[s]
      BY <1>1, <1>2, <1>3, <1>7 DEF Transcript, Whole
    <3> QED
      BY <1>1, <1>2, <1>3, <1>7, <2>5, <2>7, <3>1, <3>2, <3>3 DEF Transcript
  <2> QED
    BY <1>5, <2>11, <2>12, <2>13, <2>14, <2>15, OneAtATime DEF SessionInv
<1> QED
  BY <1>6, <1>7

\* A turn that raised leaves its question where it is.
LEMMA RaiseKeeps ==
  ASSUME Inv, NEW s \in Ids, Raise(s)
  PROVE  Inv'
<1> DEFINE r == Record("error", NoText)
<1>1. Shapes /\ Kept(s) /\ Asking(s) /\ Ledgers(s) /\ Transcript(s)
  BY DEF Inv, SessionInv
<1>2. /\ at[s] = "turn" /\ at' = [at EXCEPT ![s] = "rest"]
      /\ asking' = [asking EXCEPT ![s] = NoText]
      /\ UNCHANGED <<quiet, held, asked, meta, fold, ledger, runs, said, worked, broken>>
      /\ quiet[s] => log' = log
      /\ ~quiet[s] => log' = [log EXCEPT ![s] = @ \o <<r>>]
  BY DEF Raise, To, Writes, history
<1>3. at'[s] = "rest" /\ at' \in [Ids -> Places] /\ asking' \in [Ids -> Nat]
  BY <1>1, <1>2 DEF Shapes, Places, NoText
<1>4. ReadingOf(log[s]) \in Readings /\ log[s] \in Seq(Records)
  BY <1>1 DEF Transcript, Whole, Shapes
<1>5. r \in Records /\ Reads(ReadingOf(log[s]), r) = ReadingOf(log[s])
  BY ReadsError
<1> HIDE DEF r
<1>6. /\ log' \in [Ids -> Seq(Records)] /\ \A q \in Ids \ {s} : log'[q] = log[q]
      /\ log'[s] = IF quiet[s] THEN log[s] ELSE log[s] \o <<r>>
  <2>1. log \in [Ids -> Seq(Records)]
    BY <1>1 DEF Shapes
  <2>2. CASE quiet[s]
    BY <1>2, <2>1, <2>2
  <2>3. CASE ~quiet[s]
    <3>1. log[s] \o <<r>> \in Seq(Records)
      BY <1>4, <1>5
    <3> QED
      BY <1>2, <2>1, <2>3, <3>1
  <2> QED
    BY <2>2, <2>3
<1>7. ReadingOf(log'[s]) = ReadingOf(log[s])
  BY <1>4, <1>5, <1>6, ReadingOfNext
<1>8. Shapes'
  BY <1>1, <1>2, <1>3, <1>6 DEF Shapes
<1>9. \A q \in Ids \ {s} : Same(q)
  BY <1>1, <1>2, <1>6 DEF Same, Shapes
<1>10. Kept(s)'
  BY <1>1, <1>2, <1>3, <1>6 DEF Kept, Bare
<1>11. Asking(s)'
  BY <1>3 DEF Asking
<1>12. Ledgers(s)'
  BY <1>1, <1>2, <1>3 DEF Ledgers, Load, Held
<1>13. Transcript(s)'
  <2>1. Pairs(log'[s]) = Pairs(log[s])
    BY <1>7, PairsAre
  <2>2. Whole(s) => (log'[s] # <<>> => meta[s])
    BY <1>1, <1>2, <1>6 DEF Transcript, Whole
  <2>3. Whole(s)' => Whole(s)
    BY <1>2, <1>3 DEF Whole
  <2> QED
    BY <1>1, <1>2, <1>3, <1>7, <2>1, <2>2, <2>3 DEF Transcript
<1> QED
  BY <1>8, <1>9, <1>10, <1>11, <1>12, <1>13, OneAtATime DEF SessionInv

\* /clear cuts the transcript where it empties the turns.
LEMMA ClearKeeps ==
  ASSUME Inv, NEW s \in Ids, Clear(s)
  PROVE  Inv'
<1> DEFINE r == Record("clear", NoText)
<1>1. Shapes /\ Kept(s) /\ Asking(s) /\ Ledgers(s) /\ Transcript(s)
  BY DEF Inv, SessionInv
<1>2. /\ at[s] = "rest" /\ held' = [held EXCEPT ![s] = NoLedger]
      /\ worked' = [worked EXCEPT ![s] = {}]
      /\ UNCHANGED <<at, quiet, asking, asked, meta, fold, runs, broken>>
  BY DEF Clear
<1>3. held'[s] = NoLedger /\ worked'[s] = {} /\ Held(s)' = {}
  BY <1>1, <1>2 DEF Shapes, Held
<1>4. held' \in [Ids -> SUBSET Nat] /\ worked' \in [Ids -> SUBSET Nat]
  BY <1>1, <1>2 DEF Shapes, NoLedger, NoText
<1>5. Asking(s)'
  BY <1>2 DEF Asking
<1>6. CASE quiet[s]
  <2>1. UNCHANGED <<log, ledger, said>>
    BY <1>6 DEF Clear, Writes
  <2>2. Shapes'
    BY <1>1, <1>2, <1>4, <2>1 DEF Shapes
  <2>3. \A q \in Ids \ {s} : Same(q)
    BY <1>1, <1>2, <2>1 DEF Same, Shapes
  <2>4. Kept(s)'
    BY <1>1, <1>2, <1>6, <2>1 DEF Kept, Bare
  <2>5. Ledgers(s)'
    BY <1>1, <1>2, <1>3, <1>6, <2>1 DEF Ledgers, Load
  <2>6. Transcript(s)'
    BY <1>1, <1>2, <2>1 DEF Transcript, Whole
  <2> QED
    BY <1>5, <2>2, <2>3, <2>4, <2>5, <2>6, OneAtATime DEF SessionInv
<1>7. CASE ~quiet[s]
  <2>1. /\ log' = [log EXCEPT ![s] = @ \o <<r>>] /\ ledger' = [ledger EXCEPT ![s] = {}]
        /\ said' = [said EXCEPT ![s] = <<>>]
    BY <1>7 DEF Clear, Writes
  <2>2. log \in [Ids -> Seq(Records)] /\ r \in Records /\ Reads(ReadingOf(log[s]), r) = Blank
    BY <1>1, ReadsClear DEF Shapes
  <2> HIDE DEF r
  <2>3. log'[s] = log[s] \o <<r>> /\ log'[s] \in Seq(Records) /\ log' \in [Ids -> Seq(Records)]
    <3>1. log[s] \o <<r>> \in Seq(Records)
      BY <2>2
    <3> QED
      BY <2>1, <2>2, <3>1
  <2>4. ReadingOf(log'[s]) = Blank
    BY <2>2, <2>3, ReadingOfNext
  <2>5. said'[s] = <<>> /\ ledger'[s] = {}
    BY <1>1, <2>1 DEF Shapes
  <2>6. Shapes'
    BY <1>1, <1>2, <1>4, <2>1, <2>3 DEF Shapes
  <2>7. \A q \in Ids \ {s} : Same(q)
    BY <1>1, <1>2, <2>1 DEF Same, Shapes
  <2>8. Kept(s)'
    BY <1>2, <1>7 DEF Kept
  <2>9. Ledgers(s)'
    BY <1>1, <1>2, <1>3, <1>7, <2>5 DEF Ledgers, Load
  <2>10. Transcript(s)'
    <3>1. Pairs(log'[s]) = said'[s] /\ Len(said'[s]) = 0
      BY <2>4, <2>5, BlankIsReading, NothingSaid, PairsAre
    <3>2. ReadingOf(log'[s]) \in Readings
      BY <2>4, BlankIsReading
    <3>3. meta[s] => \A i \in 1 .. Len(said'[s]) : said'[s][i].user # NoText
      BY <3>1
    <3> QED
      BY <1>1, <1>2, <1>7, <3>1, <3>2, <3>3 DEF Transcript, Whole
  <2> QED
    BY <1>5, <2>6, <2>7, <2>8, <2>9, <2>10, OneAtATime DEF SessionInv
<1> QED
  BY <1>6, <1>7

\* What is at each index of two sequences put together.
LEMMA BothParts ==
  ASSUME NEW S, NEW a \in Seq(S), NEW b \in Seq(S), NEW i \in 1 .. Len(a \o b)
  PROVE  \/ i \in 1 .. Len(a) /\ (a \o b)[i] = a[i]
         \/ i - Len(a) \in 1 .. Len(b) /\ (a \o b)[i] = b[i - Len(a)]
<1>1. Len(a) \in Nat /\ Len(b) \in Nat /\ i \in 1 .. Len(a) + Len(b)
  OBVIOUS
<1>2. CASE i <= Len(a)
  BY <1>1, <1>2
<1>3. CASE ~(i <= Len(a))
  <2>1. i - Len(a) \in 1 .. Len(b)
    BY <1>1, <1>3
  <2>2. (a \o b)[i] = b[i - Len(a)]
    BY <1>1, <1>3
  <2> QED
    BY <2>1, <2>2
<1> QED
  BY <1>2, <1>3

\* /resume: what the other session said is now said by this one, and the copy
\* in its transcript reads so.
LEMMA ResumeKeeps ==
  ASSUME Inv, NEW s \in Ids, NEW t \in Ids, Resume(s, t)
  PROVE  Inv'
<1>1. Shapes /\ Kept(s) /\ Asking(s) /\ Ledgers(s) /\ Transcript(s) /\ Transcript(t)
  BY DEF Inv, SessionInv
<1>2. /\ at[s] = "rest" /\ meta[t]
      /\ UNCHANGED <<at, quiet, held, asking, asked, meta, fold, ledger, runs, worked>>
      /\ broken' = IF Whole(t) THEN broken ELSE broken \union {s}
  BY DEF Resume
<1>3. Kept(s)' /\ Asking(s)' /\ Ledgers(s)'
  <2>1. quiet[s] => UNCHANGED <<log, said>>
    BY DEF Resume, Writes
  <2> QED
    BY <1>1, <1>2, <2>1 DEF Kept, Bare, Asking, Ledgers, Load, Held
<1>4. CASE quiet[s]
  <2>1. UNCHANGED <<log, said>>
    BY <1>4 DEF Resume, Writes
  <2>2. Shapes'
    BY <1>1, <1>2, <2>1 DEF Shapes
  <2>3. \A q \in Ids \ {s} : Same(q)
    BY <1>1, <1>2, <2>1 DEF Same, Shapes
  <2>4. Transcript(s)'
    BY <1>1, <1>2, <2>1 DEF Transcript, Whole
  <2> QED
    BY <1>3, <2>2, <2>3, <2>4, OneAtATime DEF SessionInv
<1>5. CASE ~quiet[s]
  <2> DEFINE ts == Pairs(log[t])
  <2>1. Whole(t) => ts = said[t] /\ \A i \in 1 .. Len(said[t]) : said[t][i].user # NoText
    BY <1>1, <1>2 DEF Transcript
  <2>2. /\ log' = [log EXCEPT ![s] = @ \o Copies(ts)]
        /\ said' = [said EXCEPT ![s] = @ \o said[t]]
    BY <1>5 DEF Resume, Writes
  <2>3. /\ log[s] \in Seq(Records) /\ said[s] \in Seq(Turns) /\ said[t] \in Seq(Turns)
        /\ ReadingOf(log[s]) \in Readings /\ ts \in Seq(Turns)
    <3>1. ReadingOf(log[s]) \in Readings /\ ReadingOf(log[t]) \in Readings
      BY <1>1 DEF Transcript
    <3>2. ts \in Seq(Turns)
      BY <3>1, FlushedType, PairsAre
    <3> QED
      BY <1>1, <3>1, <3>2 DEF Shapes
  <2> HIDE DEF ts
  <2>4. /\ Copies(ts) \in Seq(Records)
        /\ ReadingOf(log[s] \o Copies(ts)) \in Readings
        /\ (\A i \in 1 .. Len(ts) : ts[i].user # NoText) =>
             Flushed(ReadingOf(log[s] \o Copies(ts))) = Flushed(ReadingOf(log[s])) \o ts
    BY <2>3, CopiesRead
  <2>5. log'[s] = log[s] \o Copies(ts) /\ said'[s] = said[s] \o said[t]
    BY <1>1, <2>2 DEF Shapes
  <2>6. log' \in [Ids -> Seq(Records)] /\ said' \in [Ids -> Seq(Turns)]
    <3>1. log[s] \o Copies(ts) \in Seq(Records) /\ said[s] \o said[t] \in Seq(Turns)
      BY <2>3, <2>4
    <3> QED
      BY <1>1, <2>2, <3>1 DEF Shapes
  <2>7. Shapes'
    BY <1>1, <1>2, <2>6 DEF Shapes
  <2>8. \A q \in Ids \ {s} : Same(q)
    BY <1>1, <1>2, <2>2 DEF Same, Shapes
  <2>9. Transcript(s)'
    <3>1. ReadingOf(log'[s]) \in Readings
      BY <2>4, <2>5
    <3>2. SUFFICES ASSUME Whole(s)'
                   PROVE  Transcript(s)'
      BY <3>1 DEF Transcript
    <3>3. Whole(s) /\ Whole(t) /\ meta[s]
      <4>1. s \notin broken'
        BY <3>2 DEF Whole
      <4>2. Whole(t)
        BY <1>2, <4>1
      <4>3. Whole(s)
        BY <1>2, <4>1, <4>2 DEF Whole
      <4> QED
        BY <1>1, <1>2, <1>5, <4>2, <4>3 DEF Transcript
    <3>4. Pairs(log'[s]) = said'[s]
      <4>1. Flushed(ReadingOf(log[s])) = said[s]
        BY <1>1, <3>3, PairsAre DEF Transcript
      <4>2. Pairs(log'[s]) = Flushed(ReadingOf(log[s])) \o said[t]
        BY <2>1, <2>4, <2>5, <3>3, PairsAre
      <4> QED
        BY <2>5, <4>1, <4>2
    <3>5. \A i \in 1 .. Len(said'[s]) : said'[s][i].user # NoText
      <4>1. \A i \in 1 .. Len(said'[s]) :
              \/ i \in 1 .. Len(said[s]) /\ said'[s][i] = said[s][i]
              \/ i - Len(said[s]) \in 1 .. Len(said[t]) /\ said'[s][i] = said[t][i - Len(said[s])]
        <5>1. \A a, b \in Seq(Turns) : \A i \in 1 .. Len(a \o b) :
                \/ i \in 1 .. Len(a) /\ (a \o b)[i] = a[i]
                \/ i - Len(a) \in 1 .. Len(b) /\ (a \o b)[i] = b[i - Len(a)]
          BY BothParts
        <5>2. said[s] \in Seq(Turns) /\ said[t] \in Seq(Turns)
          BY <2>3
        <5>3. \A i \in 1 .. Len(said[s] \o said[t]) :
                \/ i \in 1 .. Len(said[s]) /\ (said[s] \o said[t])[i] = said[s][i]
                \/ /\ i - Len(said[s]) \in 1 .. Len(said[t])
                   /\ (said[s] \o said[t])[i] = said[t][i - Len(said[s])]
          BY <5>1, <5>2, Zenon
        <5>4. said'[s] = said[s] \o said[t]
          BY <2>5
        <5> QED
          BY <5>3, <5>4, Zenon
      <4>2. \A i \in 1 .. Len(said[s]) : said[s][i].user # NoText
        BY <1>1, <3>3 DEF Transcript
      <4>3. \A i \in 1 .. Len(said[t]) : said[t][i].user # NoText
        BY <2>1, <3>3
      <4> QED
        BY <4>1, <4>2, <4>3
    <3> QED
      BY <1>2, <3>1, <3>3, <3>4, <3>5 DEF Transcript
  <2> QED
    BY <1>3, <2>7, <2>8, <2>9, OneAtATime DEF SessionInv
<1> QED
  BY <1>4, <1>5

\* /ephemeral on: the memory takes over the ledger.
LEMMA EnableKeeps ==
  ASSUME Inv, NEW s \in Ids, Enable(s)
  PROVE  Inv'
<1>1. Shapes /\ Kept(s) /\ Asking(s) /\ Ledgers(s) /\ Transcript(s)
  BY DEF Inv, SessionInv
<1>2. /\ at[s] = "rest" /\ ~quiet[s] /\ at' = [at EXCEPT ![s] = "enabled"]
      /\ quiet' = [quiet EXCEPT ![s] = TRUE]
      /\ UNCHANGED <<asking, asked, meta, log, fold, ledger, runs, said, worked, broken>>
  BY DEF Enable, To, disk, directory, history
<1>3. held' = [held EXCEPT ![s] = ledger[s]]
  <2>1. held[s] = NoLedger
    BY <1>1, <1>2 DEF Ledgers
  <2> QED
    BY <2>1 DEF Enable, HoldLedger
<1>4. at'[s] = "enabled" /\ quiet'[s] = TRUE /\ held'[s] = ledger[s]
  BY <1>1, <1>2, <1>3 DEF Shapes
<1>5. Shapes'
  BY <1>1, <1>2, <1>3 DEF Shapes, Places
<1>6. \A q \in Ids \ {s} : Same(q)
  BY <1>1, <1>2, <1>3 DEF Same, Shapes
<1>7. Kept(s)' /\ Asking(s)'
  BY <1>4 DEF Kept, Asking
<1>8. Ledgers(s)'
  <2>1. Load(s) = ledger[s] /\ ledger[s] # NoLedger
    BY <1>1, <1>2 DEF Load, Ledgers, NoLedger
  <2>2. Load(s)' = ledger[s]
    BY <1>4, <2>1 DEF Load, Held
  <2> QED
    BY <1>1, <1>2, <1>4, <2>1, <2>2 DEF Ledgers
<1>9. Transcript(s)'
  BY <1>1, <1>2, <1>4 DEF Transcript, Whole
<1> QED
  BY <1>5, <1>6, <1>7, <1>8, <1>9, OneAtATime DEF SessionInv

\* Of the directory of a session a part goes, and nothing else changes on disk.
LEMMA DirectoryGoes ==
  ASSUME NEW s \in Ids, Shapes, Removes(s)
  PROVE  /\ meta' \in [Ids -> BOOLEAN] /\ log' \in [Ids -> Seq(Records)]
         /\ fold' = [q \in Ids |-> fold'[q]] /\ ledger' \in [Ids -> SUBSET Nat]
         /\ meta'[s] => meta[s]
         /\ log'[s] \in {<<>>, log[s]} /\ fold'[s] \in {{}, fold[s]} /\ ledger'[s] \in {{}, ledger[s]}
         /\ \A q \in Ids \ {s} : /\ meta'[q] = meta[q] /\ log'[q] = log[q]
                                 /\ fold'[q] = fold[q] /\ ledger'[q] = ledger[q]
<1>1. PICK m \in BOOLEAN, l \in {<<>>, log[s]}, f \in {{}, fold[s]}, i \in {{}, ledger[s]} :
        /\ m => meta[s]
        /\ meta' = [meta EXCEPT ![s] = m] /\ log' = [log EXCEPT ![s] = l]
        /\ fold' = [fold EXCEPT ![s] = f] /\ ledger' = [ledger EXCEPT ![s] = i]
  <2>1. PICK left :
          /\ meta' = [meta EXCEPT ![s] = @ /\ "meta" \in left]
          /\ log' = [log EXCEPT ![s] = IF "transcript" \in left THEN @ ELSE <<>>]
          /\ fold' = [fold EXCEPT ![s] = IF "fold" \in left THEN @ ELSE {}]
          /\ ledger' = [ledger EXCEPT ![s] = IF "ledger" \in left THEN @ ELSE {}]
    BY DEF Removes
  <2> DEFINE m == meta[s] /\ "meta" \in left
             l == IF "transcript" \in left THEN log[s] ELSE <<>>
             f == IF "fold" \in left THEN fold[s] ELSE {}
             i == IF "ledger" \in left THEN ledger[s] ELSE {}
  <2>2. /\ m \in BOOLEAN /\ l \in {<<>>, log[s]} /\ f \in {{}, fold[s]} /\ i \in {{}, ledger[s]}
        /\ m => meta[s]
    BY DEF Shapes
  <2>3. /\ meta' = [meta EXCEPT ![s] = m] /\ log' = [log EXCEPT ![s] = l]
        /\ fold' = [fold EXCEPT ![s] = f] /\ ledger' = [ledger EXCEPT ![s] = i]
    BY <2>1
  <2> HIDE DEF m, l, f, i
  <2> QED
    BY <2>2, <2>3
<1>2. /\ meta \in [Ids -> BOOLEAN] /\ log \in [Ids -> Seq(Records)]
      /\ fold = [q \in Ids |-> fold[q]] /\ ledger \in [Ids -> SUBSET Nat]
  BY DEF Shapes
<1>3. log' \in [Ids -> Seq(Records)] /\ log'[s] = l /\ \A q \in Ids \ {s} : log'[q] = log[q]
  <2>1. l \in Seq(Records)
    <3>1. <<>> \in Seq(Records)
      OBVIOUS
    <3> QED
      BY <1>2, <3>1
  <2> QED
    BY <1>1, <1>2, <2>1
<1>4. meta' \in [Ids -> BOOLEAN] /\ meta'[s] = m /\ \A q \in Ids \ {s} : meta'[q] = meta[q]
  BY <1>1, <1>2
<1>5. fold' = [q \in Ids |-> fold'[q]] /\ fold'[s] = f /\ \A q \in Ids \ {s} : fold'[q] = fold[q]
  BY <1>1, <1>2
<1>6. ledger' \in [Ids -> SUBSET Nat] /\ ledger'[s] = i /\ \A q \in Ids \ {s} : ledger'[q] = ledger[q]
  BY <1>1, <1>2
<1> QED
  BY <1>1, <1>3, <1>4, <1>5, <1>6

\* The purge takes the directory, part by part, then the telemetry; what it
\* leaves of them breaks the session.
LEMMA PurgeKeeps ==
  ASSUME Inv, NEW s \in Ids, PurgePart(s) \/ PurgeSession(s) \/ PurgeRuns(s)
  PROVE  Inv'
<1>1. Shapes /\ Kept(s) /\ Asking(s) /\ Ledgers(s) /\ Transcript(s)
  BY DEF Inv, SessionInv
<1>2. CASE PurgePart(s) \/ PurgeSession(s)
  <2>1. /\ at[s] \in {"enabled", "purging"} /\ Removes(s)
        /\ at' = [at EXCEPT ![s] = "purging"] \/ at' = [at EXCEPT ![s] = "purged"]
        /\ said' = said \/ said' = [said EXCEPT ![s] = <<>>]
        /\ broken' \in {broken, broken \union {s}}
        /\ UNCHANGED <<quiet, held, asking, asked, runs, worked>>
    BY <1>2 DEF PurgePart, PurgeSession, Broken, history
  <2>2. at'[s] \in {"purging", "purged"} /\ quiet[s]
    BY <1>1, <2>1 DEF Shapes, Kept
  <2>3. at'[s] = "purged" /\ s \notin broken' => Bare(s)' /\ said'[s] = <<>>
    <3>1. SUFFICES ASSUME at'[s] = "purged", s \notin broken'
                   PROVE  Bare(s)' /\ said'[s] = <<>>
      OBVIOUS
    <3>2. PurgeSession(s)
      BY <1>1, <1>2, <3>1 DEF PurgePart, Shapes
    <3>3. said' = [said EXCEPT ![s] = <<>>]
      BY <3>2 DEF PurgeSession
    <3>4. Bare(s)'
      BY <3>1, <3>2 DEF PurgeSession, Broken
    <3> QED
      BY <1>1, <3>3, <3>4 DEF Shapes
  <2>4. Shapes'
    <3>1. said' \in [Ids -> Seq(Turns)]
      <4>1. said \in [Ids -> Seq(Turns)] /\ <<>> \in Seq(Turns)
        BY <1>1 DEF Shapes
      <4>2. said' = said \/ said' = [said EXCEPT ![s] = <<>>]
        BY <2>1
      <4> QED
        BY <4>1, <4>2
    <3>2. at' \in [Ids -> Places]
      BY <1>1, <2>1 DEF Shapes, Places
    <3> QED
      BY <1>1, <2>1, <3>1, <3>2, DirectoryGoes DEF Shapes
  <2>5. \A q \in Ids \ {s} : Same(q)
    <3>1. \A q \in Ids \ {s} : /\ meta'[q] = meta[q] /\ log'[q] = log[q]
                                /\ fold'[q] = fold[q] /\ ledger'[q] = ledger[q]
      BY <1>1, <2>1, DirectoryGoes
    <3> QED
      BY <1>1, <2>1, <3>1 DEF Same, Shapes
  <2>6. Kept(s)' /\ Asking(s)'
    BY <2>1, <2>2, <2>3 DEF Kept, Asking
  <2>7. Ledgers(s)'
    <3>1. ledger'[s] \in {{}, ledger[s]}
      BY <1>1, <2>1, DirectoryGoes
    <3> QED
      BY <1>1, <2>1, <2>2, <3>1 DEF Ledgers, Load, Held
  <2>8. Transcript(s)'
    <3>1. ReadingOf(log'[s]) \in Readings
      <4>1. log'[s] \in {<<>>, log[s]}
        BY <1>1, <2>1, DirectoryGoes
      <4> QED
        BY <1>1, <4>1, NothingSaid DEF Transcript
    <3>2. Whole(s)' => ~meta'[s] /\ log'[s] = <<>>
      BY <2>2, <2>3 DEF Whole, Bare
    <3> QED
      BY <2>2, <3>1, <3>2 DEF Transcript
  <2> QED
    BY <2>4, <2>5, <2>6, <2>7, <2>8, OneAtATime DEF SessionInv
<1>3. CASE PurgeRuns(s)
  <2>1. PICK left \in SUBSET runs[s] :
          runs' = [runs EXCEPT ![s] = left] /\ Broken(s, left = {})
    BY <1>3 DEF PurgeRuns
  <2>2. /\ at[s] = "purged" /\ at' = [at EXCEPT ![s] = "rest"]
        /\ UNCHANGED <<quiet, held, asking, asked, meta, log, fold, ledger, said, worked>>
    BY <1>3 DEF PurgeRuns, To, directory
  <2>3. broken' \in {broken, broken \union {s}} /\ (s \notin broken' => left = {})
    BY <2>1 DEF Broken
  <2>4. at'[s] = "rest" /\ runs'[s] = left /\ quiet[s]
    BY <1>1, <2>1, <2>2 DEF Shapes, Kept
  <2>5. Shapes'
    <3>1. runs' \in [Ids -> SUBSET Nat]
      BY <1>1, <2>1 DEF Shapes
    <3> QED
      BY <1>1, <2>2, <3>1 DEF Shapes, Places
  <2>6. \A q \in Ids \ {s} : Same(q)
    BY <1>1, <2>1, <2>2, <2>3 DEF Same, Shapes
  <2>7. Kept(s)' /\ Asking(s)'
    BY <1>1, <2>2, <2>3, <2>4 DEF Kept, Bare, Asking
  <2>8. Ledgers(s)'
    BY <1>1, <2>1, <2>2, <2>3, <2>4 DEF Ledgers, Load, Held
  <2>9. Transcript(s)'
    <3>1. Whole(s)' => Whole(s)
      BY <2>2, <2>3 DEF Whole
    <3> QED
      BY <1>1, <2>2, <2>4, <3>1 DEF Transcript
  <2> QED
    BY <2>5, <2>6, <2>7, <2>8, <2>9, OneAtATime DEF SessionInv
<1> QED
  BY <1>2, <1>3

\* /ephemeral off: the directory comes back, empty if the purge was whole.
LEMMA DisableKeeps ==
  ASSUME Inv, NEW s \in Ids, Disable(s)
  PROVE  Inv'
<1>1. Shapes /\ Kept(s) /\ Asking(s) /\ Ledgers(s) /\ Transcript(s)
  BY DEF Inv, SessionInv
<1>2. /\ at[s] = "rest" /\ quiet[s] /\ quiet' = [quiet EXCEPT ![s] = FALSE]
      /\ meta' = [meta EXCEPT ![s] = TRUE]
      /\ held' = [held EXCEPT ![s] = NoLedger] /\ worked' = [worked EXCEPT ![s] = {}]
      /\ UNCHANGED <<at, asking, asked, log, fold, ledger, runs, said, broken>>
  BY DEF Disable
<1>3. quiet'[s] = FALSE /\ meta'[s] = TRUE /\ held'[s] = NoLedger /\ worked'[s] = {}
  BY <1>1, <1>2 DEF Shapes
<1>4. s \notin broken => log[s] = <<>> /\ ledger[s] = {} /\ said[s] = <<>>
  BY <1>1, <1>2 DEF Kept, Bare
<1>5. Shapes'
  BY <1>1, <1>2 DEF Shapes, NoLedger, NoText
<1>6. \A q \in Ids \ {s} : Same(q)
  BY <1>1, <1>2 DEF Same, Shapes
<1>7. Kept(s)' /\ Asking(s)'
  BY <1>2, <1>3 DEF Kept, Asking
<1>8. Ledgers(s)'
  BY <1>1, <1>2, <1>3, <1>4 DEF Ledgers, Load
<1>9. Transcript(s)'
  <2>1. Whole(s)' => log'[s] = <<>> /\ said'[s] = <<>>
    BY <1>2, <1>4 DEF Whole
  <2> QED
    BY <1>1, <1>2, <1>3, <2>1, NothingSaid DEF Transcript
<1> QED
  BY <1>5, <1>6, <1>7, <1>8, <1>9, OneAtATime DEF SessionInv

\* Whatever the process was at, its death leaves a disk that resumes.
LEMMA DieKeeps ==
  ASSUME Inv, NEW s \in Ids, Die(s)
  PROVE  Inv'
<1>1. Shapes /\ Kept(s) /\ Asking(s) /\ Ledgers(s) /\ Transcript(s)
  BY DEF Inv, SessionInv
<1>2. /\ at' = [at EXCEPT ![s] = "gone"] /\ quiet' = [quiet EXCEPT ![s] = FALSE]
      /\ held' = [held EXCEPT ![s] = NoLedger] /\ asking' = [asking EXCEPT ![s] = NoText]
      /\ worked' = [worked EXCEPT ![s] = {}]
      /\ broken' \in {broken, broken \union {s}}
      /\ s \notin broken' /\ at[s] = "purging" => Bare(s)
      /\ UNCHANGED <<asked, meta, log, fold, ledger, runs, said>>
  BY DEF Die, directory, Broken
<1>3. at'[s] = "gone" /\ quiet'[s] = FALSE /\ held'[s] = NoLedger
  BY <1>1, <1>2 DEF Shapes
<1>4. Shapes'
  BY <1>1, <1>2 DEF Shapes, Places, NoLedger, NoText
<1>5. \A q \in Ids \ {s} : Same(q)
  BY <1>1, <1>2 DEF Same, Shapes
<1>6. Kept(s)' /\ Asking(s)'
  BY <1>3 DEF Kept, Asking
<1>7. Ledgers(s)'
  BY <1>1, <1>2, <1>3 DEF Ledgers
<1>8. Transcript(s)'
  <2>1. Whole(s)' => Whole(s) \/ Bare(s)
    BY <1>2 DEF Whole
  <2>2. Bare(s) => ~meta[s] /\ log[s] = <<>>
    BY DEF Bare
  <2> QED
    BY <1>1, <1>2, <1>3, <2>1, <2>2 DEF Transcript
<1> QED
  BY <1>4, <1>5, <1>6, <1>7, <1>8, OneAtATime DEF SessionInv

\* The eviction takes the directory of a session, or a part of it, running or not.
LEMMA EvictKeeps ==
  ASSUME Inv, NEW s \in Ids, NEW t \in Ids, Evict(s, t)
  PROVE  Inv'
<1>1. Shapes /\ Kept(t) /\ Asking(t) /\ Ledgers(t) /\ Transcript(t)
  BY DEF Inv, SessionInv
<1>2. /\ Removes(t) /\ Broken(t, directory' = directory)
      /\ UNCHANGED <<at, quiet, held, asking, asked, runs, said, worked>>
  BY DEF Evict, process
<1>3. broken' \in {broken, broken \union {t}}
      /\ (t \notin broken' => UNCHANGED <<meta, log, fold, ledger>>)
  BY <1>2 DEF Broken, directory
<1>4. /\ meta'[t] => meta[t]
      /\ log'[t] \in {<<>>, log[t]} /\ fold'[t] \in {{}, fold[t]} /\ ledger'[t] \in {{}, ledger[t]}
  BY <1>1, <1>2, DirectoryGoes
<1>5. Shapes'
  BY <1>1, <1>2, DirectoryGoes DEF Shapes
<1>6. \A q \in Ids \ {t} : Same(q)
  <2>1. \A q \in Ids \ {t} : /\ meta'[q] = meta[q] /\ log'[q] = log[q]
                             /\ fold'[q] = fold[q] /\ ledger'[q] = ledger[q]
    BY <1>1, <1>2, DirectoryGoes
  <2> QED
    BY <1>1, <1>2, <1>3, <2>1 DEF Same, Shapes
<1>7. Kept(t)' /\ Asking(t)'
  <2>1. Bare(t) => Bare(t)'
    BY <1>4 DEF Bare
  <2>2. t \notin broken' => t \notin broken
    BY <1>3
  <2> QED
    BY <1>1, <1>2, <2>1, <2>2 DEF Kept, Asking
<1>8. Ledgers(t)'
  BY <1>1, <1>2, <1>3, <1>4 DEF Ledgers, Load, Held
<1>9. Transcript(t)'
  <2>1. ReadingOf(log'[t]) \in Readings
    BY <1>1, <1>4, NothingSaid DEF Transcript
  <2>2. Whole(t)' => Whole(t) /\ UNCHANGED <<meta, log>>
    BY <1>2, <1>3 DEF Whole
  <2> QED
    BY <1>1, <1>2, <2>1, <2>2 DEF Transcript
<1> QED
  BY <1>5, <1>6, <1>7, <1>8, <1>9, OneAtATime DEF SessionInv

-----------------------------------------------------------------------------
(***************************************************************************)
(* The invariant holds, and what follows from it.                          *)
(***************************************************************************)

LEMMA InitInv == Init => Inv
<1> SUFFICES ASSUME Init PROVE Inv
  OBVIOUS
<1>1. Shapes
  BY SessionsAssumption DEF Init, Shapes, Places, OnRecord, NoLedger, NoText
<1>2. ASSUME NEW s \in Ids
      PROVE  SessionInv(s)
  <2>1. /\ at[s] = "unborn" /\ ~quiet[s] /\ held[s] = NoLedger /\ ~meta[s] /\ log[s] = <<>>
        /\ fold[s] = {} /\ ledger[s] = {} /\ runs[s] = {} /\ said[s] = <<>> /\ worked[s] = {}
    BY DEF Init
  <2>2. Kept(s) /\ Asking(s)
    BY <2>1 DEF Kept, Bare, Asking
  <2>3. Ledgers(s)
    BY <2>1 DEF Ledgers
  <2>4. Transcript(s)
    BY <2>1, NothingSaid DEF Transcript, Whole
  <2> QED
    BY <2>2, <2>3, <2>4 DEF SessionInv
<1> QED
  BY <1>1, <1>2 DEF Inv

LEMMA StepInv == Inv /\ [Next]_vars => Inv'
<1> SUFFICES ASSUME Inv, [Next]_vars PROVE Inv'
  OBVIOUS
<1>1. ASSUME UNCHANGED <<process, disk, asked, history>>
      PROVE  Inv'
  <2>1. /\ UNCHANGED <<at, quiet, held, asking, asked, meta, log, fold>>
        /\ UNCHANGED <<ledger, runs, said, worked, broken>>
    BY <1>1 DEF process, disk, directory, history
  <2>2. Shapes'
    BY <2>1 DEF Inv, Shapes
  <2>3. \A s \in Ids : Same(s)
    BY <2>1 DEF Same
  <2> QED
    BY <2>2, <2>3, SameKeeps DEF Inv
<1>2. CASE UNCHANGED vars
  BY <1>1, <1>2 DEF vars
<1>3. ASSUME NEW s \in Ids, Age(s)
      PROVE  Inv'
  BY <1>1, <1>3 DEF Age
<1>4. ASSUME NEW s \in Ids, NEW b \in BOOLEAN, Start(s, b) \/ Ask(s, b)
      PROVE  Inv'
  BY <1>4, StartKeeps, AskKeeps
<1>5. ASSUME NEW s \in Ids, NEW text \in {asking[s], NoText}, Answer(s, text)
      PROVE  Inv'
  BY <1>5, AnswerKeeps
<1>6. ASSUME NEW s \in Ids, Work(s) \/ Raise(s) \/ Clear(s) \/ Die(s)
      PROVE  Inv'
  BY <1>6, WorkKeeps, RaiseKeeps, ClearKeeps, DieKeeps
<1>7. ASSUME NEW s \in Ids, Enable(s) \/ PurgePart(s) \/ PurgeSession(s) \/ PurgeRuns(s) \/ Disable(s)
      PROVE  Inv'
  BY <1>7, EnableKeeps, PurgeKeeps, DisableKeeps
<1>8. ASSUME NEW s \in Ids, NEW t \in Ids, Resume(s, t) \/ Evict(s, t)
      PROVE  Inv'
  BY <1>8, ResumeKeeps, EvictKeeps
<1> QED
  BY <1>2, <1>3, <1>4, <1>5, <1>6, <1>7, <1>8 DEF Next

LEMMA Invariance == Spec => []Inv
  BY InitInv, StepInv, PTL DEF Spec

\* /resume brings back of any session exactly what it has said since its last
\* /clear or purge, in order, with the failed questions and the conversations it
\* resumed itself, and finds every transcript that is not empty, unless an rmtree
\* took a part of its directory or of one it resumed: however many sessions
\* write, resume and evict each other, purge and die meanwhile.
THEOREM WhatIsResumed == Spec => []Resumable
<1>1. Inv => Resumable
  BY DEF Inv, SessionInv, Transcript, Whole, Resumable
<1> QED
  BY <1>1, Invariance, PTL

\* The ledger a turn reads and updates is the work recorded since the last
\* /clear or /ephemeral off, across /ephemeral on and a purge that is half done,
\* wherever it is kept, unless the directory was broken.
THEOREM LedgerIsCarried == Spec => []LedgerFollows
<1>1. Inv => LedgerFollows
  BY DEF Inv, SessionInv, Ledgers, LedgerFollows
<1> QED
  BY <1>1, Invariance, PTL

\* Nothing of an ephemeral session is on disk once a purge that could remove its
\* files is over, and no text of an ephemeral turn is ever in a transcript, a
\* ledger or the telemetry, of its own session or of one that resumed it, whatever
\* the purge left. Not so fold.jsonl, which the theorem does not speak of.
THEOREM NothingIsLeft == Spec => []EphemeralLeavesNothing
<1>1. ASSUME Inv
      PROVE  EphemeralLeavesNothing
  <2>1. ASSUME NEW s \in Ids
        PROVE  Texts(Pairs(log[s])) \subseteq OnRecord
    <3>1. Pairs(log[s]) \in Seq(Turns)
      BY <1>1, FlushedType, PairsAre DEF Inv, SessionInv, Transcript, Whole
    <3>2. \A t \in Range(Pairs(log[s])) : t \in Turns
      BY <3>1 DEF Range
    <3> QED
      BY <3>2 DEF Texts, Turns
  <2>2. Hidden \intersect OnRecord = {}
    BY SessionsAssumption DEF Hidden, All, OnRecord
  <2>3. ASSUME NEW s \in Ids
        PROVE  ledger[s] \subseteq OnRecord /\ runs[s] \subseteq OnRecord
    BY <1>1 DEF Inv, SessionInv, Ledgers
  <2>4. ASSUME NEW s \in Ids, quiet[s] /\ at[s] \in {"rest", "turn"} /\ s \notin broken
        PROVE  Bare(s) /\ runs[s] = {}
    BY <1>1, <2>4 DEF Inv, SessionInv, Kept
  <2> HIDE DEF EphemeralLeavesNothing
  <2>5. \A s \in Ids :
          Hidden \intersect (Texts(Pairs(log[s])) \union ledger[s] \union runs[s]) = {}
    BY <2>1, <2>2, <2>3
  <2> QED
    BY <2>4, <2>5 DEF EphemeralLeavesNothing
<1> QED
  BY <1>1, Invariance, PTL
=============================================================================
