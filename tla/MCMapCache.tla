----------------------------- MODULE MCMapCache -----------------------------
(* Instances of MapCache for TLC: chunks of up to two files. *)
EXTENDS MapCache, SequencesExt
CONSTANTS Readme, Source, Test
Ordered == <<Readme, Source, Test>>
InPairs(S) ==
  LET files == SelectSeq(Ordered, LAMBDA f : f \in S)
  IN  [i \in 1 .. (Len(files) + 1) \div 2 |->
         {files[k] : k \in {2 * i - 1, 2 * i} \cap DOMAIN files}]
Contents == Permutations(Versions)
==============================================================================
