----------------------------- MODULE MCProgress -----------------------------
(* Progress for TLC: two files that differ in length only, the second of one
   chunk at most. *)
EXTENDS Progress

Short == \A file \in {source[NFiles], dest[NFiles]} : file # None => Len(file) <= 1

MCInit == ProgressInit /\ Short
MCSpec == MCInit /\ [][ProgressNext]_progressVars
MCFairSpec == MCSpec /\ ServiceFairness
=============================================================================
