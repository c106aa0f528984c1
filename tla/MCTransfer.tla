------------------------------ MODULE MCTransfer ------------------------------
(* Transfer for TLC: two files of up to two chunks, of which one has at most
   one, with two contents. *)
EXTENDS Transfer

Short == \E i \in Files : Len(source[i]) <= 1

(* The first chunk of the sender's first file that is not empty: always the
   same one.  Another choice only swaps the names of the two contents. *)
Named ==
  LET nonempty == {i \in Files : source[i] # <<>>} IN
  nonempty # {} => source[Min(nonempty)][1] = CHOOSE c \in Chunks : TRUE

MCInit == Init /\ Short /\ Named
MCFairSpec == MCInit /\ [][Next]_vars /\ Fairness
=============================================================================
