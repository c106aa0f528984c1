------------------------------- MODULE MCSlots -------------------------------
(* Slots for TLC: small sets of connections, reservation requests and keys. *)
EXTENDS Slots, SequencesExt

(* The connections arrive in one order.  Another one only swaps their names,
   and no fairness asks for an arrival, so that unlike a symmetry set this is
   sound for JoinEnds too. *)
InTurn ==
  LET turns == SetToSeq(Conns) IN
  \A n \in 2 .. Len(turns) : pc'[turns[n]] # "new" => pc'[turns[n - 1]] # "new"
=============================================================================
