------------------------------ MODULE MCChannel ------------------------------
(* ChannelUse for TLC: two messages one way and one the other.  With Threshold 0
   and Window 1 the second Write waits for a flush, and a reader that does not
   read stops the writer. *)
EXTENDS ChannelUse

MCLoad == [p \in Ends |-> IF p = "a" THEN 2 ELSE 1]
=============================================================================
