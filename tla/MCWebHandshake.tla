--------------------------- MODULE MCWebHandshake ---------------------------
(* WebHandshake for TLC: every mix of peers with at least one browser; and the
   codes they meet by, at the slots where the encoding grows and at the ends. *)
EXTENDS WebHandshake

C == INSTANCE Codes

MCWords == [j \in 0 .. 511 |-> [word |-> j]]
MCPgp == [j \in 0 .. 511 |-> [word |-> 512 + j]]
MCSlots == {0, 1, 127, 128, 129, 255, 16383, 16384, 16385, C!SlotBound - 1}
MCPasses == {<<0, 0>>, <<255, 255>>, <<7, 200, 7>>}

(* What Encode and the older encodings make leads back to slot and pass, in
   either list, and with a random pass when there is no code. *)
ASSUME CodesLeadBack ==
  /\ \A slot \in MCSlots, p \in MCPasses :
       /\ C!NewConn(MCWords, MCPgp, C!ConnCode(MCWords, slot, p), <<1>>) = C!Valid(slot, p)
       /\ \A list \in {MCWords, MCPgp} :
            C!WebCode(MCWords, MCPgp, C!MagicEncode(list, slot, p)) = C!Valid(slot, p)
       /\ C!CreateCode(MCWords, slot, p).code = C!Encode(MCWords, slot, p)
  /\ C!NewConn(MCWords, MCPgp, <<>>, <<1>>) = C!Valid(C!AnySlot, <<1>>)
  /\ C!CreateCode(MCWords, C!Unreachable, <<1>>).err
=============================================================================
