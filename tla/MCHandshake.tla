----------------------------- MODULE MCHandshake -----------------------------
(* Handshake for TLC: two passwords are enough for them to agree or differ. *)
EXTENDS Handshake
=============================================================================
