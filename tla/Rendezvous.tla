----------------------------- MODULE Rendezvous -----------------------------
(***************************************************************************)
(* What the signalling server promises about a slot, without locks,        *)
(* channels or timeouts: "relay sets up a rendezvous on a slot and pipes   *)
(* the two websockets together" (signallingserver.go:75).  A connection    *)
(* enters one room and never moves, a room holds two connections at most,  *)
(* and two connections are matched only with each other, both at once, in  *)
(* the room they share.  Slots implements this module.                     *)
(***************************************************************************)
CONSTANTS Conns,   \* the websocket connections
          Rooms,   \* the slots a connection can be put in
          None     \* no room, or no partner

VARIABLES room,    \* room[c]: where connection c is
          partner  \* partner[c]: the connection c is piped to

vars == <<room, partner>>

Init == /\ room = [c \in Conns |-> None]
        /\ partner = [c \in Conns |-> None]

(* A third connection is never let in. *)
Enter(c, i) ==
  /\ room[c] = None
  /\ ~ \E d, e \in Conns : d # e /\ room[d] = i /\ room[e] = i
  /\ room' = [room EXCEPT ![c] = i]
  /\ UNCHANGED partner

Match(c, d) ==
  /\ c # d
  /\ room[c] # None /\ room[c] = room[d]
  /\ partner[c] = None /\ partner[d] = None
  /\ partner' = [partner EXCEPT ![c] = d, ![d] = c]
  /\ UNCHANGED room

Next == \/ \E c \in Conns, i \in Rooms : Enter(c, i)
        \/ \E c, d \in Conns : Match(c, d)

Spec == Init /\ [][Next]_vars
=============================================================================
