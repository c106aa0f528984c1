------------------------------ MODULE Handshake ------------------------------
(***************************************************************************)
(* The signalling handshake of wormhole/dial.go between two paired peers,  *)
(* through the two read loops of relay (signallingserver.go).              *)
(*                                                                         *)
(* Peer A (joinWormhole) is the one the server told ModePeer2: it speaks   *)
(* first in the key exchange and answers.  Peer B (newWormhole) was told   *)
(* ModePeer1: it replies to the key exchange and makes the offer.  Each    *)
(* has a websocket to the server, and the server one handler per           *)
(* websocket that forwards what it reads to the other one's.               *)
(*                                                                         *)
(* CPace is taken at its promise: the keys of the two sides agree exactly  *)
(* when their passwords do, so a key is named for the password.            *)
(***************************************************************************)
EXTENDS Naturals, Sequences

CONSTANTS Passwords,
          MaxCandidates,  \* bound: ICE candidates a peer gathers
          None

Peers == {"A", "B"}
Other(p) == IF p = "A" THEN "B" ELSE "A"

VARIABLES
  pass,      \* the password each peer was given
  pc,        \* where each client is
  result,    \* "none" while the call runs, then how it returned
  key,       \* the derived key
  local,     \* the peers whose SetLocalDescription is done
  remote,    \* the peers whose SetRemoteDescription is done
  gathered,  \* candidates sent so far
  opened,    \* the peers whose data channel opened
  exited,    \* the peers whose process is gone
  closed,    \* the peers that called Close on their websocket
  toServer,  \* frames from each client to its handler
  toClient,  \* frames from the server to each client
  handler,   \* the relay handler of each peer: "run" or "done"
  server     \* the server's end of each websocket: "open" or "closed"

clientVars == <<pc, result, key, local, remote, gathered, opened, exited, closed>>
relayVars == <<handler, server>>
vars == <<pass, clientVars, toServer, toClient, relayVars>>

(* A frame: data sealed with a key (None before there is one), a websocket
   close with its code, or the end of the TCP stream.  Only browsers say
   "bye" (WebHandshake). *)
Frame(type, k) == [type |-> type, key |-> k]
Data == {"pake", "offer", "answer", "candidate", "bye"}
Closes == {"BadKey", "WebRTCFailed", "WebRTCSuccess", "PeerHungUp", "dropped"}
Frames == [type : Data \cup Closes, key : Passwords \cup {None}]

(* None is neither a password nor a code. *)
ASSUME HandshakeAssumption == MaxCandidates \in Nat /\ None \notin Passwords \cup Closes

Labels == {"sendPake", "recvPake", "recvOffer", "sendAnswer", "sendOffer",
           "setLocal", "recvAnswer", "waitOpen", "returned"}
Results == {"none", "ok", "ErrBadKey", "ErrTimedOut", "failed", "local"} \cup Closes

TypeOK ==
  /\ pass \in [Peers -> Passwords]
  /\ pc \in [Peers -> Labels]
  /\ result \in [Peers -> Results]
  /\ key \in [Peers -> Passwords \cup {None}]
  /\ local \subseteq Peers /\ remote \subseteq Peers /\ opened \subseteq Peers
  /\ exited \subseteq Peers /\ closed \subseteq Peers
  /\ gathered \in [Peers -> 0 .. MaxCandidates]
  /\ toServer \in [Peers -> Seq(Frames)] /\ toClient \in [Peers -> Seq(Frames)]
  /\ handler \in [Peers -> {"run", "done"}]
  /\ server \in [Peers -> {"open", "closed"}]

(* Before anything was said; start is where each client begins. *)
Paired(start) ==
  /\ pass \in [Peers -> Passwords]
  /\ pc = start
  /\ result = [p \in Peers |-> "none"]
  /\ key = [p \in Peers |-> None]
  /\ local = {} /\ remote = {} /\ opened = {} /\ exited = {} /\ closed = {}
  /\ gathered = [p \in Peers |-> 0]
  /\ toServer = [p \in Peers |-> <<>>] /\ toClient = [p \in Peers |-> <<>>]
  /\ handler = [p \in Peers |-> "run"]
  /\ server = [p \in Peers |-> "open"]

Init == Paired([p \in Peers |-> IF p = "A" THEN "sendPake" ELSE "recvPake"])

-----------------------------------------------------------------------------
(* Steps of a client. *)

Goto(p, label) == pc' = [pc EXCEPT ![p] = label]
Returns(p, r) == Goto(p, "returned") /\ result' = [result EXCEPT ![p] = r]

Sends(p, type, k) == toServer' = [toServer EXCEPT ![p] = Append(@, Frame(type, k))]

(* ws.Close: nothing more is read from or written to this websocket. *)
Closing(p, code) == Sends(p, code, None) /\ closed' = closed \cup {p}

(* ws.Read returns the next frame when it is data. *)
Reads(p, f) ==
  /\ toClient[p] # <<>> /\ f = Head(toClient[p]) /\ f.type \in Data
  /\ toClient' = [toClient EXCEPT ![p] = Tail(@)]

Reading == {"recvPake", "recvOffer", "recvAnswer"}

(* A read fails with the status the server closed with, and the call returns
   that error without closing its websocket (which is closed). *)
ReadClosed(p) ==
  /\ pc[p] \in Reading
  /\ toClient[p] # <<>> /\ Head(toClient[p]).type \in Closes
  /\ Returns(p, Head(toClient[p]).type)
  /\ closed' = closed \cup {p}
  /\ UNCHANGED <<pass, key, local, remote, gathered, opened, exited, toServer, toClient, relayVars>>

(* exchangeKeySideA writes first; exhangeKeySideB replies, with its key. *)
SendPake(p) ==
  /\ pc[p] = "sendPake"
  /\ Sends(p, "pake", None)
  /\ Goto(p, IF p = "A" THEN "recvPake" ELSE "sendOffer")
  /\ UNCHANGED <<pass, result, key, local, remote, gathered, opened, exited, closed, toClient, relayVars>>

RecvPake(p) ==
  /\ pc[p] = "recvPake"
  /\ \E f \in Frames : Reads(p, f)
  /\ key' = [key EXCEPT ![p] = pass[p]]
  /\ Goto(p, IF p = "A" THEN "recvOffer" ELSE "sendPake")
  /\ UNCHANGED <<pass, result, local, remote, gathered, opened, exited, closed, toServer, relayVars>>

(* Mutant: the local description is set before it is sent. *)
DescribeFirst(p) ==
  /\ \/ /\ pc[p] \in {"sendOffer", "sendAnswer"} /\ p \notin local
        /\ local' = local \cup {p}
        /\ UNCHANGED <<pc, toServer>>
     \/ /\ pc[p] \in {"sendOffer", "sendAnswer"} /\ p \in local
        /\ Sends(p, IF p = "B" THEN "offer" ELSE "answer", key[p])
        /\ Goto(p, IF p = "B" THEN "recvAnswer" ELSE "waitOpen")
        /\ UNCHANGED local
  /\ UNCHANGED <<pass, result, key, remote, gathered, opened, exited, closed, toClient, relayVars>>

(* sendOffer and sendAnswer: the description is written to the websocket, and
   only then set, which starts the gathering of candidates. *)
Describe(p) ==
  /\ \/ /\ pc[p] \in {"sendOffer", "sendAnswer"}
        /\ Sends(p, IF p = "B" THEN "offer" ELSE "answer", key[p])
        /\ Goto(p, "setLocal")
        /\ UNCHANGED local
     \/ /\ pc[p] = "setLocal"
        /\ local' = local \cup {p}
        /\ Goto(p, IF p = "B" THEN "recvAnswer" ELSE "waitOpen")
        /\ UNCHANGED toServer
  /\ UNCHANGED <<pass, result, key, remote, gathered, opened, exited, closed, toClient, relayVars>>

(* The OnICECandidate callback, on a goroutine of its own. *)
SendCandidate(p) ==
  /\ p \in local \ exited /\ gathered[p] < MaxCandidates
  /\ gathered' = [gathered EXCEPT ![p] = @ + 1]
  /\ IF p \in closed THEN UNCHANGED toServer ELSE Sends(p, "candidate", key[p])
  /\ UNCHANGED <<pass, pc, result, key, local, remote, opened, exited, closed, toClient, relayVars>>

(* Mutant: a description that cannot be opened is used all the same. *)
RecvDescriptionUnchecked(p) ==
  /\ pc[p] \in {"recvOffer", "recvAnswer"}
  /\ \E f \in Frames : Reads(p, f)
  /\ remote' = remote \cup {p}
  /\ Goto(p, IF p = "A" THEN "sendAnswer" ELSE "waitOpen")
  /\ UNCHANGED <<pass, result, key, local, gathered, opened, exited, closed, toServer, relayVars>>

(* recvOffer and recvAnwser, when secretbox.Open accepts what was read. *)
RecvDescription(p) ==
  /\ pc[p] \in {"recvOffer", "recvAnswer"}
  /\ \E f \in Frames : Reads(p, f) /\ f.key = key[p]
  /\ remote' = remote \cup {p}
  /\ Goto(p, IF p = "A" THEN "sendAnswer" ELSE "waitOpen")
  /\ UNCHANGED <<pass, result, key, local, gathered, opened, exited, closed, toServer, relayVars>>

(* ... and when it does not: "so the other side knows to quit immediately".
   Only A can see it: B reads nothing that was sealed with another key. *)
RecvBadKey(p) ==
  /\ pc[p] \in {"recvOffer", "recvAnswer"}
  /\ \E f \in Frames : Reads(p, f) /\ f.key # key[p]
  /\ Closing(p, "BadKey")
  /\ Returns(p, "ErrBadKey")
  /\ UNCHANGED <<pass, key, local, remote, gathered, opened, exited, relayVars>>

(* handleRemoteCandidates, running beside waitDataChannelOpen: candidates are
   added as they come, and it ends with the websocket. *)
RecvCandidate(p) ==
  /\ pc[p] = "waitOpen"
  /\ \E f \in Frames : Reads(p, f)
  /\ UNCHANGED <<pass, clientVars, toServer, relayVars>>

RemoteCandidatesEnd(p) ==
  /\ pc[p] = "waitOpen" /\ p \notin closed
  /\ toClient[p] # <<>> /\ Head(toClient[p]).type \in Closes
  /\ closed' = closed \cup {p}
  /\ UNCHANGED <<pass, pc, result, key, local, remote, gathered, opened, exited, toServer, toClient, relayVars>>

(* The data channel opens at one end: ICE needs the descriptions at both. *)
Open(p) ==
  /\ p \notin opened /\ exited = {}
  /\ local = Peers /\ remote = Peers
  /\ opened' = opened \cup {p}
  /\ UNCHANGED <<pass, pc, result, key, local, remote, gathered, exited, closed, toServer, toClient, relayVars>>

CloseUnlessClosed(p, code) ==
  IF p \in closed THEN UNCHANGED <<closed, toServer>> ELSE Closing(p, code)

(* The three cases of waitDataChannelOpen's select: opened, err, 30 s. *)
WaitSucceeds(p) ==
  /\ pc[p] = "waitOpen" /\ p \in opened
  /\ CloseUnlessClosed(p, "WebRTCSuccess")
  /\ Returns(p, "ok")
  /\ UNCHANGED <<pass, key, local, remote, gathered, opened, exited, toClient, relayVars>>

(* Mutant: waitDataChannelOpen has no timer. *)
WaitFailsNoTimer(p, r) ==
  /\ pc[p] = "waitOpen" /\ r # "ErrTimedOut"
  /\ CloseUnlessClosed(p, "WebRTCFailed")
  /\ Returns(p, r)
  /\ UNCHANGED <<pass, key, local, remote, gathered, opened, exited, toClient, relayVars>>

WaitFails(p, r) ==
  /\ pc[p] = "waitOpen"
  /\ CloseUnlessClosed(p, "WebRTCFailed")
  /\ Returns(p, r)
  /\ UNCHANGED <<pass, key, local, remote, gathered, opened, exited, toClient, relayVars>>

(* Every other error (CreateOffer, SetRemoteDescription, a write ...) returns
   with the websocket left open. *)
LocalError(p) ==
  /\ pc[p] \notin {"waitOpen", "returned"}
  /\ Returns(p, "local")
  /\ UNCHANGED <<pass, key, local, remote, gathered, opened, exited, closed, toServer, toClient, relayVars>>

(* The client's process ends, whether it had returned or not; frames it sent
   may be lost with it. *)
Exit(p) ==
  /\ p \notin exited
  /\ exited' = exited \cup {p} /\ closed' = closed \cup {p}
  /\ pc' = [pc EXCEPT ![p] = "returned"]
  /\ result' = [result EXCEPT ![p] = IF @ = "none" THEN "dropped" ELSE @]
  /\ \E sent \in {toServer[p], <<>>} :
       toServer' = [toServer EXCEPT ![p] = Append(sent, Frame("dropped", None))]
  /\ UNCHANGED <<pass, key, local, remote, gathered, opened, toClient, relayVars>>

-----------------------------------------------------------------------------
(* The read loop of relay, for the handler of peer p. *)

(* A message is written to the other websocket; when that fails the handler
   returns and leaves its own websocket open, with nobody to read it. *)
Forward(p) ==
  LET q == Other(p) IN
  /\ handler[p] = "run" /\ server[p] = "open"
  /\ toServer[p] # <<>> /\ Head(toServer[p]).type \in Data
  /\ toServer' = [toServer EXCEPT ![p] = Tail(@)]
  /\ \/ /\ server[q] = "open"
        /\ toClient' = [toClient EXCEPT ![q] = Append(@, Head(toServer[p]))]
        /\ UNCHANGED handler
     \/ /\ server[q] = "closed"
        /\ handler' = [handler EXCEPT ![p] = "done"]
        /\ UNCHANGED toClient
  /\ UNCHANGED <<pass, clientVars, server>>

(* The server's end of websocket p closes with code[p], unless that is None;
   closing again does nothing. *)
CloseServer(code) ==
  /\ server' = [p \in Peers |-> IF code[p] = None THEN server[p] ELSE "closed"]
  /\ toClient' = [p \in Peers |->
       IF code[p] # None /\ server[p] = "open"
         THEN Append(toClient[p], Frame(code[p], None)) ELSE toClient[p]]

(* Mutant: a bad key is counted like a WebRTC failure, and not passed on. *)
PassedNoBadKey(type) == IF type = "dropped" THEN "PeerHungUp" ELSE None

(* Mutant: the status of a failed read is passed on, -1 if it has none. *)
PassedStatus(type) == CASE type = "BadKey" -> "BadKey"
                        [] type = "dropped" -> "-1"
                        [] OTHER -> None

(* The code with which the handler closes the other websocket when its own
   was closed with this one; None when it leaves the other one alone. *)
Passed(type) == CASE type = "BadKey" -> "BadKey"
                  [] type = "dropped" -> "PeerHungUp"
                  [] OTHER -> None

(* The client closed its websocket, or its process ended. *)
ReadClose(p) ==
  /\ handler[p] = "run" /\ server[p] = "open"
  /\ toServer[p] # <<>> /\ Head(toServer[p]).type \in Closes
  /\ LET type == Head(toServer[p]).type IN
       CloseServer([x \in Peers |-> IF x = p THEN type ELSE Passed(type)])
  /\ handler' = [handler EXCEPT ![p] = "done"]
  /\ UNCHANGED <<pass, clientVars, toServer>>

(* conn.Read fails for another reason: the other handler closed this end,
   slotTimeout passed, or the network broke. *)
ReadFails(p) ==
  /\ handler[p] = "run"
  /\ CloseServer([x \in Peers |-> IF x = p THEN "dropped" ELSE "PeerHungUp"])
  /\ handler' = [handler EXCEPT ![p] = "done"]
  /\ UNCHANGED <<pass, clientVars, toServer>>

-----------------------------------------------------------------------------
(* What peer p's program does of itself once it is scheduled. *)
Step(p) ==
  \/ SendPake(p) \/ RecvPake(p) \/ Describe(p)
  \/ RecvDescription(p) \/ RecvBadKey(p) \/ ReadClosed(p)
  \/ RecvCandidate(p) \/ RemoteCandidatesEnd(p) \/ WaitSucceeds(p)

Timer(p) == WaitFails(p, "ErrTimedOut")

Relay(p) == Forward(p) \/ ReadClose(p) \/ (server[p] = "closed" /\ ReadFails(p))

Next == \E p \in Peers :
  \/ Step(p) \/ Timer(p) \/ WaitFails(p, "failed") \/ SendCandidate(p) \/ Open(p)
  \/ LocalError(p) \/ Exit(p)
  \/ Relay(p) \/ ReadFails(p)

Spec == Init /\ [][Next]_vars

(* Programs and handlers that can run do run; 30 s pass.  ICE, local errors,
   the end of a process and slotTimeout are not relied on. *)
Fairness == \A p \in Peers : WF_vars(Step(p)) /\ WF_vars(Timer(p)) /\ WF_vars(Relay(p))

FairSpec == Spec /\ Fairness

-----------------------------------------------------------------------------
(* Properties. *)

(* What a client is written to expect at each read. *)
Expected(p) == CASE pc[p] = "recvPake" -> "pake"
                 [] pc[p] = "recvOffer" -> "offer"
                 [] pc[p] = "recvAnswer" -> "answer"
                 [] pc[p] = "waitOpen" -> "candidate"

(* No message overtakes the one its reader waits for: every read of the
   handshake finds the message it decodes, although candidates are sent from
   another goroutine and nothing tells the types apart on the wire. *)
OrderedSignalling ==
  \A p \in Peers :
    pc[p] \in Reading \cup {"waitOpen"} /\ toClient[p] # <<>>
      => Head(toClient[p]).type \in Closes \cup {Expected(p)}

(* No end of the data channel opens between peers with different passwords,
   nor does either accept the other's description: PAKE authenticates them. *)
Authenticated == opened \cup remote # {} => pass["A"] = pass["B"]

(* When a peer closes its websocket, is closed, or dies, the other one's call
   returns, and never only because slotTimeout is over: "so the other side
   knows to quit immediately" (dial.go:438). *)
PartnerQuits == \A p \in Peers : (p \in closed) ~> (result[Other(p)] # "none")

(* The handshake ends for both peers, whatever fails, except when one returns
   an error that leaves its websocket open. *)
HandshakeEnds ==
  <>((\A p \in Peers : result[p] # "none") \/ (\E p \in Peers : result[p] = "local"))

(* "ErrBadKey is returned when the peer on the same slot uses a different
   password" (dial.go:101): a call that ends over the passwords returns it,
   and not the close code that the other one gave. *)
BadKeyReported == \A p \in Peers : result[p] # "BadKey"
=============================================================================
