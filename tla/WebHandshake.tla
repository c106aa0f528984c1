---------------------------- MODULE WebHandshake ----------------------------
(***************************************************************************)
(* The handshake with browsers: web/ww.ts, over the cryptography of        *)
(* web/webwormhole.go, against the clients of Handshake or another         *)
(* browser, through the same two read loops.                               *)
(*                                                                         *)
(* A browser is a state machine that websocket events drive.  Its state is *)
(* pc here, under the names of Handshake where both wait for the same      *)
(* message; "localOffer" and "localAnswer" are the states in which it      *)
(* awaits the WebRTC API and further events can arrive, and "thrown" is an *)
(* event handler that ended in an exception.  result is the promise done.  *)
(*                                                                         *)
(* The server tells a client in its InitMsg whether it is the first or the *)
(* second of its slot.  A browser does not look at it: it takes side A     *)
(* when its user typed a code, which the first client of a reserved slot   *)
(* has done as well.                                                       *)
(***************************************************************************)
EXTENDS Handshake, FiniteSets

VARIABLES
  kind,   \* what each peer is: "go" or "web"
  coded,  \* whether the first peer of the slot was given a code, too
  held,   \* candidates that came while the answer was being made
  added   \* candidates given to the RTCPeerConnection

webVars == <<held, added>>
allVars == <<vars, kind, coded, webVars>>

Web == {p \in Peers : kind[p] = "web"}

(* The side a peer takes in the key exchange. *)
Side(p) == IF p \in Web /\ coded THEN "A" ELSE p
Clash == Side("A") = Side("B")


WebLabels == Labels \cup {"localOffer", "localAnswer", "thrown"}

WebTypeOK ==
  /\ pc \in [Peers -> WebLabels]
  /\ result \in [Peers -> Results]
  /\ key \in [Peers -> Passwords \cup {None}]
  /\ {local, remote, opened, exited, closed} \subseteq SUBSET Peers
  /\ toServer \in [Peers -> Seq(Frames)] /\ toClient \in [Peers -> Seq(Frames)]
  /\ kind \in [Peers -> {"go", "web"}] /\ coded \in BOOLEAN
  /\ \A p \in Peers :
       {gathered[p], held[p], added[p], held[p] + added[p]} \subseteq 0 .. MaxCandidates

(* After the InitMsg and the callback that configures the connection. *)
WebInit ==
  /\ kind \in [Peers -> {"go", "web"}] /\ Web # {}
  /\ coded \in BOOLEAN /\ (coded => "B" \in Web)
  /\ Paired([p \in Peers |-> IF Side(p) = "A" THEN "sendPake" ELSE "recvPake"])
  /\ held = [p \in Peers |-> 0] /\ added = [p \in Peers |-> 0]

-----------------------------------------------------------------------------
(* Events at a browser. *)

(* onmessage, for a websocket that the page has not closed. *)
Message(p) == Head(toClient[p])

Hears(p) ==
  /\ p \notin closed
  /\ toClient[p] # <<>> /\ Message(p).type \in Data
  /\ toClient' = [toClient EXCEPT ![p] = Tail(@)]

(* resolve and reject: the first one settles the promise. *)
Settle(p, r) == result' = [result EXCEPT ![p] = IF @ = "none" THEN r ELSE @]

(* The five functions of webwormhole.go, with CPace and secretbox at their
   promise, as in Handshake: "start" and "exchange" make a message; "exchange"
   and "finish" give the key; "open" and "seal" use it. *)
Start(p) == Sends(p, "pake", None)
Finish(p) == key' = [key EXCEPT ![p] = pass[p]]
Exchange(p) == key' = [key EXCEPT ![p] = pass[p]] /\ Sends(p, "pake", None)
Opens(p) == Message(p).key = key[p]
Seal(p, type) == Frame(type, key[p])

(* A websocket that is closed swallows what is sent. *)
SendsIfOpen(p, f) ==
  toServer' = IF p \in closed THEN toServer ELSE [toServer EXCEPT ![p] = Append(@, f)]

(* statePlayer2 up to its return: the PAKE is started at once. *)
WebStart(p) ==
  /\ pc[p] = "sendPake"
  /\ Start(p)
  /\ Goto(p, "recvPake")
  /\ UNCHANGED <<pass, result, key, local, remote, gathered, opened, exited, closed, toClient, relayVars, webVars>>

(* Mutant: the offer is set, and candidates are gathered, before it is sent. *)
WebExchangeGathers(p) ==
  /\ pc[p] = "recvPake" /\ Side(p) = "B"
  /\ Hears(p)
  /\ Exchange(p)
  /\ local' = local \cup {p}
  /\ Goto(p, "localOffer")
  /\ UNCHANGED <<pass, result, remote, gathered, opened, exited, closed, relayVars, webVars>>

(* stateWaitForPAKEA: the key is exchanged and an offer asked for. *)
WebExchange(p) ==
  /\ pc[p] = "recvPake" /\ Side(p) = "B"
  /\ Hears(p)
  /\ Exchange(p)
  /\ Goto(p, "localOffer")
  /\ UNCHANGED <<pass, result, local, remote, gathered, opened, exited, closed, relayVars, webVars>>

(* createOffer is done. *)
WebOffer(p) ==
  /\ pc[p] = "localOffer"
  /\ SendsIfOpen(p, Seal(p, "offer"))
  /\ local' = local \cup {p}
  /\ Goto(p, "recvAnswer")
  /\ UNCHANGED <<pass, result, key, remote, gathered, opened, exited, closed, toClient, relayVars, webVars>>

(* Mutant: a PAKE that gives no key is waited out. *)
WebFinishWaits(p) ==
  /\ pc[p] = "recvPake" /\ Side(p) = "A"
  /\ Hears(p)
  /\ IF Clash THEN UNCHANGED <<pc, key>>
     ELSE /\ Finish(p)
          /\ Goto(p, "recvOffer")
  /\ UNCHANGED <<pass, result, local, remote, gathered, opened, exited, closed, toServer, relayVars, webVars>>

(* stateWaitForPAKEB.  What another side A sent is no answer to a PAKE: it
   gives no key, and the state machine stops with the websocket open. *)
WebFinish(p) ==
  /\ pc[p] = "recvPake" /\ Side(p) = "A"
  /\ Hears(p)
  /\ IF Clash
       THEN Goto(p, "returned") /\ Settle(p, "failed") /\ UNCHANGED key
       ELSE /\ Finish(p)
            /\ Goto(p, "recvOffer")
            /\ UNCHANGED result
  /\ UNCHANGED <<pass, local, remote, gathered, opened, exited, closed, toServer, relayVars, webVars>>

(* Mutant: only the close code. *)
WebBadKeyNoBye(p) ==
  /\ pc[p] \in {"recvOffer", "recvAnswer"}
  /\ Hears(p) /\ ~Opens(p)
  /\ Closing(p, "BadKey")
  /\ Settle(p, "ErrBadKey") /\ Goto(p, "returned")
  /\ UNCHANGED <<pass, key, local, remote, gathered, opened, exited, relayVars, webVars>>

(* A description that cannot be opened: the other side is told with a message
   it cannot open either, and then with the close code. *)
WebBadKey(p) ==
  /\ pc[p] \in {"recvOffer", "recvAnswer"}
  /\ Hears(p) /\ ~Opens(p)
  /\ toServer' = [toServer EXCEPT ![p] = @ \o <<Seal(p, "bye"), Frame("BadKey", None)>>]
  /\ closed' = closed \cup {p}
  /\ Settle(p, "ErrBadKey") /\ Goto(p, "returned")
  /\ UNCHANGED <<pass, key, local, remote, gathered, opened, exited, relayVars, webVars>>

(* Mutant: what secretbox.Open refused is used. *)
WebRecvOfferUnchecked(p) ==
  /\ pc[p] = "recvOffer"
  /\ Hears(p)
  /\ Goto(p, "localAnswer")
  /\ UNCHANGED <<pass, result, key, local, remote, gathered, opened, exited, closed, toServer, relayVars, webVars>>

(* stateWaitForRemoteOffer: the WebRTC API sets the offer and makes an answer. *)
WebRecvOffer(p) ==
  /\ pc[p] = "recvOffer"
  /\ Hears(p) /\ Opens(p)
  /\ Goto(p, "localAnswer")
  /\ UNCHANGED <<pass, result, key, local, remote, gathered, opened, exited, closed, toServer, relayVars, webVars>>

(* Mutant: they are added at once. *)
WebHoldAdds(p) ==
  /\ pc[p] \in {"localAnswer", "thrown"} /\ Side(p) = "A"
  /\ Hears(p)
  /\ added' = [added EXCEPT ![p] = @ + 1]
  /\ UNCHANGED <<pass, clientVars, toServer, relayVars, held>>

(* Meanwhile candidates wait for the promise ... *)
WebHold(p) ==
  /\ pc[p] \in {"localAnswer", "thrown"} /\ Side(p) = "A"
  /\ Hears(p)
  /\ held' = [held EXCEPT ![p] = @ + 1]
  /\ UNCHANGED <<pass, clientVars, toServer, relayVars, added>>

(* Mutant: those that waited are added and kept. *)
WebAnswerKeeps(p) ==
  /\ pc[p] = "localAnswer"
  /\ SendsIfOpen(p, Seal(p, "answer"))
  /\ local' = local \cup {p} /\ remote' = remote \cup {p}
  /\ Settle(p, "ok")
  /\ added' = IF result[p] = "none" THEN [added EXCEPT ![p] = held[p]] ELSE added
  /\ Goto(p, "waitOpen")
  /\ UNCHANGED <<pass, key, gathered, opened, exited, closed, toClient, relayVars, held>>

(* ... which, settled with the answer, lets them go on.  When it was rejected
   before they are lost. *)
WebAnswer(p) ==
  /\ pc[p] = "localAnswer"
  /\ SendsIfOpen(p, Seal(p, "answer"))
  /\ local' = local \cup {p} /\ remote' = remote \cup {p}
  /\ Settle(p, "ok")
  /\ held' = [held EXCEPT ![p] = 0]
  /\ added' = IF result[p] = "none" THEN [added EXCEPT ![p] = held[p]] ELSE added
  /\ Goto(p, "waitOpen")
  /\ UNCHANGED <<pass, key, gathered, opened, exited, closed, toClient, relayVars>>

(* stateWaitForRemoteAnswer. *)
WebRecvAnswer(p) ==
  /\ pc[p] = "recvAnswer"
  /\ Hears(p) /\ Opens(p)
  /\ remote' = remote \cup {p}
  /\ Settle(p, "ok") /\ Goto(p, "waitOpen")
  /\ UNCHANGED <<pass, key, local, gathered, opened, exited, closed, toServer, relayVars, webVars>>

(* stateWaitForCandidates; and stateWaitForLocalAnswer, which stays the state
   when a candidate came in it and does the same once done is settled. *)
WebCandidate(p) ==
  /\ pc[p] = "waitOpen"
  /\ Hears(p)
  /\ added' = [added EXCEPT ![p] = @ + 1]
  /\ UNCHANGED <<pass, clientVars, toServer, relayVars, held>>

(* Mutant: a connection that broke is a normal closure, too. *)
ToldLess(code) == IF code \in {"PeerHungUp", "dropped"} THEN "none" ELSE code

(* onclose: "normal closure" says nothing to the caller. *)
Told(code) == IF code = "PeerHungUp" THEN "none" ELSE code

WebClosed(p) ==
  /\ p \notin closed
  /\ toClient[p] # <<>> /\ Head(toClient[p]).type \in Closes
  /\ closed' = closed \cup {p}
  /\ Settle(p, Told(Head(toClient[p]).type))
  /\ UNCHANGED <<pass, pc, key, local, remote, gathered, opened, exited, toServer, toClient, relayVars, webVars>>

(* Wormhole.close, when ICE has connected or failed. *)
WebClose(p) ==
  /\ p \in (local \cap remote) \ (closed \cup exited)
  /\ \/ local = Peers /\ remote = Peers /\ Closing(p, "WebRTCSuccess")
     \/ Closing(p, "WebRTCFailed")
  /\ UNCHANGED <<pass, pc, result, key, local, remote, gathered, opened, exited, toClient, relayVars, webVars>>

(* createOffer, setRemoteDescription or createAnswer rejects: the handler
   ends there, and nobody catches the exception. *)
WebThrows(p) ==
  /\ pc[p] \in {"localOffer", "localAnswer"}
  /\ Goto(p, "thrown")
  /\ UNCHANGED <<pass, result, key, local, remote, gathered, opened, exited, closed, toServer, toClient, relayVars, webVars>>

-----------------------------------------------------------------------------
(* A client of Handshake gets no key from another side A. *)
GoPakeFails(p) ==
  /\ \E f \in Frames : Reads(p, f)
  /\ Returns(p, "failed")
  /\ UNCHANGED <<pass, key, local, remote, gathered, opened, exited, closed, toServer, relayVars>>

GoStep(p) ==
  /\ p \notin Web
  /\ IF Clash /\ pc[p] = "recvPake" /\ toClient[p] # <<>> /\ Head(toClient[p]).type \in Data
       THEN GoPakeFails(p) ELSE Step(p)
  /\ UNCHANGED webVars

GoTimer(p) == p \notin Web /\ Timer(p) /\ UNCHANGED webVars
GoFails(p) == p \notin Web /\ (WaitFails(p, "failed") \/ LocalError(p)) /\ UNCHANGED webVars

WebStep(p) ==
  /\ p \in Web
  /\ \/ WebStart(p) \/ WebExchange(p) \/ WebOffer(p) \/ WebFinish(p) \/ WebBadKey(p)
     \/ WebRecvOffer(p) \/ WebHold(p) \/ WebAnswer(p) \/ WebRecvAnswer(p)
     \/ WebCandidate(p) \/ WebClosed(p)

WebFails(p) == p \in Web /\ (WebThrows(p) \/ WebClose(p))

Around(p) == SendCandidate(p) \/ Open(p) \/ Exit(p) \/ ReadFails(p)

OfRelay(p) == Relay(p) /\ UNCHANGED webVars

WebNext ==
  /\ \E p \in Peers :
       \/ GoStep(p) \/ GoTimer(p) \/ GoFails(p) \/ WebStep(p) \/ WebFails(p)
       \/ OfRelay(p) \/ (Around(p) /\ UNCHANGED webVars)
  /\ UNCHANGED <<kind, coded>>

WebSpec == WebInit /\ [][WebNext]_allVars

(* As in Handshake; the events of a browser are handled, and the promises of
   the WebRTC API settle. *)
FairWebSpec ==
  /\ WebSpec
  /\ \A p \in Peers :
       /\ WF_allVars(GoStep(p) /\ UNCHANGED <<kind, coded>>)
       /\ WF_allVars(GoTimer(p) /\ UNCHANGED <<kind, coded>>)
       /\ WF_allVars(WebStep(p) /\ UNCHANGED <<kind, coded>>)
       /\ WF_allVars(OfRelay(p) /\ UNCHANGED <<kind, coded>>)

-----------------------------------------------------------------------------
(* Properties. *)

Awaited(p) == CASE pc[p] = "recvPake" -> {"pake"}
                [] pc[p] = "recvOffer" -> {"offer"}
                [] pc[p] = "recvAnswer" -> {"answer", "bye"}
                [] pc[p] \in {"waitOpen", "localAnswer"} -> {"candidate"}
                [] OTHER -> {}

(* Every state of a browser, and every read of a client, finds the message it
   is written for, in all mixes of the two: in particular nothing comes while
   an offer is being made, and only candidates while an answer is. *)
EventsInOrder ==
  \A p \in Peers :
    pc[p] \in {"recvPake", "recvOffer", "recvAnswer", "waitOpen", "localOffer", "localAnswer"}
    /\ p \notin closed /\ toClient[p] # <<>>
      => Head(toClient[p]).type \in Closes \cup Awaited(p)

(* Nothing has failed or ended yet. *)
Undisturbed == closed = {} /\ \A p \in Peers : server[p] = "open" /\ handler[p] = "run"

(* The candidates in a stream. *)
Candidates(s) == Cardinality({j \in 1 .. Len(s) : s[j].type = "candidate"})

(* No candidate is added before the remote description is set, and none is
   lost on the way while both websockets are open. *)
CandidatesKept ==
  \A p \in Web :
    /\ added[p] > 0 => p \in remote
    /\ Undisturbed =>
         gathered[Other(p)] = added[p] + held[p]
           + Candidates(toClient[p]) + Candidates(toServer[Other(p)])

(* Nobody is connected, or accepts a description, across different passwords,
   or when both peers took side A. *)
WebAuthenticated == opened \cup remote # {} => pass["A"] = pass["B"] /\ ~Clash

(* The "bye" of a browser reaches the peer that made the offer before the
   close code does, so that this peer, too, reports the bad key. *)
ByeReportsBadKey == "A" \in Web => result["B"] # "BadKey"

(* A browser that was told, by the close code, that its peer is gone. *)
Hung(p) ==
  /\ p \in Web \cap closed /\ result[p] = "none"
  /\ toClient[p] # <<>> /\ Message(p).type = "PeerHungUp"

(* When a peer's websocket closes, the call of the other one returns, unless
   that one is a browser that heard "peer hung up", which its onclose takes
   for a normal end, or whose handler threw. *)
WebPartnerQuits ==
  \A p \in Peers :
    (p \in closed) ~> (result[Other(p)] # "none" \/ Hung(Other(p)) \/ pc[Other(p)] = "thrown")

(* Two peers that both took side A, as a browser does when it is the first at
   a reserved slot, do not wait for each other: the call of each returns, or
   it is a browser that heard "peer hung up", unless one has an error before
   it has said anything. *)
ClashEnds ==
  Clash => <>((\A p \in Peers : result[p] # "none" \/ Hung(p))
              \/ (\E p \in Peers : result[p] = "local"))
=============================================================================
