--------------------------- MODULE WebHandshakeProofs ---------------------------
(* The safety of WebHandshake, for any set of passwords and number of
   candidates, and all mixes of browsers and other clients. *)
EXTENDS WebHandshake, FiniteSetTheorems, TLAPS

-----------------------------------------------------------------------------
(* The inductive invariant, in named parts: first types, keys and streams. *)

(* The peers were given different passwords. *)
Differ == pass["A"] # pass["B"]

(* What is sealed; a browser and its partner that both took side A never seal
   anything. *)
Sealed == {"offer", "answer", "candidate", "bye"}

(* Frames that peer p may send. *)
From(p) ==
  {f \in Frames : /\ f.key \in {None, pass[p]}
                  /\ f.type \in Sealed => f.key = pass[p]
                  /\ coded => f.type \notin Sealed \cup {"BadKey"}}

(* A stream holds what its sender may send; the relay changes no frame. *)
Streams ==
  /\ toServer \in [Peers -> Seq(Frames)] /\ toClient \in [Peers -> Seq(Frames)]
  /\ \A p \in Peers : toServer[p] \in Seq(From(p)) /\ toClient[p] \in Seq(From(Other(p)))

(* Every variable in its range. *)
Types ==
  /\ pass \in [Peers -> Passwords]
  /\ pc \in [Peers -> WebLabels]
  /\ result \in [Peers -> Results]
  /\ key \in [Peers -> Passwords \cup {None}]
  /\ local \subseteq Peers /\ remote \subseteq Peers /\ opened \subseteq Peers
  /\ exited \subseteq Peers /\ closed \subseteq Peers
  /\ gathered \in [Peers -> 0 .. MaxCandidates]
  /\ handler \in [Peers -> {"run", "done"}]
  /\ server \in [Peers -> {"open", "closed"}]
  /\ kind \in [Peers -> {"go", "web"}]
  /\ coded \in BOOLEAN /\ (coded => kind["B"] = "web")
  /\ held \in [Peers -> Nat] /\ added \in [Peers -> Nat]

(* The labels of each peer, by its kind and its side. *)
LabelsOf(p) ==
  {"recvPake", "returned"} \cup
    IF coded THEN {"sendPake"}
    ELSE {"waitOpen"} \cup
      IF p \in Web
        THEN {"thrown"} \cup
          IF p = "A" THEN {"sendPake", "recvOffer", "localAnswer"} ELSE {"localOffer", "recvAnswer"}
        ELSE {"sendPake", "setLocal"} \cup
          IF p = "A" THEN {"recvOffer", "sendAnswer"} ELSE {"sendOffer", "recvAnswer"}

(* A Go client that accepted an offer. *)
Answering(p) == p = "A" /\ pc[p] \in {"sendAnswer", "setLocal"}

(* A peer goes on after its websocket is closed only if it is a browser, and
   sends its first message then only if the server closed it; it gathers
   candidates once its description is set. *)
Place(p) ==
  /\ pc[p] \in LabelsOf(p)
  /\ p \in closed => IF p \in Web THEN pc[p] = "sendPake" => server[p] = "closed"
                     ELSE pc[p] \in {"waitOpen", "returned"}
  /\ p \in local => ~coded /\ pc[p] \in {"recvAnswer", "waitOpen", "returned"}
  /\ p \in remote => pc[p] \in {"waitOpen", "returned"} \/ Answering(p)

(* The server sends a close last. *)
OnlyData(p) == server[p] = "open" => \A j \in 1 .. Len(toClient[p]) : toClient[p][j].type \in Data

(* A key is the password's, and is there before a description is made. *)
Keyed(p) ==
  /\ key[p] \in {None, pass[p]}
  /\ \/ p \in local
     \/ pc[p] \notin {"sendPake", "recvPake", "returned"}
     \/ (p = "B" /\ ~coded /\ pc[p] = "sendPake")
     => key[p] = pass[p]

(* A description was accepted from a peer with the same password. *)
Agreed ==
  /\ opened # {} => remote = Peers
  /\ remote # {} \/ pc["A"] \in {"localAnswer", "thrown"} => ~Differ /\ ~coded
  /\ \A p \in Peers : pc[p] = "waitOpen" \/ Answering(p) => p \in remote

Base == Types /\ Streams /\ Agreed /\ \A p \in Peers : Place(p) /\ OnlyData(p) /\ Keyed(p)

-----------------------------------------------------------------------------
(* Then the order of messages. *)

(* What may come from peer q after m other messages, with g candidates
   gathered: d says that the passwords differ. *)
MayCome(q, d, g, m) ==
  Closes \cup
  (IF m = 0 THEN {"pake"} ELSE IF m = 1 THEN {IF q = "B" THEN "offer" ELSE "answer"}
   ELSE IF m < 2 + g THEN {"candidate"} ELSE {}) \cup
  (IF d /\ m >= (IF q = "B" THEN 2 ELSE 1) THEN {"bye"} ELSE {})

(* Stream s of peer q, of which n messages were taken before, is in order. *)
InOrder(q, d, g, s, n) == \A j \in 1 .. Len(s) : s[j].type \in MayCome(q, d, g, n + j - 1)

(* Messages that p has sent, candidates not counted; and has read, where only
   a browser counts candidates. *)
Sent(p) ==
  IF pc[p] = "sendPake" \/ (pc[p] = "recvPake" /\ p = "B") THEN 0
  ELSE IF pc[p] \in {"recvPake", "recvOffer", "sendAnswer", "sendOffer", "localOffer", "localAnswer"} THEN 1
  ELSE 2

Read(p) ==
  IF pc[p] = "recvPake" \/ (pc[p] = "sendPake" /\ p = "A") THEN 0
  ELSE IF pc[p] = "waitOpen" \/ (p = "A" /\ pc[p] # "recvOffer") THEN 2 + held[p] + added[p] ELSE 1

Capped(n) == IF n > 2 THEN 2 ELSE n

(* A peer that can still send. *)
Live(q) == q \notin closed /\ (pc[q] \notin {"returned", "thrown"} \/ q \in local)

(* What q sends still gets to the other peer. *)
Passing(q) == server[q] = "open" /\ handler[q] = "run" /\ server[Other(q)] = "open"

(* Candidates that a browser counted, and when it may have any. *)
Counted(p) ==
  /\ held[p] + added[p] <= gathered[Other(p)]
  /\ pc[p] \notin {"localAnswer", "thrown", "waitOpen", "returned"} => held[p] + added[p] = 0
  /\ pc[p] = "localAnswer" => added[p] = 0

(* What q has sent, and nobody passed on yet, follows b other messages; and
   while q can send more, that follows what it has sent. *)
Due(q, b) ==
  /\ InOrder(q, Differ, gathered[q], toServer[q], b)
  /\ Live(q) => /\ Capped(b + Len(toServer[q])) = Sent(q)
                 /\ b + Len(toServer[q]) <= Sent(q) + gathered[q]

(* Until it returns, p reads in order, and what is due to it is in order. *)
Ordered(p) ==
  pc[p] # "returned" =>
    /\ InOrder(Other(p), Differ, gathered[Other(p)], toClient[p], Read(p))
    /\ Passing(Other(p)) => Due(Other(p), Read(p) + Len(toClient[p]))

Ordering == \A p \in Peers : Counted(p) /\ (~coded => Ordered(p))

(* Before the offer is sent both only exchange keys, or close. *)
Unoffered == ~coded /\ pc["B"] \in {"recvPake", "sendPake", "sendOffer", "localOffer"}

(* Frames that need no description. *)
Openings == {f \in Frames : f.type \in Closes \cup {"pake"}}

Quiet ==
  Unoffered =>
    /\ pc["A"] \in {"sendPake", "recvPake", "recvOffer", "returned"} /\ local = {}
    /\ \A p \in Peers : toServer[p] \in Seq(Openings) /\ toClient[p] \in Seq(Openings)

-----------------------------------------------------------------------------
(* Last, the message before a browser's close. *)

(* The peer that makes the offer has been told. *)
Over == pc["B"] = "returned" /\ result["B"] # "none"

(* Streams in which "bye" comes before each close over a bad key, but the one
   that is first; ... *)
Announced(s) == \A j \in 2 .. Len(s) : s[j].type = "BadKey" => s[j - 1].type = "bye"
BadKeyFirst(s) == s # <<>> /\ Head(s).type = "BadKey"
EndsInBye(s) == s # <<>> /\ s[Len(s)].type = "bye"

(* ... and streams without such a close. *)
Others == {f \in Frames : f.type # "BadKey"}

(* What reaches B: "bye" before the close, until B has been told. *)
ByeFirst ==
  /\ result["B"] # "BadKey"
  /\ Announced(toServer["A"])
  /\ \/ Over
     \/ /\ toServer["B"] \in Seq(Others)
        /\ Announced(toClient["B"]) /\ ~BadKeyFirst(toClient["B"])
        /\ Passing("A") /\ BadKeyFirst(toServer["A"]) => EndsInBye(toClient["B"])

-----------------------------------------------------------------------------
(* Streams, and steps of one peer. *)

(* A stream stays one of the same frames when one is added or taken. *)
LEMMA SeqFacts ==
  ASSUME NEW S, NEW s \in Seq(S)
  PROVE  /\ \A e \in S : Append(s, e) \in Seq(S)
         /\ s # <<>> => Head(s) \in S /\ Tail(s) \in Seq(S)
         /\ <<>> \in Seq(S) /\ Len(s) \in Nat
OBVIOUS

(* The two peers. *)
LEMMA TwoPeers ==
  ASSUME NEW p \in Peers
  PROVE  Other(p) \in Peers /\ Other(p) # p /\ Other(Other(p)) = p /\ Peers = {p, Other(p)}
BY DEF Other, Peers

(* A step of p leaves the other peer alone, and the server. *)
Apart(p) ==
  LET q == Other(p) IN
  /\ UNCHANGED <<pass, kind, coded, handler, server>>
  /\ pc'[q] = pc[q] /\ result'[q] = result[q] /\ key'[q] = key[q] /\ gathered'[q] = gathered[q]
  /\ held'[q] = held[q] /\ added'[q] = added[q]
  /\ toServer'[q] = toServer[q] /\ toClient'[q] = toClient[q]
  /\ q \in local' <=> q \in local
  /\ q \in remote' <=> q \in remote
  /\ q \in closed' <=> q \in closed

(* What p sends is its own; what it takes from the server is a message. *)
SendsNothing(p) == toServer' = toServer
SendsOwn(p) == \E s \in Seq(From(p)) : toServer' = [toServer EXCEPT ![p] = s]
TakesNothing(p) == toClient' = toClient
TakesFrame(p) ==
  /\ toClient[p] # <<>> /\ Head(toClient[p]).type \in Data
  /\ toClient' = [toClient EXCEPT ![p] = Tail(@)]

(* What is read is a frame that the other peer may send, and leaves such. *)
LEMMA TakenFrame ==
  ASSUME Streams, NEW p \in Peers, TakesFrame(p)
  PROVE  /\ Head(toClient[p]) \in From(Other(p))
         /\ toClient' \in [Peers -> Seq(Frames)]
         /\ toClient'[p] = Tail(toClient[p]) /\ toClient'[Other(p)] = toClient[Other(p)]
         /\ Tail(toClient[p]) \in Seq(From(Other(p)))
<1>1. toClient[p] # <<>> /\ toClient[p] \in Seq(Frames) /\ toClient[p] \in Seq(From(Other(p)))
  BY DEF Streams, TakesFrame
<1>2. Tail(toClient[p]) \in Seq(Frames)
  BY <1>1, SeqFacts
<1>3. Head(toClient[p]) \in From(Other(p)) /\ Tail(toClient[p]) \in Seq(From(Other(p)))
  BY <1>1, SeqFacts
<1> QED BY <1>2, <1>3, TwoPeers DEF TakesFrame, Streams

(* A frame of its own that p adds to its stream. *)
LEMMA SentFrame ==
  ASSUME Streams, NEW p \in Peers, NEW f \in From(p),
         toServer' = [toServer EXCEPT ![p] = Append(@, f)]
  PROVE  /\ SendsOwn(p)
         /\ toServer'[p] = Append(toServer[p], f) /\ toServer'[Other(p)] = toServer[Other(p)]
<1>1. toServer[p] \in Seq(From(p)) /\ toServer \in [Peers -> Seq(Frames)]
  BY DEF Streams
<1>2. Append(toServer[p], f) \in Seq(From(p))
  BY <1>1, SeqFacts
<1> QED BY <1>1, <1>2, TwoPeers DEF SendsOwn

(* Frames of p's are frames. *)
LEMMA OwnFrames ==
  ASSUME NEW p \in Peers
  PROVE  Seq(From(p)) \subseteq Seq(Frames)
<1>1. From(p) \subseteq Frames
  BY DEF From
<1> QED BY <1>1

(* Streams stays true in a step of one peer. *)
LEMMA StreamsStep ==
  ASSUME Streams, NEW p \in Peers, UNCHANGED <<pass, coded>>,
         SendsNothing(p) \/ SendsOwn(p),
         TakesNothing(p) \/ TakesFrame(p)
  PROVE  Streams'
<1>1. \A x \in Peers : From(x)' = From(x) /\ From(Other(x))' = From(Other(x))
  BY DEF From
<1>2. /\ toServer' \in [Peers -> Seq(Frames)]
      /\ \A x \in Peers : toServer'[x] \in Seq(From(x))
  <2>1. CASE SendsNothing(p)
    BY <2>1 DEF SendsNothing, Streams
  <2>2. ASSUME NEW s \in Seq(From(p)), toServer' = [toServer EXCEPT ![p] = s]
        PROVE  /\ toServer' \in [Peers -> Seq(Frames)]
               /\ \A x \in Peers : toServer'[x] \in Seq(From(x))
    <3>1. /\ toServer' \in [Peers -> Seq(Frames)]
          /\ toServer'[p] \in Seq(From(p)) /\ toServer'[Other(p)] = toServer[Other(p)]
      BY <2>2, OwnFrames, TwoPeers DEF Streams
    <3>2. toServer'[Other(p)] \in Seq(From(Other(p)))
      BY <3>1, TwoPeers DEF Streams
    <3> QED BY <3>1, <3>2, TwoPeers
  <2> QED BY <2>1, <2>2 DEF SendsOwn
<1>3. /\ toClient' \in [Peers -> Seq(Frames)]
      /\ \A x \in Peers : toClient'[x] \in Seq(From(Other(x)))
  <2>1. CASE TakesNothing(p)
    BY <2>1 DEF TakesNothing, Streams
  <2>2. CASE TakesFrame(p)
    <3>1. /\ toClient' \in [Peers -> Seq(Frames)]
          /\ toClient'[p] \in Seq(From(Other(p))) /\ toClient'[Other(p)] = toClient[Other(p)]
      BY <2>2, TakenFrame
    <3>2. toClient'[Other(p)] \in Seq(From(Other(Other(p))))
      BY <3>1, TwoPeers DEF Streams
    <3> QED BY <3>1, <3>2, TwoPeers
  <2> QED BY <2>1, <2>2
<1> QED BY <1>1, <1>2, <1>3 DEF Streams

(* The other peer's control and key stay as they are. *)
LEMMA OtherStep ==
  ASSUME NEW p \in Peers, Apart(p), Place(Other(p)), OnlyData(Other(p)), Keyed(Other(p))
  PROVE  Place(Other(p))' /\ OnlyData(Other(p))' /\ Keyed(Other(p))'
<1>1. Place(Other(p))'
  BY DEF Answering, Apart, Place, LabelsOf, Web
<1>2. OnlyData(Other(p))'
  BY DEF Apart, OnlyData
<1>3. Keyed(Other(p))'
  BY DEF Apart, Keyed
<1> QED BY <1>1, <1>2, <1>3

(* What p reads leaves only messages where there were only messages. *)
LEMMA DataLeft ==
  ASSUME Streams, NEW p \in Peers, OnlyData(p), UNCHANGED server, TakesNothing(p) \/ TakesFrame(p)
  PROVE  OnlyData(p)'
<1>1. CASE TakesNothing(p)
  BY <1>1 DEF TakesNothing, OnlyData
<1>2. CASE TakesFrame(p)
  <2>1. PICK s \in Seq(Frames) : s = toClient[p]
    BY DEF Streams
  <2>2. s # <<>> => \A j \in 1 .. Len(Tail(s)) : j + 1 \in 1 .. Len(s) /\ Tail(s)[j] = s[j + 1]
    BY <2>1
  <2>3. s # <<>> /\ toClient'[p] = Tail(s)
    BY <1>2, <2>1, TakenFrame DEF TakesFrame
  <2> QED BY <2>1, <2>2, <2>3 DEF OnlyData
<1> QED BY <1>1, <1>2

(* So a step of p keeps the invariant when it keeps p's part of it. *)
LEMMA BaseStep ==
  ASSUME Base, NEW p \in Peers, Apart(p), Types', SendsNothing(p) \/ SendsOwn(p),
         TakesNothing(p) \/ TakesFrame(p), Agreed', Place(p)', Keyed(p)'
  PROVE  Base'
<1>1. Streams'
  BY StreamsStep DEF Base, Apart
<1>2. OnlyData(p)'
  BY DataLeft DEF Base, Apart
<1>3. Other(p) \in Peers /\ Peers = {p, Other(p)}
  BY TwoPeers
<1>4. Place(Other(p))' /\ OnlyData(Other(p))' /\ Keyed(Other(p))'
  BY <1>3, OtherStep DEF Base
<1> QED BY <1>1, <1>2, <1>3, <1>4 DEF Base

-----------------------------------------------------------------------------
(* The steps of a browser. *)

(* What a frame of p's may be. *)
LEMMA OwnFrame ==
  ASSUME Types, NEW p \in Peers
  PROVE  /\ Frame("pake", None) \in From(p)
         /\ \A type \in Closes : (coded /\ type = "BadKey") \/ Frame(type, None) \in From(p)
         /\ \A type \in Sealed : key[p] = pass[p] /\ ~coded => Frame(type, key[p]) \in From(p)
<1>1. pass[p] \in Passwords
  BY DEF Types
<1> QED BY <1>1 DEF From, Frame, Frames, Data, Closes, Sealed

(* The first message and the answer to it. *)
LEMMA WebPakeBase ==
  ASSUME Base, NEW p \in Web, WebStart(p) \/ WebExchange(p) \/ WebFinish(p), UNCHANGED <<kind, coded>>
  PROVE  Base'
<1>1. p \in Peers /\ kind[p] = "web"
  BY DEF Web
<1> USE DEF Goto
<1>2. CASE WebStart(p)
  <2>1. Apart(p) /\ TakesNothing(p)
    BY <1>1, <1>2, TwoPeers DEF Base, Types, Streams, WebStart, Start, Sends, Apart, TakesNothing, relayVars, webVars
  <2>2. SendsOwn(p)
    BY <1>1, <1>2, OwnFrame, SentFrame DEF Base, WebStart, Start, Sends
  <2>3. Types'
    BY <1>2 DEF Base, Types, WebStart, relayVars, webVars, WebLabels, Labels
  <2>4. Agreed'
    BY <1>2 DEF Answering, Base, Types, Agreed, Differ, WebStart, Peers
  <2>5. Place(p)' /\ Keyed(p)'
    BY <1>1, <1>2 DEF Answering, Base, Types, Place, Keyed, LabelsOf, Web, WebStart, relayVars
  <2> QED BY <1>1, <2>1, <2>2, <2>3, <2>4, <2>5, BaseStep
<1>3. CASE WebExchange(p)
  <2>1. p = "B" /\ ~coded
    BY <1>1, <1>3 DEF WebExchange, Side, Web, Peers
  <2>2. Apart(p) /\ TakesFrame(p)
    BY <1>1, <1>3, TwoPeers DEF Base, Types, Streams, WebExchange, Exchange, Sends, Hears, Message,
       Apart, TakesFrame, relayVars, webVars
  <2>3. SendsOwn(p)
    BY <1>1, <1>3, OwnFrame, SentFrame DEF Base, WebExchange, Exchange, Sends
  <2>4. Types'
    BY <1>3 DEF Base, Types, WebExchange, Exchange, relayVars, webVars, WebLabels
  <2>5. Agreed'
    BY <1>3, <2>1 DEF Answering, Base, Types, Agreed, Differ, WebExchange, Peers
  <2>6. Place(p)' /\ Keyed(p)'
    BY <1>1, <1>3, <2>1 DEF Answering, Base, Types, Place, Keyed, LabelsOf, Web, WebExchange, Exchange, relayVars
  <2> QED BY <1>1, <2>2, <2>3, <2>4, <2>5, <2>6, BaseStep
<1>4. CASE WebFinish(p)
  <2>1. p = "A" \/ coded
    BY <1>1, <1>4 DEF WebFinish, Side, Web, Peers
  <2>2. Clash <=> coded
    BY DEF Base, Types, Clash, Side, Web, Peers
  <2>3. Apart(p) /\ TakesFrame(p) /\ SendsNothing(p)
    BY <1>1, <1>4, TwoPeers DEF Base, Types, Streams, WebFinish, Finish, Settle, Hears, Message,
       Apart, TakesFrame, SendsNothing, relayVars, webVars
  <2>4. Types'
    BY <1>4 DEF Base, Types, WebFinish, Finish, Settle, relayVars, webVars, WebLabels, Labels, Results
  <2>5. Agreed'
    BY <1>4 DEF Answering, Base, Types, Agreed, Differ, WebFinish, Peers
  <2>6. Place(p)' /\ Keyed(p)'
    BY <1>1, <1>4, <2>1, <2>2 DEF Answering, Base, Types, Place, Keyed, LabelsOf, Web, WebFinish, Finish, relayVars
  <2> QED BY <1>1, <2>3, <2>4, <2>5, <2>6, BaseStep
<1> QED BY <1>2, <1>3, <1>4

(* Descriptions: what opens was sealed with the same password. *)
LEMMA OpensAgreed ==
  ASSUME Base, NEW p \in Peers, TakesFrame(p), key[p] = pass[p], Head(toClient[p]).key = key[p]
  PROVE  ~Differ
<1>1. Head(toClient[p]) \in From(Other(p)) /\ pass[p] \in Passwords
  BY TakenFrame DEF Base, Types
<1>2. pass[p] = pass[Other(p)]
  BY <1>1, HandshakeAssumption DEF From
<1> QED BY <1>2 DEF Differ, Other, Peers

(* The steps that make, send and accept a description. *)
LEMMA WebDescribeBase ==
  ASSUME Base, NEW p \in Web, WebOffer(p) \/ WebRecvOffer(p) \/ WebAnswer(p) \/ WebRecvAnswer(p),
         UNCHANGED <<kind, coded>>
  PROVE  Base'
<1>1. p \in Peers /\ kind[p] = "web" /\ Place(p) /\ Keyed(p)
  BY DEF Web, Base
<1> USE DEF Goto
<1>2. CASE WebOffer(p)
  <2>1. p = "B" /\ ~coded /\ key[p] = pass[p]
    BY <1>1, <1>2 DEF Answering, WebOffer, Place, Keyed, LabelsOf, Web, Peers
  <2>2. Apart(p) /\ TakesNothing(p)
    BY <1>1, <1>2, TwoPeers DEF Base, Types, Streams, WebOffer, SendsIfOpen, Apart, TakesNothing, relayVars, webVars
  <2>3. SendsNothing(p) \/ SendsOwn(p)
    BY <1>1, <1>2, <2>1, OwnFrame, SentFrame DEF Base, WebOffer, SendsIfOpen, Seal, SendsNothing, Sealed
  <2>4. Types'
    BY <1>1, <1>2 DEF Base, Types, WebOffer, relayVars, webVars, WebLabels, Labels
  <2>5. Agreed'
    BY <1>2, <2>1 DEF Answering, Base, Types, Agreed, Differ, WebOffer, Peers
  <2>6. Place(p)' /\ Keyed(p)'
    BY <1>1, <1>2, <2>1 DEF Answering, Base, Types, Place, Keyed, LabelsOf, Web, WebOffer, relayVars
  <2> QED BY <1>1, <2>2, <2>3, <2>4, <2>5, <2>6, BaseStep
<1>3. CASE WebRecvOffer(p)
  <2>1. p = "A" /\ ~coded /\ key[p] = pass[p]
    BY <1>1, <1>3 DEF Answering, WebRecvOffer, Place, Keyed, LabelsOf, Web, Peers
  <2>2. Apart(p) /\ SendsNothing(p) /\ TakesFrame(p)
    BY <1>1, <1>3, TwoPeers DEF Base, Types, Streams, WebRecvOffer, Hears, Message,
       Apart, TakesFrame, SendsNothing, relayVars, webVars
  <2>3. ~Differ
    BY <1>1, <1>3, <2>1, <2>2, OpensAgreed DEF WebRecvOffer, Opens, Message
  <2>4. Types'
    BY <1>1, <1>3 DEF Base, Types, WebRecvOffer, relayVars, webVars, WebLabels
  <2>5. Agreed'
    BY <1>3, <2>1, <2>3 DEF Answering, Base, Types, Agreed, Differ, WebRecvOffer, Peers
  <2>6. Place(p)' /\ Keyed(p)'
    BY <1>1, <1>3, <2>1 DEF Answering, Base, Types, Place, Keyed, LabelsOf, Web, WebRecvOffer, relayVars
  <2> QED BY <1>1, <2>2, <2>4, <2>5, <2>6, BaseStep
<1>4. CASE WebAnswer(p)
  <2>1. p = "A" /\ ~coded /\ key[p] = pass[p]
    BY <1>1, <1>4 DEF Answering, WebAnswer, Place, Keyed, LabelsOf, Web, Peers
  <2>2. ~Differ
    BY <1>4, <2>1 DEF Answering, WebAnswer, Base, Agreed
  <2>3. Apart(p) /\ TakesNothing(p)
    BY <1>1, <1>4, TwoPeers DEF Base, Types, Streams, WebAnswer, SendsIfOpen, Settle, Apart, TakesNothing, relayVars
  <2>4. SendsNothing(p) \/ SendsOwn(p)
    BY <1>1, <1>4, <2>1, OwnFrame, SentFrame DEF Base, WebAnswer, SendsIfOpen, Seal, SendsNothing, Sealed
  <2>5. Types'
    BY <1>1, <1>4 DEF Base, Types, WebAnswer, Settle, relayVars, WebLabels, Labels, Results
  <2>6. Agreed'
    BY <1>1, <1>4, <2>1, <2>2 DEF Answering, Base, Types, Agreed, Differ, WebAnswer, Peers
  <2>7. Place(p)' /\ Keyed(p)'
    BY <1>1, <1>4, <2>1 DEF Answering, Base, Types, Place, Keyed, LabelsOf, Web, WebAnswer, relayVars
  <2> QED BY <1>1, <2>3, <2>4, <2>5, <2>6, <2>7, BaseStep
<1>5. CASE WebRecvAnswer(p)
  <2>1. p = "B" /\ ~coded /\ key[p] = pass[p]
    BY <1>1, <1>5 DEF Answering, WebRecvAnswer, Place, Keyed, LabelsOf, Web, Peers
  <2>2. Apart(p) /\ SendsNothing(p) /\ TakesFrame(p)
    BY <1>1, <1>5, TwoPeers DEF Base, Types, Streams, WebRecvAnswer, Hears, Message, Settle,
       Apart, TakesFrame, SendsNothing, relayVars, webVars
  <2>3. ~Differ
    BY <1>1, <1>5, <2>1, <2>2, OpensAgreed DEF WebRecvAnswer, Opens, Message
  <2>4. Types'
    BY <1>1, <1>5 DEF Base, Types, WebRecvAnswer, Settle, relayVars, webVars, WebLabels, Labels, Results
  <2>5. Agreed'
    BY <1>1, <1>5, <2>1, <2>3 DEF Answering, Base, Types, Agreed, Differ, WebRecvAnswer, Peers
  <2>6. Place(p)' /\ Keyed(p)'
    BY <1>1, <1>5, <2>1 DEF Answering, Base, Types, Place, Keyed, LabelsOf, Web, WebRecvAnswer, relayVars
  <2> QED BY <1>1, <2>2, <2>4, <2>5, <2>6, BaseStep
<1> QED BY <1>2, <1>3, <1>4, <1>5

(* The two frames of a browser that was sent a description it cannot open. *)
LEMMA ByeFrames ==
  ASSUME Base, NEW p \in Web, WebBadKey(p)
  PROVE  /\ p \in Peers /\ ~coded /\ key[p] = pass[p] /\ p \notin closed /\ p \notin remote
         /\ Seal(p, "bye") \in From(p) /\ Frame("BadKey", None) \in From(p)
         /\ toServer'[p] = Append(Append(toServer[p], Seal(p, "bye")), Frame("BadKey", None))
         /\ toServer'[Other(p)] = toServer[Other(p)]
         /\ SendsOwn(p) /\ TakesFrame(p)
<1>1. p \in Peers /\ Place(p) /\ Keyed(p)
  BY DEF Web, Base
<1>2. ~coded /\ key[p] = pass[p] /\ p \notin remote /\ p \notin closed
  BY <1>1 DEF Answering, WebBadKey, Hears, Place, Keyed, LabelsOf, Web
<1>3. Seal(p, "bye") \in From(p) /\ Frame("BadKey", None) \in From(p)
  BY <1>1, <1>2, OwnFrame DEF Base, Seal, Sealed, Closes
<1>4. toServer[p] \in Seq(From(p)) /\ toServer \in [Peers -> Seq(Frames)]
  BY <1>1 DEF Base, Streams
<1>5. ASSUME NEW f \in From(p), NEW g \in From(p)
      PROVE  /\ toServer[p] \o <<f, g>> = Append(Append(toServer[p], f), g)
             /\ Append(Append(toServer[p], f), g) \in Seq(From(p))
  BY <1>4
<1>6. toServer' = [toServer EXCEPT ![p] = Append(Append(toServer[p], Seal(p, "bye")), Frame("BadKey", None))]
  BY <1>3, <1>5 DEF WebBadKey
<1>7. /\ toServer'[p] = Append(Append(toServer[p], Seal(p, "bye")), Frame("BadKey", None))
      /\ toServer'[Other(p)] = toServer[Other(p)]
  BY <1>1, <1>4, <1>6, TwoPeers
<1>8. SendsOwn(p)
  BY <1>3, <1>5, <1>6 DEF SendsOwn
<1>9. TakesFrame(p)
  BY DEF WebBadKey, Hears, Message, TakesFrame
<1> QED BY <1>1, <1>2, <1>3, <1>7, <1>8, <1>9

(* A browser reports a bad key: a frame of its own, then the close. *)
LEMMA WebBadKeyBase ==
  ASSUME Base, NEW p \in Web, WebBadKey(p), UNCHANGED <<kind, coded>>
  PROVE  Base'
<1> USE DEF Goto
<1>1. p \in Peers /\ ~coded /\ p \notin remote /\ Place(p) /\ Keyed(p) /\ kind[p] = "web"
  BY ByeFrames DEF Base, Web
<1>2. Apart(p)
  BY <1>1, TwoPeers, ByeFrames DEF Base, Types, Streams, WebBadKey, Hears, Settle, Apart, relayVars, webVars
<1>3. Types'
  BY <1>1 DEF Base, Types, WebBadKey, Settle, relayVars, webVars, WebLabels, Labels, Results
<1>4. Agreed'
  BY <1>1 DEF Answering, Base, Types, Agreed, Differ, WebBadKey, Peers
<1>5. Place(p)' /\ Keyed(p)'
  BY <1>1 DEF Answering, Base, Types, Place, Keyed, LabelsOf, Web, WebBadKey, relayVars
<1> QED BY <1>1, <1>2, <1>3, <1>4, <1>5, ByeFrames, BaseStep

(* Candidates, that wait or are added. *)
LEMMA WebCandidateBase ==
  ASSUME Base, NEW p \in Web, WebHold(p) \/ WebCandidate(p), UNCHANGED <<kind, coded>>
  PROVE  Base'
<1>1. p \in Peers /\ Place(p) /\ Keyed(p)
  BY DEF Base, Web
<1>2. /\ UNCHANGED <<pass, pc, result, key, local, remote, gathered, opened, exited, closed, handler, server>>
      /\ SendsNothing(p) /\ TakesFrame(p)
  BY DEF WebHold, WebCandidate, clientVars, relayVars, SendsNothing, TakesFrame, Hears, Message
<1>3. Apart(p)
  BY <1>1, <1>2, TwoPeers, TakenFrame DEF Base, Types, Streams, WebHold, WebCandidate, Apart, SendsNothing
<1>4. Types'
  BY <1>1, <1>2 DEF Base, Types, WebHold, WebCandidate
<1>5. Agreed'
  BY <1>2 DEF Answering, Base, Agreed, Differ
<1>6. Place(p)' /\ Keyed(p)'
  BY <1>1, <1>2 DEF Answering, Place, Keyed, LabelsOf, Web
<1> QED BY <1>1, <1>2, <1>3, <1>4, <1>5, <1>6, BaseStep

(* The websocket is closed, by the server or by the page; or a handler throws. *)
LEMMA WebEndBase ==
  ASSUME Base, NEW p \in Web, WebClosed(p) \/ WebClose(p) \/ WebThrows(p), UNCHANGED <<kind, coded>>
  PROVE  Base'
<1>1. p \in Peers /\ kind[p] = "web" /\ Place(p) /\ Keyed(p) /\ OnlyData(p)
  BY DEF Web, Base
<1> USE DEF Goto
<1>2. CASE WebClosed(p)
  <2>1. Apart(p) /\ TakesNothing(p) /\ SendsNothing(p)
    BY <1>1, <1>2, TwoPeers DEF Base, Types, WebClosed, Settle, Apart, TakesNothing, SendsNothing, relayVars, webVars
  <2>2. server[p] = "closed"
    <3>1. toClient[p] \in Seq(Frames) /\ toClient[p] # <<>> /\ Head(toClient[p]).type \in Closes
      BY <1>1, <1>2 DEF Base, Streams, WebClosed
    <3>2. 1 \in 1 .. Len(toClient[p]) /\ Head(toClient[p]) = toClient[p][1]
      BY <3>1
    <3>3. Closes \cap Data = {}
      BY DEF Closes, Data
    <3> QED BY <1>1, <3>1, <3>2, <3>3 DEF OnlyData, Base, Types
  <2>3. Types'
    <3>1. Told(Head(toClient[p]).type) \in Results
      BY <1>2 DEF WebClosed, Told, Results, Closes
    <3> QED BY <1>1, <1>2, <3>1 DEF Base, Types, WebClosed, Settle, relayVars, webVars
  <2>4. Agreed'
    BY <1>2 DEF Answering, Base, Agreed, Differ, WebClosed
  <2>5. Place(p)' /\ Keyed(p)'
    BY <1>1, <1>2, <2>2 DEF Answering, Place, Keyed, LabelsOf, Web, WebClosed, relayVars
  <2> QED BY <1>1, <2>1, <2>3, <2>4, <2>5, BaseStep
<1>3. CASE WebClose(p)
  <2>1. pc[p] \in {"waitOpen", "returned"} /\ ~coded
    BY <1>1, <1>3 DEF Answering, WebClose, Place
  <2>2. Apart(p) /\ TakesNothing(p)
    BY <1>1, <1>3, TwoPeers DEF Base, Types, Streams, WebClose, Closing, Sends, Apart, TakesNothing, relayVars, webVars
  <2>3. SendsOwn(p)
    BY <1>1, <1>3, <2>1, OwnFrame, SentFrame DEF Base, WebClose, Closing, Sends, Closes
  <2>4. Types'
    BY <1>1, <1>3 DEF Base, Types, WebClose, Closing, relayVars, webVars
  <2>5. Agreed'
    BY <1>3 DEF Answering, Base, Agreed, Differ, WebClose
  <2>6. Place(p)' /\ Keyed(p)'
    BY <1>1, <1>3, <2>1 DEF Answering, Place, Keyed, LabelsOf, Web, WebClose, Closing, relayVars
  <2> QED BY <1>1, <2>2, <2>3, <2>4, <2>5, <2>6, BaseStep
<1>4. CASE WebThrows(p)
  <2>1. Apart(p) /\ TakesNothing(p) /\ SendsNothing(p)
    BY <1>1, <1>4, TwoPeers DEF Base, Types, WebThrows, Apart, TakesNothing, SendsNothing, relayVars, webVars
  <2>2. Types'
    BY <1>4 DEF Base, Types, WebThrows, relayVars, webVars, WebLabels
  <2>3. ~coded /\ (pc[p] = "localAnswer" <=> p = "A") /\ p \notin local /\ p \notin remote
    BY <1>1, <1>4 DEF Answering, WebThrows, Place, LabelsOf, Web, Peers
  <2>4. Agreed'
    BY <1>1, <1>4, <2>3 DEF Answering, Base, Types, Agreed, Differ, WebThrows, Peers
  <2>5. Place(p)' /\ Keyed(p)'
    BY <1>1, <1>4, <2>3 DEF Answering, Base, Types, Place, Keyed, LabelsOf, Web, WebThrows, relayVars
  <2> QED BY <1>1, <2>1, <2>2, <2>4, <2>5, BaseStep
<1> QED BY <1>2, <1>3, <1>4

-----------------------------------------------------------------------------
(* The steps of a Go client, which is no browser. *)

(* Two sides A meet exactly at a slot whose first client has a code. *)
LEMMA ClashCoded ==
  ASSUME Types
  PROVE  Clash <=> coded
BY DEF Types, Clash, Side, Web, Peers

(* A Go client exchanges keys. *)
LEMMA GoPakeBase ==
  ASSUME Base, NEW p \in Peers \ Web, SendPake(p) \/ (RecvPake(p) /\ ~coded) \/ (GoPakeFails(p) /\ pc[p] = "recvPake"),
         UNCHANGED <<kind, coded, webVars>>
  PROVE  Base'
<1>1. p \in Peers /\ kind[p] = "go" /\ Place(p) /\ Keyed(p) /\ (coded => p = "A")
  BY DEF Web, Base, Types, Peers
<1> USE DEF Goto, Returns
<1>2. CASE SendPake(p)
  <2>1. Apart(p) /\ TakesNothing(p)
    BY <1>1, <1>2, TwoPeers DEF Base, Types, Streams, SendPake, Sends, Apart, TakesNothing, relayVars, webVars
  <2>2. SendsOwn(p)
    BY <1>1, <1>2, OwnFrame, SentFrame DEF Base, SendPake, Sends
  <2>3. Types'
    BY <1>2 DEF Base, Types, SendPake, relayVars, webVars, WebLabels, Labels
  <2>4. Agreed'
    BY <1>2 DEF Answering, Base, Types, Agreed, Differ, SendPake, Peers
  <2>5. Place(p)' /\ Keyed(p)'
    BY <1>1, <1>2 DEF Answering, Base, Types, Place, Keyed, LabelsOf, Web, SendPake, Peers, relayVars
  <2> QED BY <1>1, <2>1, <2>2, <2>3, <2>4, <2>5, BaseStep
<1>3. CASE RecvPake(p) /\ ~coded
  <2>1. Apart(p) /\ SendsNothing(p) /\ TakesFrame(p)
    BY <1>1, <1>3, TwoPeers DEF Base, Types, Streams, RecvPake, Reads, Apart, TakesFrame, SendsNothing, relayVars, webVars
  <2>2. Types'
    BY <1>3 DEF Base, Types, RecvPake, relayVars, webVars, WebLabels, Labels
  <2>3. Agreed'
    BY <1>3 DEF Answering, Base, Types, Agreed, Differ, RecvPake, Peers
  <2>4. Place(p)' /\ Keyed(p)'
    BY <1>1, <1>3 DEF Answering, Base, Types, Place, Keyed, LabelsOf, Web, RecvPake, Peers, relayVars
  <2> QED BY <1>1, <2>1, <2>2, <2>3, <2>4, BaseStep
<1>4. CASE GoPakeFails(p) /\ pc[p] = "recvPake"
  <2>1. Apart(p) /\ SendsNothing(p) /\ TakesFrame(p)
    BY <1>1, <1>4, TwoPeers DEF Base, Types, Streams, GoPakeFails, Reads, Apart, TakesFrame, SendsNothing, relayVars, webVars
  <2>2. Types'
    BY <1>4 DEF Base, Types, GoPakeFails, relayVars, webVars, WebLabels, Labels, Results
  <2>3. Agreed'
    BY <1>4 DEF Answering, Base, Types, Agreed, Differ, GoPakeFails, Peers
  <2>4. Place(p)' /\ Keyed(p)'
    BY <1>1, <1>4 DEF Answering, Base, Types, Place, Keyed, LabelsOf, Web, GoPakeFails, Peers, relayVars
  <2> QED BY <1>1, <2>1, <2>2, <2>3, <2>4, BaseStep
<1> QED BY <1>2, <1>3, <1>4

(* It sends and accepts descriptions. *)
LEMMA GoDescribeBase ==
  ASSUME Base, NEW p \in Peers \ Web, Describe(p) \/ RecvDescription(p), UNCHANGED <<kind, coded, webVars>>
  PROVE  Base'
<1>1. p \in Peers /\ kind[p] = "go" /\ Place(p) /\ Keyed(p)
  BY DEF Web, Base, Types
<1> USE DEF Goto
<1>3. ~coded /\ key[p] = pass[p]
  BY <1>1 DEF Answering, Describe, RecvDescription, Place, Keyed, LabelsOf
<1>4. CASE Describe(p)
  <2>1. Apart(p) /\ TakesNothing(p)
    BY <1>1, <1>4, TwoPeers DEF Base, Types, Streams, Describe, Sends, Apart, TakesNothing, relayVars, webVars
  <2>2. SendsNothing(p) \/ SendsOwn(p)
    BY <1>1, <1>3, <1>4, OwnFrame, SentFrame DEF Base, Describe, Sends, SendsNothing, Sealed
  <2>3. Types'
    BY <1>1, <1>4 DEF Base, Types, Describe, relayVars, webVars, WebLabels, Labels
  <2>4. p = "A" => pc[p] # "sendOffer"
    BY <1>1 DEF Answering, Place, LabelsOf
  <2>5. (pc[p] \in {"setLocal", "sendAnswer"} /\ p = "A") => p \in remote
    BY <1>1, <1>4 DEF Answering, Base, Agreed, Place, Describe
  <2>6. Agreed'
    <3>1. UNCHANGED <<pass, coded, opened, remote>> /\ pc \in [Peers -> WebLabels]
      BY <1>4 DEF Describe, Base, Types
    <3>2. \/ pc[p] \in {"sendAnswer", "sendOffer"} /\ pc' = [pc EXCEPT ![p] = "setLocal"]
          \/ pc[p] = "setLocal" /\ pc' = [pc EXCEPT ![p] = IF p = "B" THEN "recvAnswer" ELSE "waitOpen"]
      BY <1>4 DEF Describe
    <3>3. pc'["A"] \in {"localAnswer", "thrown"} => pc["A"] \in {"localAnswer", "thrown"}
      BY <1>1, <3>1, <3>2 DEF Peers
    <3>4. ASSUME NEW x \in Peers, pc'[x] = "waitOpen" \/ Answering(x)' PROVE x \in remote
      BY <1>1, <2>4, <2>5, <3>1, <3>2, <3>4 DEF Answering, Base, Agreed, Peers
    <3> QED BY <3>1, <3>3, <3>4 DEF Base, Agreed, Differ
  <2>7. Place(p)' /\ Keyed(p)'
    BY <1>1, <1>3, <1>4 DEF Answering, Base, Types, Place, Keyed, LabelsOf, Web, Describe, Peers, relayVars
  <2> QED BY <1>1, <2>1, <2>2, <2>3, <2>6, <2>7, BaseStep
<1>5. CASE RecvDescription(p)
  <2>1. Apart(p) /\ SendsNothing(p) /\ TakesFrame(p)
    BY <1>1, <1>5, TwoPeers DEF Base, Types, Streams, RecvDescription, Reads, Apart, TakesFrame, SendsNothing, relayVars, webVars
  <2>2. ~Differ
    BY <1>1, <1>3, <1>5, <2>1, OpensAgreed DEF RecvDescription, Reads
  <2>3. Types'
    BY <1>1, <1>5 DEF Base, Types, RecvDescription, relayVars, webVars, WebLabels, Labels
  <2>4. Agreed'
    BY <1>1, <1>3, <1>5, <2>2 DEF Answering, Base, Types, Agreed, Differ, RecvDescription, Peers
  <2>5. Place(p)' /\ Keyed(p)'
    BY <1>1, <1>3, <1>5 DEF Answering, Base, Types, Place, Keyed, LabelsOf, Web, RecvDescription, Peers, relayVars
  <2> QED BY <1>1, <2>1, <2>3, <2>4, <2>5, BaseStep
<1> QED BY <1>4, <1>5

(* The call of a Go client ends before it waits for the data channel. *)
LEMMA GoQuitBase ==
  ASSUME Base, NEW p \in Peers \ Web, ReadClosed(p) \/ RecvBadKey(p) \/ LocalError(p),
         UNCHANGED <<kind, coded, webVars>>
  PROVE  Base'
<1>1. p \in Peers /\ kind[p] = "go" /\ Place(p) /\ Keyed(p)
  BY DEF Web, Base, Types
<1> USE DEF Goto, Returns
<1>2. pc' = [pc EXCEPT ![p] = "returned"] /\ UNCHANGED <<pass, key, local, remote, gathered, opened, exited, handler, server>>
  BY DEF ReadClosed, RecvBadKey, LocalError, relayVars
<1>3. closed' \in {closed, closed \cup {p}}
  BY DEF ReadClosed, RecvBadKey, LocalError, Closing
<1>4. Types'
  <2>1. result' \in [Peers -> Results]
    BY <1>1 DEF Base, Types, ReadClosed, RecvBadKey, LocalError, Results
  <2> QED BY <1>1, <1>2, <1>3, <2>1 DEF Base, Types, webVars, WebLabels, Labels
<1>5. Agreed'
  BY <1>1, <1>2 DEF Base, Types, Agreed, Differ, Answering, Peers
<1>6. Place(p)' /\ Keyed(p)'
  BY <1>1, <1>2, <1>3 DEF Base, Types, Place, Keyed, LabelsOf, Web, Answering
<1>7. CASE ReadClosed(p)
  <2>1. Apart(p) /\ TakesNothing(p) /\ SendsNothing(p)
    BY <1>1, <1>7, TwoPeers DEF Base, Types, ReadClosed, Apart, TakesNothing, SendsNothing, relayVars, webVars
  <2> QED BY <1>1, <1>4, <1>5, <1>6, <2>1, BaseStep
<1>8. CASE RecvBadKey(p)
  <2>1. ~coded
    BY <1>1, <1>8 DEF RecvBadKey, Place, LabelsOf
  <2>2. Apart(p) /\ TakesFrame(p)
    BY <1>1, <1>8, TwoPeers DEF Base, Types, Streams, RecvBadKey, Closing, Sends, Reads, Apart, TakesFrame, relayVars, webVars
  <2>3. SendsOwn(p)
    BY <1>1, <1>8, <2>1, OwnFrame, SentFrame DEF Base, RecvBadKey, Closing, Sends, Closes
  <2> QED BY <1>1, <1>4, <1>5, <1>6, <2>2, <2>3, BaseStep
<1>9. CASE LocalError(p)
  <2>1. Apart(p) /\ TakesNothing(p) /\ SendsNothing(p)
    BY <1>1, <1>9, TwoPeers DEF Base, Types, LocalError, Apart, TakesNothing, SendsNothing, relayVars, webVars
  <2> QED BY <1>1, <1>4, <1>5, <1>6, <2>1, BaseStep
<1> QED BY <1>7, <1>8, <1>9

(* A Go client waits for the data channel. *)
LEMMA GoWaitBase ==
  ASSUME Base, NEW p \in Peers \ Web,
         \/ RecvCandidate(p) \/ RemoteCandidatesEnd(p)
         \/ WaitSucceeds(p) \/ WaitFails(p, "ErrTimedOut") \/ WaitFails(p, "failed"),
         UNCHANGED <<kind, coded, webVars>>
  PROVE  Base'
<1>1. p \in Peers /\ kind[p] = "go" /\ Place(p) /\ Keyed(p) /\ pc[p] = "waitOpen" /\ ~coded
  <2>1. pc[p] = "waitOpen"
    BY DEF RecvCandidate, RemoteCandidatesEnd, WaitSucceeds, WaitFails
  <2> QED BY <2>1 DEF Web, Base, Types, Place, LabelsOf
<1> USE DEF Goto, Returns
<1>2. CASE RecvCandidate(p)
  <2>1. UNCHANGED <<pass, pc, result, key, local, remote, gathered, opened, exited, closed, handler, server>>
    BY <1>2 DEF RecvCandidate, clientVars, relayVars
  <2>2. Apart(p) /\ SendsNothing(p) /\ TakesFrame(p)
    BY <1>1, <1>2, <2>1, TwoPeers DEF Base, Types, Streams, RecvCandidate, Reads, Apart, SendsNothing, TakesFrame, webVars
  <2>3. Types' /\ Agreed' /\ Place(p)' /\ Keyed(p)'
    BY <1>1, <2>1 DEF Base, Types, Agreed, Differ, Place, Keyed, LabelsOf, Web, Answering, webVars
  <2> QED BY <1>1, <2>2, <2>3, BaseStep
<1>3. CASE RemoteCandidatesEnd(p)
  <2>1. Apart(p) /\ TakesNothing(p) /\ SendsNothing(p)
    BY <1>1, <1>3, TwoPeers DEF Base, Types, RemoteCandidatesEnd, Apart, TakesNothing, SendsNothing, relayVars, webVars
  <2>2. Types' /\ Agreed'
    BY <1>1, <1>3 DEF Base, Types, Agreed, Differ, Answering, RemoteCandidatesEnd, relayVars, webVars
  <2>3. Place(p)' /\ Keyed(p)'
    BY <1>1, <1>3 DEF Place, Keyed, LabelsOf, Web, Answering, RemoteCandidatesEnd, relayVars
  <2> QED BY <1>1, <2>1, <2>2, <2>3, BaseStep
<1>4. ASSUME NEW code \in Closes, NEW r \in Results, code # "BadKey",
             CloseUnlessClosed(p, code), pc' = [pc EXCEPT ![p] = "returned"],
             result' = [result EXCEPT ![p] = r],
             UNCHANGED <<pass, key, local, remote, gathered, opened, exited, toClient, handler, server>>
      PROVE  Base'
  <2>1. Apart(p) /\ TakesNothing(p)
    BY <1>1, <1>4, TwoPeers DEF Base, Types, Streams, CloseUnlessClosed, Closing, Sends, Apart, TakesNothing, webVars
  <2>2. SendsNothing(p) \/ SendsOwn(p)
    BY <1>1, <1>4, OwnFrame, SentFrame DEF Base, CloseUnlessClosed, Closing, Sends, SendsNothing
  <2>3. closed' \in {closed, closed \cup {p}}
    BY <1>4 DEF CloseUnlessClosed, Closing
  <2>4. Types'
    BY <1>1, <1>4, <2>3 DEF Base, Types, webVars, WebLabels, Labels
  <2>5. Agreed'
    BY <1>1, <1>4 DEF Base, Types, Agreed, Differ, Answering, Peers
  <2>6. Place(p)' /\ Keyed(p)'
    BY <1>1, <1>4, <2>3 DEF Base, Types, Place, Keyed, LabelsOf, Web, Answering
  <2> QED BY <1>1, <2>1, <2>2, <2>4, <2>5, <2>6, BaseStep
<1>5. CASE WaitSucceeds(p)
  BY <1>4, <1>5 DEF WaitSucceeds, Closes, Results, relayVars
<1>6. CASE WaitFails(p, "ErrTimedOut") \/ WaitFails(p, "failed")
  BY <1>4, <1>6 DEF WaitFails, Closes, Results, relayVars
<1> QED BY <1>2, <1>3, <1>5, <1>6

-----------------------------------------------------------------------------
(* The steps of either kind of peer, and of the read loops. *)

(* Candidates are gathered, the data channel opens. *)
LEMMA GatherBase ==
  ASSUME Base, NEW p \in Peers, SendCandidate(p) \/ Open(p), UNCHANGED <<kind, coded, webVars>>
  PROVE  Base'
<1>1. Place(p) /\ Keyed(p)
  BY DEF Base
<1>2. UNCHANGED <<pass, pc, result, key, local, remote, exited, closed, toClient, handler, server>>
  BY DEF SendCandidate, Open, relayVars
<1>3. Place(p)' /\ Keyed(p)'
  BY <1>1, <1>2 DEF Place, Keyed, LabelsOf, Web, Answering
<1>4. CASE SendCandidate(p)
  <2>1. ~coded /\ key[p] = pass[p]
    BY <1>1, <1>4 DEF SendCandidate, Place, Keyed
  <2>2. Apart(p) /\ TakesNothing(p)
    BY <1>2, <1>4, TwoPeers DEF Base, Types, Streams, SendCandidate, Sends, Apart, TakesNothing, webVars
  <2>3. SendsNothing(p) \/ SendsOwn(p)
    BY <1>4, <2>1, OwnFrame, SentFrame DEF Base, SendCandidate, Sends, SendsNothing, Sealed
  <2>4. Types'
    <3>1. gathered' \in [Peers -> 0 .. MaxCandidates]
      BY <1>4, HandshakeAssumption DEF Base, Types, SendCandidate
    <3> QED BY <1>2, <1>4, <3>1 DEF Base, Types, SendCandidate, webVars
  <2>5. Agreed'
    BY <1>2, <1>4 DEF Base, Agreed, Differ, Answering, SendCandidate
  <2> QED BY <1>3, <2>2, <2>3, <2>4, <2>5, BaseStep
<1>5. CASE Open(p)
  <2>1. Apart(p) /\ TakesNothing(p) /\ SendsNothing(p)
    BY <1>2, <1>5, TwoPeers DEF Base, Types, Open, Apart, TakesNothing, SendsNothing, webVars
  <2>2. Types'
    BY <1>2, <1>5 DEF Base, Types, Open, webVars
  <2>3. Agreed'
    BY <1>2, <1>5 DEF Base, Agreed, Differ, Answering, Open
  <2> QED BY <1>3, <2>1, <2>2, <2>3, BaseStep
<1> QED BY <1>4, <1>5

(* A process or a page ends. *)
LEMMA ExitBase ==
  ASSUME Base, NEW p \in Peers, Exit(p), UNCHANGED <<kind, coded, webVars>>
  PROVE  Base'
<1>1. Place(p) /\ Keyed(p)
  BY DEF Base
<1>2. Apart(p) /\ TakesNothing(p)
  BY TwoPeers DEF Base, Types, Streams, Exit, Apart, TakesNothing, relayVars, webVars
<1>3. SendsOwn(p)
  <2>1. PICK sent \in {toServer[p], <<>>} :
          toServer' = [toServer EXCEPT ![p] = Append(sent, Frame("dropped", None))]
    BY DEF Exit
  <2>2. sent \in Seq(From(p))
    BY <2>1, SeqFacts DEF Base, Streams
  <2>3. Frame("dropped", None) \in From(p)
    BY OwnFrame DEF Base, Closes
  <2>4. Append(sent, Frame("dropped", None)) \in Seq(From(p))
    BY <2>2, <2>3, SeqFacts
  <2> QED BY <2>1, <2>4 DEF SendsOwn
<1>4. Types'
  BY DEF Base, Types, Exit, relayVars, webVars, WebLabels, Labels, Results, Closes
<1>5. Agreed'
  BY DEF Base, Types, Agreed, Differ, Answering, Exit, Peers
<1>6. Place(p)' /\ Keyed(p)'
  BY <1>1 DEF Base, Types, Place, Keyed, LabelsOf, Web, Answering, Exit, relayVars
<1> QED BY <1>2, <1>3, <1>4, <1>5, <1>6, BaseStep

(* A message is passed on. *)
LEMMA ForwardBase ==
  ASSUME Base, NEW p \in Peers, Forward(p), UNCHANGED <<kind, coded, webVars>>
  PROVE  Base'
<1> DEFINE q == Other(p)
<1>1. q \in Peers /\ Other(q) = p /\ Peers = {p, q} /\ p # q
  BY TwoPeers
<1>2. UNCHANGED <<pass, pc, result, key, local, remote, gathered, opened, exited, closed, server>>
  BY DEF Forward, clientVars
<1>3. /\ toServer[p] # <<>> /\ Head(toServer[p]).type \in Data
      /\ toServer' = [toServer EXCEPT ![p] = Tail(@)]
      /\ toClient' \in {toClient, [toClient EXCEPT ![q] = Append(@, Head(toServer[p]))]}
      /\ handler' \in {handler, [handler EXCEPT ![p] = "done"]}
  BY DEF Forward
<1>4. Types' /\ Agreed' /\ \A x \in Peers : Place(x)' /\ Keyed(x)'
  BY <1>2, <1>3 DEF Base, Types, Agreed, Differ, Place, Keyed, LabelsOf, Web, Answering, webVars
<1>5. toServer[p] \in Seq(From(p)) /\ toClient[q] \in Seq(From(p))
  BY <1>1 DEF Base, Streams
<1>6. Tail(toServer[p]) \in Seq(From(p)) /\ Head(toServer[p]) \in From(p)
  BY <1>3, <1>5, SeqFacts
<1>7. Append(toClient[q], Head(toServer[p])) \in Seq(From(p))
  BY <1>5, <1>6, SeqFacts
<1>8. \A x \in Peers : From(x)' = From(x) /\ From(Other(x))' = From(Other(x))
  BY <1>2 DEF From
<1>9. /\ toServer' \in [Peers -> Seq(Frames)]
      /\ \A x \in Peers : toServer'[x] \in Seq(From(x))
  <2>1. Tail(toServer[p]) \in Seq(Frames)
    BY <1>6, OwnFrames
  <2> QED BY <1>3, <1>6, <2>1 DEF Base, Streams
<1>10. /\ toClient' \in [Peers -> Seq(Frames)]
       /\ \A x \in Peers : toClient'[x] \in Seq(From(Other(x)))
  <2>1. Append(toClient[q], Head(toServer[p])) \in Seq(Frames)
    BY <1>7, OwnFrames
  <2> HIDE DEF q
  <2> QED BY <1>1, <1>3, <1>7, <2>1 DEF Base, Streams
<1>11. ASSUME NEW x \in Peers PROVE OnlyData(x)'
  <2>1. CASE toClient'[x] = toClient[x]
    BY <1>2, <2>1 DEF Base, OnlyData
  <2>2. CASE x = q /\ toClient'[x] = Append(toClient[q], Head(toServer[p]))
    <3>1. PICK s \in Seq(From(p)), f \in From(p) : s = toClient[q] /\ f = Head(toServer[p])
      BY <1>5, <1>6
    <3>2. \A j \in 1 .. Len(Append(s, f)) : (j \in 1 .. Len(s) /\ Append(s, f)[j] = s[j]) \/ Append(s, f)[j] = f
      BY <3>1
    <3> QED BY <1>1, <1>2, <1>3, <2>2, <3>1, <3>2 DEF Base, OnlyData
  <2>3. toClient'[x] = toClient[x] \/ (x = q /\ toClient'[x] = Append(toClient[q], Head(toServer[p])))
    BY <1>1, <1>3 DEF Base, Streams
  <2> QED BY <2>1, <2>2, <2>3
<1>12. Streams'
  BY <1>8, <1>9, <1>10 DEF Streams
<1> QED BY <1>4, <1>11, <1>12 DEF Base

(* A read loop ends. *)
LEMMA ReadEnds ==
  ASSUME Base, NEW p \in Peers, ReadClose(p) \/ ReadFails(p)
  PROVE  \E code \in [Peers -> Closes \cup {None}] :
           /\ CloseServer(code) /\ code[p] \in Closes
           /\ \A x \in Peers : coded => code[x] # "BadKey"
           /\ code[p] = "BadKey" => Head(toServer[p]).type = "BadKey" /\ toServer[p] # <<>>
           /\ code[Other(p)] = "BadKey" =>
                /\ Head(toServer[p]).type = "BadKey" /\ toServer[p] # <<>>
                /\ handler[p] = "run" /\ server[p] = "open"
<1>1. CASE ReadClose(p)
  <2> DEFINE type == Head(toServer[p]).type
             code == [x \in Peers |-> IF x = p THEN type ELSE Passed(type)]
  <2>1. toServer[p] # <<>> /\ type \in Closes /\ toServer[p] \in Seq(From(p)) /\ handler[p] = "run" /\ server[p] = "open"
    BY <1>1 DEF ReadClose, Base, Streams
  <2>2. Head(toServer[p]) \in From(p)
    BY <2>1, SeqFacts
  <2>3. coded => type # "BadKey"
    BY <2>2 DEF From
  <2>4. Passed(type) \in Closes \cup {None} /\ (Passed(type) = "BadKey" => type = "BadKey")
    BY <2>1, HandshakeAssumption DEF Passed, Closes
  <2>5. CloseServer(code)
    BY <1>1 DEF ReadClose
  <2> HIDE DEF type
  <2>6. code \in [Peers -> Closes \cup {None}] /\ code[p] = type /\ code[Other(p)] = Passed(type)
    BY <2>1, <2>4, TwoPeers
  <2>7. \A x \in Peers : coded => code[x] # "BadKey"
    BY <2>3, <2>4, <2>6, TwoPeers
  <2> HIDE DEF code
  <2> QED BY <2>1, <2>4, <2>5, <2>6, <2>7 DEF type
<1>2. CASE ReadFails(p)
  <2> DEFINE code == [x \in Peers |-> IF x = p THEN "dropped" ELSE "PeerHungUp"]
  <2>1. CloseServer(code)
    BY <1>2 DEF ReadFails
  <2>2. code \in [Peers -> Closes \cup {None}] /\ \A x \in Peers : code[x] # "BadKey" /\ code[x] \in Closes
    BY DEF Closes
  <2> HIDE DEF code
  <2> QED BY <2>1, <2>2, TwoPeers
<1> QED BY <1>1, <1>2

(* A read loop ends, and the server closes what it has to. *)
LEMMA ReadEndBase ==
  ASSUME Base, NEW p \in Peers, ReadClose(p) \/ ReadFails(p), UNCHANGED <<kind, coded, webVars>>
  PROVE  Base'
<1>1. /\ UNCHANGED <<pass, pc, result, key, local, remote, gathered, opened, exited, closed, toServer>>
      /\ handler' = [handler EXCEPT ![p] = "done"]
  BY DEF ReadClose, ReadFails, clientVars
<1>2. PICK code \in [Peers -> Closes \cup {None}] : CloseServer(code) /\ \A x \in Peers : coded => code[x] # "BadKey"
  BY ReadEnds
<1>3. ASSUME NEW x \in Peers
      PROVE  /\ \/ toClient'[x] = toClient[x]
                \/ /\ code[x] \in Closes /\ code[x] # None
                   /\ toClient'[x] = Append(toClient[x], Frame(code[x], None))
             /\ server'[x] \in {"open", "closed"} /\ (server[x] = "closed" => server'[x] = "closed")
             /\ server'[x] = "open" => toClient'[x] = toClient[x] /\ server[x] = "open"
  BY <1>2 DEF CloseServer, Base, Types
<1>4. Types' /\ Agreed'
  <2>1. server' \in [Peers -> {"open", "closed"}]
    BY <1>3, <1>2 DEF CloseServer
  <2> QED BY <1>1, <2>1 DEF Base, Types, Agreed, Differ, Answering, webVars
<1>5. ASSUME NEW x \in Peers PROVE Place(x)' /\ Keyed(x)' /\ OnlyData(x)'
  BY <1>1, <1>3 DEF Base, Place, Keyed, OnlyData, LabelsOf, Web, Answering
<1>6. ASSUME NEW x \in Peers PROVE toClient'[x] \in Seq(From(Other(x)))
  <2>1. toClient[x] \in Seq(From(Other(x))) /\ Other(x) \in Peers
    BY TwoPeers DEF Base, Streams
  <2>2. CASE code[x] \in Closes /\ toClient'[x] = Append(toClient[x], Frame(code[x], None))
    <3>1. Frame(code[x], None) \in From(Other(x))
      BY <1>2, <2>1, <2>2, OwnFrame DEF Base
    <3>2. Append(toClient[x], Frame(code[x], None)) \in Seq(From(Other(x)))
      BY <2>1, <3>1, SeqFacts
    <3> QED BY <2>2, <3>2
  <2> QED BY <1>3, <2>1, <2>2
<1>7. Streams'
  <2>1. \A x \in Peers : From(x)' = From(x) /\ From(Other(x))' = From(Other(x))
    BY <1>1 DEF From
  <2>2. \A x \in Peers : toClient'[x] \in Seq(Frames)
    BY <1>6, OwnFrames, TwoPeers
  <2>3. toClient' = [x \in Peers |-> toClient'[x]]
    BY <1>2 DEF CloseServer
  <2>4. toClient' \in [Peers -> Seq(Frames)]
    BY <2>2, <2>3
  <2> QED BY <1>1, <1>6, <2>1, <2>4 DEF Base, Streams
<1> QED BY <1>4, <1>5, <1>7 DEF Base

-----------------------------------------------------------------------------
(* All steps. *)

(* What a step of a Go client does, whether two sides A met or not. *)
LEMMA GoSteps ==
  ASSUME Types, NEW p \in Peers, GoStep(p)
  PROVE  /\ p \in Peers \ Web /\ UNCHANGED webVars
         /\ \/ SendPake(p) \/ (RecvPake(p) /\ ~coded) \/ (GoPakeFails(p) /\ pc[p] = "recvPake" /\ coded)
            \/ Describe(p) \/ RecvDescription(p) \/ RecvBadKey(p) \/ ReadClosed(p)
            \/ RecvCandidate(p) \/ RemoteCandidatesEnd(p) \/ WaitSucceeds(p)
<1>1. p \in Peers \ Web /\ UNCHANGED webVars
  BY DEF GoStep
<1>2. CASE Clash /\ pc[p] = "recvPake" /\ toClient[p] # <<>> /\ Head(toClient[p]).type \in Data
  BY <1>1, <1>2, ClashCoded DEF GoStep
<1>3. CASE ~(Clash /\ pc[p] = "recvPake" /\ toClient[p] # <<>> /\ Head(toClient[p]).type \in Data)
  <2>1. Step(p)
    BY <1>3 DEF GoStep
  <2>2. RecvPake(p) => ~coded
    BY <1>3, ClashCoded DEF RecvPake, Reads
  <2> QED BY <1>1, <2>1, <2>2 DEF Step
<1> QED BY <1>2, <1>3

(* The first part of the invariant holds in every reachable state. *)
LEMMA BaseInit ==
  ASSUME WebInit
  PROVE  Base
<1>1. Types
  BY HandshakeAssumption DEF WebInit, Paired, Types, Web, Peers, WebLabels, Labels, Results
<1>2. Streams
  <2>1. \A S : <<>> \in Seq(S)
    OBVIOUS
  <2> QED BY <2>1 DEF WebInit, Paired, Streams
<1>3. Agreed
  BY DEF WebInit, Paired, Agreed, Answering, Peers, Side
<1>4. ASSUME NEW p \in Peers PROVE Place(p) /\ OnlyData(p) /\ Keyed(p)
  <2>1. pc[p] = (IF Side(p) = "A" THEN "sendPake" ELSE "recvPake") /\ local = {} /\ remote = {} /\ closed = {}
        /\ key[p] = None /\ toClient[p] = <<>>
    BY <1>4 DEF WebInit, Paired
  <2>2. Place(p)
    BY <1>1, <2>1 DEF Place, LabelsOf, Side, Web, Types, Peers
  <2>3. OnlyData(p)
    BY <2>1 DEF OnlyData
  <2>4. Keyed(p)
    BY <1>1, <2>1 DEF Keyed, Side, Web, Types, Peers
  <2> QED BY <2>2, <2>3, <2>4
<1> QED BY <1>1, <1>2, <1>3, <1>4 DEF Base

(* Every step keeps Base, one lemma for each group of actions. *)
LEMMA BaseNext ==
  ASSUME Base, [WebNext]_allVars
  PROVE  Base'
<1>1. ASSUME NEW p \in Peers, GoStep(p), UNCHANGED <<kind, coded>>
      PROVE  Base'
  <2>1. Types
    BY DEF Base
  <2> QED BY <1>1, <2>1, GoSteps, GoPakeBase, GoDescribeBase, GoQuitBase, GoWaitBase
<1>2. ASSUME NEW p \in Peers, GoTimer(p) \/ GoFails(p), UNCHANGED <<kind, coded>>
      PROVE  Base'
  BY <1>2, GoQuitBase, GoWaitBase DEF GoTimer, Timer, GoFails
<1>3. ASSUME NEW p \in Peers, WebStep(p) \/ WebFails(p), UNCHANGED <<kind, coded>>
      PROVE  Base'
  BY <1>3, WebPakeBase, WebDescribeBase, WebBadKeyBase, WebCandidateBase, WebEndBase DEF WebStep, WebFails
<1>4. ASSUME NEW p \in Peers, OfRelay(p) \/ (Around(p) /\ UNCHANGED webVars), UNCHANGED <<kind, coded>>
      PROVE  Base'
  BY <1>4, GatherBase, ExitBase, ForwardBase, ReadEndBase DEF OfRelay, Relay, Around
<1>5. CASE UNCHANGED allVars
  <2>1. UNCHANGED <<pass, pc, result, key, local, remote, gathered, opened, exited, closed, toServer, toClient,
                    handler, server, kind, coded, held, added>>
    BY <1>5 DEF allVars, vars, clientVars, relayVars, webVars
  <2>2. Types' /\ Streams' /\ Agreed'
    BY <2>1 DEF Base, Types, Streams, From, Agreed, Differ, Answering
  <2>3. \A p \in Peers : Place(p)' /\ OnlyData(p)' /\ Keyed(p)'
    BY <2>1 DEF Base, Place, LabelsOf, Web, Answering, OnlyData, Keyed
  <2> QED BY <2>2, <2>3 DEF Base
<1> QED BY <1>1, <1>2, <1>3, <1>4, <1>5 DEF WebNext

(* Types, keys, labels and agreed descriptions: Base holds in every state. *)
THEOREM BaseInvariance == WebSpec => []Base
<1> QED BY BaseInit, BaseNext, PTL DEF WebSpec

(* Nobody is connected, or accepts a description, across different passwords
   or when both peers took side A. *)
THEOREM WebAuthenticatedHolds == WebSpec => []WebAuthenticated
<1>1. ASSUME Base PROVE WebAuthenticated
  <2>1. Types /\ Agreed
    BY <1>1 DEF Base
  <2> QED BY <2>1, ClashCoded DEF Agreed, WebAuthenticated, Differ, Peers
<1> QED BY <1>1, BaseInvariance, PTL

-----------------------------------------------------------------------------
(* Streams in order. *)

(* A stream in order stays so when its first frame, which is one that may
   come next, is taken; ... *)
LEMMA OrderTail ==
  ASSUME NEW q \in Peers, NEW d \in BOOLEAN, NEW g \in Nat, NEW s \in Seq(Frames), NEW n \in Nat,
         InOrder(q, d, g, s, n), s # <<>>
  PROVE  /\ Head(s).type \in MayCome(q, d, g, n)
         /\ InOrder(q, d, g, Tail(s), n + 1) /\ Len(Tail(s)) = Len(s) - 1 /\ Len(s) >= 1
<1>1. Len(s) \in Nat /\ Len(s) >= 1 /\ Head(s) = s[1] /\ Len(Tail(s)) = Len(s) - 1
  OBVIOUS
<1>2. Head(s).type \in MayCome(q, d, g, n + 1 - 1) /\ n + 1 - 1 = n
  BY <1>1 DEF InOrder
<1>3. ASSUME NEW j \in 1 .. Len(Tail(s))
      PROVE  Tail(s)[j].type \in MayCome(q, d, g, (n + 1) + j - 1)
  <2>1. j + 1 \in 1 .. Len(s) /\ Tail(s)[j] = s[j + 1] /\ n + (j + 1) - 1 = (n + 1) + j - 1
    BY <1>1
  <2> QED BY <2>1 DEF InOrder
<1> QED BY <1>1, <1>2, <1>3 DEF InOrder

(* ... when one that may come next is added; ... *)
LEMMA OrderAppend ==
  ASSUME NEW q \in Peers, NEW d \in BOOLEAN, NEW g \in Nat, NEW s \in Seq(Frames), NEW n \in Nat,
         InOrder(q, d, g, s, n), NEW f \in Frames, f.type \in MayCome(q, d, g, n + Len(s))
  PROVE  InOrder(q, d, g, Append(s, f), n) /\ Len(Append(s, f)) = Len(s) + 1
<1>1. Len(s) \in Nat /\ Len(Append(s, f)) = Len(s) + 1
  OBVIOUS
<1>2. ASSUME NEW j \in 1 .. Len(Append(s, f))
      PROVE  Append(s, f)[j].type \in MayCome(q, d, g, n + j - 1)
  <2>1. CASE j = Len(s) + 1
    <3>1. n + j - 1 = n + Len(s) /\ Append(s, f)[j] = f
      BY <1>1, <2>1
    <3> QED BY <3>1
  <2>2. CASE j # Len(s) + 1
    <3>1. j \in 1 .. Len(s) /\ Append(s, f)[j] = s[j]
      BY <1>1, <2>2
    <3> QED BY <3>1 DEF InOrder
  <2> QED BY <2>1, <2>2
<1> QED BY <1>1, <1>2 DEF InOrder

(* ... when it moves down among the candidates, and when more candidates have
   been gathered. *)
LEMMA OrderMoves ==
  ASSUME NEW q \in Peers, NEW d \in BOOLEAN, NEW g \in Nat, NEW h \in Nat, h >= g,
         NEW s \in Seq(Frames), NEW n \in Nat, NEW m \in Nat, n = m \/ (n >= m /\ m >= 2),
         InOrder(q, d, g, s, n)
  PROVE  InOrder(q, d, h, s, m)
<1>1. ASSUME NEW j \in 1 .. Len(s)
      PROVE  s[j].type \in MayCome(q, d, h, m + j - 1)
  <2>1. MayCome(q, d, g, n + j - 1) \subseteq MayCome(q, d, h, m + j - 1)
    <3>1. PICK a \in Nat, b \in Nat : a = n + j - 1 /\ b = m + j - 1 /\ (a = b \/ (a >= b /\ b >= 2))
      <4>1. j \in Nat /\ j >= 1
        OBVIOUS
      <4> QED BY <4>1
    <3>2. MayCome(q, d, g, a) \subseteq MayCome(q, d, h, b)
      BY <3>1 DEF MayCome
    <3> QED BY <3>1, <3>2
  <2>2. s[j].type \in MayCome(q, d, g, n + j - 1)
    BY DEF InOrder
  <2> QED BY <2>1, <2>2
<1> QED BY <1>1 DEF InOrder

(* Types of what the order is made of. *)
LEMMA Counts ==
  ASSUME Base, NEW p \in Peers
  PROVE  /\ Sent(p) \in 0 .. 2 /\ Read(p) \in Nat /\ gathered[p] \in Nat /\ Differ \in BOOLEAN
         /\ toServer[p] \in Seq(Frames) /\ toClient[p] \in Seq(Frames)
         /\ Len(toServer[p]) \in Nat /\ Len(toClient[p]) \in Nat
         /\ Other(p) \in Peers /\ Other(p) # p /\ Other(Other(p)) = p
<1>1. held[p] \in Nat /\ added[p] \in Nat /\ gathered[p] \in Nat
  BY HandshakeAssumption DEF Base, Types
<1>2. toServer[p] \in Seq(Frames) /\ toClient[p] \in Seq(Frames)
  BY DEF Base, Streams
<1> QED BY <1>1, <1>2, TwoPeers DEF Sent, Read, Differ

-----------------------------------------------------------------------------
(* What a step of one peer does to the order. *)

(* p reads nothing. *)
LEMMA ReaderWaits ==
  ASSUME Base, Base', NEW p \in Peers, Apart(p), TakesNothing(p), Ordered(p),
         pc'[p] # "returned" =>
           pc[p] # "returned" /\ (Read(p)' = Read(p) \/ (Read(p)' <= Read(p) /\ Read(p)' >= 2))
  PROVE  Ordered(p)'
<1> SUFFICES ASSUME pc'[p] # "returned" PROVE Ordered(p)'
  BY DEF Ordered
<1>1. PICK q \in Peers : q = Other(p)
  BY TwoPeers
<1>2. PICK n \in Nat, m \in Nat : n = Read(p) /\ m = Read(p)' /\ (n = m \/ (n >= m /\ m >= 2))
  <2>1. Read(p) \in Nat /\ Read(p)' \in Nat
    <3>1. held[p] \in Nat /\ added[p] \in Nat /\ held'[p] \in Nat /\ added'[p] \in Nat
      BY DEF Base, Types
    <3> QED BY <3>1 DEF Read
  <2> QED BY <2>1
<1>3. /\ Differ' = Differ /\ gathered'[q] = gathered[q] /\ toClient'[p] = toClient[p] /\ toServer'[q] = toServer[q]
      /\ Passing(q)' = Passing(q) /\ Sent(q)' = Sent(q) /\ Live(q)' = Live(q)
  BY <1>1 DEF Apart, TakesNothing, Differ, Passing, Sent, Live
<1>4. PICK k \in Nat, l \in Nat, g \in Nat, d \in BOOLEAN, r \in 0 .. 2 :
         k = Len(toClient[p]) /\ l = Len(toServer[q]) /\ g = gathered[q] /\ d = Differ /\ r = Sent(q)
  BY Counts
<1>5. toClient[p] \in Seq(Frames) /\ toServer[q] \in Seq(Frames)
  BY Counts
<1>6. InOrder(q, d, g, toClient[p], n) /\ pc[p] # "returned"
  BY <1>1, <1>2, <1>4 DEF Ordered, Due
<1>7. InOrder(q, d, g, toClient[p], m)
  BY <1>2, <1>5, <1>6, OrderMoves
<1>8. ASSUME Passing(q)
      PROVE  /\ InOrder(q, d, g, toServer[q], m + k)
             /\ Live(q) => Capped(m + k + l) = r /\ m + k + l <= r + g
  <2>1. InOrder(q, d, g, toServer[q], n + k) /\ (Live(q) => Capped(n + k + l) = r /\ n + k + l <= r + g)
    BY <1>1, <1>2, <1>4, <1>6, <1>8 DEF Ordered, Due
  <2>2. n + k = m + k \/ (n + k >= m + k /\ m + k >= 2)
    BY <1>2
  <2>3. InOrder(q, d, g, toServer[q], m + k)
    BY <1>5, <2>1, <2>2, OrderMoves
  <2>4. Capped(n + k + l) = r /\ n + k + l <= r + g => Capped(m + k + l) = r /\ m + k + l <= r + g
    BY <1>2 DEF Capped
  <2> QED BY <2>1, <2>3, <2>4
<1> QED BY <1>1, <1>2, <1>3, <1>4, <1>7, <1>8 DEF Ordered, Due

(* p reads the next message; a Go client does not count the candidates. *)
LEMMA ReaderReads ==
  ASSUME Base, Base', NEW p \in Peers, Apart(p), TakesFrame(p), Ordered(p),
         pc'[p] # "returned" =>
           pc[p] # "returned" /\ (Read(p)' = Read(p) + 1 \/ (Read(p)' <= Read(p) /\ Read(p)' >= 2))
  PROVE  Ordered(p)'
<1> SUFFICES ASSUME pc'[p] # "returned" PROVE Ordered(p)'
  BY DEF Ordered
<1>1. PICK q \in Peers : q = Other(p)
  BY TwoPeers
<1>2. PICK n \in Nat, m \in Nat : n = Read(p) /\ m = Read(p)' /\ (n + 1 = m \/ (n >= m /\ m >= 2))
  <2>1. Read(p) \in Nat /\ Read(p)' \in Nat
    <3>1. held[p] \in Nat /\ added[p] \in Nat /\ held'[p] \in Nat /\ added'[p] \in Nat
      BY DEF Base, Types
    <3> QED BY <3>1 DEF Read
  <2> QED BY <2>1
<1>3. /\ Differ' = Differ /\ gathered'[q] = gathered[q] /\ toServer'[q] = toServer[q]
      /\ Passing(q)' = Passing(q) /\ Sent(q)' = Sent(q) /\ Live(q)' = Live(q)
  BY <1>1 DEF Apart, Differ, Passing, Sent, Live
<1>4. PICK l \in Nat, g \in Nat, d \in BOOLEAN, r \in 0 .. 2 :
         l = Len(toServer[q]) /\ g = gathered[q] /\ d = Differ /\ r = Sent(q)
  BY Counts
<1>5. toClient[p] \in Seq(Frames) /\ toServer[q] \in Seq(Frames)
  BY Counts
<1>6. InOrder(q, d, g, toClient[p], n) /\ pc[p] # "returned" /\ toClient[p] # <<>>
  BY <1>1, <1>2, <1>4 DEF Ordered, Due, TakesFrame
<1>7. /\ InOrder(q, d, g, Tail(toClient[p]), n + 1) /\ Len(Tail(toClient[p])) = Len(toClient[p]) - 1
      /\ Len(toClient[p]) >= 1
  BY <1>4, <1>5, <1>6, OrderTail
<1>8. toClient'[p] = Tail(toClient[p]) /\ Tail(toClient[p]) \in Seq(Frames)
  BY <1>5, <1>6, TakenFrame, SeqFacts DEF Base
<1>9. InOrder(q, d, g, toClient'[p], m)
  <2>1. n + 1 = m \/ (n + 1 >= m /\ m >= 2)
    BY <1>2
  <2>2. PICK a \in Nat : a = n + 1 /\ g >= g
    OBVIOUS
  <2>3. a = m \/ (a >= m /\ m >= 2)
    BY <2>1, <2>2
  <2>4. toClient'[p] \in Seq(Frames) /\ InOrder(q, d, g, toClient'[p], a)
    BY <1>7, <1>8, <2>2
  <2> QED BY <2>2, <2>3, <2>4, OrderMoves
<1>10. PICK k \in Nat : k + 1 = Len(toClient[p]) /\ k = Len(toClient'[p])
  <2>1. PICK a \in Nat : a = Len(toClient[p])
    BY <1>5
  <2>2. a - 1 \in Nat /\ (a - 1) + 1 = a /\ Len(toClient'[p]) = a - 1
    BY <1>7, <1>8, <2>1
  <2> QED BY <2>1, <2>2
<1>11. ASSUME Passing(q)
       PROVE  /\ InOrder(q, d, g, toServer[q], m + k)
              /\ Live(q) => Capped(m + k + l) = r /\ m + k + l <= r + g
  <2>1. InOrder(q, d, g, toServer[q], n + (k + 1)) /\ (Live(q) => Capped(n + (k + 1) + l) = r /\ n + (k + 1) + l <= r + g)
    BY <1>1, <1>2, <1>4, <1>6, <1>10, <1>11 DEF Ordered, Due
  <2>2. n + (k + 1) = m + k \/ (n + (k + 1) >= m + k /\ m + k >= 2)
    BY <1>2
  <2>3. InOrder(q, d, g, toServer[q], m + k)
    <3>1. n + (k + 1) \in Nat /\ m + k \in Nat /\ g >= g
      OBVIOUS
    <3> QED BY <1>5, <2>1, <2>2, <3>1, OrderMoves
  <2>4. Capped(n + (k + 1) + l) = r /\ n + (k + 1) + l <= r + g => Capped(m + k + l) = r /\ m + k + l <= r + g
    BY <1>2 DEF Capped
  <2> QED BY <2>1, <2>3, <2>4
<1> QED BY <1>1, <1>2, <1>3, <1>4, <1>9, <1>10, <1>11 DEF Ordered, Due

-----------------------------------------------------------------------------
(* What a step of p does to the order of what it sends. *)

(* In general, by what is sent and what stays due; ... *)
LEMMA SenderStep ==
  ASSUME Base, NEW p \in Peers, Apart(p), Ordered(Other(p)),
         gathered'[p] \in Nat, gathered'[p] >= gathered[p],
         \A b \in Nat : Passing(p) /\ Due(p, b) => Due(p, b)'
  PROVE  Ordered(Other(p))'
<1>1. PICK x \in Peers : x = Other(p) /\ Other(x) = p
  BY TwoPeers
<1>2. /\ Differ' = Differ /\ Passing(p)' = Passing(p) /\ Read(x)' = Read(x)
      /\ toClient'[x] = toClient[x] /\ pc'[x] = pc[x]
  BY <1>1 DEF Apart, Differ, Passing, Read
<1> SUFFICES ASSUME pc[x] # "returned" PROVE Ordered(x)'
  BY <1>1, <1>2 DEF Ordered
<1>3. InOrder(p, Differ, gathered[p], toClient[x], Read(x)) /\ (Passing(p) => Due(p, Read(x) + Len(toClient[x])))
  BY <1>1 DEF Ordered
<1>4. InOrder(p, Differ, gathered'[p], toClient[x], Read(x))
  <2>1. gathered[p] \in Nat /\ Differ \in BOOLEAN /\ toClient[x] \in Seq(Frames) /\ Read(x) \in Nat
    BY Counts
  <2> QED BY <1>3, <2>1, OrderMoves
<1>5. Passing(p) => Due(p, Read(x) + Len(toClient[x]))'
  <2>1. PICK b \in Nat : b = Read(x) + Len(toClient[x])
    <3>1. Read(x) \in Nat /\ Len(toClient[x]) \in Nat
      BY Counts
    <3> QED BY <3>1
  <2>2. Passing(p) => Due(p, b)'
    BY <1>3, <2>1
  <2>3. Read(x)' + Len(toClient'[x]) = b
    BY <1>2, <2>1
  <2> QED BY <2>2, <2>3
<1> QED BY <1>1, <1>2, <1>4, <1>5 DEF Ordered

(* It sends nothing; ... *)
LEMMA SenderSilent ==
  ASSUME Base, NEW p \in Peers, Apart(p), SendsNothing(p), Ordered(Other(p)),
         gathered'[p] \in Nat, gathered'[p] >= gathered[p],
         Live(p)' => Live(p) /\ Sent(p)' = Sent(p)
  PROVE  Ordered(Other(p))'
<1>1. ASSUME NEW b \in Nat, Due(p, b) PROVE Due(p, b)'
  <2>1. PICK l \in Nat, g \in Nat, h \in Nat, d \in BOOLEAN, r \in 0 .. 2 :
          l = Len(toServer[p]) /\ g = gathered[p] /\ h = gathered'[p] /\ h >= g /\ d = Differ /\ r = Sent(p)
    BY Counts
  <2>2. InOrder(p, d, h, toServer[p], b)
    <3>1. InOrder(p, d, g, toServer[p], b) /\ toServer[p] \in Seq(Frames)
      BY <1>1, <2>1, Counts DEF Due
    <3> QED BY <2>1, <3>1, OrderMoves
  <2>3. Live(p)' => Capped(b + l) = r /\ b + l <= r + h /\ Sent(p)' = r
    <3>1. Live(p) => Capped(b + l) = r /\ b + l <= r + g
      BY <1>1, <2>1 DEF Due
    <3>2. b + l <= r + g => b + l <= r + h
      BY <2>1
    <3> QED BY <2>1, <3>1, <3>2
  <2>4. Differ' = Differ /\ toServer'[p] = toServer[p]
    BY DEF Apart, Differ, SendsNothing
  <2> QED BY <2>1, <2>2, <2>3, <2>4 DEF Due
<1> QED BY <1>1, SenderStep

(* ... it sends the message that is next, or one more candidate; ... *)
LEMMA SenderSends ==
  ASSUME Base, NEW p \in Peers, Apart(p), Ordered(Other(p)), Live(p),
         NEW f \in Frames, toServer'[p] = Append(toServer[p], f),
         \/ /\ gathered'[p] = gathered[p]
            /\ \/ Sent(p) = 0 /\ f.type = "pake"
               \/ Sent(p) = 1 /\ f.type = IF p = "B" THEN "offer" ELSE "answer"
            /\ Sent(p)' = Sent(p) + 1
         \/ gathered'[p] = gathered[p] + 1 /\ Sent(p) = 2 /\ Sent(p)' = 2 /\ f.type = "candidate"
  PROVE  Ordered(Other(p))'
<1>1. PICK g \in Nat, h \in Nat : g = gathered[p] /\ h = gathered'[p] /\ h >= g
  BY Counts
<1>2. ASSUME NEW b \in Nat, Due(p, b) PROVE Due(p, b)'
  <2>1. PICK l \in Nat, d \in BOOLEAN, r \in 0 .. 2 : l = Len(toServer[p]) /\ d = Differ /\ r = Sent(p)
    BY Counts
  <2>2. InOrder(p, d, g, toServer[p], b) /\ Capped(b + l) = r /\ b + l <= r + g /\ toServer[p] \in Seq(Frames)
    BY <1>1, <1>2, <2>1, Counts DEF Due
  <2>3. PICK a \in Nat : a = b + l
    OBVIOUS
  <2>4. f.type \in MayCome(p, d, h, a)
    <3>1. CASE h = g /\ r = 0 /\ f.type = "pake"
      BY <2>2, <2>3, <3>1 DEF Capped, MayCome
    <3>2. CASE h = g /\ r = 1 /\ f.type = IF p = "B" THEN "offer" ELSE "answer"
      BY <2>2, <2>3, <3>2 DEF Capped, MayCome
    <3>3. CASE h = g + 1 /\ r = 2 /\ f.type = "candidate"
      <4>1. a >= 2 /\ a < 2 + h
        BY <2>2, <2>3, <3>3 DEF Capped
      <4> QED BY <3>3, <4>1 DEF MayCome
    <3> QED BY <1>1, <2>1, <3>1, <3>2, <3>3
  <2>5. InOrder(p, d, h, Append(toServer[p], f), b) /\ Len(Append(toServer[p], f)) = l + 1
    <3>1. InOrder(p, d, h, toServer[p], b)
      BY <1>1, <2>2, OrderMoves
    <3>2. f.type \in MayCome(p, d, h, b + Len(toServer[p]))
      BY <2>1, <2>3, <2>4
    <3> QED BY <2>1, <2>2, <3>1, <3>2, OrderAppend
  <2>6. PICK s \in 0 .. 2 : s = Sent(p)'
    <3>1. Sent(p)' \in 0 .. 2
      BY DEF Sent
    <3> QED BY <3>1
  <2>7. (h = g /\ r < 2 /\ s = r + 1) \/ (h = g + 1 /\ r = 2 /\ s = 2)
    BY <1>1, <2>1, <2>6
  <2>8. Capped(b + (l + 1)) = s /\ b + (l + 1) <= s + h
    BY <2>2, <2>7 DEF Capped
  <2>9. Differ' = Differ
    BY DEF Apart, Differ
  <2> QED BY <1>1, <2>1, <2>5, <2>6, <2>8, <2>9 DEF Due
<1> QED BY <1>1, <1>2, SenderStep

(* ... it closes, and what it sent is lost or not; ... *)
LEMMA SenderCloses ==
  ASSUME Base, NEW p \in Peers, Apart(p), Ordered(Other(p)), gathered'[p] = gathered[p], ~Live(p)',
         NEW sent \in {toServer[p], <<>>}, NEW f \in Frames, f.type \in Closes,
         toServer'[p] = Append(sent, f)
  PROVE  Ordered(Other(p))'
<1>1. ASSUME NEW b \in Nat, Due(p, b) PROVE Due(p, b)'
  <2>1. PICK g \in Nat, d \in BOOLEAN : g = gathered[p] /\ d = Differ
    BY Counts
  <2>2. InOrder(p, d, g, sent, b) /\ sent \in Seq(Frames)
    <3>1. InOrder(p, d, g, <<>>, b) /\ <<>> \in Seq(Frames)
      BY DEF InOrder
    <3>2. InOrder(p, d, g, toServer[p], b) /\ toServer[p] \in Seq(Frames)
      BY <1>1, <2>1, Counts DEF Due
    <3> QED BY <3>1, <3>2
  <2>3. f.type \in MayCome(p, d, g, b + Len(sent))
    BY DEF MayCome
  <2>4. InOrder(p, d, g, Append(sent, f), b)
    BY <2>2, <2>3, OrderAppend
  <2>5. Differ' = Differ
    BY DEF Apart, Differ
  <2> QED BY <2>1, <2>4, <2>5 DEF Due
<1>2. gathered'[p] \in Nat /\ gathered'[p] >= gathered[p]
  BY Counts
<1> QED BY <1>1, <1>2, SenderStep

(* ... or it says "bye" first. *)
LEMMA SenderByes ==
  ASSUME Base, NEW p \in Peers, Apart(p), Ordered(Other(p)), gathered'[p] = gathered[p], ~Live(p)',
         Live(p), Differ, Sent(p) >= (IF p = "B" THEN 2 ELSE 1),
         NEW e \in Frames, e.type = "bye", NEW f \in Frames, f.type \in Closes,
         toServer'[p] = Append(Append(toServer[p], e), f)
  PROVE  Ordered(Other(p))'
<1>1. ASSUME NEW b \in Nat, Due(p, b) PROVE Due(p, b)'
  <2>1. PICK g \in Nat, l \in Nat, r \in 0 .. 2 : g = gathered[p] /\ l = Len(toServer[p]) /\ r = Sent(p)
    BY Counts
  <2>2. InOrder(p, TRUE, g, toServer[p], b) /\ Capped(b + l) = r /\ toServer[p] \in Seq(Frames)
    BY <1>1, <2>1, Counts DEF Due
  <2>3. e.type \in MayCome(p, TRUE, g, b + Len(toServer[p]))
    <3>1. b + l >= r
      BY <2>2 DEF Capped
    <3>2. PICK a \in Nat : a = b + l /\ a >= (IF p = "B" THEN 2 ELSE 1)
      BY <2>1, <3>1
    <3>3. e.type \in MayCome(p, TRUE, g, a)
      BY <3>2 DEF MayCome
    <3> QED BY <2>1, <3>2, <3>3
  <2>4. InOrder(p, TRUE, g, Append(toServer[p], e), b) /\ Append(toServer[p], e) \in Seq(Frames)
    <3>1. Append(toServer[p], e) \in Seq(Frames)
      BY <2>2, SeqFacts
    <3>2. TRUE \in BOOLEAN
      OBVIOUS
    <3> QED BY <2>1, <2>2, <2>3, <3>1, <3>2, OrderAppend
  <2>5. f.type \in MayCome(p, TRUE, g, b + Len(Append(toServer[p], e)))
    BY DEF MayCome
  <2>6. InOrder(p, TRUE, g, toServer'[p], b)
    BY <2>4, <2>5, OrderAppend
  <2>7. Differ' = TRUE
    BY DEF Apart, Differ
  <2> QED BY <2>1, <2>6, <2>7 DEF Due
<1>2. gathered'[p] \in Nat /\ gathered'[p] >= gathered[p]
  BY Counts
<1> QED BY <1>1, <1>2, SenderStep

-----------------------------------------------------------------------------
(* Each step keeps the order. *)

(* The labels after which candidates can be held or added. *)
Trickling == {"localAnswer", "thrown", "waitOpen", "returned"}

(* No candidate comes or goes. *)
LEMMA CountedStep ==
  ASSUME Base, NEW p \in Peers, Counted(p), gathered'[Other(p)] = gathered[Other(p)],
         held'[p] = held[p], added'[p] = added[p],
         pc[p] \notin Trickling \/ pc'[p] \in Trickling \ {"localAnswer"} \/ pc'[p] = pc[p]
  PROVE  Counted(p)'
<1>1. held[p] \in Nat /\ added[p] \in Nat
  BY DEF Base, Types
<1> QED BY <1>1 DEF Counted, Trickling

(* A step keeps the order when it keeps that of both streams. *)
LEMMA OrderStep ==
  ASSUME Base, Ordering, NEW p \in Peers, Apart(p), gathered'[p] \in Nat, gathered'[p] >= gathered[p],
         Counted(p)', ~coded => Ordered(p)' /\ Ordered(Other(p))'
  PROVE  Ordering'
<1>1. PICK q \in Peers : q = Other(p) /\ Other(q) = p /\ Peers = {p, q} /\ coded' = coded
  BY TwoPeers DEF Apart
<1>2. Counted(q)'
  <2>1. Counted(q) /\ held[q] \in Nat /\ added[q] \in Nat /\ gathered[p] \in Nat
    BY HandshakeAssumption DEF Ordering, Base, Types
  <2>2. held'[q] = held[q] /\ added'[q] = added[q] /\ pc'[q] = pc[q]
    BY <1>1 DEF Apart
  <2> QED BY <1>1, <2>1, <2>2 DEF Counted
<1> QED BY <1>1, <1>2 DEF Ordering

(* What a browser does leaves the other peer alone. *)
LEMMA WebApart ==
  ASSUME Base, NEW p \in Peers, WebStep(p) \/ WebFails(p), UNCHANGED <<kind, coded>>
  PROVE  /\ p \in Web /\ kind[p] = "web" /\ Apart(p) /\ UNCHANGED gathered
         /\ Place(p) /\ Keyed(p)
<1>1. p \in Web /\ kind[p] = "web" /\ Place(p) /\ Keyed(p)
  BY DEF WebStep, WebFails, Web, Base
<1> USE <1>1 DEF Goto, Base, Types, Streams, relayVars, webVars
<1>2. CASE WebStart(p)
  BY <1>2, TwoPeers DEF WebStart, Start, Sends, Apart
<1>3. CASE WebExchange(p)
  BY <1>3, TwoPeers DEF WebExchange, Exchange, Sends, Hears, Apart
<1>4. CASE WebOffer(p)
  BY <1>4, TwoPeers DEF WebOffer, SendsIfOpen, Apart
<1>5. CASE WebFinish(p)
  BY <1>5, TwoPeers DEF WebFinish, Finish, Settle, Hears, Apart
<1>6. CASE WebBadKey(p)
  BY <1>6, TwoPeers DEF WebBadKey, Settle, Hears, Apart
<1>7. CASE WebRecvOffer(p)
  BY <1>7, TwoPeers DEF WebRecvOffer, Hears, Apart
<1>8. CASE WebHold(p)
  BY <1>8, TwoPeers DEF WebHold, Hears, Apart, clientVars
<1>9. CASE WebAnswer(p)
  BY <1>9, TwoPeers DEF WebAnswer, SendsIfOpen, Settle, Apart
<1>10. CASE WebRecvAnswer(p)
  BY <1>10, TwoPeers DEF WebRecvAnswer, Hears, Settle, Apart
<1>11. CASE WebCandidate(p)
  BY <1>11, TwoPeers DEF WebCandidate, Hears, Apart, clientVars
<1>12. CASE WebClosed(p)
  BY <1>12, TwoPeers DEF WebClosed, Settle, Apart
<1>13. CASE WebClose(p)
  BY <1>13, TwoPeers DEF WebClose, Closing, Sends, Apart
<1>14. CASE WebThrows(p)
  BY <1>14, TwoPeers DEF WebThrows, Apart
<1> QED BY <1>2, <1>3, <1>4, <1>5, <1>6, <1>7, <1>8, <1>9, <1>10, <1>11, <1>12, <1>13, <1>14
       DEF WebStep, WebFails

(* The first message and the answer to it. *)
LEMMA WebPakeOrder ==
  ASSUME Base, Base', Ordering, NEW p \in Peers, WebStep(p) \/ WebFails(p), UNCHANGED <<kind, coded>>,
         WebStart(p) \/ WebExchange(p) \/ WebFinish(p)
  PROVE  Ordering'
<1>1. Apart(p) /\ UNCHANGED gathered /\ Place(p) /\ kind[p] = "web" /\ p \in Web
  BY WebApart
<1>2. gathered'[p] = gathered[p] /\ gathered[p] \in Nat /\ gathered'[Other(p)] = gathered[Other(p)]
  BY <1>1, Counts
<1>3. Counted(p) /\ (~coded => Ordered(p) /\ Ordered(Other(p))) /\ pc \in [Peers -> WebLabels]
  BY TwoPeers DEF Ordering, Base, Types
<1>4. Counted(p)'
  <2>1. pc[p] \in {"sendPake", "recvPake"} /\ held' = held /\ added' = added
    BY DEF WebStart, WebExchange, WebFinish, webVars
  <2> QED BY <1>2, <1>3, <2>1, CountedStep DEF Trickling
<1> SUFFICES ASSUME ~coded PROVE Ordered(p)' /\ Ordered(Other(p))'
  BY <1>1, <1>2, <1>4, OrderStep
<1>5. Frame("pake", None) \in Frames /\ Frame("pake", None).type = "pake"
  BY DEF Frame, Frames, Data
<1>6. toServer \in [Peers -> Seq(Frames)]
  BY DEF Base, Streams
<1> USE DEF Goto
<1>7. CASE WebStart(p)
  <2>1. p = "A" /\ TakesNothing(p) /\ toServer'[p] = Append(toServer[p], Frame("pake", None))
    BY <1>1, <1>6, <1>7 DEF WebStart, Start, Sends, Place, LabelsOf, TakesNothing, Peers
  <2>2. Sent(p) = 0 /\ Sent(p)' = 1 /\ Read(p) = 0 /\ Read(p)' = 0 /\ pc[p] # "returned"
    BY <1>3, <1>7, <2>1 DEF WebStart, Sent, Read
  <2>3. Ordered(p)'
    BY <1>1, <1>3, <2>1, <2>2, ReaderWaits
  <2>4. CASE p \notin closed
    <3>1. Live(p)
      BY <1>7, <2>4 DEF Live, WebStart
    <3> QED BY <1>1, <1>2, <1>3, <1>5, <2>1, <2>2, <2>3, <3>1, SenderSends
  <2>5. CASE p \in closed
    <3>1. ~Passing(p)
      BY <1>1, <1>7, <2>5 DEF Place, WebStart, Passing
    <3> QED BY <1>1, <1>2, <1>3, <2>3, <3>1, SenderStep
  <2> QED BY <2>4, <2>5
<1>8. CASE WebExchange(p)
  <2>1. /\ p = "B" /\ TakesFrame(p) /\ toServer'[p] = Append(toServer[p], Frame("pake", None))
        /\ p \notin closed
    BY <1>1, <1>6, <1>8 DEF WebExchange, Exchange, Sends, Hears, Message, Side, TakesFrame, Peers
  <2>2. Sent(p) = 0 /\ Sent(p)' = 1 /\ Read(p) = 0 /\ Read(p)' = 1 /\ pc[p] # "returned"
    BY <1>3, <1>8, <2>1 DEF WebExchange, Sent, Read
  <2>3. Ordered(p)'
    BY <1>1, <1>3, <2>1, <2>2, ReaderReads
  <2>4. Live(p)
    BY <1>8, <2>1 DEF Live, WebExchange
  <2> QED BY <1>1, <1>2, <1>3, <1>5, <2>1, <2>2, <2>3, <2>4, SenderSends
<1>9. CASE WebFinish(p)
  <2>1. ~Clash
    BY ClashCoded DEF Base
  <2>2. /\ p = "A" /\ TakesFrame(p) /\ SendsNothing(p) /\ p \notin closed
        /\ pc[p] = "recvPake" /\ pc' = [pc EXCEPT ![p] = "recvOffer"]
    BY <1>1, <1>9, <2>1 DEF WebFinish, Hears, Message, Side, TakesFrame, SendsNothing, Peers
  <2>3. Sent(p) = 1 /\ Sent(p)' = 1 /\ Read(p) = 0 /\ Read(p)' = 1 /\ pc[p] # "returned"
    BY <1>3, <2>2 DEF Sent, Read
  <2>4. Ordered(p)'
    BY <1>1, <1>3, <2>2, <2>3, ReaderReads
  <2>5. Live(p)
    BY <2>2 DEF Live
  <2> QED BY <1>1, <1>2, <1>3, <2>2, <2>3, <2>4, <2>5, SenderSilent
<1> QED BY <1>7, <1>8, <1>9

(* Descriptions. *)
LEMMA WebDescribeOrder ==
  ASSUME Base, Base', Ordering, NEW p \in Peers, WebStep(p) \/ WebFails(p), UNCHANGED <<kind, coded>>,
         WebOffer(p) \/ WebRecvOffer(p) \/ WebAnswer(p) \/ WebRecvAnswer(p)
  PROVE  Ordering'
<1>1. Apart(p) /\ UNCHANGED gathered /\ Place(p) /\ kind[p] = "web" /\ p \in Web
  BY WebApart
<1>2. gathered'[p] = gathered[p] /\ gathered[p] \in Nat /\ gathered'[Other(p)] = gathered[Other(p)]
  BY <1>1, Counts
<1> USE DEF Goto
<1>3. ~coded
  BY <1>1 DEF WebOffer, WebRecvOffer, WebAnswer, WebRecvAnswer, Place, LabelsOf
<1>4. /\ Counted(p) /\ Ordered(p) /\ Ordered(Other(p)) /\ pc \in [Peers -> WebLabels]
      /\ held \in [Peers -> Nat] /\ added \in [Peers -> Nat] /\ toServer \in [Peers -> Seq(Frames)]
  BY <1>3, TwoPeers DEF Ordering, Base, Types, Streams
<1>5. ASSUME NEW type \in {"offer", "answer"} PROVE Seal(p, type) \in Frames /\ Seal(p, type).type = type
  BY DEF Seal, Frame, Frames, Data, Base, Types
<1>6. CASE WebOffer(p)
  <2>1. /\ p = "B" /\ TakesNothing(p) /\ pc[p] = "localOffer" /\ pc' = [pc EXCEPT ![p] = "recvAnswer"]
        /\ UNCHANGED <<held, added, closed>> /\ SendsIfOpen(p, Seal(p, "offer"))
    BY <1>1, <1>6 DEF WebOffer, Place, LabelsOf, TakesNothing, Peers, webVars
  <2>2. Sent(p) = 1 /\ Sent(p)' = 2 /\ Read(p) = 1 /\ Read(p)' = 1 /\ pc[p] # "returned"
    BY <1>4, <2>1 DEF Sent, Read
  <2>3. Ordered(p)'
    BY <1>1, <1>4, <2>1, <2>2, ReaderWaits
  <2>4. Counted(p)'
    BY <1>2, <1>4, <2>1, CountedStep DEF Trickling
  <2>5. CASE p \notin closed
    <3>1. Live(p) /\ toServer'[p] = Append(toServer[p], Seal(p, "offer"))
      BY <1>4, <2>1, <2>5 DEF Live, SendsIfOpen
    <3>2. Ordered(Other(p))'
      BY <1>1, <1>2, <1>4, <1>5, <2>1, <2>2, <3>1, SenderSends
    <3> QED BY <1>1, <1>2, <2>3, <2>4, <3>2, OrderStep
  <2>6. CASE p \in closed
    <3>1. ~Live(p)' /\ SendsNothing(p)
      BY <2>1, <2>6 DEF Live, SendsIfOpen, SendsNothing
    <3>2. Ordered(Other(p))'
      BY <1>1, <1>2, <1>4, <3>1, SenderSilent
    <3> QED BY <1>1, <1>2, <2>3, <2>4, <3>2, OrderStep
  <2> QED BY <2>5, <2>6
<1>7. CASE WebRecvOffer(p)
  <2>1. /\ p = "A" /\ TakesFrame(p) /\ SendsNothing(p) /\ p \notin closed /\ pc[p] = "recvOffer"
        /\ pc' = [pc EXCEPT ![p] = "localAnswer"] /\ UNCHANGED <<held, added>>
    BY <1>1, <1>7 DEF WebRecvOffer, Hears, Message, Place, LabelsOf, TakesFrame, SendsNothing, Peers, webVars
  <2>2. held[p] + added[p] = 0
    BY <1>4, <2>1 DEF Counted
  <2>3. Sent(p) = 1 /\ Sent(p)' = 1 /\ Read(p) = 1 /\ Read(p)' = 2 /\ pc[p] # "returned"
    BY <1>4, <2>1, <2>2 DEF Sent, Read
  <2>4. Ordered(p)'
    BY <1>1, <1>4, <2>1, <2>3, ReaderReads
  <2>5. Counted(p)'
    BY <1>2, <1>4, <2>1, CountedStep DEF Trickling
  <2>6. Live(p)
    BY <2>1 DEF Live
  <2>7. Ordered(Other(p))'
    BY <1>1, <1>2, <1>4, <2>1, <2>3, <2>6, SenderSilent
  <2> QED BY <1>1, <1>2, <2>4, <2>5, <2>7, OrderStep
<1>8. CASE WebAnswer(p)
  <2>1. /\ p = "A" /\ TakesNothing(p) /\ pc[p] = "localAnswer" /\ pc' = [pc EXCEPT ![p] = "waitOpen"]
        /\ UNCHANGED closed /\ SendsIfOpen(p, Seal(p, "answer"))
    BY <1>1, <1>8 DEF WebAnswer, Place, LabelsOf, TakesNothing, Peers
  <2>2. added[p] = 0 /\ held'[p] = 0 /\ added'[p] \in {held[p], 0} /\ held[p] \in Nat
    BY <1>4, <1>8 DEF WebAnswer, Counted
  <2>3. /\ Sent(p) = 1 /\ Sent(p)' = 2 /\ pc[p] # "returned"
        /\ Read(p) = 2 + held[p] + added[p] /\ Read(p)' = 2 + held'[p] + added'[p]
    BY <1>4, <2>1 DEF Sent, Read
  <2>4. Read(p)' <= Read(p) /\ Read(p)' >= 2
    BY <2>2, <2>3
  <2>5. Ordered(p)'
    BY <1>1, <1>4, <2>1, <2>3, <2>4, ReaderWaits
  <2>6. Counted(p)'
    <3>1. gathered[Other(p)] \in Nat
      BY Counts
    <3> QED BY <1>2, <1>4, <2>1, <2>2, <3>1 DEF Counted
  <2>7. CASE p \notin closed
    <3>1. Live(p) /\ toServer'[p] = Append(toServer[p], Seal(p, "answer"))
      BY <1>4, <2>1, <2>7 DEF Live, SendsIfOpen
    <3>2. Ordered(Other(p))'
      BY <1>1, <1>2, <1>4, <1>5, <2>1, <2>3, <3>1, SenderSends
    <3> QED BY <1>1, <1>2, <2>5, <2>6, <3>2, OrderStep
  <2>8. CASE p \in closed
    <3>1. ~Live(p)' /\ SendsNothing(p)
      BY <2>1, <2>8 DEF Live, SendsIfOpen, SendsNothing
    <3>2. Ordered(Other(p))'
      BY <1>1, <1>2, <1>4, <3>1, SenderSilent
    <3> QED BY <1>1, <1>2, <2>5, <2>6, <3>2, OrderStep
  <2> QED BY <2>7, <2>8
<1>9. CASE WebRecvAnswer(p)
  <2>1. /\ p = "B" /\ TakesFrame(p) /\ SendsNothing(p) /\ p \notin closed /\ pc[p] = "recvAnswer"
        /\ pc' = [pc EXCEPT ![p] = "waitOpen"] /\ UNCHANGED <<held, added>>
    BY <1>1, <1>9 DEF WebRecvAnswer, Hears, Message, Place, LabelsOf, TakesFrame, SendsNothing, Peers, webVars
  <2>2. held[p] + added[p] = 0
    BY <1>4, <2>1 DEF Counted
  <2>3. Sent(p) = 2 /\ Sent(p)' = 2 /\ Read(p) = 1 /\ Read(p)' = 2 /\ pc[p] # "returned"
    BY <1>4, <2>1, <2>2 DEF Sent, Read
  <2>4. Ordered(p)'
    BY <1>1, <1>4, <2>1, <2>3, ReaderReads
  <2>5. Counted(p)'
    BY <1>2, <1>4, <2>1, CountedStep DEF Trickling
  <2>6. Live(p)
    BY <2>1 DEF Live
  <2>7. Ordered(Other(p))'
    BY <1>1, <1>2, <1>4, <2>1, <2>3, <2>6, SenderSilent
  <2> QED BY <1>1, <1>2, <2>4, <2>5, <2>7, OrderStep
<1> QED BY <1>6, <1>7, <1>8, <1>9

(* What p reads is what may come. *)
LEMMA NextRead ==
  ASSUME Base, NEW p \in Peers, Ordered(p), pc[p] # "returned", toClient[p] # <<>>
  PROVE  Head(toClient[p]).type \in MayCome(Other(p), Differ, gathered[Other(p)], Read(p))
<1>1. /\ toClient[p] \in Seq(Frames) /\ Read(p) \in Nat /\ gathered[Other(p)] \in Nat
      /\ Differ \in BOOLEAN /\ Other(p) \in Peers
  BY Counts
<1> QED BY <1>1, OrderTail DEF Ordered

(* A description that does not open was made with another password. *)
LEMMA BadKeyDiffers ==
  ASSUME Base, NEW p \in Peers, Ordered(p), ~coded, TakesFrame(p), Head(toClient[p]).key # key[p],
         pc[p] \in {"recvOffer", "recvAnswer"}
  PROVE  Differ /\ Read(p) = 1 /\ Sent(p) = IF p = "B" THEN 2 ELSE 1
<1>1. (p = "B" <=> pc[p] = "recvAnswer") /\ key[p] = pass[p]
  BY DEF Base, Place, LabelsOf, Keyed, Answering, Peers
<1>2. Read(p) = 1 /\ Sent(p) = IF p = "B" THEN 2 ELSE 1
  BY <1>1 DEF Read, Sent, Peers
<1>3. Head(toClient[p]).type \in MayCome(Other(p), Differ, gathered[Other(p)], 1)
  BY <1>2, NextRead DEF TakesFrame
<1>4. Head(toClient[p]).type \in Sealed
  <2>1. gathered[Other(p)] \in Nat
    BY Counts
  <2> QED BY <1>3, <2>1 DEF MayCome, Sealed, TakesFrame, Data, Closes
<1>5. Head(toClient[p]).key = pass[Other(p)]
  BY <1>4, TakenFrame DEF From, Base
<1> QED BY <1>1, <1>2, <1>5 DEF Differ, Other, Peers

(* Between peers with one password only candidates follow the descriptions,
   and no more of them than were gathered. *)
LEMMA CandidateRead ==
  ASSUME Base, NEW p \in Peers, Ordered(p), pc[p] # "returned", TakesFrame(p), ~Differ,
         Read(p) = 2 + held[p] + added[p]
  PROVE  held[p] + added[p] + 1 <= gathered[Other(p)]
<1>1. PICK g \in Nat, h \in Nat, a \in Nat : g = gathered[Other(p)] /\ h = held[p] /\ a = added[p]
  BY Counts DEF Base, Types
<1>2. Head(toClient[p]).type \in MayCome(Other(p), FALSE, g, 2 + h + a)
  <2>1. Differ = FALSE /\ Read(p) = 2 + h + a
    BY <1>1, Counts
  <2>2. Head(toClient[p]).type \in MayCome(Other(p), Differ, gathered[Other(p)], Read(p))
    BY NextRead DEF TakesFrame
  <2> QED BY <1>1, <2>1, <2>2
<1>3. Head(toClient[p]).type \notin Closes
  BY DEF TakesFrame, Data, Closes
<1>4. 2 + h + a < 2 + g
  BY <1>2, <1>3 DEF MayCome
<1> QED BY <1>1, <1>4

(* A description that does not open, and candidates. *)
LEMMA WebReadOrder ==
  ASSUME Base, Base', Ordering, NEW p \in Peers, WebStep(p) \/ WebFails(p), UNCHANGED <<kind, coded>>,
         WebBadKey(p) \/ WebHold(p) \/ WebCandidate(p)
  PROVE  Ordering'
<1>1. Apart(p) /\ UNCHANGED gathered /\ Place(p) /\ kind[p] = "web" /\ p \in Web
  BY WebApart
<1>2. gathered'[p] = gathered[p] /\ gathered[p] \in Nat /\ gathered'[Other(p)] = gathered[Other(p)]
  BY <1>1, Counts
<1> USE DEF Goto
<1>3. ~coded
  BY <1>1 DEF WebBadKey, WebHold, WebCandidate, Place, LabelsOf
<1>4. /\ Counted(p) /\ Ordered(p) /\ Ordered(Other(p)) /\ pc \in [Peers -> WebLabels]
      /\ held \in [Peers -> Nat] /\ added \in [Peers -> Nat]
  BY <1>3, TwoPeers DEF Ordering, Base, Types
<1>5. CASE WebBadKey(p)
  <2>1. /\ Seal(p, "bye") \in Frames /\ Frame("BadKey", None) \in Frames
        /\ toServer'[p] = Append(Append(toServer[p], Seal(p, "bye")), Frame("BadKey", None))
        /\ TakesFrame(p) /\ p \notin closed
    BY <1>1, <1>5, ByeFrames DEF From
  <2>2. /\ pc[p] \in {"recvOffer", "recvAnswer"} /\ Head(toClient[p]).key # key[p]
        /\ pc'[p] = "returned" /\ p \in closed' /\ UNCHANGED <<held, added>>
    BY <1>4, <1>5 DEF WebBadKey, Opens, Message, webVars
  <2>3. Differ /\ Sent(p) = IF p = "B" THEN 2 ELSE 1
    BY <1>3, <1>4, <2>1, <2>2, BadKeyDiffers
  <2>4. Live(p) /\ ~Live(p)'
    BY <2>1, <2>2 DEF Live
  <2>5. Seal(p, "bye").type = "bye" /\ Frame("BadKey", None).type \in Closes
    BY DEF Seal, Frame, Closes
  <2>6. Sent(p) >= (IF p = "B" THEN 2 ELSE 1)
    BY <2>3
  <2>7. Ordered(Other(p))'
    BY <1>1, <1>2, <1>4, <2>1, <2>3, <2>4, <2>5, <2>6, SenderByes
  <2>8. Ordered(p)'
    BY <2>2 DEF Ordered
  <2>9. Counted(p)'
    BY <1>2, <1>4, <2>2, CountedStep DEF Trickling
  <2> QED BY <1>1, <1>2, <2>7, <2>8, <2>9, OrderStep
<1>6. CASE WebHold(p) \/ WebCandidate(p)
  <2>1. /\ TakesFrame(p) /\ SendsNothing(p) /\ p \notin closed /\ UNCHANGED <<pc, local, closed>>
        /\ pc[p] = "waitOpen" \/ (p = "A" /\ pc[p] \in {"localAnswer", "thrown"})
    BY <1>1, <1>3, <1>6 DEF WebHold, WebCandidate, Hears, Message, Side, TakesFrame, SendsNothing, clientVars, Peers
  <2>2. /\ pc[p] # "returned" /\ pc'[p] = pc[p] /\ held'[p] + added'[p] = held[p] + added[p] + 1
        /\ held'[p] \in Nat /\ added'[p] \in Nat
        /\ pc[p] = "localAnswer" => added'[p] = added[p]
    BY <1>4, <1>6, <2>1 DEF WebHold, WebCandidate
  <2>3. ~Differ
    BY <2>1 DEF Base, Agreed
  <2>4. Read(p) = 2 + held[p] + added[p] /\ Read(p)' = 2 + held'[p] + added'[p]
    BY <2>1, <2>2 DEF Read
  <2>5. held[p] + added[p] + 1 <= gathered[Other(p)]
    BY <1>4, <2>1, <2>2, <2>3, <2>4, CandidateRead
  <2>6. Read(p)' = Read(p) + 1
    BY <1>4, <2>2, <2>4
  <2>7. Ordered(p)'
    BY <1>1, <1>4, <2>1, <2>2, <2>6, ReaderReads
  <2>8. Sent(p)' = Sent(p) /\ Live(p)' = Live(p)
    BY <2>1, <2>2 DEF Sent, Live
  <2>9. Ordered(Other(p))'
    BY <1>1, <1>2, <1>4, <2>1, <2>8, SenderSilent
  <2>10. Counted(p)'
    BY <1>2, <1>4, <2>1, <2>2, <2>5 DEF Counted
  <2> QED BY <1>1, <1>2, <2>7, <2>9, <2>10, OrderStep
<1> QED BY <1>5, <1>6

(* The end of a browser's websocket, or of its state machine. *)
LEMMA WebEndOrder ==
  ASSUME Base, Base', Ordering, NEW p \in Peers, WebStep(p) \/ WebFails(p), UNCHANGED <<kind, coded>>,
         WebClosed(p) \/ WebClose(p) \/ WebThrows(p)
  PROVE  Ordering'
<1>1. Apart(p) /\ UNCHANGED gathered /\ Place(p) /\ kind[p] = "web" /\ p \in Web
  BY WebApart
<1>2. gathered'[p] = gathered[p] /\ gathered[p] \in Nat /\ gathered'[Other(p)] = gathered[Other(p)]
  BY <1>1, Counts
<1> USE DEF Goto
<1>3. /\ Counted(p) /\ pc \in [Peers -> WebLabels]
      /\ held \in [Peers -> Nat] /\ added \in [Peers -> Nat] /\ toServer \in [Peers -> Seq(Frames)]
  BY DEF Ordering, Base, Types, Streams
<1>4. UNCHANGED <<held, added>> /\ TakesNothing(p) /\ local' = local
  BY DEF WebClosed, WebClose, WebThrows, TakesNothing, webVars
<1>5. pc'[p] = pc[p] \/ (pc[p] \in {"localOffer", "localAnswer"} /\ pc'[p] = "thrown")
  BY <1>3 DEF WebClosed, WebClose, WebThrows
<1>6. Counted(p)'
  BY <1>2, <1>3, <1>4, <1>5, CountedStep DEF Trickling
<1> SUFFICES ASSUME ~coded PROVE Ordered(p)' /\ Ordered(Other(p))'
  BY <1>1, <1>2, <1>6, OrderStep
<1>7. Ordered(p) /\ Ordered(Other(p))
  BY TwoPeers DEF Ordering
<1>8. Ordered(p)'
  <2>1. pc'[p] # "returned" => pc[p] # "returned"
    BY <1>5
  <2>2. Read(p)' = Read(p)
    <3>1. pc[p] = "localAnswer" <=> (pc[p] \in {"localOffer", "localAnswer"} /\ p = "A")
      BY <1>1 DEF Place, LabelsOf
    <3> QED BY <1>4, <1>5, <3>1 DEF Read
  <2> QED BY <1>1, <1>4, <1>7, <2>1, <2>2, ReaderWaits
<1>9. CASE WebClosed(p)
  <2>1. SendsNothing(p) /\ ~Live(p)'
    BY <1>9 DEF WebClosed, SendsNothing, Live
  <2> QED BY <1>1, <1>2, <1>7, <1>8, <2>1, SenderSilent
<1>10. CASE WebClose(p)
  <2>1. PICK code \in Closes : toServer'[p] = Append(toServer[p], Frame(code, None)) /\ ~Live(p)'
    BY <1>3, <1>10 DEF WebClose, Closing, Sends, Closes, Live
  <2>2. Frame(code, None) \in Frames /\ Frame(code, None).type \in Closes
    BY <2>1 DEF Frame, Frames
  <2> QED BY <1>1, <1>2, <1>7, <1>8, <2>1, <2>2, SenderCloses
<1>11. CASE WebThrows(p)
  <2>1. SendsNothing(p) /\ pc'[p] = "thrown" /\ p \notin local
    BY <1>1, <1>3, <1>11 DEF WebThrows, SendsNothing, Place
  <2>2. ~Live(p)'
    BY <1>4, <2>1 DEF Live
  <2> QED BY <1>1, <1>2, <1>7, <1>8, <2>1, <2>2, SenderSilent
<1> QED BY <1>9, <1>10, <1>11

(* What a Go client does leaves the other peer alone. *)
GoActs(p) ==
  \/ SendPake(p) \/ (RecvPake(p) /\ ~coded) \/ (GoPakeFails(p) /\ pc[p] = "recvPake" /\ coded)
  \/ Describe(p) \/ RecvDescription(p) \/ RecvBadKey(p) \/ ReadClosed(p) \/ LocalError(p)
  \/ RecvCandidate(p) \/ RemoteCandidatesEnd(p) \/ WaitSucceeds(p)
  \/ WaitFails(p, "ErrTimedOut") \/ WaitFails(p, "failed")

(* A step of a Go client concerns nobody else. *)
LEMMA GoApart ==
  ASSUME Base, NEW p \in Peers \ Web, GoActs(p), UNCHANGED <<kind, coded, webVars>>
  PROVE  /\ kind[p] = "go" /\ Apart(p) /\ UNCHANGED <<gathered, held, added>>
         /\ Place(p) /\ Keyed(p) /\ (coded => p = "A")
<1>1. p \in Peers /\ kind[p] = "go" /\ Place(p) /\ Keyed(p) /\ (coded => p = "A")
  BY DEF Web, Base, Types, Peers
<1> USE DEF Goto, Returns, Base, Types, Streams, relayVars, webVars
<1>2. CASE SendPake(p)
  BY <1>1, <1>2, TwoPeers DEF SendPake, Sends, Apart
<1>3. CASE RecvPake(p) \/ GoPakeFails(p)
  BY <1>1, <1>3, TwoPeers DEF RecvPake, GoPakeFails, Reads, Apart
<1>4. CASE Describe(p)
  BY <1>1, <1>4, TwoPeers DEF Describe, Sends, Apart
<1>5. CASE RecvDescription(p)
  BY <1>1, <1>5, TwoPeers DEF RecvDescription, Reads, Apart
<1>6. CASE RecvBadKey(p)
  BY <1>1, <1>6, TwoPeers DEF RecvBadKey, Reads, Closing, Sends, Apart
<1>7. CASE ReadClosed(p)
  BY <1>1, <1>7, TwoPeers DEF ReadClosed, Apart
<1>8. CASE LocalError(p)
  BY <1>1, <1>8, TwoPeers DEF LocalError, Apart
<1>9. CASE RecvCandidate(p)
  BY <1>1, <1>9, TwoPeers DEF RecvCandidate, Reads, clientVars, Apart
<1>10. CASE RemoteCandidatesEnd(p)
  BY <1>1, <1>10, TwoPeers DEF RemoteCandidatesEnd, Apart
<1>11. CASE WaitSucceeds(p)
  BY <1>1, <1>11, TwoPeers DEF WaitSucceeds, CloseUnlessClosed, Closing, Sends, Apart
<1>12. CASE WaitFails(p, "ErrTimedOut") \/ WaitFails(p, "failed")
  BY <1>1, <1>12, TwoPeers DEF WaitFails, CloseUnlessClosed, Closing, Sends, Apart
<1> QED BY <1>2, <1>3, <1>4, <1>5, <1>6, <1>7, <1>8, <1>9, <1>10, <1>11, <1>12 DEF GoActs

(* Its first message, and its answer to one. *)
LEMMA GoPakeOrder ==
  ASSUME Base, Base', Ordering, NEW p \in Peers \ Web, GoActs(p), UNCHANGED <<kind, coded, webVars>>,
         SendPake(p) \/ (RecvPake(p) /\ ~coded) \/ (GoPakeFails(p) /\ coded)
  PROVE  Ordering'
<1>1. p \in Peers /\ Apart(p) /\ UNCHANGED <<gathered, held, added>> /\ Place(p)
  BY GoApart
<1>2. gathered'[p] = gathered[p] /\ gathered[p] \in Nat /\ gathered'[Other(p)] = gathered[Other(p)]
  BY <1>1, Counts
<1>3. /\ Counted(p) /\ (~coded => Ordered(p) /\ Ordered(Other(p)))
      /\ pc \in [Peers -> WebLabels] /\ toServer \in [Peers -> Seq(Frames)]
  BY <1>1, TwoPeers DEF Ordering, Base, Types, Streams
<1> USE DEF Goto, Returns
<1>4. Counted(p)'
  <2>1. pc[p] \notin Trickling \/ pc'[p] = "returned"
    BY <1>3 DEF SendPake, RecvPake, GoPakeFails, Trickling
  <2> QED BY <1>1, <1>2, <1>3, <2>1, CountedStep DEF Trickling
<1> SUFFICES ASSUME ~coded PROVE Ordered(p)' /\ Ordered(Other(p))'
  BY <1>1, <1>2, <1>4, OrderStep
<1>5. p \in Peers /\ p \notin closed
  BY <1>1 DEF SendPake, RecvPake, Place, Web
<1>6. CASE SendPake(p)
  <2>1. /\ pc[p] = "sendPake" /\ TakesNothing(p) /\ toServer'[p] = Append(toServer[p], Frame("pake", None))
        /\ pc'[p] = IF p = "A" THEN "recvPake" ELSE "sendOffer"
    BY <1>3, <1>5, <1>6 DEF SendPake, Sends, TakesNothing
  <2>2. Sent(p) = 0 /\ Sent(p)' = 1 /\ Read(p) = Read(p)' /\ pc[p] # "returned"
    BY <2>1, <1>5 DEF Sent, Read, Peers
  <2>3. Ordered(p)'
    BY <1>1, <1>3, <2>1, <2>2, ReaderWaits
  <2>4. Frame("pake", None) \in Frames /\ Frame("pake", None).type = "pake" /\ Live(p)
    BY <1>5, <2>1 DEF Frame, Frames, Data, Live
  <2>5. Ordered(Other(p))'
    BY <1>1, <1>2, <1>3, <2>1, <2>2, <2>4, SenderSends
  <2> QED BY <2>3, <2>5
<1>7. CASE RecvPake(p)
  <2>1. /\ pc[p] = "recvPake" /\ TakesFrame(p) /\ SendsNothing(p)
        /\ pc'[p] = IF p = "A" THEN "recvOffer" ELSE "sendPake"
    BY <1>3, <1>5, <1>7 DEF RecvPake, Reads, TakesFrame, SendsNothing
  <2>2. Sent(p)' = Sent(p) /\ Read(p) = 0 /\ Read(p)' = 1 /\ pc[p] # "returned" /\ Live(p)
    BY <1>5, <2>1 DEF Sent, Read, Live, Peers
  <2>3. Ordered(p)'
    BY <1>1, <1>3, <2>1, <2>2, ReaderReads
  <2>4. Ordered(Other(p))'
    BY <1>1, <1>2, <1>3, <2>1, <2>2, SenderSilent
  <2> QED BY <2>3, <2>4
<1> QED BY <1>6, <1>7

(* Its description, and the one it accepts. *)
LEMMA GoDescribeOrder ==
  ASSUME Base, Base', Ordering, NEW p \in Peers \ Web, GoActs(p), UNCHANGED <<kind, coded, webVars>>,
         Describe(p) \/ RecvDescription(p)
  PROVE  Ordering'
<1>1. p \in Peers /\ Apart(p) /\ UNCHANGED <<gathered, held, added>> /\ Place(p) /\ kind[p] = "go"
  BY GoApart
<1>2. gathered'[p] = gathered[p] /\ gathered[p] \in Nat /\ gathered'[Other(p)] = gathered[Other(p)]
  BY <1>1, Counts
<1> USE DEF Goto
<1>3. ~coded /\ p \notin closed
  BY <1>1 DEF Describe, RecvDescription, Place, LabelsOf, Web
<1>4. /\ Counted(p) /\ Ordered(p) /\ Ordered(Other(p)) /\ held[p] \in Nat /\ added[p] \in Nat
      /\ pc \in [Peers -> WebLabels] /\ toServer \in [Peers -> Seq(Frames)]
  BY <1>1, <1>3, TwoPeers DEF Ordering, Base, Types, Streams
<1>5. pc[p] \notin Trickling
  BY DEF Describe, RecvDescription, Trickling
<1>6. Counted(p)'
  BY <1>1, <1>2, <1>4, <1>5, CountedStep
<1>7. pc[p] # "returned" /\ Live(p) /\ held[p] + added[p] = 0
  BY <1>3, <1>4, <1>5 DEF Live, Trickling, Describe, RecvDescription, Counted
<1>8. CASE pc[p] \in {"sendOffer", "sendAnswer"}
  <2> DEFINE f == Frame(IF p = "B" THEN "offer" ELSE "answer", key[p])
  <2>1. TakesNothing(p) /\ pc'[p] = "setLocal" /\ toServer'[p] = Append(toServer[p], f)
    BY <1>1, <1>4, <1>8 DEF Describe, RecvDescription, Sends, TakesNothing
  <2>2. f \in Frames /\ f.type = IF p = "B" THEN "offer" ELSE "answer"
    BY <1>1 DEF Frame, Frames, Data, Base, Types
  <2>3. pc[p] = IF p = "B" THEN "sendOffer" ELSE "sendAnswer"
    BY <1>1, <1>8 DEF Place, LabelsOf, Peers
  <2>4. Sent(p) = 1 /\ Sent(p)' = 2 /\ Read(p)' = Read(p)
    BY <1>1, <2>1, <2>3 DEF Sent, Read, Peers
  <2> HIDE DEF f
  <2>5. Ordered(p)'
    BY <1>1, <1>4, <1>7, <2>1, <2>4, ReaderWaits
  <2>6. Ordered(Other(p))'
    BY <1>1, <1>2, <1>4, <1>7, <2>1, <2>2, <2>4, SenderSends
  <2> QED BY <1>1, <1>2, <1>6, <2>5, <2>6, OrderStep
<1>9. CASE pc[p] = "setLocal"
  <2>1. /\ TakesNothing(p) /\ SendsNothing(p) /\ pc'[p] = (IF p = "B" THEN "recvAnswer" ELSE "waitOpen")
    BY <1>1, <1>4, <1>9 DEF Describe, RecvDescription, TakesNothing, SendsNothing
  <2>2. Sent(p) = 2 /\ Sent(p)' = 2 /\ Read(p)' = Read(p)
    BY <1>1, <1>9, <2>1 DEF Sent, Read, Peers
  <2>3. Ordered(p)'
    BY <1>1, <1>4, <1>7, <2>1, <2>2, ReaderWaits
  <2>4. Ordered(Other(p))'
    BY <1>1, <1>2, <1>4, <1>7, <2>1, <2>2, SenderSilent
  <2> QED BY <1>1, <1>2, <1>6, <2>3, <2>4, OrderStep
<1>10. CASE RecvDescription(p)
  <2>1. /\ TakesFrame(p) /\ SendsNothing(p) /\ pc'[p] = (IF p = "A" THEN "sendAnswer" ELSE "waitOpen")
        /\ pc[p] \in {"recvOffer", "recvAnswer"}
    BY <1>1, <1>4, <1>10 DEF RecvDescription, Reads, TakesFrame, SendsNothing
  <2>2. pc[p] = IF p = "A" THEN "recvOffer" ELSE "recvAnswer"
    BY <1>1, <2>1 DEF Place, LabelsOf, Peers
  <2>3. Sent(p)' = Sent(p) /\ Read(p) = 1 /\ Read(p)' = 2
    BY <1>1, <1>4, <1>7, <2>1, <2>2 DEF Sent, Read, Peers
  <2>4. Ordered(p)'
    BY <1>1, <1>4, <1>7, <2>1, <2>3, ReaderReads
  <2>5. Ordered(Other(p))'
    BY <1>1, <1>2, <1>4, <1>7, <2>1, <2>3, SenderSilent
  <2> QED BY <1>1, <1>2, <1>6, <2>4, <2>5, OrderStep
<1> QED BY <1>8, <1>9, <1>10 DEF Describe

(* The end of its call before it waits for the data channel. *)
LEMMA GoQuitOrder ==
  ASSUME Base, Base', Ordering, NEW p \in Peers \ Web, GoActs(p), UNCHANGED <<kind, coded, webVars>>,
         RecvBadKey(p) \/ ReadClosed(p) \/ LocalError(p)
  PROVE  Ordering'
<1>1. p \in Peers /\ Apart(p) /\ UNCHANGED <<gathered, held, added>> /\ Place(p) /\ kind[p] = "go"
  BY GoApart
<1>2. gathered'[p] = gathered[p] /\ gathered[p] \in Nat /\ gathered'[Other(p)] = gathered[Other(p)]
  BY <1>1, Counts
<1> USE DEF Goto, Returns
<1>3. Counted(p) /\ pc \in [Peers -> WebLabels] /\ toServer \in [Peers -> Seq(Frames)]
  BY <1>1 DEF Ordering, Base, Types, Streams
<1>4. pc'[p] = "returned" /\ UNCHANGED local
  BY <1>1, <1>3 DEF RecvBadKey, ReadClosed, LocalError
<1>5. Counted(p)' /\ Ordered(p)'
  BY <1>1, <1>2, <1>3, <1>4, CountedStep DEF Trickling, Ordered
<1> SUFFICES ASSUME ~coded PROVE Ordered(Other(p))'
  BY <1>1, <1>2, <1>5, OrderStep
<1>6. Ordered(Other(p))
  BY <1>1, TwoPeers DEF Ordering
<1>7. CASE RecvBadKey(p)
  <2>1. toServer'[p] = Append(toServer[p], Frame("BadKey", None)) /\ ~Live(p)'
    BY <1>1, <1>3, <1>7 DEF RecvBadKey, Closing, Sends, Live
  <2>2. Frame("BadKey", None) \in Frames /\ Frame("BadKey", None).type \in Closes
    BY DEF Frame, Frames, Closes
  <2> QED BY <1>1, <1>2, <1>6, <2>1, <2>2, SenderCloses
<1>8. CASE ReadClosed(p)
  <2>1. SendsNothing(p) /\ ~Live(p)'
    BY <1>8 DEF ReadClosed, SendsNothing, Live
  <2> QED BY <1>1, <1>2, <1>6, <2>1, SenderSilent
<1>9. CASE LocalError(p)
  <2>1. SendsNothing(p) /\ pc[p] \notin {"waitOpen", "returned", "thrown"} /\ UNCHANGED closed
    BY <1>1, <1>9 DEF LocalError, SendsNothing, Place, LabelsOf, Web
  <2>2. Sent(p)' = 2
    BY <1>4 DEF Sent
  <2>3. p \in local => pc[p] = "recvAnswer" /\ Sent(p) = 2
    BY <1>1, <2>1 DEF Place, Sent
  <2>4. Live(p)' => Live(p) /\ Sent(p)' = Sent(p)
    BY <1>4, <2>1, <2>2, <2>3 DEF Live
  <2> QED BY <1>1, <1>2, <1>6, <2>1, <2>4, SenderSilent
<1> QED BY <1>7, <1>8, <1>9

(* The wait for the data channel. *)
LEMMA GoWaitOrder ==
  ASSUME Base, Base', Ordering, NEW p \in Peers \ Web, GoActs(p), UNCHANGED <<kind, coded, webVars>>,
         \/ RecvCandidate(p) \/ RemoteCandidatesEnd(p)
         \/ WaitSucceeds(p) \/ WaitFails(p, "ErrTimedOut") \/ WaitFails(p, "failed")
  PROVE  Ordering'
<1>1. p \in Peers /\ Apart(p) /\ UNCHANGED <<gathered, held, added>> /\ Place(p) /\ kind[p] = "go"
  BY GoApart
<1>2. gathered'[p] = gathered[p] /\ gathered[p] \in Nat /\ gathered'[Other(p)] = gathered[Other(p)]
  BY <1>1, Counts
<1> USE DEF Goto, Returns
<1>3. pc[p] = "waitOpen" /\ ~coded /\ UNCHANGED local
  <2>1. pc[p] = "waitOpen" /\ UNCHANGED local
    BY DEF RecvCandidate, RemoteCandidatesEnd, WaitSucceeds, WaitFails, clientVars
  <2> QED BY <1>1, <2>1 DEF Place, LabelsOf
<1>4. /\ Counted(p) /\ Ordered(p) /\ Ordered(Other(p)) /\ held[p] \in Nat /\ added[p] \in Nat
      /\ pc \in [Peers -> WebLabels] /\ toServer \in [Peers -> Seq(Frames)]
  BY <1>1, <1>3, TwoPeers DEF Ordering, Base, Types, Streams
<1>5. pc'[p] \in {"waitOpen", "returned"}
  BY <1>1, <1>3, <1>4 DEF RecvCandidate, RemoteCandidatesEnd, WaitSucceeds, WaitFails, clientVars
<1>6. Counted(p)'
  BY <1>1, <1>2, <1>4, <1>5, CountedStep DEF Trickling
<1>7. CASE RecvCandidate(p)
  <2>1. TakesFrame(p) /\ SendsNothing(p) /\ pc' = pc /\ closed' = closed
    BY <1>7 DEF RecvCandidate, Reads, TakesFrame, SendsNothing, clientVars
  <2>2. /\ Sent(p)' = Sent(p) /\ Live(p)' = Live(p) /\ pc[p] # "returned"
        /\ Read(p)' = Read(p) /\ Read(p) = 2 + held[p] + added[p]
    BY <1>1, <1>3, <2>1 DEF Sent, Read, Live
  <2>3. Read(p)' <= Read(p) /\ Read(p)' >= 2
    BY <1>4, <2>2
  <2>4. Ordered(p)'
    BY <1>1, <1>4, <2>1, <2>2, <2>3, ReaderReads
  <2>5. Ordered(Other(p))'
    BY <1>1, <1>2, <1>4, <2>1, <2>2, SenderSilent
  <2> QED BY <1>1, <1>2, <1>6, <2>4, <2>5, OrderStep
<1>8. CASE RemoteCandidatesEnd(p)
  <2>1. TakesNothing(p) /\ SendsNothing(p) /\ pc' = pc /\ ~Live(p)'
    BY <1>8 DEF RemoteCandidatesEnd, TakesNothing, SendsNothing, Live
  <2>2. Read(p)' = Read(p)
    BY <1>1, <2>1 DEF Read
  <2>3. Ordered(p)'
    BY <1>1, <1>4, <2>1, <2>2, ReaderWaits
  <2>4. Ordered(Other(p))'
    BY <1>1, <1>2, <1>4, <2>1, SenderSilent
  <2> QED BY <1>1, <1>2, <1>6, <2>3, <2>4, OrderStep
<1>9. ASSUME NEW code \in Closes, CloseUnlessClosed(p, code), pc'[p] = "returned"
      PROVE  Ordering'
  <2>1. Ordered(p)'
    BY <1>9 DEF Ordered
  <2>2. ~Live(p)'
    BY <1>9 DEF CloseUnlessClosed, Closing, Live
  <2>3. CASE p \in closed
    <3>1. SendsNothing(p)
      BY <1>9, <2>3 DEF CloseUnlessClosed, SendsNothing
    <3>2. Ordered(Other(p))'
      BY <1>1, <1>2, <1>4, <2>2, <3>1, SenderSilent
    <3> QED BY <1>1, <1>2, <1>6, <2>1, <3>2, OrderStep
  <2>4. CASE p \notin closed
    <3>1. toServer'[p] = Append(toServer[p], Frame(code, None))
      BY <1>1, <1>4, <1>9, <2>4 DEF CloseUnlessClosed, Closing, Sends
    <3>2. Frame(code, None) \in Frames /\ Frame(code, None).type \in Closes
      BY <1>9 DEF Frame, Frames
    <3>3. Ordered(Other(p))'
      BY <1>1, <1>2, <1>4, <2>2, <3>1, <3>2, SenderCloses
    <3> QED BY <1>1, <1>2, <1>6, <2>1, <3>3, OrderStep
  <2> QED BY <2>3, <2>4
<1>10. CASE WaitSucceeds(p)
  BY <1>1, <1>4, <1>9, <1>10 DEF WaitSucceeds, Closes
<1>11. CASE WaitFails(p, "ErrTimedOut") \/ WaitFails(p, "failed")
  BY <1>1, <1>4, <1>9, <1>11 DEF WaitFails, Closes
<1> QED BY <1>7, <1>8, <1>10, <1>11

(* Either kind of peer gathers candidates, is connected, or ends. *)
LEMMA AroundOrder ==
  ASSUME Base, Base', Ordering, NEW p \in Peers, SendCandidate(p) \/ Open(p) \/ Exit(p),
         UNCHANGED <<kind, coded, webVars>>
  PROVE  Ordering'
<1>1. Place(p) /\ Counted(p) /\ held[p] \in Nat /\ added[p] \in Nat /\ held' = held /\ added' = added
  BY DEF Base, Types, Ordering, webVars
<1>2. pc \in [Peers -> WebLabels] /\ toServer \in [Peers -> Seq(Frames)] /\ gathered \in [Peers -> 0 .. MaxCandidates]
  BY DEF Base, Types, Streams
<1>3. gathered[p] \in Nat /\ gathered[Other(p)] \in Nat /\ Other(p) \in Peers /\ Other(p) # p
  BY Counts
<1>4. ~coded => Ordered(p) /\ Ordered(Other(p))
  BY TwoPeers DEF Ordering
<1>5. CASE SendCandidate(p)
  <2>1. /\ Apart(p) /\ TakesNothing(p) /\ UNCHANGED <<pc, local, closed>> /\ p \in local
        /\ gathered'[p] = gathered[p] + 1 /\ gathered'[Other(p)] = gathered[Other(p)]
    BY <1>1, <1>2, <1>3, <1>5 DEF SendCandidate, Sends, Apart, TakesNothing, relayVars, Base, Types, Streams
  <2>2. gathered'[p] \in Nat /\ gathered'[p] >= gathered[p]
    BY <1>3, <2>1
  <2>3. Counted(p)' /\ Sent(p)' = Sent(p) /\ Live(p)' = Live(p) /\ Read(p)' = Read(p)
    BY <1>1, <2>1 DEF Counted, Sent, Live, Read
  <2>4. ~coded /\ Sent(p) = 2
    BY <1>1, <2>1 DEF Place, Sent
  <2>5. Ordered(p)'
    BY <1>4, <2>1, <2>3, <2>4, ReaderWaits
  <2>6. CASE p \in closed
    <3>1. SendsNothing(p) /\ ~Live(p)
      BY <1>5, <2>6 DEF SendCandidate, SendsNothing, Live
    <3>2. Ordered(Other(p))'
      BY <1>4, <2>1, <2>2, <2>3, <2>4, <3>1, SenderSilent
    <3> QED BY <2>1, <2>2, <2>3, <2>5, <3>2, OrderStep
  <2>7. CASE p \notin closed
    <3>1. Live(p) /\ toServer'[p] = Append(toServer[p], Frame("candidate", key[p]))
      BY <1>2, <1>5, <2>1, <2>7 DEF SendCandidate, Sends, Live
    <3>2. Frame("candidate", key[p]) \in Frames /\ Frame("candidate", key[p]).type = "candidate"
      BY DEF Frame, Frames, Data, Base, Types
    <3>3. Ordered(Other(p))'
      BY <1>4, <2>1, <2>3, <2>4, <3>1, <3>2, SenderSends
    <3> QED BY <2>1, <2>2, <2>3, <2>5, <3>3, OrderStep
  <2> QED BY <2>6, <2>7
<1>6. CASE Open(p)
  <2>1. Apart(p) /\ TakesNothing(p) /\ SendsNothing(p) /\ UNCHANGED <<pc, local, closed, gathered>>
    BY <1>1, <1>3, <1>6 DEF Open, Apart, TakesNothing, SendsNothing, relayVars
  <2>2. Counted(p)' /\ Sent(p)' = Sent(p) /\ Live(p)' = Live(p) /\ Read(p)' = Read(p)
    BY <1>1, <2>1 DEF Counted, Sent, Live, Read
  <2>3. gathered'[p] \in Nat /\ gathered'[p] >= gathered[p]
    BY <1>3, <2>1
  <2>4. ~coded => Ordered(p)' /\ Ordered(Other(p))'
    BY <1>4, <2>1, <2>2, <2>3, ReaderWaits, SenderSilent
  <2> QED BY <2>1, <2>2, <2>3, <2>4, OrderStep
<1>7. CASE Exit(p)
  <2>1. Apart(p) /\ pc'[p] = "returned" /\ ~Live(p)' /\ UNCHANGED gathered
    BY <1>1, <1>2, <1>3, <1>7 DEF Exit, Apart, Live, relayVars, Base, Types, Streams
  <2>2. PICK sent \in {toServer[p], <<>>} : toServer'[p] = Append(sent, Frame("dropped", None))
    BY <1>2, <1>7 DEF Exit
  <2>3. Frame("dropped", None) \in Frames /\ Frame("dropped", None).type \in Closes
    BY DEF Frame, Frames, Closes
  <2>4. gathered'[p] = gathered[p] /\ gathered'[Other(p)] = gathered[Other(p)]
    BY <2>1
  <2>5. ~coded => Ordered(Other(p))'
    BY <1>4, <2>1, <2>2, <2>3, <2>4, SenderCloses
  <2>6. Ordered(p)'
    BY <2>1 DEF Ordered
  <2>7. Counted(p)'
    BY <1>1, <2>1, <2>4, CountedStep DEF Trickling
  <2>8. gathered'[p] \in Nat /\ gathered'[p] >= gathered[p]
    BY <1>3, <2>4
  <2> QED BY <2>1, <2>5, <2>6, <2>7, <2>8, OrderStep
<1> QED BY <1>5, <1>6, <1>7

(* A read loop passes a message on, after those that it passed on before. *)
LEMMA ForwardOrder ==
  ASSUME Base, Base', Ordering, NEW p \in Peers, Forward(p), UNCHANGED <<kind, coded, webVars>>
  PROVE  Ordering'
<1>1. PICK q \in Peers : q = Other(p) /\ Other(q) = p /\ Peers = {p, q} /\ p # q
  BY TwoPeers
<1>2. UNCHANGED <<pass, pc, gathered, local, closed, server, held, added, coded>>
  BY DEF Forward, clientVars, webVars
<1>3. /\ toServer[p] # <<>> /\ toServer'[p] = Tail(toServer[p]) /\ toServer'[q] = toServer[q]
      /\ toClient'[p] = toClient[p] /\ handler'[q] = handler[q]
      /\ \/ server[q] = "open" /\ toClient'[q] = Append(toClient[q], Head(toServer[p])) /\ handler'[p] = handler[p]
         \/ server[q] = "closed" /\ toClient'[q] = toClient[q]
      /\ handler[p] = "run" /\ server[p] = "open"
  BY <1>1 DEF Forward, Base, Types, Streams
<1>4. \A x \in Peers : Counted(x)'
  BY <1>2 DEF Ordering, Counted
<1>5. Differ' = Differ /\ \A x \in Peers : Sent(x)' = Sent(x) /\ Read(x)' = Read(x) /\ Live(x)' = Live(x)
  BY <1>2 DEF Differ, Sent, Read, Live
<1> SUFFICES ASSUME ~coded PROVE Ordered(p)' /\ Ordered(q)'
  BY <1>1, <1>2, <1>4 DEF Ordering
<1>6. Ordered(p) /\ Ordered(q)
  BY DEF Ordering
<1>7. Ordered(p)'
  <2>1. Passing(q)' = Passing(q)
    BY <1>1, <1>2, <1>3 DEF Passing
  <2> QED BY <1>1, <1>2, <1>3, <1>5, <1>6, <2>1 DEF Ordered, Due
<1>8. ASSUME pc[q] # "returned" PROVE Ordered(q)'
  <2>1. PICK n \in Nat, k \in Nat, l \in Nat, g \in Nat, d \in BOOLEAN, r \in 0 .. 2 :
          /\ n = Read(q) /\ k = Len(toClient[q]) /\ l = Len(toServer[p])
          /\ g = gathered[p] /\ d = Differ /\ r = Sent(p)
    BY Counts
  <2>2. toServer[p] \in Seq(Frames) /\ toClient[q] \in Seq(Frames)
    BY Counts
  <2>3. InOrder(p, d, g, toClient[q], n)
    BY <1>1, <1>6, <1>8, <2>1 DEF Ordered
  <2>4. CASE server[q] = "closed"
    <3>1. toClient'[q] = toClient[q] /\ ~Passing(p)'
      BY <1>1, <1>2, <1>3, <2>4 DEF Passing
    <3> QED BY <1>1, <1>2, <1>5, <2>1, <2>3, <3>1 DEF Ordered
  <2>5. CASE server[q] = "open"
    <3>1. toClient'[q] = Append(toClient[q], Head(toServer[p])) /\ Passing(p)
      BY <1>1, <1>3, <2>5 DEF Passing
    <3>2. InOrder(p, d, g, toServer[p], n + k) /\ (Live(p) => Capped(n + k + l) = r /\ n + k + l <= r + g)
      BY <1>1, <1>6, <1>8, <2>1, <3>1 DEF Ordered, Due
    <3>3. PICK b \in Nat : b = n + k
      OBVIOUS
    <3>4. /\ Head(toServer[p]).type \in MayCome(p, d, g, b)
          /\ InOrder(p, d, g, Tail(toServer[p]), b + 1) /\ Len(Tail(toServer[p])) = l - 1 /\ l >= 1
      BY <1>3, <2>1, <2>2, <3>2, <3>3, OrderTail
    <3>5. Head(toServer[p]) \in Frames
      BY <1>3, <2>2, SeqFacts
    <3>6. InOrder(p, d, g, toClient'[q], n) /\ Len(toClient'[q]) = k + 1
      BY <2>1, <2>2, <2>3, <3>1, <3>3, <3>4, <3>5, OrderAppend
    <3>7. Live(p) => Capped((b + 1) + (l - 1)) = r /\ (b + 1) + (l - 1) <= r + g
      <4>1. (b + 1) + (l - 1) = n + k + l
        BY <3>3
      <4> QED BY <3>2, <4>1
    <3>8. Read(q)' + Len(toClient'[q]) = b + 1 /\ Len(toServer'[p]) = l - 1
      BY <1>3, <1>5, <2>1, <3>3, <3>4, <3>6
    <3> QED BY <1>1, <1>2, <1>3, <1>5, <2>1, <3>4, <3>6, <3>7, <3>8 DEF Ordered, Due
  <2> QED BY <2>4, <2>5, <1>3
<1>9. pc[q] = "returned" => Ordered(q)'
  BY <1>2 DEF Ordered
<1> QED BY <1>7, <1>8, <1>9

(* A read loop ends: its own websocket is closed, and no more is passed on. *)
LEMMA ReadEndOrder ==
  ASSUME Base, Base', Ordering, NEW p \in Peers, ReadClose(p) \/ ReadFails(p),
         UNCHANGED <<kind, coded, webVars>>
  PROVE  Ordering'
<1>1. UNCHANGED <<pass, pc, gathered, local, closed, held, added, toServer, coded>>
  BY DEF ReadClose, ReadFails, clientVars, webVars
<1>2. PICK code \in [Peers -> Closes \cup {None}] : CloseServer(code) /\ code[p] \in Closes
  BY ReadEnds
<1>3. \A x \in Peers : ~Passing(x)'
  <2>1. server'[p] = "closed"
    BY <1>2, HandshakeAssumption DEF CloseServer
  <2> QED BY <2>1, TwoPeers DEF Passing
<1>4. \A x \in Peers : Counted(x)' /\ Read(x)' = Read(x) /\ Differ' = Differ
  BY <1>1 DEF Ordering, Counted, Read, Differ
<1>5. ASSUME NEW x \in Peers, ~coded, pc[x] # "returned" PROVE Ordered(x)'
  <2>1. PICK q \in Peers, n \in Nat, g \in Nat, d \in BOOLEAN :
          q = Other(x) /\ n = Read(x) /\ g = gathered[q] /\ d = Differ
    BY Counts
  <2>2. InOrder(q, d, g, toClient[x], n) /\ toClient[x] \in Seq(Frames)
    BY <1>5, <2>1, Counts DEF Ordering, Ordered
  <2>3. \/ toClient'[x] = toClient[x]
        \/ code[x] \in Closes /\ toClient'[x] = Append(toClient[x], Frame(code[x], None))
    BY <1>2 DEF CloseServer
  <2>4. InOrder(q, d, g, toClient'[x], n)
    <3>1. CASE toClient'[x] = toClient[x]
      BY <2>2, <3>1
    <3>2. CASE code[x] \in Closes /\ toClient'[x] = Append(toClient[x], Frame(code[x], None))
      <4>1. Frame(code[x], None) \in Frames /\ Frame(code[x], None).type \in Closes
        BY <3>2 DEF Frame, Frames
      <4>2. Frame(code[x], None).type \in MayCome(q, d, g, n + Len(toClient[x]))
        BY <4>1 DEF MayCome
      <4> QED BY <2>1, <2>2, <3>2, <4>1, <4>2, OrderAppend
    <3> QED BY <2>3, <3>1, <3>2
  <2> QED BY <1>1, <1>3, <1>4, <2>1, <2>4 DEF Ordered
<1> QED BY <1>1, <1>4, <1>5 DEF Ordering, Ordered

-----------------------------------------------------------------------------
(* Nothing but keys is exchanged before the offer. *)

(* A step of p keeps Quiet if it sends no more than a key. *)
LEMMA QuietStep ==
  ASSUME Base, Quiet, NEW p \in Peers, Apart(p), TakesNothing(p) \/ TakesFrame(p),
         Unoffered' => /\ Unoffered /\ local' = local /\ toServer'[p] \in Seq(Openings)
                       /\ pc'["A"] \in {"sendPake", "recvPake", "recvOffer", "returned"}
  PROVE  Quiet'
<1> SUFFICES ASSUME Unoffered' PROVE Quiet'
  BY DEF Quiet
<1>1. /\ Unoffered /\ local' = {} /\ toServer'[p] \in Seq(Openings)
      /\ pc'["A"] \in {"sendPake", "recvPake", "recvOffer", "returned"}
      /\ \A x \in Peers : toServer[x] \in Seq(Openings) /\ toClient[x] \in Seq(Openings)
  BY DEF Quiet
<1>2. toServer'[Other(p)] = toServer[Other(p)] /\ toClient'[Other(p)] = toClient[Other(p)]
  BY DEF Apart
<1>3. toClient'[p] \in Seq(Openings)
  <2>1. CASE TakesNothing(p)
    BY <1>1, <2>1 DEF TakesNothing
  <2>2. CASE TakesFrame(p)
    <3>1. toClient'[p] = Tail(toClient[p]) /\ toClient[p] # <<>> /\ toClient[p] \in Seq(Openings)
      BY <1>1, <2>2, TakenFrame DEF Base, TakesFrame
    <3> QED BY <3>1, SeqFacts
  <2> QED BY <2>1, <2>2
<1>4. \A x \in Peers : toServer'[x] \in Seq(Openings) /\ toClient'[x] \in Seq(Openings)
  BY <1>1, <1>2, <1>3, TwoPeers
<1>5. Openings' = Openings
  BY DEF Openings
<1> QED BY <1>1, <1>4, <1>5 DEF Quiet

(* A frame that may be sent as well before the offer. *)
LEMMA OpeningSent ==
  ASSUME NEW p \in Peers, toServer[p] \in Seq(Openings), NEW sent \in {toServer[p], <<>>},
         NEW type \in Closes \cup {"pake"}, toServer'[p] = Append(sent, Frame(type, None))
  PROVE  toServer'[p] \in Seq(Openings)
<1>1. Frame(type, None) \in Openings
  BY DEF Frame, Openings, Frames, Data
<1> QED BY <1>1, SeqFacts

(* No offer can be read yet. *)
LEMMA NoOfferYet ==
  ASSUME Base, Ordering, Quiet, Unoffered, TakesFrame("A")
  PROVE  pc["A"] = "recvPake" \/ pc["A"] = "sendPake" \/ pc["A"] = "returned"
<1>1. "A" \in Peers /\ Other("A") = "B" /\ gathered["B"] \in Nat
  BY HandshakeAssumption DEF Peers, Other, Base, Types
<1> SUFFICES ASSUME pc["A"] = "recvOffer" PROVE FALSE
  BY DEF Quiet
<1>2. Read("A") = 1
  BY DEF Read
<1>3. toClient["A"] \in Seq(Openings) /\ toClient["A"] # <<>> /\ Head(toClient["A"]).type \in Data
  BY <1>1 DEF Quiet, TakesFrame
<1>4. Head(toClient["A"]) \in Openings
  BY <1>3, SeqFacts
<1>5. Head(toClient["A"]).type = "pake"
  BY <1>3, <1>4 DEF Openings, Data, Closes
<1>6. Ordered("A")
  BY <1>1 DEF Ordering, Unoffered
<1>7. Head(toClient["A"]).type \in MayCome("B", Differ, gathered["B"], 1)
  BY <1>1, <1>2, <1>3, <1>6, NextRead
<1> QED BY <1>1, <1>5, <1>7 DEF MayCome, Closes

(* What a browser sends before the offer is a key, or a close. *)
LEMMA WebQuiet ==
  ASSUME Base, Ordering, Quiet, NEW p \in Peers, WebStep(p) \/ WebFails(p), UNCHANGED <<kind, coded>>
  PROVE  Quiet'
<1> SUFFICES ASSUME Unoffered' PROVE Quiet'
  BY DEF Quiet
<1>1. Apart(p) /\ Place(p) /\ kind[p] = "web" /\ p \in Web /\ ~coded
  BY WebApart DEF Unoffered
<1> USE DEF Goto
<1>2. pc \in [Peers -> WebLabels] /\ toServer \in [Peers -> Seq(Frames)] /\ p \in {"A", "B"}
  BY DEF Base, Types, Streams, Peers
<1>3. pc'["B"] \in {"recvPake", "sendPake", "sendOffer", "localOffer"}
  BY DEF Unoffered
<1>4. p = "A" => pc'["B"] = pc["B"]
  BY <1>1 DEF Apart, Other
<1>5. p = "B" => pc'["A"] = pc["A"]
  BY <1>1 DEF Apart, Other
<1>6. CASE WebStart(p) \/ WebExchange(p)
  <2>1. /\ (TakesNothing(p) \/ TakesFrame(p)) /\ local' = local
        /\ toServer'[p] = Append(toServer[p], Frame("pake", None))
    BY <1>2, <1>6 DEF WebStart, Start, WebExchange, Exchange, Hears, Message, Sends, TakesNothing, TakesFrame
  <2>2. Unoffered /\ (p = "A" => pc'["A"] = "recvPake")
    BY <1>1, <1>2, <1>3, <1>4, <1>6 DEF WebStart, WebExchange, Unoffered, Side, Place, LabelsOf
  <2>3. toServer'[p] \in Seq(Openings)
    BY <2>1, <2>2, OpeningSent DEF Quiet
  <2>4. pc'["A"] \in {"sendPake", "recvPake", "recvOffer", "returned"}
    BY <1>2, <1>5, <2>2 DEF Quiet
  <2> QED BY <1>1, <2>1, <2>2, <2>3, <2>4, QuietStep DEF WebStart, WebExchange
<1>7. CASE WebFinish(p)
  <2>1. ~Clash
    BY <1>1, ClashCoded DEF Base
  <2>2. TakesFrame(p) /\ SendsNothing(p) /\ local' = local /\ p = "A" /\ pc'["A"] = "recvOffer"
    BY <1>1, <1>2, <1>7, <2>1 DEF WebFinish, Hears, Message, Side, TakesFrame, SendsNothing
  <2>3. Unoffered
    BY <1>1, <1>3, <1>4, <2>2 DEF Unoffered
  <2>4. toServer'[p] \in Seq(Openings)
    BY <2>2, <2>3 DEF Quiet, SendsNothing
  <2> QED BY <1>1, <2>2, <2>3, <2>4, QuietStep
<1>8. CASE WebClosed(p)
  <2>1. TakesNothing(p) /\ SendsNothing(p) /\ local' = local /\ pc' = pc
    BY <1>8 DEF WebClosed, TakesNothing, SendsNothing
  <2>2. Unoffered
    BY <1>1, <1>3, <2>1 DEF Unoffered
  <2>3. toServer'[p] \in Seq(Openings) /\ pc'["A"] \in {"sendPake", "recvPake", "recvOffer", "returned"}
    BY <2>1, <2>2 DEF Quiet, SendsNothing
  <2> QED BY <1>1, <2>1, <2>2, <2>3, QuietStep
<1>9. CASE \/ WebOffer(p) \/ WebBadKey(p) \/ WebRecvOffer(p) \/ WebHold(p) \/ WebAnswer(p)
           \/ WebRecvAnswer(p) \/ WebCandidate(p) \/ WebThrows(p) \/ WebClose(p)
  <2>1. p = "A"
    <3>1. p # "B"
      BY <1>1, <1>2, <1>3, <1>9 DEF WebOffer, WebBadKey, WebRecvOffer, WebHold, WebAnswer, WebRecvAnswer,
         WebCandidate, WebThrows, WebClose, Place, LabelsOf, Side, clientVars
    <3> QED BY <1>2, <3>1
  <2>2. Unoffered
    BY <1>1, <1>3, <1>4, <2>1 DEF Unoffered
  <2>3. pc["A"] \in {"sendPake", "recvPake", "recvOffer", "returned"} /\ local = {}
    BY <2>2 DEF Quiet
  <2>4. (WebBadKey(p) \/ WebRecvOffer(p)) /\ pc["A"] = "recvOffer" /\ TakesFrame("A")
    BY <1>9, <2>1, <2>3 DEF WebOffer, WebBadKey, WebRecvOffer, WebHold, WebAnswer, WebRecvAnswer,
       WebCandidate, WebThrows, WebClose, Hears, Message, TakesFrame
  <2> QED BY <2>2, <2>4, NoOfferYet
<1> QED BY <1>6, <1>7, <1>8, <1>9 DEF WebStep, WebFails

(* So it is with a Go client ... *)
LEMMA GoQuiet ==
  ASSUME Base, Ordering, Quiet, NEW p \in Peers \ Web, GoActs(p), UNCHANGED <<kind, coded, webVars>>
  PROVE  Quiet'
<1> SUFFICES ASSUME Unoffered' PROVE Quiet'
  BY DEF Quiet
<1>1. p \in Peers /\ Apart(p) /\ Place(p) /\ kind[p] = "go" /\ ~coded
  BY GoApart DEF Unoffered
<1> USE DEF Goto, Returns
<1>2. pc \in [Peers -> WebLabels] /\ toServer \in [Peers -> Seq(Frames)] /\ p \in {"A", "B"}
  BY <1>1 DEF Base, Types, Streams, Peers
<1>3. pc'["B"] \in {"recvPake", "sendPake", "sendOffer", "localOffer"}
  BY DEF Unoffered
<1>4. p = "A" => pc'["B"] = pc["B"]
  BY <1>1 DEF Apart, Other
<1>5. p = "B" => pc'["A"] = pc["A"]
  BY <1>1 DEF Apart, Other
<1>6. CASE SendPake(p)
  <2>1. /\ TakesNothing(p) /\ local' = local /\ toServer'[p] = Append(toServer[p], Frame("pake", None))
        /\ pc[p] = "sendPake" /\ (p = "A" => pc'["A"] = "recvPake")
    BY <1>2, <1>6 DEF SendPake, Sends, TakesNothing
  <2>2. Unoffered
    BY <1>1, <1>2, <1>3, <1>4, <2>1 DEF Unoffered
  <2>3. toServer'[p] \in Seq(Openings)
    BY <1>1, <2>1, <2>2, OpeningSent DEF Quiet
  <2>4. pc'["A"] \in {"sendPake", "recvPake", "recvOffer", "returned"}
    BY <1>2, <1>5, <2>1, <2>2 DEF Quiet
  <2> QED BY <1>1, <2>1, <2>2, <2>3, <2>4, QuietStep
<1>7. CASE RecvPake(p)
  <2>1. /\ TakesFrame(p) /\ SendsNothing(p) /\ local' = local
        /\ pc[p] = "recvPake" /\ (p = "A" => pc'["A"] = "recvOffer")
    BY <1>2, <1>7 DEF RecvPake, Reads, TakesFrame, SendsNothing
  <2>2. Unoffered
    BY <1>1, <1>2, <1>3, <1>4, <2>1 DEF Unoffered
  <2>3. toServer'[p] \in Seq(Openings)
    BY <1>1, <2>1, <2>2 DEF Quiet, SendsNothing
  <2>4. pc'["A"] \in {"sendPake", "recvPake", "recvOffer", "returned"}
    BY <1>2, <1>5, <2>1, <2>2 DEF Quiet
  <2> QED BY <1>1, <2>1, <2>2, <2>3, <2>4, QuietStep
<1>8. CASE ReadClosed(p) \/ LocalError(p)
  <2>1. TakesNothing(p) /\ SendsNothing(p) /\ local' = local /\ pc'[p] = "returned"
    BY <1>2, <1>8 DEF ReadClosed, LocalError, TakesNothing, SendsNothing
  <2>2. p = "A"
    BY <1>2, <1>3, <2>1
  <2>3. Unoffered
    BY <1>1, <1>3, <1>4, <2>2 DEF Unoffered
  <2>4. toServer'[p] \in Seq(Openings)
    BY <1>1, <2>1, <2>3 DEF Quiet, SendsNothing
  <2> QED BY <1>1, <2>1, <2>2, <2>3, <2>4, QuietStep
<1>9. CASE \/ Describe(p) \/ RecvDescription(p) \/ RecvBadKey(p) \/ RecvCandidate(p) \/ RemoteCandidatesEnd(p)
           \/ WaitSucceeds(p) \/ WaitFails(p, "ErrTimedOut") \/ WaitFails(p, "failed")
  <2>1. p = "A"
    <3>1. p # "B"
      BY <1>1, <1>2, <1>3, <1>9 DEF Describe, RecvDescription, RecvBadKey, RecvCandidate, RemoteCandidatesEnd,
         WaitSucceeds, WaitFails, Place, LabelsOf, clientVars
    <3> QED BY <1>2, <3>1
  <2>2. Unoffered
    BY <1>1, <1>3, <1>4, <2>1 DEF Unoffered
  <2>3. pc["A"] \in {"sendPake", "recvPake", "recvOffer", "returned"}
    BY <2>2 DEF Quiet
  <2>4. (RecvDescription(p) \/ RecvBadKey(p)) /\ pc["A"] = "recvOffer" /\ TakesFrame("A")
    BY <1>1, <1>9, <2>1, <2>3 DEF Describe, RecvDescription, RecvBadKey, RecvCandidate, RemoteCandidatesEnd,
       WaitSucceeds, WaitFails, Reads, TakesFrame, Place, LabelsOf
  <2> QED BY <2>2, <2>4, NoOfferYet
<1> QED BY <1>1, <1>6, <1>7, <1>8, <1>9 DEF GoActs

(* ... and with what happens around it: no candidate is gathered yet. *)
LEMMA AroundQuiet ==
  ASSUME Base, Ordering, Quiet, NEW p \in Peers, SendCandidate(p) \/ Open(p) \/ Exit(p),
         UNCHANGED <<kind, coded, webVars>>
  PROVE  Quiet'
<1> SUFFICES ASSUME Unoffered' PROVE Quiet'
  BY DEF Quiet
<1>1. pc'["B"] \in {"recvPake", "sendPake", "sendOffer", "localOffer"} /\ ~coded
  BY DEF Unoffered
<1>2. CASE SendCandidate(p) \/ Open(p)
  <2>1. Unoffered /\ local # {}
    BY <1>1, <1>2 DEF SendCandidate, Open, Unoffered, Peers
  <2> QED BY <2>1 DEF Quiet
<1>3. CASE Exit(p)
  <2>1. pc \in [Peers -> WebLabels] /\ toServer \in [Peers -> Seq(Frames)] /\ p \in {"A", "B"}
    BY DEF Base, Types, Streams, Peers
  <2>2. p = "A" /\ pc'["A"] = "returned" /\ Unoffered
    BY <1>1, <1>3, <2>1 DEF Exit, Unoffered
  <2>3. Apart(p) /\ TakesNothing(p) /\ local' = local
    BY <1>3, TwoPeers DEF Base, Types, Streams, Exit, Apart, TakesNothing, relayVars, webVars
  <2>4. PICK sent \in {toServer[p], <<>>} : toServer'[p] = Append(sent, Frame("dropped", None))
    BY <1>3, <2>1 DEF Exit
  <2>5. toServer'[p] \in Seq(Openings)
    BY <2>2, <2>4, OpeningSent DEF Quiet, Closes
  <2> QED BY <2>2, <2>3, <2>5, QuietStep
<1> QED BY <1>2, <1>3

(* The relay adds only closes. *)
LEMMA RelayQuiet ==
  ASSUME Base, Ordering, Quiet, NEW p \in Peers, Forward(p) \/ ReadClose(p) \/ ReadFails(p),
         UNCHANGED <<kind, coded, webVars>>
  PROVE  Quiet'
<1> SUFFICES ASSUME Unoffered' PROVE Quiet'
  BY DEF Quiet
<1>1. UNCHANGED <<pc, local>>
  BY DEF Forward, ReadClose, ReadFails, clientVars
<1>2. Unoffered /\ Openings' = Openings
  BY <1>1 DEF Unoffered, Openings
<1>3. /\ pc["A"] \in {"sendPake", "recvPake", "recvOffer", "returned"} /\ local = {}
      /\ \A x \in Peers : toServer[x] \in Seq(Openings) /\ toClient[x] \in Seq(Openings)
  BY <1>2 DEF Quiet
<1>4. CASE Forward(p)
  <2>1. PICK q \in Peers : q = Other(p) /\ Peers = {p, q} /\ p # q
    BY TwoPeers
  <2>2. /\ toServer[p] # <<>> /\ toServer'[p] = Tail(toServer[p]) /\ toServer'[q] = toServer[q]
        /\ toClient'[p] = toClient[p] /\ toClient'[q] \in {toClient[q], Append(toClient[q], Head(toServer[p]))}
    BY <1>4, <2>1 DEF Forward, Base, Types, Streams
  <2>3. Tail(toServer[p]) \in Seq(Openings) /\ Head(toServer[p]) \in Openings
    BY <1>3, <2>2, SeqFacts
  <2>4. Append(toClient[q], Head(toServer[p])) \in Seq(Openings)
    BY <1>3, <2>3, SeqFacts
  <2> QED BY <1>1, <1>2, <1>3, <2>1, <2>2, <2>3, <2>4 DEF Quiet
<1>5. CASE ReadClose(p) \/ ReadFails(p)
  <2>1. PICK code \in [Peers -> Closes \cup {None}] : CloseServer(code)
    BY <1>5, ReadEnds
  <2>2. ASSUME NEW x \in Peers PROVE toClient'[x] \in Seq(Openings)
    <3>1. \/ toClient'[x] = toClient[x]
          \/ code[x] \in Closes /\ toClient'[x] = Append(toClient[x], Frame(code[x], None))
      BY <2>1 DEF CloseServer
    <3>2. code[x] \in Closes => Frame(code[x], None) \in Openings
      BY DEF Frame, Openings, Frames
    <3> QED BY <1>3, <3>1, <3>2, SeqFacts
  <2>3. toServer' = toServer
    BY <1>5 DEF ReadClose, ReadFails
  <2> QED BY <1>1, <1>2, <1>3, <2>2, <2>3 DEF Quiet
<1> QED BY <1>4, <1>5

-----------------------------------------------------------------------------
(* All together. *)

(* The invariant without the last part. *)
OInv == Base /\ Ordering /\ Quiet

(* All streams are empty at first. *)
LEMMA OrderInit ==
  ASSUME WebInit
  PROVE  OInv
<1>1. Base
  BY BaseInit
<1>2. /\ pc = [p \in Peers |-> IF Side(p) = "A" THEN "sendPake" ELSE "recvPake"]
      /\ toServer = [p \in Peers |-> <<>>] /\ toClient = [p \in Peers |-> <<>>]
      /\ held = [p \in Peers |-> 0] /\ added = [p \in Peers |-> 0] /\ gathered = [p \in Peers |-> 0]
      /\ local = {}
  BY DEF WebInit, Paired
<1>3. \A p \in Peers : Counted(p)
  BY <1>2, TwoPeers DEF Counted
<1>4. ASSUME ~coded, NEW p \in Peers PROVE Ordered(p)
  <2>1. PICK q \in Peers : q = Other(p)
    BY TwoPeers
  <2>2. Side("A") = "A" /\ Side("B") = "B"
    BY <1>4 DEF Side
  <2>3. Read(p) = 0 /\ Sent(q) = 0 /\ gathered[q] = 0
    BY <1>2, <2>1, <2>2 DEF Read, Sent, Peers, Other
  <2>4. \A d, g, n : InOrder(q, d, g, toClient[p], n) /\ InOrder(q, d, g, toServer[q], n)
    BY <1>2, <2>1 DEF InOrder
  <2>5. Len(toClient[p]) = 0 /\ Len(toServer[q]) = 0
    BY <1>2, <2>1
  <2> QED BY <2>1, <2>3, <2>4, <2>5 DEF Ordered, Due, Capped
<1>5. Quiet
  <2>1. \A S : <<>> \in Seq(S)
    OBVIOUS
  <2>2. Side("A") = "A" /\ ~coded => pc["A"] = "sendPake"
    BY <1>2 DEF Peers
  <2>3. ~coded => Side("A") = "A"
    BY DEF Side
  <2> QED BY <1>2, <2>1, <2>2, <2>3 DEF Quiet, Unoffered
<1> QED BY <1>1, <1>3, <1>4, <1>5 DEF OInv, Ordering

(* The steps by what they are, for the lemmas above. *)
LEMMA Cases ==
  ASSUME Base, WebNext
  PROVE  \E p \in Peers :
           /\ UNCHANGED <<kind, coded>>
           /\ \/ p \in Peers \ Web /\ GoActs(p) /\ UNCHANGED webVars
              \/ WebStep(p) \/ WebFails(p)
              \/ (SendCandidate(p) \/ Open(p) \/ Exit(p)) /\ UNCHANGED webVars
              \/ (Forward(p) \/ ReadClose(p) \/ ReadFails(p)) /\ UNCHANGED webVars
<1>1. UNCHANGED <<kind, coded>>
  BY DEF WebNext
<1>2. PICK p \in Peers :
        \/ GoStep(p) \/ GoTimer(p) \/ GoFails(p) \/ WebStep(p) \/ WebFails(p)
        \/ OfRelay(p) \/ (Around(p) /\ UNCHANGED webVars)
  BY DEF WebNext
<1>3. CASE GoStep(p)
  <2>1. Types
    BY DEF Base
  <2> QED BY <1>1, <1>3, <2>1, GoSteps DEF GoActs
<1>4. CASE GoTimer(p) \/ GoFails(p)
  BY <1>1, <1>4 DEF GoTimer, Timer, GoFails, GoActs
<1>5. CASE OfRelay(p) \/ (Around(p) /\ UNCHANGED webVars)
  BY <1>1, <1>5 DEF OfRelay, Relay, Around
<1> QED BY <1>1, <1>2, <1>3, <1>4, <1>5

(* Every step keeps it. *)
LEMMA OrderNext ==
  ASSUME OInv, [WebNext]_allVars
  PROVE  OInv'
<1>1. Base /\ Ordering /\ Quiet
  BY DEF OInv
<1>2. Base'
  BY <1>1, BaseNext
<1>3. CASE WebNext
  <2>1. PICK p \in Peers :
          /\ UNCHANGED <<kind, coded>>
          /\ \/ p \in Peers \ Web /\ GoActs(p) /\ UNCHANGED webVars
             \/ WebStep(p) \/ WebFails(p)
             \/ (SendCandidate(p) \/ Open(p) \/ Exit(p)) /\ UNCHANGED webVars
             \/ (Forward(p) \/ ReadClose(p) \/ ReadFails(p)) /\ UNCHANGED webVars
    BY <1>1, <1>3, Cases
  <2>2. CASE p \in Peers \ Web /\ GoActs(p) /\ UNCHANGED webVars
    <3>1. Ordering'
      BY <1>1, <1>2, <2>1, <2>2, GoPakeOrder, GoDescribeOrder, GoQuitOrder, GoWaitOrder DEF GoActs
    <3>2. Quiet'
      BY <1>1, <2>1, <2>2, GoQuiet
    <3> QED BY <1>2, <3>1, <3>2 DEF OInv
  <2>3. CASE WebStep(p) \/ WebFails(p)
    <3>1. Ordering'
      BY <1>1, <1>2, <2>1, <2>3, WebPakeOrder, WebDescribeOrder, WebReadOrder, WebEndOrder DEF WebStep, WebFails
    <3>2. Quiet'
      BY <1>1, <2>1, <2>3, WebQuiet
    <3> QED BY <1>2, <3>1, <3>2 DEF OInv
  <2>4. CASE (SendCandidate(p) \/ Open(p) \/ Exit(p)) /\ UNCHANGED webVars
    BY <1>1, <1>2, <2>1, <2>4, AroundOrder, AroundQuiet DEF OInv
  <2>5. CASE (Forward(p) \/ ReadClose(p) \/ ReadFails(p)) /\ UNCHANGED webVars
    BY <1>1, <1>2, <2>1, <2>5, ForwardOrder, ReadEndOrder, RelayQuiet DEF OInv
  <2> QED BY <2>1, <2>2, <2>3, <2>4, <2>5
<1>4. CASE UNCHANGED allVars
  <2>1. UNCHANGED <<pass, pc, gathered, local, closed, toServer, toClient, handler, server, coded, held, added>>
    BY <1>4 DEF allVars, vars, clientVars, relayVars, webVars
  <2>2. Ordering' = Ordering
    BY <2>1 DEF Ordering, Counted, Ordered, Due, InOrder, MayCome, Differ, Read, Sent, Live, Passing, Capped
  <2>3. Quiet' = Quiet
    BY <2>1 DEF Quiet, Unoffered, Openings
  <2> QED BY <1>1, <1>2, <2>2, <2>3 DEF OInv
<1> QED BY <1>3, <1>4

(* Streams are in order in every state. *)
THEOREM OrderInvariance == WebSpec => []OInv
<1> QED BY OrderInit, OrderNext, PTL DEF WebSpec

(* Every variable keeps its type; no more candidates are held and added than
   were gathered. *)
THEOREM WebTypeOKHolds == WebSpec => []WebTypeOK
<1>1. ASSUME OInv PROVE WebTypeOK
  <2>1. Types /\ Streams /\ \A p \in Peers : Counted(p)
    BY <1>1 DEF OInv, Base, Ordering
  <2>2. ASSUME NEW p \in Peers
        PROVE  {gathered[p], held[p], added[p], held[p] + added[p]} \subseteq 0 .. MaxCandidates
    <3>1. gathered[p] \in 0 .. MaxCandidates /\ gathered[Other(p)] \in 0 .. MaxCandidates
      BY <2>1, TwoPeers DEF Types
    <3>2. held[p] \in Nat /\ added[p] \in Nat /\ held[p] + added[p] <= gathered[Other(p)]
      BY <2>1 DEF Types, Counted
    <3>3. MaxCandidates \in Nat
      BY HandshakeAssumption
    <3> QED BY <3>1, <3>2, <3>3
  <2> QED BY <2>1, <2>2 DEF Types, Streams, WebTypeOK
<1> QED BY <1>1, OrderInvariance, PTL

(* Every event at a browser and every read of a client finds the message that
   it is written for, in all mixes of the two. *)
THEOREM EventsInOrderHolds == WebSpec => []EventsInOrder
<1>1. ASSUME OInv PROVE EventsInOrder
  <2>1. Base /\ Ordering /\ Quiet
    BY <1>1 DEF OInv
  <2> SUFFICES ASSUME NEW p \in Peers, toClient[p] # <<>>,
                      pc[p] \in {"recvPake", "recvOffer", "recvAnswer", "waitOpen", "localOffer", "localAnswer"}
               PROVE  Head(toClient[p]).type \in Closes \cup Awaited(p)
    BY DEF EventsInOrder
  <2>2. Place(p) /\ p \in {"A", "B"}
    BY <2>1 DEF Base, Peers
  <2>3. PICK q \in Peers, g \in Nat, n \in Nat, d \in BOOLEAN :
          q = Other(p) /\ g = gathered[q] /\ n = Read(p) /\ d = Differ
    BY <2>1, Counts
  <2>4. toClient[p] \in Seq(From(q)) /\ Head(toClient[p]) \in From(q)
    BY <2>1, <2>3, SeqFacts DEF Base, Streams
  <2>5. CASE coded
    <3>1. pc[p] = "recvPake"
      BY <2>2, <2>5 DEF Place, LabelsOf
    <3>2. Head(toClient[p]).type \in (Data \cup Closes) \ (Sealed \cup {"BadKey"})
      BY <2>4, <2>5 DEF From, Frames
    <3> QED BY <3>1, <3>2 DEF Awaited, Data, Sealed
  <2>6. CASE ~coded
    <3>1. Head(toClient[p]).type \in MayCome(q, d, g, n)
      BY <2>1, <2>3, <2>6, NextRead DEF Ordering
    <3>2. p = "A" <=> q = "B"
      BY <2>2, <2>3 DEF Other
    <3>3. CASE pc[p] = "recvPake"
      BY <2>3, <3>1, <3>3 DEF Read, MayCome, Awaited
    <3>4. CASE pc[p] = "recvOffer"
      <4>1. n = 1 /\ q = "B"
        BY <2>2, <2>3, <3>2, <3>4 DEF Read, Place, LabelsOf
      <4> QED BY <3>1, <3>4, <4>1 DEF MayCome, Awaited
    <3>5. CASE pc[p] = "recvAnswer"
      <4>1. n = 1 /\ q # "B"
        BY <2>2, <2>3, <3>2, <3>5 DEF Read, Place, LabelsOf
      <4> QED BY <3>1, <3>5, <4>1 DEF MayCome, Awaited
    <3>6. CASE pc[p] \in {"waitOpen", "localAnswer"}
      <4>1. d = FALSE
        BY <2>1, <2>2, <2>3, <3>6 DEF Base, Agreed, Place, LabelsOf
      <4>2. n >= 2
        <5>1. held[p] \in Nat /\ added[p] \in Nat
          BY <2>1 DEF Base, Types
        <5>2. n = 2 + held[p] + added[p]
          BY <2>2, <2>3, <3>6 DEF Read, Place, LabelsOf
        <5> QED BY <5>1, <5>2
      <4> QED BY <3>1, <3>6, <4>1, <4>2 DEF MayCome, Awaited
    <3>7. CASE pc[p] = "localOffer"
      <4>1. p = "B" /\ n = 1 /\ Unoffered
        BY <2>2, <2>3, <2>6, <3>7 DEF Read, Place, LabelsOf, Unoffered
      <4>2. toClient[p] \in Seq(Openings)
        BY <2>1, <4>1 DEF Quiet
      <4>3. Head(toClient[p]).type \in Closes \cup {"pake"}
        BY <4>2, SeqFacts DEF Openings
      <4> QED BY <3>1, <4>1, <4>3 DEF MayCome, Closes
    <3> QED BY <3>3, <3>4, <3>5, <3>6, <3>7
  <2> QED BY <2>5, <2>6
<1> QED BY <1>1, OrderInvariance, PTL

-----------------------------------------------------------------------------
(* The message before a close. *)

(* Taking a frame: if a close over a bad key is next, that frame is "bye". *)
LEMMA AnnouncedTail ==
  ASSUME NEW s \in Seq(Frames), s # <<>>, Announced(s)
  PROVE  /\ Announced(Tail(s))
         /\ BadKeyFirst(Tail(s)) => Head(s).type = "bye"
         /\ EndsInBye(s) => Head(s).type = "bye" \/ EndsInBye(Tail(s))
<1>1. PICK n \in Nat : n = Len(s) /\ n >= 1
  OBVIOUS
<1>2. Len(Tail(s)) = n - 1 /\ Tail(s) \in Seq(Frames) /\ Head(s) = s[1]
  BY <1>1
<1>3. \A j \in 1 .. n - 1 : Tail(s)[j] = s[j + 1]
  BY <1>1
<1>4. ASSUME NEW j \in 2 .. n - 1, Tail(s)[j].type = "BadKey"
      PROVE  Tail(s)[j - 1].type = "bye"
  <2>1. j + 1 \in 2 .. n /\ (j + 1) - 1 = j /\ Tail(s)[j] = s[j + 1]
    BY <1>1, <1>3
  <2>2. s[j].type = "bye"
    BY <1>1, <1>4, <2>1 DEF Announced
  <2>3. j - 1 \in 1 .. n - 1 /\ (j - 1) + 1 = j
    BY <1>1
  <2> QED BY <1>3, <2>2, <2>3
<1>5. BadKeyFirst(Tail(s)) => Head(s).type = "bye"
  <2> SUFFICES ASSUME BadKeyFirst(Tail(s)) PROVE Head(s).type = "bye"
    OBVIOUS
  <2>1. Tail(s) # <<>> /\ Head(Tail(s)).type = "BadKey"
    BY DEF BadKeyFirst
  <2>2. n - 1 >= 1 /\ Head(Tail(s)) = Tail(s)[1]
    BY <1>1, <1>2, <2>1
  <2>3. 2 \in 2 .. n /\ 1 \in 1 .. n - 1 /\ Tail(s)[1] = s[2]
    BY <1>1, <1>3, <2>2
  <2>4. s[2 - 1].type = "bye" /\ 2 - 1 = 1
    BY <1>1, <2>1, <2>2, <2>3 DEF Announced
  <2> QED BY <1>2, <2>4
<1>6. EndsInBye(s) => Head(s).type = "bye" \/ EndsInBye(Tail(s))
  <2>1. CASE n = 1
    BY <1>1, <1>2, <2>1 DEF EndsInBye
  <2>2. CASE n # 1
    <3>1. n - 1 \in 1 .. n - 1 /\ (n - 1) + 1 = n
      BY <1>1, <2>2
    <3>2. Tail(s)[n - 1] = s[n] /\ Tail(s) # <<>>
      BY <1>2, <1>3, <3>1
    <3> QED BY <1>1, <1>2, <3>2 DEF EndsInBye
  <2> QED BY <2>1, <2>2
<1> QED BY <1>2, <1>4, <1>5, <1>6 DEF Announced

(* Adding one: such a close may follow only a "bye". *)
LEMMA AnnouncedAppend ==
  ASSUME NEW s \in Seq(Frames), Announced(s), NEW f \in Frames,
         f.type # "BadKey" \/ EndsInBye(s)
  PROVE  /\ Announced(Append(s, f)) /\ (EndsInBye(Append(s, f)) <=> f.type = "bye")
         /\ BadKeyFirst(Append(s, f)) => BadKeyFirst(s)
<1>1. PICK n \in Nat : n = Len(s)
  OBVIOUS
<1>2. /\ Len(Append(s, f)) = n + 1 /\ Append(s, f)[n + 1] = f /\ Append(s, f) # <<>>
      /\ \A j \in 1 .. n : Append(s, f)[j] = s[j]
  BY <1>1
<1>3. ASSUME NEW j \in 2 .. n + 1, Append(s, f)[j].type = "BadKey"
      PROVE  Append(s, f)[j - 1].type = "bye"
  <2>1. CASE j = n + 1
    <3>1. EndsInBye(s)
      BY <1>2, <1>3, <2>1
    <3>2. j - 1 = n /\ n \in 1 .. n
      BY <1>1, <2>1
    <3> QED BY <1>1, <1>2, <3>1, <3>2 DEF EndsInBye
  <2>2. CASE j # n + 1
    <3>1. j \in 2 .. n /\ j \in 1 .. n /\ j - 1 \in 1 .. n
      BY <1>1, <2>2
    <3> QED BY <1>1, <1>2, <1>3, <3>1 DEF Announced
  <2> QED BY <2>1, <2>2
<1>4. EndsInBye(Append(s, f)) <=> f.type = "bye"
  BY <1>2 DEF EndsInBye
<1>5. BadKeyFirst(Append(s, f)) => BadKeyFirst(s)
  <2>1. CASE s = <<>>
    <3>1. f.type # "BadKey" /\ Head(Append(s, f)) = f
      BY <2>1 DEF EndsInBye
    <3> QED BY <3>1 DEF BadKeyFirst
  <2>2. CASE s # <<>>
    <3>1. Head(Append(s, f)) = Head(s)
      BY <2>2
    <3> QED BY <2>2, <3>1 DEF BadKeyFirst
  <2> QED BY <2>1, <2>2
<1> QED BY <1>2, <1>3, <1>4, <1>5 DEF Announced

(* What a browser A does: it adds nothing but what this allows. *)
LEMMA ByeOfA ==
  ASSUME ByeFirst, Apart("A"), Announced(toServer'["A"]),
         BadKeyFirst(toServer'["A"]) => BadKeyFirst(toServer["A"])
  PROVE  ByeFirst'
<1>1. /\ result'["B"] = result["B"] /\ pc'["B"] = pc["B"] /\ toServer'["B"] = toServer["B"]
      /\ toClient'["B"] = toClient["B"] /\ server' = server /\ handler' = handler
  BY DEF Apart, Other
<1>2. Over' = Over /\ Passing("A")' = Passing("A") /\ Others' = Others
  BY <1>1 DEF Over, Passing, Other, Others
<1> QED BY <1>1, <1>2 DEF ByeFirst, Announced, BadKeyFirst, EndsInBye

(* A frame of A that is no such close. *)
LEMMA ByeOfASends ==
  ASSUME Base, ByeFirst, Apart("A"),
         NEW sent \in {toServer["A"], <<>>}, NEW f \in Frames, f.type # "BadKey",
         toServer'["A"] = Append(sent, f)
  PROVE  ByeFirst'
<1>1. sent \in Seq(Frames) /\ Announced(sent) /\ (BadKeyFirst(sent) => BadKeyFirst(toServer["A"]))
  <2>1. toServer["A"] \in Seq(Frames)
    BY DEF Base, Streams, Peers
  <2>2. <<>> \in Seq(Frames) /\ Announced(<<>>) /\ ~BadKeyFirst(<<>>)
    BY DEF Announced, BadKeyFirst
  <2> QED BY <2>1, <2>2 DEF ByeFirst
<1>2. /\ Announced(Append(sent, f)) /\ (BadKeyFirst(Append(sent, f)) => BadKeyFirst(sent))
  BY <1>1, AnnouncedAppend
<1> QED BY <1>1, <1>2, ByeOfA

(* What B does: it learns of the bad key, or has not read a "bye" and has not
   sent such a close. *)
LEMMA ByeOfB ==
  ASSUME Base, ByeFirst, Apart("B"), TakesNothing("B") \/ TakesFrame("B"), result'["B"] # "BadKey",
         Over' \/ (/\ ~Over /\ toServer'["B"] \in Seq(Others)
                   /\ TakesFrame("B") => TakesNothing("B") \/ Head(toClient["B"]).type # "bye")
  PROVE  ByeFirst'
<1>1. /\ toServer'["A"] = toServer["A"] /\ server' = server /\ handler' = handler /\ Others' = Others
      /\ Passing("A")' = Passing("A")
  BY DEF Apart, Other, Others, Passing
<1>2. Announced(toServer'["A"])
  BY <1>1 DEF ByeFirst
<1>3. ASSUME ~Over, toServer'["B"] \in Seq(Others),
             TakesFrame("B") => TakesNothing("B") \/ Head(toClient["B"]).type # "bye"
      PROVE  ByeFirst'
  <2>1. /\ Announced(toClient["B"]) /\ ~BadKeyFirst(toClient["B"])
        /\ Passing("A") /\ BadKeyFirst(toServer["A"]) => EndsInBye(toClient["B"])
    BY <1>3 DEF ByeFirst
  <2>2. CASE TakesNothing("B")
    BY <1>1, <1>2, <1>3, <2>1, <2>2 DEF TakesNothing, ByeFirst, Announced, BadKeyFirst, EndsInBye
  <2>3. CASE TakesFrame("B") /\ Head(toClient["B"]).type # "bye"
    <3>1. toClient'["B"] = Tail(toClient["B"]) /\ toClient["B"] \in Seq(Frames) /\ toClient["B"] # <<>>
      BY <2>3 DEF TakesFrame, Base, Streams, Peers
    <3>2. /\ Announced(toClient'["B"]) /\ ~BadKeyFirst(toClient'["B"])
          /\ EndsInBye(toClient["B"]) => EndsInBye(toClient'["B"])
      BY <2>1, <2>3, <3>1, AnnouncedTail
    <3> QED BY <1>1, <1>2, <1>3, <2>1, <3>2 DEF ByeFirst, Announced, BadKeyFirst, EndsInBye
  <2> QED BY <1>3, <2>2, <2>3
<1>4. CASE Over'
  BY <1>2, <1>4 DEF ByeFirst, Announced
<1> QED BY <1>3, <1>4

(* A "bye" comes only to a peer that waits for an answer which it cannot
   open. *)
LEMMA ByeRead ==
  ASSUME Base, Ordering, TakesFrame("B"), Head(toClient["B"]).type = "bye", pc["B"] # "returned"
  PROVE  ~coded /\ Differ /\ Head(toClient["B"]).key # key["B"] /\ pc["B"] # "recvPake" /\ pc["B"] # "waitOpen"
<1>1. "B" \in Peers /\ Other("B") = "A" /\ "A" \in Peers
  BY DEF Peers, Other
<1>2. Head(toClient["B"]) \in From("A")
  BY <1>1, TakenFrame DEF Base
<1>3. ~coded /\ Head(toClient["B"]).key = pass["A"]
  BY <1>2 DEF From, Sealed
<1>4. PICK g \in Nat, n \in Nat, d \in BOOLEAN : g = gathered["A"] /\ n = Read("B") /\ d = Differ
  BY <1>1, Counts
<1>5. Head(toClient["B"]).type \in MayCome("A", d, g, n)
  BY <1>1, <1>3, <1>4, NextRead DEF Ordering, TakesFrame
<1>6. d = TRUE /\ n >= 1
  BY <1>5 DEF MayCome, Closes
<1>7. Differ /\ pc["B"] # "recvPake"
  BY <1>4, <1>6 DEF Read
<1>8. pc["B"] # "waitOpen"
  BY <1>1, <1>7 DEF Base, Agreed
<1>9. key["B"] \in {None, pass["B"]} /\ pass["A"] \in Passwords
  BY <1>1 DEF Base, Keyed, Types
<1>10. pass["A"] # key["B"]
  BY <1>7, <1>9, HandshakeAssumption DEF Differ
<1> QED BY <1>3, <1>7, <1>8, <1>10

(* A frame that is no close over a bad key, added to those of B. *)
LEMMA OtherSent ==
  ASSUME toServer["B"] \in Seq(Others), NEW f \in Frames, f.type # "BadKey",
         toServer'["B"] = Append(toServer["B"], f)
  PROVE  toServer'["B"] \in Seq(Others)
BY SeqFacts DEF Others

(* A browser: A announces its close over a bad key, and B reads what was
   announced before the close. *)
LEMMA WebBye ==
  ASSUME Base, Ordering, ByeFirst, NEW p \in Peers, WebStep(p) \/ WebFails(p), UNCHANGED <<kind, coded>>
  PROVE  ByeFirst'
<1>1. Apart(p) /\ Place(p) /\ Keyed(p) /\ kind[p] = "web" /\ p \in Web
  BY WebApart
<1>2. /\ pc \in [Peers -> WebLabels] /\ toServer \in [Peers -> Seq(Frames)] /\ result \in [Peers -> Results]
      /\ key[p] \in Passwords \cup {None} /\ p \in {"A", "B"}
  BY DEF Base, Types, Streams, Peers
<1>3. /\ Frame("pake", None) \in Frames /\ Frame("pake", None).type # "BadKey"
      /\ \A type \in Data \cup Closes : Seal(p, type) \in Frames /\ Seal(p, type).type = type
      /\ \A type \in Closes : Frame(type, None) \in Frames /\ Frame(type, None).type = type
  BY <1>2 DEF Seal, Frame, Frames, Data
<1> USE DEF Goto
<1>4. ASSUME p = "A" PROVE ByeFirst'
  <2>1. CASE toServer'["A"] = toServer["A"]
    BY <1>1, <1>4, <2>1, ByeOfA DEF ByeFirst
  <2>2. CASE \E f \in Frames : f.type # "BadKey" /\ toServer'["A"] = Append(toServer["A"], f)
    BY <1>1, <1>4, <2>2, ByeOfASends
  <2>3. CASE WebBadKey(p)
    <3>1. /\ Seal("A", "bye") \in Frames /\ Frame("BadKey", None) \in Frames /\ toServer["A"] \in Seq(Frames)
          /\ toServer'["A"] = Append(Append(toServer["A"], Seal("A", "bye")), Frame("BadKey", None))
      BY <1>1, <1>4, <2>3, ByeFrames DEF From, Base, Streams
    <3>2. Seal("A", "bye").type = "bye" /\ Announced(toServer["A"])
      BY DEF Seal, Frame, ByeFirst
    <3>3. PICK s \in Seq(Frames) : s = Append(toServer["A"], Seal("A", "bye"))
      BY <3>1, SeqFacts
    <3>4. Announced(s) /\ EndsInBye(s) /\ (BadKeyFirst(s) => BadKeyFirst(toServer["A"]))
      BY <3>1, <3>2, <3>3, AnnouncedAppend
    <3>5. Announced(toServer'["A"]) /\ (BadKeyFirst(toServer'["A"]) => BadKeyFirst(s))
      BY <3>1, <3>3, <3>4, AnnouncedAppend
    <3> QED BY <1>1, <1>4, <3>4, <3>5, ByeOfA
  <2>4. CASE WebStart(p) \/ WebExchange(p)
    <3>1. toServer'["A"] = Append(toServer["A"], Frame("pake", None))
      BY <1>2, <1>4, <2>4 DEF WebStart, Start, WebExchange, Exchange, Sends
    <3> QED BY <1>3, <2>2, <3>1
  <2>5. CASE WebOffer(p) \/ WebAnswer(p)
    <3>1. \/ toServer'["A"] = toServer["A"]
          \/ \E type \in {"offer", "answer"} : toServer'["A"] = Append(toServer["A"], Seal(p, type))
      BY <1>2, <1>4, <2>5 DEF WebOffer, WebAnswer, SendsIfOpen
    <3>2. \A type \in {"offer", "answer"} : Seal(p, type) \in Frames /\ Seal(p, type).type # "BadKey"
      BY <1>3 DEF Data
    <3> QED BY <2>1, <2>2, <3>1, <3>2
  <2>6. CASE WebClose(p)
    <3>1. \E type \in Closes \ {"BadKey"} : toServer'["A"] = Append(toServer["A"], Frame(type, None))
      BY <1>2, <1>4, <2>6 DEF WebClose, Closing, Sends, Closes
    <3> QED BY <1>3, <2>2, <3>1
  <2>7. CASE \/ WebFinish(p) \/ WebRecvOffer(p) \/ WebHold(p) \/ WebRecvAnswer(p) \/ WebCandidate(p)
             \/ WebClosed(p) \/ WebThrows(p)
    BY <2>1, <1>4, <2>7 DEF WebFinish, WebRecvOffer, WebHold, WebRecvAnswer, WebCandidate, WebClosed, WebThrows
  <2> QED BY <2>3, <2>4, <2>5, <2>6, <2>7 DEF WebStep, WebFails
<1>5. ASSUME p = "B" PROVE ByeFirst'
  <2>1. result["B"] # "BadKey" /\ (~Over => toServer["B"] \in Seq(Others) /\ ~BadKeyFirst(toClient["B"]))
    BY DEF ByeFirst
  <2>2. TakesFrame(p) /\ Head(toClient["B"]).type = "bye" /\ pc["B"] # "returned" =>
          ~coded /\ Head(toClient["B"]).key # key["B"] /\ pc["B"] # "recvPake" /\ pc["B"] # "waitOpen"
    BY <1>5, ByeRead
  <2>3. CASE WebStart(p)
    <3>1. /\ TakesNothing("B") /\ result' = result /\ ~Over
          /\ toServer'["B"] = Append(toServer["B"], Frame("pake", None))
      BY <1>2, <1>5, <2>3 DEF WebStart, Start, Sends, TakesNothing, Over
    <3>2. toServer'["B"] \in Seq(Others)
      BY <1>3, <2>1, <3>1, OtherSent
    <3> QED BY <1>1, <1>5, <2>1, <3>1, <3>2, ByeOfB
  <2>4. CASE WebExchange(p)
    <3>1. /\ TakesFrame("B") /\ result' = result /\ ~Over /\ Head(toClient["B"]).type # "bye"
          /\ toServer'["B"] = Append(toServer["B"], Frame("pake", None))
      BY <1>2, <1>5, <2>2, <2>4 DEF WebExchange, Exchange, Hears, Message, Sends, TakesFrame, Over
    <3>2. toServer'["B"] \in Seq(Others)
      BY <1>3, <2>1, <3>1, OtherSent
    <3> QED BY <1>1, <1>5, <2>1, <3>1, <3>2, ByeOfB
  <2>5. CASE WebOffer(p)
    <3>1. /\ TakesNothing("B") /\ result' = result /\ ~Over
          /\ toServer'["B"] = toServer["B"] \/ toServer'["B"] = Append(toServer["B"], Seal(p, "offer"))
      BY <1>2, <1>5, <2>5 DEF WebOffer, SendsIfOpen, TakesNothing, Over
    <3>2. Seal(p, "offer") \in Frames /\ Seal(p, "offer").type # "BadKey"
      BY <1>3 DEF Data
    <3>3. toServer'["B"] \in Seq(Others)
      BY <2>1, <3>1, <3>2, OtherSent
    <3> QED BY <1>1, <1>5, <2>1, <3>1, <3>3, ByeOfB
  <2>6. CASE WebFinish(p) \/ WebRecvAnswer(p)
    <3>1. /\ TakesFrame("B") /\ result'["B"] # "BadKey" /\ ~Over /\ Head(toClient["B"]).type # "bye"
          /\ toServer' = toServer
      BY <1>2, <1>5, <2>1, <2>2, <2>6 DEF WebFinish, Finish, WebRecvAnswer, Opens, Settle, Hears, Message, TakesFrame, Over
    <3> QED BY <1>1, <1>5, <2>1, <3>1, ByeOfB
  <2>7. CASE WebBadKey(p)
    <3>1. TakesFrame("B") /\ Over' /\ result'["B"] # "BadKey"
      BY <1>2, <1>5, <2>1, <2>7 DEF WebBadKey, Settle, Hears, Message, TakesFrame, Over
    <3> QED BY <1>1, <1>5, <3>1, ByeOfB
  <2>8. CASE WebCandidate(p)
    <3>1. TakesFrame("B") /\ result' = result /\ ~Over /\ Head(toClient["B"]).type # "bye" /\ toServer' = toServer
      BY <1>2, <1>5, <2>2, <2>8 DEF WebCandidate, Hears, Message, TakesFrame, Over, clientVars
    <3> QED BY <1>1, <1>5, <2>1, <3>1, ByeOfB
  <2>9. CASE WebClosed(p) \/ WebThrows(p) \/ WebClose(p)
    <3>1. TakesNothing("B") /\ (Over => Over')
      BY <1>2, <1>5, <2>9 DEF WebClosed, WebThrows, WebClose, Settle, TakesNothing, Over
    <3>2. result'["B"] # "BadKey"
      <4>1. CASE WebClosed(p) /\ result["B"] = "none"
        <5>1. ~Over
          BY <4>1 DEF Over
        <5>2. Head(toClient["B"]).type # "BadKey" /\ Head(toClient["B"]).type \in Closes
          BY <1>5, <2>1, <4>1, <5>1 DEF BadKeyFirst, WebClosed
        <5>3. Told(Head(toClient["B"]).type) # "BadKey"
          BY <5>2 DEF Told
        <5> QED BY <1>2, <1>5, <4>1, <5>3 DEF WebClosed, Settle
      <4>2. CASE ~(WebClosed(p) /\ result["B"] = "none")
        BY <1>2, <1>5, <2>1, <2>9, <4>2 DEF WebClosed, WebThrows, WebClose, Settle
      <4> QED BY <4>1, <4>2
    <3>3. ~Over => toServer'["B"] \in Seq(Others)
      <4>1. \/ toServer'["B"] = toServer["B"]
            \/ \E type \in Closes \ {"BadKey"} : toServer'["B"] = Append(toServer["B"], Frame(type, None))
        BY <1>2, <1>5, <2>9 DEF WebClosed, WebThrows, WebClose, Closing, Sends, Closes
      <4>2. \A type \in Closes \ {"BadKey"} : Frame(type, None) \in Frames /\ Frame(type, None).type # "BadKey"
        BY <1>3
      <4> QED BY <2>1, <4>1, <4>2, OtherSent
    <3> QED BY <1>1, <1>5, <3>1, <3>2, <3>3, ByeOfB
  <2>10. CASE WebRecvOffer(p) \/ WebHold(p) \/ WebAnswer(p)
    <3>1. /\ ~coded => Side(p) # "A"
          /\ pc[p] \in {"recvOffer", "localAnswer", "thrown"} /\ (WebHold(p) => Side(p) = "A")
      BY <1>5, <2>10 DEF WebRecvOffer, WebHold, WebAnswer, Side
    <3>2. ~coded /\ pc[p] = "thrown"
      BY <1>1, <1>5, <3>1 DEF Place, LabelsOf
    <3> QED BY <2>10, <3>1, <3>2 DEF WebRecvOffer, WebAnswer
  <2> QED BY <2>3, <2>4, <2>5, <2>6, <2>7, <2>8, <2>9, <2>10 DEF WebStep, WebFails
<1> QED BY <1>2, <1>4, <1>5

(* Only B can be a Go client then. *)
LEMMA GoBye ==
  ASSUME Base, Ordering, ByeFirst, "A" \in Web, NEW p \in Peers \ Web, GoActs(p), UNCHANGED <<kind, coded, webVars>>
  PROVE  ByeFirst'
<1>1. p = "B" /\ Apart("B") /\ Place("B") /\ Keyed("B") /\ ~coded
  <2>1. p = "B"
    BY DEF Peers
  <2> QED BY <2>1, GoApart
<1>2. /\ pc \in [Peers -> WebLabels] /\ toServer \in [Peers -> Seq(Frames)] /\ result \in [Peers -> Results]
      /\ key["B"] \in Passwords \cup {None} /\ "B" \in Peers
  BY <1>1 DEF Base, Types, Streams
<1> USE DEF Goto, Returns
<1>3. ~Over
  BY <1>1 DEF Over, GoActs, SendPake, RecvPake, GoPakeFails, Describe, RecvDescription, RecvBadKey, ReadClosed, LocalError,
     RecvCandidate, RemoteCandidatesEnd, WaitSucceeds, WaitFails, Reading
<1>4. result["B"] # "BadKey" /\ toServer["B"] \in Seq(Others) /\ ~BadKeyFirst(toClient["B"])
  BY <1>3 DEF ByeFirst
<1>5. TakesFrame("B") /\ Head(toClient["B"]).type = "bye" /\ pc["B"] # "returned" =>
          Head(toClient["B"]).key # key["B"] /\ pc["B"] # "recvPake" /\ pc["B"] # "waitOpen"
  BY ByeRead
<1>6. CASE SendPake(p) \/ Describe(p)
  <2>1. /\ TakesNothing("B") /\ result' = result
        /\ \/ toServer'["B"] = toServer["B"]
           \/ \E type \in {"pake", "offer", "answer"}, k \in Passwords \cup {None} :
                toServer'["B"] = Append(toServer["B"], Frame(type, k))
    BY <1>1, <1>2, <1>6 DEF SendPake, Describe, Sends, TakesNothing
  <2>2. \A type \in {"pake", "offer", "answer"}, k \in Passwords \cup {None} :
          Frame(type, k) \in Frames /\ Frame(type, k).type # "BadKey"
    BY DEF Frame, Frames, Data
  <2>3. toServer'["B"] \in Seq(Others)
    BY <1>4, <2>1, <2>2, OtherSent
  <2> QED BY <1>1, <1>3, <1>4, <2>1, <2>3, ByeOfB
<1>7. CASE RecvPake(p) \/ RecvDescription(p) \/ RecvCandidate(p)
  <2>1. /\ TakesFrame("B") /\ result' = result /\ toServer' = toServer /\ Head(toClient["B"]).type # "bye"
    BY <1>1, <1>5, <1>7 DEF RecvPake, RecvDescription, RecvCandidate, Reads, TakesFrame, clientVars
  <2> QED BY <1>1, <1>3, <1>4, <2>1, ByeOfB
<1>8. CASE RemoteCandidatesEnd(p)
  <2>1. TakesNothing("B") /\ result' = result /\ toServer' = toServer
    BY <1>8 DEF RemoteCandidatesEnd, TakesNothing
  <2> QED BY <1>1, <1>3, <1>4, <2>1, ByeOfB
<1>9. CASE \/ RecvBadKey(p) \/ ReadClosed(p) \/ LocalError(p)
           \/ WaitSucceeds(p) \/ WaitFails(p, "ErrTimedOut") \/ WaitFails(p, "failed")
  <2>1. TakesNothing("B") \/ TakesFrame("B")
    BY <1>1, <1>9 DEF RecvBadKey, ReadClosed, LocalError, WaitSucceeds, WaitFails, Reads, TakesNothing, TakesFrame
  <2>2. pc'["B"] = "returned"
    BY <1>1, <1>2, <1>9 DEF RecvBadKey, ReadClosed, LocalError, WaitSucceeds, WaitFails
  <2>3. result'["B"] \in {"ErrBadKey", "local", "ok", "ErrTimedOut", "failed"} \cup (Closes \ {"BadKey"})
    <3>1. CASE ReadClosed(p)
      <4>1. Head(toClient["B"]).type \in Closes \ {"BadKey"}
        BY <1>1, <1>4, <3>1 DEF ReadClosed, BadKeyFirst
      <4> QED BY <1>1, <1>2, <3>1, <4>1 DEF ReadClosed
    <3>2. CASE ~ReadClosed(p)
      BY <1>1, <1>2, <1>9, <3>2 DEF RecvBadKey, LocalError, WaitSucceeds, WaitFails
    <3> QED BY <3>1, <3>2
  <2>4. Over' /\ result'["B"] # "BadKey"
    BY <2>2, <2>3 DEF Over, Closes
  <2> QED BY <1>1, <2>1, <2>4, ByeOfB
<1> QED BY <1>1, <1>6, <1>7, <1>8, <1>9 DEF GoActs

(* A candidate or an exit is no such close. *)
LEMMA AroundBye ==
  ASSUME Base, ByeFirst, NEW p \in Peers, SendCandidate(p) \/ Open(p) \/ Exit(p),
         UNCHANGED <<kind, coded, webVars>>
  PROVE  ByeFirst'
<1>1. Apart(p) /\ TakesNothing(p)
  BY TwoPeers DEF Base, Types, Streams, SendCandidate, Sends, Open, Exit, Apart, TakesNothing, relayVars, webVars
<1>2. /\ pc \in [Peers -> WebLabels] /\ toServer \in [Peers -> Seq(Frames)] /\ result \in [Peers -> Results]
      /\ key[p] \in Passwords \cup {None} /\ p \in {"A", "B"}
  BY DEF Base, Types, Streams, Peers
<1>3. PICK sent \in {toServer[p], <<>>}, f \in Frames :
        /\ f.type # "BadKey"
        /\ toServer'[p] = toServer[p] \/ toServer'[p] = Append(sent, f)
        /\ ~Exit(p) => sent = toServer[p]
  <2>1. /\ Frame("candidate", key[p]) \in Frames /\ Frame("candidate", key[p]).type # "BadKey"
        /\ Frame("dropped", None) \in Frames /\ Frame("dropped", None).type # "BadKey"
    BY <1>2 DEF Frame, Frames, Data, Closes
  <2>2. CASE SendCandidate(p) \/ Open(p)
    <3>1. toServer'[p] = toServer[p] \/ toServer'[p] = Append(toServer[p], Frame("candidate", key[p]))
      BY <1>2, <2>2 DEF SendCandidate, Sends, Open
    <3> QED BY <2>1, <3>1
  <2>3. CASE Exit(p)
    <3>1. \E sent \in {toServer[p], <<>>} : toServer'[p] = Append(sent, Frame("dropped", None))
      BY <1>2, <2>3 DEF Exit
    <3> QED BY <2>1, <2>3, <3>1
  <2> QED BY <2>2, <2>3
<1>4. CASE p = "A"
  <2>1. CASE toServer'["A"] = toServer["A"]
    BY <1>1, <1>4, <2>1, ByeOfA DEF ByeFirst
  <2>2. CASE toServer'["A"] = Append(sent, f)
    BY <1>1, <1>3, <1>4, <2>2, ByeOfASends
  <2> QED BY <1>3, <1>4, <2>1, <2>2
<1>5. CASE p = "B" /\ Exit(p)
  <2>1. pc'["B"] = "returned" /\ result'["B"] = IF result["B"] = "none" THEN "dropped" ELSE result["B"]
    BY <1>2, <1>5 DEF Exit
  <2>2. Over' /\ result'["B"] # "BadKey"
    BY <2>1 DEF Over, ByeFirst
  <2> QED BY <1>1, <1>5, <2>2, ByeOfB
<1>6. CASE p = "B" /\ ~Exit(p)
  <2>1. result' = result /\ (Over => Over')
    BY <1>6 DEF SendCandidate, Open, Over
  <2>2. ~Over => toServer'["B"] \in Seq(Others)
    BY <1>3, <1>6, OtherSent DEF ByeFirst
  <2>3. result'["B"] # "BadKey"
    BY <2>1 DEF ByeFirst
  <2> QED BY <1>1, <1>6, <2>1, <2>2, <2>3, ByeOfB
<1> QED BY <1>2, <1>4, <1>5, <1>6

-----------------------------------------------------------------------------
(* The relay: what it passes on keeps its order. *)
LEMMA ForwardBye ==
  ASSUME Base, ByeFirst, NEW p \in Peers, Forward(p), UNCHANGED <<kind, coded, webVars>>
  PROVE  ByeFirst'
<1>1. PICK q \in Peers : q = Other(p) /\ Other(q) = p /\ Peers = {p, q} /\ p # q
  BY TwoPeers
<1>2. UNCHANGED <<pc, result, server>> /\ Over' = Over /\ Others' = Others
  BY DEF Forward, clientVars, Over, Others
<1>3. /\ toServer[p] # <<>> /\ toServer'[p] = Tail(toServer[p]) /\ toServer'[q] = toServer[q]
      /\ toClient'[p] = toClient[p] /\ handler'[q] = handler[q]
      /\ \/ server[q] = "open" /\ toClient'[q] = Append(toClient[q], Head(toServer[p])) /\ handler'[p] = handler[p]
         \/ server[q] = "closed" /\ toClient'[q] = toClient[q]
      /\ handler[p] = "run" /\ server[p] = "open" /\ Head(toServer[p]).type \in Data
  BY <1>1 DEF Forward, Base, Types, Streams
<1>4. toServer[p] \in Seq(Frames) /\ toClient[q] \in Seq(Frames) /\ Head(toServer[p]) \in Frames
  BY <1>1, <1>3, SeqFacts DEF Base, Streams
<1>5. Head(toServer[p]).type # "BadKey"
  BY <1>3 DEF Data
<1>6. CASE p = "B"
  <2>1. q = "A"
    BY <1>1, <1>6 DEF Other
  <2>2. toServer["B"] \in Seq(Others) => toServer'["B"] \in Seq(Others)
    BY <1>3, <1>6, SeqFacts
  <2>3. Passing("A")' => Passing("A")
    BY <1>2, <1>3, <2>1 DEF Passing
  <2> QED BY <1>2, <1>3, <1>6, <2>1, <2>2, <2>3 DEF ByeFirst, Announced, BadKeyFirst, EndsInBye
<1>7. CASE p = "A"
  <2>1. q = "B"
    BY <1>1, <1>7 DEF Other
  <2>2. Announced(toServer["A"])
    BY DEF ByeFirst
  <2>3. /\ Announced(toServer'["A"])
        /\ BadKeyFirst(toServer'["A"]) => Head(toServer["A"]).type = "bye"
    BY <1>3, <1>4, <1>7, <2>2, AnnouncedTail
  <2>4. CASE Over
    BY <1>2, <2>3, <2>4 DEF ByeFirst, Announced
  <2>5. CASE ~Over
    <3>1. /\ toServer'["B"] \in Seq(Others) /\ Announced(toClient["B"]) /\ ~BadKeyFirst(toClient["B"])
      BY <1>3, <2>1, <2>5 DEF ByeFirst
    <3>2. CASE server[q] = "closed"
      <4>1. toClient'["B"] = toClient["B"] /\ ~Passing("A")'
        BY <1>2, <1>3, <1>1, <1>7, <2>1, <3>2 DEF Passing
      <4> QED BY <1>2, <2>3, <3>1, <4>1 DEF ByeFirst, Announced, BadKeyFirst
    <3>3. CASE server[q] = "open"
      <4>1. toClient'["B"] = Append(toClient["B"], Head(toServer["A"]))
        BY <1>3, <1>7, <2>1, <3>3
      <4>2. /\ Announced(toClient'["B"]) /\ ~BadKeyFirst(toClient'["B"])
            /\ EndsInBye(toClient'["B"]) <=> Head(toServer["A"]).type = "bye"
        BY <1>4, <1>5, <1>7, <2>1, <3>1, <4>1, AnnouncedAppend
      <4> QED BY <1>2, <2>3, <3>1, <4>2 DEF ByeFirst, Announced, BadKeyFirst, EndsInBye
    <3> QED BY <1>3, <3>2, <3>3
  <2> QED BY <2>4, <2>5
<1> QED BY <1>6, <1>7 DEF Peers

(* The read loop of A passes the close on, behind the "bye" it passed on
   before; that of B has no such close to pass on. *)
LEMMA ReadEndBye ==
  ASSUME Base, ByeFirst, NEW p \in Peers, ReadClose(p) \/ ReadFails(p),
         UNCHANGED <<kind, coded, webVars>>
  PROVE  ByeFirst'
<1>1. UNCHANGED <<pc, result, toServer>> /\ Over' = Over /\ Others' = Others
  BY DEF ReadClose, ReadFails, clientVars, Over, Others
<1>2. PICK code \in [Peers -> Closes \cup {None}] :
        /\ CloseServer(code) /\ code[p] \in Closes
        /\ code[p] = "BadKey" => Head(toServer[p]).type = "BadKey" /\ toServer[p] # <<>>
        /\ code[Other(p)] = "BadKey" =>
             /\ Head(toServer[p]).type = "BadKey" /\ toServer[p] # <<>>
             /\ handler[p] = "run" /\ server[p] = "open"
  BY ReadEnds
<1>3. ~Passing("A")'
  <2>1. server'[p] = "closed"
    BY <1>2, HandshakeAssumption DEF CloseServer
  <2> QED BY <2>1 DEF Passing, Other, Peers
<1>4. Announced(toServer'["A"])
  BY <1>1 DEF ByeFirst
<1>5. CASE Over
  BY <1>1, <1>4, <1>5 DEF ByeFirst, Announced
<1>6. CASE ~Over
  <2>1. /\ toServer["B"] \in Seq(Others) /\ Announced(toClient["B"]) /\ ~BadKeyFirst(toClient["B"])
        /\ Passing("A") /\ BadKeyFirst(toServer["A"]) => EndsInBye(toClient["B"])
    BY <1>6 DEF ByeFirst
  <2>2. "A" \in Peers /\ "B" \in Peers /\ toClient["B"] \in Seq(Frames)
    BY DEF Base, Streams, Peers
  <2>3. \/ toClient'["B"] = toClient["B"]
        \/ server["B"] = "open" /\ code["B"] \in Closes /\ toClient'["B"] = Append(toClient["B"], Frame(code["B"], None))
    BY <1>2, <2>2 DEF CloseServer
  <2>4. CASE toClient'["B"] = toClient["B"]
    BY <1>1, <1>3, <1>4, <2>1, <2>4 DEF ByeFirst, Announced, BadKeyFirst
  <2>5. CASE /\ server["B"] = "open" /\ code["B"] \in Closes
             /\ toClient'["B"] = Append(toClient["B"], Frame(code["B"], None))
    <3>1. code["B"] = "BadKey" => EndsInBye(toClient["B"])
      <4> SUFFICES ASSUME code["B"] = "BadKey" PROVE EndsInBye(toClient["B"])
        OBVIOUS
      <4>1. p = "A"
        <5>1. ASSUME p = "B" PROVE FALSE
          <6>1. Head(toServer["B"]).type = "BadKey" /\ toServer["B"] # <<>>
            BY <1>2, <5>1
          <6>2. Head(toServer["B"]) \in Others
            BY <2>1, <6>1, SeqFacts
          <6> QED BY <6>1, <6>2 DEF Others
        <5> QED BY <5>1 DEF Peers
      <4>2. BadKeyFirst(toServer["A"]) /\ handler["A"] = "run" /\ server["A"] = "open"
        BY <1>2, <4>1 DEF BadKeyFirst, Other
      <4> QED BY <2>1, <2>5, <4>2 DEF Passing, Other
    <3>2. Frame(code["B"], None) \in Frames /\ Frame(code["B"], None).type = code["B"]
      BY <2>5 DEF Frame, Frames
    <3>3. Announced(toClient'["B"]) /\ ~BadKeyFirst(toClient'["B"])
      BY <2>1, <2>2, <2>5, <3>1, <3>2, AnnouncedAppend
    <3> QED BY <1>1, <1>3, <1>4, <2>1, <3>3 DEF ByeFirst, Announced, BadKeyFirst
  <2> QED BY <2>3, <2>4, <2>5
<1> QED BY <1>5, <1>6

(* The inductive invariant. *)
WIInv == OInv /\ ("A" \in Web => ByeFirst)

(* Nothing is sent at first. *)
LEMMA WebInvInit ==
  ASSUME WebInit
  PROVE  WIInv
<1>1. OInv
  BY OrderInit
<1>2. /\ toServer = [p \in Peers |-> <<>>] /\ toClient = [p \in Peers |-> <<>>]
      /\ result = [p \in Peers |-> "none"]
  BY DEF WebInit, Paired
<1>3. /\ toServer["A"] = <<>> /\ toServer["B"] = <<>> /\ toClient["B"] = <<>> /\ result["B"] = "none"
  BY <1>2 DEF Peers
<1>4. Announced(<<>>) /\ ~BadKeyFirst(<<>>) /\ \A S : <<>> \in Seq(S)
  BY DEF Announced, BadKeyFirst
<1> QED BY <1>1, <1>3, <1>4 DEF WIInv, ByeFirst

(* Every step keeps the invariant; the kind of A stays what it is. *)
LEMMA WebInvNext ==
  ASSUME WIInv, [WebNext]_allVars
  PROVE  WIInv'
<1>1. OInv' /\ OInv /\ Base /\ Ordering
  BY OrderNext DEF WIInv, OInv
<1> SUFFICES ASSUME ("A" \in Web)' PROVE ByeFirst'
  BY <1>1 DEF WIInv
<1>2. CASE WebNext
  <2>1. PICK p \in Peers :
          /\ UNCHANGED <<kind, coded>>
          /\ \/ p \in Peers \ Web /\ GoActs(p) /\ UNCHANGED webVars
             \/ WebStep(p) \/ WebFails(p)
             \/ (SendCandidate(p) \/ Open(p) \/ Exit(p)) /\ UNCHANGED webVars
             \/ (Forward(p) \/ ReadClose(p) \/ ReadFails(p)) /\ UNCHANGED webVars
    BY <1>1, <1>2, Cases
  <2>2. "A" \in Web /\ ByeFirst
    BY <2>1 DEF WIInv, Web
  <2>3. CASE p \in Peers \ Web /\ GoActs(p) /\ UNCHANGED webVars
    BY <1>1, <2>1, <2>2, <2>3, GoBye
  <2>4. CASE WebStep(p) \/ WebFails(p)
    BY <1>1, <2>1, <2>2, <2>4, WebBye
  <2>5. CASE (SendCandidate(p) \/ Open(p) \/ Exit(p)) /\ UNCHANGED webVars
    BY <1>1, <2>1, <2>2, <2>5, AroundBye
  <2>6. CASE (Forward(p) \/ ReadClose(p) \/ ReadFails(p)) /\ UNCHANGED webVars
    BY <1>1, <2>1, <2>2, <2>6, ForwardBye, ReadEndBye
  <2> QED BY <2>1, <2>3, <2>4, <2>5, <2>6
<1>3. CASE UNCHANGED allVars
  <2>1. UNCHANGED <<pc, result, toServer, toClient, handler, server, kind>>
    BY <1>3 DEF allVars, vars, clientVars, relayVars
  <2>2. "A" \in Web /\ ByeFirst
    BY <2>1 DEF WIInv, Web
  <2> QED BY <2>1, <2>2 DEF ByeFirst, Announced, Over, BadKeyFirst, EndsInBye, Others, Passing
<1> QED BY <1>2, <1>3

(* The invariant holds in every state, for any passwords and any number of
   candidates. *)
THEOREM WebInvariance == WebSpec => []WIInv
<1> QED BY WebInvInit, WebInvNext, PTL DEF WebSpec

(* The "bye" of a browser comes before its close code: the peer that made the
   offer never ends with that code. *)
THEOREM ByeReportsBadKeyHolds == WebSpec => []ByeReportsBadKey
<1>1. WIInv => ByeReportsBadKey
  BY DEF WIInv, ByeFirst, ByeReportsBadKey
<1> QED BY <1>1, WebInvariance, PTL

(* No candidate is added before the description of the other peer is set, the
   first half of CandidatesKept, whoever the two are and whatever fails. *)
THEOREM AddedToRemote == WebSpec => [](\A p \in Peers : added[p] > 0 => p \in remote)
<1> DEFINE Added == \A p \in Peers : added[p] > 0 => p \in remote
<1>1. WebInit => Added
  BY DEF WebInit
<1>2. ASSUME Base, Added, [WebNext]_allVars PROVE Added'
  <2>1. CASE UNCHANGED allVars
    BY <1>2, <2>1 DEF allVars, vars, clientVars, webVars
  <2>2. CASE WebNext
    <3>1. PICK p \in Peers :
            \/ p \in Peers \ Web /\ GoActs(p) /\ UNCHANGED webVars
            \/ WebStep(p) \/ WebFails(p)
            \/ (SendCandidate(p) \/ Open(p) \/ Exit(p)) /\ UNCHANGED webVars
            \/ (Forward(p) \/ ReadClose(p) \/ ReadFails(p)) /\ UNCHANGED webVars
      BY <1>2, <2>2, Cases
    <3>2. remote \subseteq remote'
      BY <3>1 DEF GoActs, SendPake, RecvPake, GoPakeFails, Describe, RecvDescription, RecvBadKey, ReadClosed,
         LocalError, RecvCandidate, RemoteCandidatesEnd, WaitSucceeds, WaitFails, Returns, WebStep, WebFails,
         WebStart, WebExchange, WebOffer, WebFinish, WebBadKey, WebRecvOffer, WebHold, WebAnswer, WebRecvAnswer,
         WebCandidate, WebClosed, WebThrows, WebClose, SendCandidate, Open, Exit, Forward, ReadClose, ReadFails,
         clientVars, relayVars
    <3>3. CASE UNCHANGED added
      BY <1>2, <3>2, <3>3
    <3>4. CASE WebAnswer(p) \/ WebCandidate(p)
      <4>1. p \in remote'
        BY <1>2, <3>2, <3>4 DEF WebAnswer, WebCandidate, Base, Agreed
      <4>2. \A x \in Peers \ {p} : added'[x] = added[x]
        BY <1>2, <3>4 DEF WebAnswer, WebCandidate, Base, Types
      <4> QED BY <1>2, <3>2, <4>1, <4>2
    <3> QED BY <3>1, <3>3, <3>4 DEF WebStep, WebFails, WebStart, WebExchange, WebOffer, WebFinish, WebBadKey,
         WebRecvOffer, WebHold, WebRecvAnswer, WebClosed, WebThrows, WebClose, clientVars, webVars
  <2> QED BY <1>2, <2>1, <2>2
<1> QED BY <1>1, <1>2, BaseInvariance, PTL DEF WebSpec
-----------------------------------------------------------------------------
(* Candidates in a stream. *)

(* There are finitely many; none in an empty stream, ... *)
LEMMA CandidatesCount ==
  ASSUME NEW s \in Seq(Frames)
  PROVE  /\ IsFiniteSet({j \in 1 .. Len(s) : s[j].type = "candidate"})
         /\ Candidates(s) \in Nat /\ Candidates(<<>>) = 0
<1>1. Len(s) \in Nat
  OBVIOUS
<1>2. IsFiniteSet(1 .. Len(s))
  BY <1>1, FS_Interval
<1>3. IsFiniteSet({j \in 1 .. Len(s) : s[j].type = "candidate"})
  BY <1>2, FS_Subset
<1>4. Candidates(s) \in Nat
  BY <1>3, FS_CardinalityType DEF Candidates
<1>5. {j \in 1 .. Len(<<>>) : <<>>[j].type = "candidate"} = {}
  OBVIOUS
<1> QED BY <1>3, <1>4, <1>5, FS_EmptySet DEF Candidates

(* ... one more when one is added to it, ... *)
LEMMA CandidatesAppend ==
  ASSUME NEW s \in Seq(Frames), NEW f \in Frames
  PROVE  Candidates(Append(s, f)) = Candidates(s) + (IF f.type = "candidate" THEN 1 ELSE 0)
<1> DEFINE C == {j \in 1 .. Len(s) : s[j].type = "candidate"}
           D == {j \in 1 .. Len(Append(s, f)) : Append(s, f)[j].type = "candidate"}
<1>1. PICK n \in Nat : n = Len(s)
  OBVIOUS
<1>2. Len(Append(s, f)) = n + 1 /\ Append(s, f)[n + 1] = f /\ \A j \in 1 .. n : Append(s, f)[j] = s[j]
  BY <1>1
<1>3. 1 .. n + 1 = (1 .. n) \cup {n + 1} /\ n + 1 \notin 1 .. n
  BY <1>1
<1>4. D = IF f.type = "candidate" THEN C \cup {n + 1} ELSE C
  BY <1>1, <1>2, <1>3
<1>5. IsFiniteSet(C) /\ Cardinality(C) = Candidates(s) /\ Cardinality(D) = Candidates(Append(s, f))
  BY CandidatesCount DEF Candidates
<1>6. n + 1 \notin C
  BY <1>1, <1>3
<1> HIDE DEF C, D
<1>7. Cardinality(C \cup {n + 1}) = Cardinality(C) + 1
  BY <1>5, <1>6, FS_AddElement
<1>8. Cardinality(C) \in Nat
  BY <1>5, CandidatesCount
<1> QED BY <1>4, <1>5, <1>7, <1>8

(* ... and one less when one is taken from it. *)
LEMMA CandidatesTail ==
  ASSUME NEW s \in Seq(Frames), s # <<>>
  PROVE  Candidates(s) = Candidates(Tail(s)) + (IF Head(s).type = "candidate" THEN 1 ELSE 0)
<1> DEFINE C == {j \in 1 .. Len(s) : s[j].type = "candidate"}
           D == {j \in 1 .. Len(Tail(s)) : Tail(s)[j].type = "candidate"}
           Later == [j \in D |-> j + 1]
<1>1. PICK n \in Nat : Len(s) = n + 1
  <2>1. PICK m \in Nat : m = Len(s) /\ m > 0
    OBVIOUS
  <2>2. m - 1 \in Nat /\ m = (m - 1) + 1
    BY <2>1
  <2> QED BY <2>1, <2>2
<1>2. Len(Tail(s)) = n /\ Head(s) = s[1] /\ \A j \in 1 .. n : Tail(s)[j] = s[j + 1]
  BY <1>1
<1>3. Later \in Bijection(D, C \ {1})
  <2>1. ASSUME NEW j \in D PROVE j \in Nat /\ j + 1 \in C \ {1}
    BY <1>1, <1>2
  <2>2. ASSUME NEW i \in C \ {1} PROVE \E j \in D : j + 1 = i
    <3>1. i - 1 \in 1 .. n /\ (i - 1) + 1 = i
      BY <1>1
    <3>2. Tail(s)[i - 1] = s[i]
      BY <1>2, <3>1
    <3>3. i - 1 \in D
      BY <1>2, <3>1, <3>2
    <3> QED BY <3>1, <3>3
  <2> HIDE DEF C, D
  <2>3. Later \in [D -> C \ {1}] /\ \A j \in D : Later[j] = j + 1
    BY <2>1
  <2>4. \A i, j \in D : Later[i] = Later[j] => i = j
    BY <2>1, <2>3
  <2>5. \A i \in C \ {1} : \E j \in D : Later[j] = i
    BY <2>2, <2>3
  <2> HIDE DEF Later
  <2> QED BY <2>3, <2>4, <2>5 DEF Bijection, Injection, Surjection, IsInjective
<1>4. Tail(s) \in Seq(Frames)
  BY SeqFacts
<1>5. /\ IsFiniteSet(C) /\ Cardinality(C) = Candidates(s)
      /\ IsFiniteSet(D) /\ Cardinality(D) = Candidates(Tail(s))
  BY <1>4, CandidatesCount DEF Candidates
<1>6. 1 \in C <=> Head(s).type = "candidate"
  BY <1>1, <1>2
<1> HIDE DEF C, D, Later
<1>7. Cardinality(C \ {1}) = Cardinality(D)
  BY <1>3, <1>5, FS_Bijection DEF ExistsBijection
<1>8. Cardinality(C \ {1}) = IF 1 \in C THEN Cardinality(C) - 1 ELSE Cardinality(C)
  BY <1>5, FS_RemoveElement
<1>9. PICK a \in Nat, b \in Nat : a = Candidates(s) /\ b = Candidates(Tail(s))
  BY <1>4, CandidatesCount
<1> QED BY <1>5, <1>6, <1>7, <1>8, <1>9

-----------------------------------------------------------------------------
(* Candidates are not lost while nothing fails. *)

(* What a browser counted, and what is on its way to it, is what its partner
   has sent. *)
Kept(p) ==
  p \in Web =>
    gathered[Other(p)] = added[p] + held[p] + Candidates(toClient[p]) + Candidates(toServer[Other(p)])

(* No promise is settled before the answer, but by a close or an error. *)
Unsettled(p) ==
  p \in Web /\ p \notin closed /\ pc[p] \notin {"returned", "waitOpen"} => result[p] = "none"

Keeping == \A p \in Peers : Unsettled(p) /\ (Undisturbed => Kept(p))

(* The reads before a description is accepted find no candidate; ... *)
LEMMA NoCandidateYet ==
  ASSUME Base, Ordering, NEW p \in Peers, TakesFrame(p), pc[p] \in {"recvPake", "recvOffer", "recvAnswer"}
  PROVE  Head(toClient[p]).type # "candidate"
<1>1. CASE coded
  <2>1. Head(toClient[p]) \in From(Other(p))
    BY TakenFrame DEF Base
  <2> QED BY <1>1, <2>1 DEF From, Sealed
<1>2. CASE ~coded
  <2>1. Head(toClient[p]).type \in MayCome(Other(p), Differ, gathered[Other(p)], Read(p))
    BY <1>2, NextRead DEF Ordering, TakesFrame
  <2>2. Place(p) /\ p \in {"A", "B"}
    BY DEF Base, Peers
  <2>3. Read(p) \in {0, 1}
    BY <2>2 DEF Read, Place, LabelsOf
  <2> QED BY <2>1, <2>3 DEF MayCome, Closes
<1> QED BY <1>1, <1>2

(* ... those after it find nothing else. *)
LEMMA OnlyCandidates ==
  ASSUME Base, Ordering, NEW p \in Peers, TakesFrame(p),
         pc[p] = "waitOpen" \/ (p = "A" /\ pc[p] \in {"localAnswer", "thrown"})
  PROVE  Head(toClient[p]).type = "candidate"
<1>1. ~Differ /\ ~coded
  BY DEF Base, Agreed
<1>2. PICK g \in Nat, n \in Nat : g = gathered[Other(p)] /\ n = Read(p)
  BY Counts
<1>3. n >= 2
  <2>1. held[p] \in Nat /\ added[p] \in Nat
    BY DEF Base, Types
  <2>2. n = 2 + held[p] + added[p]
    BY <1>2 DEF Read
  <2> QED BY <2>1, <2>2
<1>4. Head(toClient[p]).type \in MayCome(Other(p), Differ, g, n)
  BY <1>1, <1>2, NextRead DEF Ordering, TakesFrame
<1>5. Head(toClient[p]).type \notin Closes
  BY DEF TakesFrame, Data, Closes
<1> QED BY <1>1, <1>3, <1>4, <1>5 DEF MayCome

(* A browser keeps its count when it counts each candidate that it reads; ... *)
LEMMA ReaderKeeps ==
  ASSUME Base, Base', NEW p \in Peers, Apart(p), Kept(p),
         \/ TakesNothing(p) /\ held'[p] + added'[p] = held[p] + added[p]
         \/ /\ TakesFrame(p)
            /\ held'[p] + added'[p] =
                 held[p] + added[p] + (IF Head(toClient[p]).type = "candidate" THEN 1 ELSE 0)
  PROVE  Kept(p)'
<1>1. PICK q \in Peers : q = Other(p)
  BY TwoPeers
<1>2. Web' = Web /\ gathered'[q] = gathered[q] /\ toServer'[q] = toServer[q]
  BY <1>1 DEF Web, Apart
<1> SUFFICES ASSUME p \in Web
             PROVE  gathered'[q] = added'[p] + held'[p] + Candidates(toClient'[p]) + Candidates(toServer'[q])
  BY <1>1, <1>2 DEF Kept
<1>3. PICK h \in Nat, a \in Nat, i \in Nat, b \in Nat :
        h = held[p] /\ a = added[p] /\ i = held'[p] /\ b = added'[p]
  BY DEF Base, Types
<1>4. toClient[p] \in Seq(Frames) /\ toClient'[p] \in Seq(Frames) /\ toServer[q] \in Seq(Frames)
  BY DEF Base, Streams
<1>5. PICK c \in Nat, d \in Nat, t \in Nat :
        c = Candidates(toClient[p]) /\ d = Candidates(toClient'[p]) /\ t = Candidates(toServer[q])
  BY <1>4, CandidatesCount
<1>6. gathered[q] = a + h + c + t
  BY <1>1, <1>3, <1>5 DEF Kept
<1>7. a + h + c = b + i + d
  <2>1. CASE TakesNothing(p) /\ i + b = h + a
    <3>1. c = d
      BY <1>5, <2>1 DEF TakesNothing
    <3> QED BY <2>1, <3>1
  <2>2. CASE TakesFrame(p) /\ i + b = h + a + (IF Head(toClient[p]).type = "candidate" THEN 1 ELSE 0)
    <3>1. toClient[p] # <<>> /\ toClient'[p] = Tail(toClient[p])
      BY <2>2, TakenFrame DEF TakesFrame, Base
    <3>2. c = d + (IF Head(toClient[p]).type = "candidate" THEN 1 ELSE 0)
      BY <1>4, <1>5, <3>1, CandidatesTail
    <3> QED BY <2>2, <3>2
  <2> QED BY <1>3, <2>1, <2>2
<1> QED BY <1>2, <1>3, <1>5, <1>6, <1>7

(* ... and so does the partner of one that sends the candidates it gathers. *)
LEMMA SenderKeeps ==
  ASSUME Base, NEW p \in Peers, Apart(p), Kept(Other(p)),
         \/ gathered'[p] = gathered[p] /\ toServer'[p] = toServer[p]
         \/ \E f \in Frames :
              /\ toServer'[p] = Append(toServer[p], f)
              /\ gathered'[p] = gathered[p] + (IF f.type = "candidate" THEN 1 ELSE 0)
  PROVE  Kept(Other(p))'
<1>1. PICK x \in Peers : x = Other(p) /\ Other(x) = p
  BY TwoPeers
<1>2. /\ Web' = Web /\ toClient'[x] = toClient[x] /\ held'[x] = held[x] /\ added'[x] = added[x]
  BY <1>1 DEF Web, Apart
<1> SUFFICES ASSUME x \in Web
             PROVE  gathered'[p] = added[x] + held[x] + Candidates(toClient[x]) + Candidates(toServer'[p])
  BY <1>1, <1>2 DEF Kept
<1>3. toClient[x] \in Seq(Frames) /\ toServer[p] \in Seq(Frames)
  BY DEF Base, Streams
<1>4. PICK h \in Nat, a \in Nat, g \in Nat : h = held[x] /\ a = added[x] /\ g = gathered[p]
  BY Counts DEF Base, Types
<1>5. PICK c \in Nat, t \in Nat : c = Candidates(toClient[x]) /\ t = Candidates(toServer[p])
  BY <1>3, CandidatesCount
<1>6. g = a + h + c + t
  BY <1>1, <1>4, <1>5 DEF Kept
<1>7. CASE gathered'[p] = gathered[p] /\ toServer'[p] = toServer[p]
  BY <1>4, <1>5, <1>6, <1>7
<1>8. ASSUME NEW f \in Frames, toServer'[p] = Append(toServer[p], f),
             gathered'[p] = gathered[p] + (IF f.type = "candidate" THEN 1 ELSE 0)
      PROVE  gathered'[p] = added[x] + held[x] + Candidates(toClient[x]) + Candidates(toServer'[p])
  <2>1. PICK k \in Nat : k = IF f.type = "candidate" THEN 1 ELSE 0
    OBVIOUS
  <2>2. Candidates(toServer'[p]) = t + k
    BY <1>3, <1>5, <1>8, <2>1, CandidatesAppend
  <2>3. gathered'[p] = g + k
    BY <1>4, <1>8, <2>1
  <2>4. g + k = a + h + c + (t + k)
    BY <1>6
  <2> QED BY <1>4, <1>5, <2>2, <2>3, <2>4
<1> QED BY <1>7, <1>8

(* A browser, while no websocket is closed. *)
LEMMA WebKeeps ==
  ASSUME Base, Base', Ordering, NEW p \in Peers, WebStep(p) \/ WebFails(p), UNCHANGED <<kind, coded>>,
         Unsettled(p), Kept(p), Kept(Other(p)), closed' = {}
  PROVE  Kept(p)' /\ Kept(Other(p))'
<1>1. Apart(p) /\ UNCHANGED gathered /\ Place(p) /\ kind[p] = "web" /\ p \in Web
  BY WebApart
<1>2. /\ pc \in [Peers -> WebLabels] /\ toServer \in [Peers -> Seq(Frames)]
      /\ held \in [Peers -> Nat] /\ added \in [Peers -> Nat] /\ key[p] \in Passwords \cup {None}
      /\ gathered[p] \in Nat /\ gathered'[p] = gathered[p]
  BY <1>1, Counts DEF Base, Types, Streams
<1>3. \A type \in {"pake", "offer", "answer"}, k \in Passwords \cup {None} :
        Frame(type, k) \in Frames /\ Frame(type, k).type # "candidate"
  BY DEF Frame, Frames, Data
<1>4. /\ toServer'[p] = toServer[p] => Kept(Other(p))'
      /\ \A type \in {"pake", "offer", "answer"}, k \in Passwords \cup {None} :
           toServer'[p] = Append(toServer[p], Frame(type, k)) => Kept(Other(p))'
  <2>1. ASSUME toServer'[p] = toServer[p] PROVE Kept(Other(p))'
    BY <1>1, <1>2, <2>1, SenderKeeps
  <2>2. ASSUME NEW f \in Frames, f.type # "candidate", toServer'[p] = Append(toServer[p], f)
        PROVE  Kept(Other(p))'
    <3>1. gathered'[p] = gathered[p] + (IF f.type = "candidate" THEN 1 ELSE 0)
      BY <1>2, <2>2
    <3> QED BY <1>1, <2>2, <3>1, SenderKeeps
  <2> QED BY <1>3, <2>1, <2>2
<1> USE DEF Goto
<1>5. CASE WebStart(p)
  <2>1. /\ TakesNothing(p) /\ held' = held /\ added' = added
        /\ toServer'[p] = Append(toServer[p], Frame("pake", None))
    BY <1>2, <1>5 DEF WebStart, Start, Sends, TakesNothing, webVars
  <2> QED BY <1>1, <1>4, <2>1, ReaderKeeps
<1>6. CASE WebOffer(p)
  <2>1. /\ TakesNothing(p) /\ held' = held /\ added' = added
        /\ toServer'[p] = toServer[p] \/ toServer'[p] = Append(toServer[p], Frame("offer", key[p]))
    BY <1>2, <1>6 DEF WebOffer, SendsIfOpen, Seal, TakesNothing, webVars
  <2> QED BY <1>1, <1>2, <1>4, <2>1, ReaderKeeps
<1>7. CASE WebExchange(p) \/ WebFinish(p) \/ WebRecvOffer(p) \/ WebRecvAnswer(p)
  <2>1. /\ TakesFrame(p) /\ pc[p] \in {"recvPake", "recvOffer", "recvAnswer"} /\ held' = held /\ added' = added
        /\ toServer'[p] = toServer[p] \/ toServer'[p] = Append(toServer[p], Frame("pake", None))
    BY <1>2, <1>7 DEF WebExchange, Exchange, Sends, WebFinish, WebRecvOffer, WebRecvAnswer, Hears, Message,
       TakesFrame, webVars
  <2>2. held'[p] + added'[p] = held[p] + added[p] + (IF Head(toClient[p]).type = "candidate" THEN 1 ELSE 0)
    <3>1. Head(toClient[p]).type # "candidate"
      BY <2>1, NoCandidateYet
    <3> QED BY <1>2, <2>1, <3>1
  <2> QED BY <1>1, <1>4, <2>1, <2>2, ReaderKeeps
<1>8. CASE WebHold(p) \/ WebCandidate(p)
  <2>1. /\ TakesFrame(p) /\ toServer'[p] = toServer[p]
        /\ pc[p] = "waitOpen" \/ (p = "A" /\ pc[p] \in {"localAnswer", "thrown"})
        /\ held'[p] + added'[p] = held[p] + added[p] + 1
    <3>1. ~coded
      BY <1>1, <1>8 DEF WebHold, WebCandidate, Place, LabelsOf
    <3>2. Side(p) = p
      BY <3>1 DEF Side
    <3>3. CASE WebHold(p)
      <4>1. TakesFrame(p) /\ toServer'[p] = toServer[p]
        BY <3>3 DEF WebHold, Hears, Message, TakesFrame
      <4>2. p = "A" /\ pc[p] \in {"localAnswer", "thrown"}
        BY <3>2, <3>3 DEF WebHold
      <4>3. held'[p] = held[p] + 1 /\ added'[p] = added[p]
        BY <1>2, <3>3 DEF WebHold
      <4> QED BY <1>2, <4>1, <4>2, <4>3
    <3>4. CASE WebCandidate(p)
      <4>1. TakesFrame(p) /\ toServer'[p] = toServer[p] /\ pc[p] = "waitOpen"
        BY <3>4 DEF WebCandidate, Hears, Message, TakesFrame
      <4>2. held'[p] = held[p] /\ added'[p] = added[p] + 1
        BY <1>2, <3>4 DEF WebCandidate
      <4> QED BY <1>2, <4>1, <4>2
    <3> QED BY <1>8, <3>3, <3>4
  <2>2. Head(toClient[p]).type = "candidate"
    BY <2>1, OnlyCandidates
  <2> QED BY <1>1, <1>4, <2>1, <2>2, ReaderKeeps
<1>9. CASE WebAnswer(p)
  <2>1. /\ TakesNothing(p) /\ pc[p] = "localAnswer" /\ p \notin closed
        /\ toServer'[p] = Append(toServer[p], Frame("answer", key[p]))
    BY <1>2, <1>9 DEF WebAnswer, SendsIfOpen, Seal, TakesNothing
  <2>2. result[p] = "none"
    BY <1>1, <2>1 DEF Unsettled
  <2>3. added[p] = 0
    BY <2>1 DEF Ordering, Counted
  <2>4. held'[p] + added'[p] = held[p] + added[p]
    BY <1>2, <1>9, <2>2, <2>3 DEF WebAnswer
  <2> QED BY <1>1, <1>2, <1>4, <2>1, <2>4, ReaderKeeps
<1>10. CASE WebThrows(p)
  <2>1. TakesNothing(p) /\ held' = held /\ added' = added /\ toServer' = toServer
    BY <1>10 DEF WebThrows, TakesNothing, webVars
  <2> QED BY <1>1, <1>4, <2>1, ReaderKeeps
<1>11. CASE WebBadKey(p) \/ WebClosed(p) \/ WebClose(p)
  <2>1. p \in closed'
    BY <1>11 DEF WebBadKey, WebClosed, WebClose, Closing
  <2> QED BY <2>1
<1> QED BY <1>5, <1>6, <1>7, <1>8, <1>9, <1>10, <1>11 DEF WebStep, WebFails

(* A Go client counts nothing, and sends no candidate in its own steps. *)
LEMMA GoKeeps ==
  ASSUME Base, Base', NEW p \in Peers \ Web, GoActs(p), UNCHANGED <<kind, coded, webVars>>,
         Kept(Other(p)), closed' = {}
  PROVE  Kept(p)' /\ Kept(Other(p))'
<1>1. p \in Peers /\ Apart(p) /\ UNCHANGED gathered
  BY GoApart
<1>2. Kept(p)'
  BY DEF Kept, Web
<1>3. toServer \in [Peers -> Seq(Frames)] /\ key[p] \in Passwords \cup {None} /\ gathered[p] \in Nat
  BY <1>1, Counts DEF Base, Types, Streams
<1>4. \/ toServer'[p] = toServer[p]
      \/ \E type \in {"pake", "offer", "answer"}, k \in Passwords \cup {None} :
           toServer'[p] = Append(toServer[p], Frame(type, k))
  <2>1. CASE SendPake(p) \/ Describe(p)
    BY <1>1, <1>3, <2>1 DEF SendPake, Describe, Sends
  <2>2. CASE \/ RecvPake(p) \/ GoPakeFails(p) \/ RecvDescription(p) \/ ReadClosed(p) \/ LocalError(p)
             \/ RecvCandidate(p) \/ RemoteCandidatesEnd(p)
    BY <2>2 DEF RecvPake, GoPakeFails, RecvDescription, ReadClosed, LocalError, RecvCandidate, RemoteCandidatesEnd
  <2>3. CASE RecvBadKey(p) \/ WaitSucceeds(p) \/ WaitFails(p, "ErrTimedOut") \/ WaitFails(p, "failed")
    <3>1. p \in closed'
      BY <2>3 DEF RecvBadKey, WaitSucceeds, WaitFails, CloseUnlessClosed, Closing
    <3> QED BY <3>1
  <2> QED BY <2>1, <2>2, <2>3 DEF GoActs
<1>5. ASSUME NEW type \in {"pake", "offer", "answer"}, NEW k \in Passwords \cup {None},
             toServer'[p] = Append(toServer[p], Frame(type, k))
      PROVE  Kept(Other(p))'
  <2>1. Frame(type, k) \in Frames /\ Frame(type, k).type # "candidate"
    BY DEF Frame, Frames, Data
  <2>2. gathered'[p] = gathered[p] + (IF Frame(type, k).type = "candidate" THEN 1 ELSE 0)
    BY <1>1, <1>3, <2>1
  <2> QED BY <1>1, <1>5, <2>1, <2>2, SenderKeeps
<1>6. toServer'[p] = toServer[p] => Kept(Other(p))'
  BY <1>1, SenderKeeps
<1> QED BY <1>2, <1>4, <1>5, <1>6

(* A candidate is gathered and sent at once, as the websocket is open. *)
LEMMA AroundKeeps ==
  ASSUME Base, Base', NEW p \in Peers, SendCandidate(p) \/ Open(p) \/ Exit(p),
         UNCHANGED <<kind, coded, webVars>>, Kept(p), Kept(Other(p)), closed' = {}
  PROVE  Kept(p)' /\ Kept(Other(p))'
<1>1. Apart(p) /\ TakesNothing(p) /\ held' = held /\ added' = added
  BY TwoPeers DEF Base, Types, Streams, SendCandidate, Sends, Open, Exit, Apart, TakesNothing, relayVars, webVars
<1>2. Kept(p)'
  BY <1>1, ReaderKeeps
<1>3. /\ toServer \in [Peers -> Seq(Frames)] /\ key[p] \in Passwords \cup {None}
      /\ gathered \in [Peers -> 0 .. MaxCandidates]
  BY DEF Base, Types, Streams
<1>4. CASE SendCandidate(p)
  <2>1. closed = {}
    BY <1>4 DEF SendCandidate
  <2>2. /\ toServer'[p] = Append(toServer[p], Frame("candidate", key[p]))
        /\ gathered'[p] = gathered[p] + 1
    BY <1>3, <1>4, <2>1 DEF SendCandidate, Sends
  <2>3. Frame("candidate", key[p]) \in Frames /\ Frame("candidate", key[p]).type = "candidate"
    BY <1>3 DEF Frame, Frames, Data
  <2> QED BY <1>1, <1>2, <2>2, <2>3, SenderKeeps
<1>5. CASE Open(p)
  <2>1. toServer'[p] = toServer[p] /\ gathered'[p] = gathered[p]
    BY <1>5 DEF Open
  <2> QED BY <1>1, <1>2, <2>1, SenderKeeps
<1>6. CASE Exit(p)
  <2>1. p \in closed'
    BY <1>6 DEF Exit
  <2> QED BY <2>1
<1> QED BY <1>4, <1>5, <1>6

(* A candidate that is passed on stays on its way. *)
LEMMA ForwardKeeps ==
  ASSUME Base, NEW p \in Peers, Forward(p), UNCHANGED <<kind, coded, webVars>>,
         Kept(p), Kept(Other(p)), server[Other(p)] = "open"
  PROVE  Kept(p)' /\ Kept(Other(p))'
<1>1. PICK q \in Peers : q = Other(p) /\ Other(q) = p /\ Peers = {p, q} /\ p # q
  BY TwoPeers
<1>2. UNCHANGED <<gathered, held, added>> /\ Web' = Web
  BY DEF Forward, clientVars, webVars, Web
<1>3. /\ toServer[p] # <<>> /\ toServer'[p] = Tail(toServer[p]) /\ toServer'[q] = toServer[q]
      /\ toClient'[p] = toClient[p] /\ toClient'[q] = Append(toClient[q], Head(toServer[p]))
  BY <1>1 DEF Forward, Base, Types, Streams
<1>4. /\ toServer[p] \in Seq(Frames) /\ toClient[q] \in Seq(Frames)
      /\ Head(toServer[p]) \in Frames /\ Tail(toServer[p]) \in Seq(Frames)
  BY <1>1, <1>3, SeqFacts DEF Base, Streams
<1>5. PICK c \in Nat, t \in Nat, u \in Nat :
        c = Candidates(toClient[q]) /\ t = Candidates(toServer[p]) /\ u = Candidates(toServer'[p])
  BY <1>3, <1>4, CandidatesCount
<1>6. Candidates(toClient'[q]) + u = c + t
  <2>1. PICK k \in Nat : k = IF Head(toServer[p]).type = "candidate" THEN 1 ELSE 0
    OBVIOUS
  <2>2. Candidates(toClient'[q]) = c + k
    BY <1>3, <1>4, <1>5, <2>1, CandidatesAppend
  <2>3. t = u + k
    BY <1>3, <1>4, <1>5, <2>1, CandidatesTail
  <2> QED BY <2>2, <2>3
<1>7. Kept(q)'
  <2> SUFFICES ASSUME q \in Web
               PROVE  gathered[p] = added[q] + held[q] + Candidates(toClient'[q]) + Candidates(toServer'[p])
    BY <1>1, <1>2 DEF Kept
  <2>1. gathered[p] = added[q] + held[q] + c + t
    BY <1>1, <1>5 DEF Kept
  <2>2. PICK h \in Nat, a \in Nat, d \in Nat : h = held[q] /\ a = added[q] /\ d = Candidates(toClient'[q])
    <3>1. toClient'[q] \in Seq(Frames)
      BY <1>3, <1>4, SeqFacts
    <3> QED BY <3>1, CandidatesCount DEF Base, Types
  <2> QED BY <1>5, <1>6, <2>1, <2>2
<1>8. Kept(p)'
  BY <1>1, <1>2, <1>3 DEF Kept
<1> QED BY <1>1, <1>7, <1>8

(* A promise stays as it is until one of these steps. *)
LEMMA UnsettledNext ==
  ASSUME Base, NEW p \in Peers, UNCHANGED <<kind, coded>>,
         \/ p \in Peers \ Web /\ GoActs(p) /\ UNCHANGED webVars
         \/ WebStep(p) \/ WebFails(p)
         \/ (SendCandidate(p) \/ Open(p) \/ Exit(p)) /\ UNCHANGED webVars
         \/ (Forward(p) \/ ReadClose(p) \/ ReadFails(p)) /\ UNCHANGED webVars,
         NEW x \in Peers, Unsettled(x)
  PROVE  Unsettled(x)'
<1>1. Web' = Web /\ pc \in [Peers -> WebLabels] /\ result \in [Peers -> Results]
  BY DEF Web, Base, Types
<1>2. x # p => x = Other(p)
  BY TwoPeers
<1>3. CASE p \in Peers \ Web /\ GoActs(p) /\ UNCHANGED webVars
  <2>1. Apart(p)
    BY <1>3, GoApart
  <2> QED BY <1>1, <1>2, <1>3, <2>1 DEF Unsettled, Apart
<1>4. CASE WebStep(p) \/ WebFails(p)
  <2>1. Apart(p)
    BY <1>4, WebApart
  <2>2. CASE x = p
    <3>1. CASE WebStart(p) \/ WebExchange(p) \/ WebOffer(p) \/ WebRecvOffer(p) \/ WebHold(p) \/ WebCandidate(p)
               \/ WebThrows(p)
      BY <1>1, <2>2, <3>1 DEF WebStart, WebExchange, WebOffer, WebRecvOffer, WebHold, WebCandidate, WebThrows,
         Goto, clientVars, Unsettled
    <3>2. CASE WebFinish(p)
      BY <1>1, <2>2, <3>2 DEF WebFinish, Goto, Unsettled
    <3>3. CASE WebBadKey(p) \/ WebAnswer(p) \/ WebRecvAnswer(p)
      BY <1>1, <2>2, <3>3 DEF WebBadKey, WebAnswer, WebRecvAnswer, Goto, Unsettled
    <3>4. CASE WebClosed(p) \/ WebClose(p)
      BY <2>2, <3>4 DEF WebClosed, WebClose, Closing, Unsettled
    <3> QED BY <1>4, <3>1, <3>2, <3>3, <3>4 DEF WebStep, WebFails
  <2>3. CASE x # p
    BY <1>1, <1>2, <2>1, <2>3 DEF Unsettled, Apart
  <2> QED BY <2>2, <2>3
<1>5. CASE SendCandidate(p) \/ Open(p) \/ Exit(p)
  BY <1>1, <1>5 DEF SendCandidate, Open, Exit, Unsettled
<1>6. CASE Forward(p) \/ ReadClose(p) \/ ReadFails(p)
  BY <1>1, <1>6 DEF Forward, ReadClose, ReadFails, clientVars, Unsettled
<1> QED BY <1>3, <1>4, <1>5, <1>6

(* What was disturbed stays so; no read loop ends before. *)
LEMMA StaysDisturbed ==
  ASSUME Base, NEW p \in Peers, UNCHANGED <<kind, coded>>, Undisturbed',
         \/ p \in Peers \ Web /\ GoActs(p) /\ UNCHANGED webVars
         \/ WebStep(p) \/ WebFails(p)
         \/ (SendCandidate(p) \/ Open(p) \/ Exit(p)) /\ UNCHANGED webVars
         \/ (Forward(p) \/ ReadClose(p) \/ ReadFails(p)) /\ UNCHANGED webVars
  PROVE  Undisturbed /\ ~ReadClose(p) /\ ~ReadFails(p)
<1>1. closed' = {} /\ handler \in [Peers -> {"run", "done"}]
  BY DEF Undisturbed, Base, Types
<1>2. handler'[p] = "run" /\ \A x \in Peers : server'[x] = "open" /\ handler'[x] = "run"
  BY DEF Undisturbed
<1>3. ~ReadClose(p) /\ ~ReadFails(p)
  BY <1>1, <1>2 DEF ReadClose, ReadFails
<1>4. UNCHANGED <<handler, server>>
  <2>1. CASE p \in Peers \ Web /\ GoActs(p) /\ UNCHANGED webVars
    BY <2>1, GoApart DEF Apart
  <2>2. CASE WebStep(p) \/ WebFails(p)
    BY <2>2, WebApart DEF Apart
  <2>3. CASE SendCandidate(p) \/ Open(p) \/ Exit(p)
    BY <2>3 DEF SendCandidate, Open, Exit, relayVars
  <2>4. CASE Forward(p)
    BY <1>1, <1>2, <2>4 DEF Forward
  <2> QED BY <1>3, <2>1, <2>2, <2>3, <2>4
<1>5. closed \subseteq closed'
  <2>1. CASE GoActs(p)
    BY <2>1 DEF GoActs, SendPake, RecvPake, GoPakeFails, Describe, RecvDescription, RecvBadKey, ReadClosed,
       LocalError, RecvCandidate, RemoteCandidatesEnd, WaitSucceeds, WaitFails, CloseUnlessClosed, Closing, clientVars
  <2>2. CASE WebStep(p) \/ WebFails(p)
    BY <2>2 DEF WebStep, WebFails, WebStart, WebExchange, WebOffer, WebFinish, WebBadKey, WebRecvOffer, WebHold,
       WebAnswer, WebRecvAnswer, WebCandidate, WebClosed, WebThrows, WebClose, Closing, clientVars
  <2>3. CASE SendCandidate(p) \/ Open(p) \/ Exit(p) \/ Forward(p)
    BY <2>3 DEF SendCandidate, Open, Exit, Forward, clientVars
  <2> QED BY <1>3, <2>1, <2>2, <2>3
<1> QED BY <1>1, <1>2, <1>3, <1>4, <1>5 DEF Undisturbed

(* Every step keeps what was counted. *)
LEMMA KeepingNext ==
  ASSUME OInv, OInv', Keeping, [WebNext]_allVars
  PROVE  Keeping'
<1>1. Base /\ Base' /\ Ordering
  BY DEF OInv
<1>2. CASE WebNext
  <2>1. PICK p \in Peers :
          /\ UNCHANGED <<kind, coded>>
          /\ \/ p \in Peers \ Web /\ GoActs(p) /\ UNCHANGED webVars
             \/ WebStep(p) \/ WebFails(p)
             \/ (SendCandidate(p) \/ Open(p) \/ Exit(p)) /\ UNCHANGED webVars
             \/ (Forward(p) \/ ReadClose(p) \/ ReadFails(p)) /\ UNCHANGED webVars
    BY <1>1, <1>2, Cases
  <2>2. ASSUME NEW x \in Peers PROVE Unsettled(x)'
    BY <1>1, <2>1, UnsettledNext DEF Keeping
  <2>3. ASSUME Undisturbed', NEW x \in Peers PROVE Kept(x)'
    <3>1. Undisturbed /\ ~ReadClose(p) /\ ~ReadFails(p)
      BY <1>1, <2>1, <2>3, StaysDisturbed
    <3>2. Other(p) \in Peers /\ Peers = {p, Other(p)}
      BY TwoPeers
    <3>3. Kept(p) /\ Kept(Other(p)) /\ Unsettled(p)
      BY <3>1, <3>2 DEF Keeping
    <3>4. closed' = {} /\ server[Other(p)] = "open"
      BY <2>3, <3>1, <3>2 DEF Undisturbed
    <3>5. CASE p \in Peers \ Web /\ GoActs(p) /\ UNCHANGED webVars
      BY <1>1, <2>1, <3>2, <3>3, <3>4, <3>5, GoKeeps
    <3>6. CASE WebStep(p) \/ WebFails(p)
      BY <1>1, <2>1, <3>2, <3>3, <3>4, <3>6, WebKeeps
    <3>7. CASE (SendCandidate(p) \/ Open(p) \/ Exit(p)) /\ UNCHANGED webVars
      BY <1>1, <2>1, <3>2, <3>3, <3>4, <3>7, AroundKeeps
    <3>8. CASE Forward(p) /\ UNCHANGED webVars
      BY <1>1, <2>1, <3>2, <3>3, <3>4, <3>8, ForwardKeeps
    <3> QED BY <2>1, <3>1, <3>5, <3>6, <3>7, <3>8
  <2> QED BY <2>2, <2>3 DEF Keeping
<1>3. CASE UNCHANGED allVars
  <2>1. UNCHANGED <<pc, result, gathered, closed, toServer, toClient, handler, server, kind, held, added>>
    BY <1>3 DEF allVars, vars, clientVars, relayVars, webVars
  <2> QED BY <2>1 DEF Keeping, Kept, Unsettled, Undisturbed, Web, Candidates
<1> QED BY <1>2, <1>3

(* Nothing is counted at first. *)
LEMMA KeepingInit ==
  ASSUME WebInit
  PROVE  Keeping
<1>1. /\ result = [p \in Peers |-> "none"] /\ gathered = [p \in Peers |-> 0]
      /\ toServer = [p \in Peers |-> <<>>] /\ toClient = [p \in Peers |-> <<>>]
      /\ held = [p \in Peers |-> 0] /\ added = [p \in Peers |-> 0]
  BY DEF WebInit, Paired
<1>2. Candidates(<<>>) = 0
  <2>1. <<>> \in Seq(Frames)
    OBVIOUS
  <2> QED BY <2>1, CandidatesCount
<1>3. ASSUME NEW p \in Peers PROVE Unsettled(p) /\ Kept(p)
  <2>1. Other(p) \in Peers
    BY TwoPeers
  <2> QED BY <1>1, <1>2, <2>1 DEF Unsettled, Kept
<1> QED BY <1>3 DEF Keeping

(* The candidates of either peer are added, held, or on their way until a
   websocket closes or a read loop ends, and none is added before its time. *)
THEOREM CandidatesKeptHolds == WebSpec => []CandidatesKept
<1> DEFINE Timely == \A p \in Peers : added[p] > 0 => p \in remote
<1>1. WebSpec => [](OInv /\ Keeping)
  <2>1. ASSUME OInv /\ Keeping, [WebNext]_allVars PROVE (OInv /\ Keeping)'
    BY <2>1, OrderNext, KeepingNext
  <2>2. WebInit => OInv /\ Keeping
    BY OrderInit, KeepingInit
  <2> QED BY <2>1, <2>2, PTL DEF WebSpec
<1>2. Keeping /\ Timely => CandidatesKept
  BY DEF Keeping, Kept, CandidatesKept, Web
<1> QED BY <1>1, <1>2, AddedToRemote, PTL
=============================================================================
