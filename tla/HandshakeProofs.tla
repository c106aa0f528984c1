---------------------------- MODULE HandshakeProofs ----------------------------
(* The safety of Handshake, for any set of passwords and number of candidates. *)
EXTENDS Handshake, TLAPS

-----------------------------------------------------------------------------
(* The inductive invariant, in named parts. *)

(* Frames that peer p may send: sealed with its own password or not at all. *)
From(p) == [type : Data \cup Closes, key : {None, pass[p]}]

(* A client's stream to the server holds frames of its own ... *)
ServerStreams ==
  /\ toServer \in [Peers -> Seq(Frames)]
  /\ \A p \in Peers : toServer[p] \in Seq(From(p))

(* ... and the one from the server frames of the other client. *)
ClientStreams ==
  /\ toClient \in [Peers -> Seq(Frames)]
  /\ \A p \in Peers : toClient[p] \in Seq(From(Other(p)))

(* The types of the other variables. *)
Types ==
  /\ pass \in [Peers -> Passwords]
  /\ pc \in [Peers -> Labels]
  /\ result \in [Peers -> Results]
  /\ key \in [Peers -> Passwords \cup {None}]
  /\ local \subseteq Peers /\ remote \subseteq Peers /\ opened \subseteq Peers
  /\ exited \subseteq Peers /\ closed \subseteq Peers
  /\ gathered \in [Peers -> 0 .. MaxCandidates]
  /\ handler \in [Peers -> {"run", "done"}]
  /\ server \in [Peers -> {"open", "closed"}]

(* A key is the password's, and is there before a description is read. *)
Keyed ==
  \A p \in Peers :
    /\ key[p] \in {None, pass[p]}
    /\ pc[p] \in {"recvOffer", "recvAnswer", "sendAnswer", "sendOffer", "setLocal"} => key[p] = pass[p]
    /\ p = "B" /\ pc[p] = "sendPake" => key[p] = pass[p]

(* A data channel opens between peers that accepted each other's description. *)
Agreed == (opened # {} => remote = Peers) /\ Authenticated

IInv == Types /\ ServerStreams /\ ClientStreams /\ Keyed /\ Agreed

-----------------------------------------------------------------------------
(* The streams. *)

(* A stream stays one of the same frames when one is added or taken. *)
LEMMA SeqFacts ==
  ASSUME NEW S, NEW s \in Seq(S)
  PROVE  /\ \A e \in S : Append(s, e) \in Seq(S)
         /\ s # <<>> => Head(s) \in S /\ Tail(s) \in Seq(S)
         /\ <<>> \in Seq(S)
OBVIOUS

(* What a peer may send is a frame. *)
LEMMA FromFrames ==
  ASSUME Types, NEW p \in Peers
  PROVE  From(p) \subseteq Frames /\ Other(p) \in Peers
BY DEF Types, From, Frames, Other, Peers

(* A client may send what is unsealed or sealed with its key. *)
LEMMA SendsStream ==
  ASSUME Types, ServerStreams, Keyed, UNCHANGED pass, NEW p \in Peers,
         NEW type \in Data \cup Closes, NEW k \in {None, key[p]}, Sends(p, type, k)
  PROVE  ServerStreams'
<1>1. Frame(type, k) \in From(p) /\ From(p) \subseteq Frames
  BY FromFrames DEF Keyed, Frame, From
<1>2. /\ toServer[p] \in Seq(Frames) /\ toServer[p] \in Seq(From(p))
  BY DEF ServerStreams
<1>3. Append(toServer[p], Frame(type, k)) \in Seq(Frames)
  BY <1>1, <1>2, SeqFacts
<1>4. Append(toServer[p], Frame(type, k)) \in Seq(From(p))
  BY <1>1, <1>2, SeqFacts
<1>5. \A q \in Peers : From(q)' = From(q)
  BY DEF From
<1> QED BY <1>3, <1>4, <1>5 DEF ServerStreams, Sends

(* A client takes the frame that comes first. *)
LEMMA ReadsStream ==
  ASSUME Types, ClientStreams, UNCHANGED pass, NEW p \in Peers, NEW f, Reads(p, f)
  PROVE  ClientStreams' /\ f \in From(Other(p))
<1>1. toClient[p] \in Seq(Frames) /\ toClient[p] \in Seq(From(Other(p))) /\ toClient[p] # <<>>
  BY DEF ClientStreams, Reads
<1>2. Tail(toClient[p]) \in Seq(Frames)
  BY <1>1, SeqFacts
<1>3. Tail(toClient[p]) \in Seq(From(Other(p))) /\ Head(toClient[p]) \in From(Other(p))
  BY <1>1, SeqFacts
<1>4. \A q \in Peers : From(Other(q))' = From(Other(q))
  BY DEF From
<1> QED BY <1>2, <1>3, <1>4 DEF ClientStreams, Reads

(* The server's close frames are sealed with no key. *)
LEMMA CloseStream ==
  ASSUME Types, ClientStreams, UNCHANGED pass,
         NEW code \in [Peers -> Closes \cup {None}], CloseServer(code)
  PROVE  ClientStreams' /\ server' \in [Peers -> {"open", "closed"}]
<1>1. ASSUME NEW p \in Peers
      PROVE  toClient'[p] \in Seq(Frames) /\ toClient'[p] \in Seq(From(Other(p)))
  <2>1. toClient[p] \in Seq(Frames) /\ toClient[p] \in Seq(From(Other(p)))
    BY DEF ClientStreams
  <2>2. toClient'[p] = toClient[p] \/ (code[p] # None /\ toClient'[p] = Append(toClient[p], Frame(code[p], None)))
    BY DEF CloseServer
  <2>3. code[p] # None => Frame(code[p], None) \in From(Other(p)) /\ From(Other(p)) \subseteq Frames
    BY FromFrames DEF Frame, From
  <2>4. code[p] # None => Append(toClient[p], Frame(code[p], None)) \in Seq(Frames)
    BY <2>1, <2>3, SeqFacts
  <2>5. code[p] # None => Append(toClient[p], Frame(code[p], None)) \in Seq(From(Other(p)))
    BY <2>1, <2>3, SeqFacts
  <2> QED BY <2>1, <2>2, <2>4, <2>5
<1>2. \A q \in Peers : From(Other(q))' = From(Other(q))
  BY DEF From
<1>3. toClient' = [p \in Peers |-> toClient'[p]]
  BY DEF CloseServer
<1>4. toClient' \in [Peers -> Seq(Frames)]
  BY <1>1, <1>3
<1>5. server' \in [Peers -> {"open", "closed"}]
  BY DEF CloseServer, Types
<1> QED BY <1>1, <1>2, <1>4, <1>5 DEF ClientStreams

-----------------------------------------------------------------------------
(* The steps of a client. *)

(* Streams depend on the passwords and on themselves. *)
LEMMA QuietStreams ==
  ASSUME UNCHANGED pass
  PROVE  /\ ServerStreams /\ UNCHANGED toServer => ServerStreams'
         /\ ClientStreams /\ UNCHANGED toClient => ClientStreams'
BY DEF ServerStreams, ClientStreams, From

(* The key exchange: a key is set to the password's. *)
LEMMA PakeStep ==
  ASSUME IInv, NEW p \in Peers, SendPake(p) \/ RecvPake(p)
  PROVE  IInv'
<1> USE DEF IInv, Goto
<1>1. CASE SendPake(p)
  <2>1. Types' /\ Keyed' /\ Agreed'
    BY <1>1 DEF SendPake, Types, Keyed, Agreed, Authenticated, Labels, Peers, relayVars
  <2>2. ServerStreams'
    BY <1>1, SendsStream DEF SendPake, Data
  <2>3. ClientStreams'
    BY <1>1, QuietStreams DEF SendPake
  <2> QED BY <2>1, <2>2, <2>3
<1>2. CASE RecvPake(p)
  <2>1. Types' /\ Keyed' /\ Agreed'
    BY <1>2 DEF RecvPake, Types, Keyed, Agreed, Authenticated, Labels, Peers, relayVars
  <2>2. ServerStreams'
    BY <1>2, QuietStreams DEF RecvPake
  <2>3. ClientStreams'
    BY <1>2, ReadsStream DEF RecvPake
  <2> QED BY <2>1, <2>2, <2>3
<1> QED BY <1>1, <1>2

(* Descriptions and candidates go out under the key. *)
LEMMA DescribeStep ==
  ASSUME IInv, NEW p \in Peers, Describe(p) \/ SendCandidate(p)
  PROVE  IInv'
<1> USE DEF IInv, Goto
<1>1. CASE Describe(p)
  <2>1. Types'
    BY <1>1 DEF Describe, Types, Labels, relayVars
  <2>2. Keyed'
    BY <1>1 DEF Describe, Types, Keyed
  <2>3. Agreed'
    BY <1>1 DEF Describe, Agreed, Authenticated
  <2>4. ServerStreams'
    BY <1>1, SendsStream, QuietStreams DEF Describe, Data
  <2>5. ClientStreams'
    BY <1>1, QuietStreams DEF Describe
  <2> QED BY <2>1, <2>2, <2>3, <2>4, <2>5
<1>2. CASE SendCandidate(p)
  <2>1. Types' /\ Keyed' /\ Agreed'
    BY <1>2, HandshakeAssumption
       DEF SendCandidate, Types, Keyed, Agreed, Authenticated, relayVars
  <2>2. ServerStreams'
    BY <1>2, SendsStream, QuietStreams DEF SendCandidate, Data
  <2>3. ClientStreams'
    BY <1>2, QuietStreams DEF SendCandidate
  <2> QED BY <2>1, <2>2, <2>3
<1> QED BY <1>1, <1>2

(* A description that opens was sealed with the same password. *)
LEMMA DescriptionStep ==
  ASSUME IInv, NEW p \in Peers, RecvDescription(p)
  PROVE  IInv'
<1> USE DEF IInv, Goto
<1>1. PICK f \in Frames : Reads(p, f) /\ f.key = key[p]
  BY DEF RecvDescription
<1>2. f \in From(Other(p)) /\ ClientStreams'
  BY <1>1, ReadsStream DEF RecvDescription
<1>3. key[p] = pass[p] /\ pass[p] \in Passwords
  BY DEF RecvDescription, Keyed, Types
<1>4. pass[p] = pass[Other(p)]
  BY <1>1, <1>2, <1>3, HandshakeAssumption DEF From
<1>5. pass["A"] = pass["B"]
  BY <1>4 DEF Other, Peers
<1>6. Types' /\ Keyed'
  BY DEF RecvDescription, Types, Keyed, Labels, Peers, relayVars
<1>7. Agreed'
  BY <1>5 DEF RecvDescription, Types, Agreed, Authenticated, Peers
<1>8. ServerStreams'
  BY QuietStreams DEF RecvDescription
<1> QED BY <1>2, <1>6, <1>7, <1>8

(* A description that does not open ends the call, as a failed read does. *)
LEMMA QuitStep ==
  ASSUME IInv, NEW p \in Peers, ReadClosed(p) \/ RecvBadKey(p) \/ LocalError(p)
  PROVE  IInv'
<1> USE DEF IInv, Goto, Returns
<1>1. CASE ReadClosed(p)
  <2>1. Types' /\ Keyed' /\ Agreed'
    BY <1>1 DEF ReadClosed, Types, Keyed, Agreed, Authenticated, Labels, Results, relayVars
  <2> QED BY <1>1, <2>1, QuietStreams DEF ReadClosed
<1>2. CASE RecvBadKey(p)
  <2>1. Types' /\ Keyed' /\ Agreed'
    BY <1>2 DEF RecvBadKey, Closing, Types, Keyed, Agreed, Authenticated, Labels, Results, relayVars
  <2>2. ServerStreams'
    BY <1>2, SendsStream DEF RecvBadKey, Closing, Closes
  <2>3. ClientStreams'
    BY <1>2, ReadsStream DEF RecvBadKey
  <2> QED BY <2>1, <2>2, <2>3
<1>3. CASE LocalError(p)
  <2>1. Types' /\ Keyed' /\ Agreed'
    BY <1>3 DEF LocalError, Types, Keyed, Agreed, Authenticated, Labels, Results, relayVars
  <2> QED BY <1>3, <2>1, QuietStreams DEF LocalError
<1> QED BY <1>1, <1>2, <1>3

(* Waiting for the data channel. *)
LEMMA WaitStep ==
  ASSUME IInv, NEW p \in Peers,
         \/ RecvCandidate(p) \/ RemoteCandidatesEnd(p) \/ Open(p)
         \/ WaitSucceeds(p) \/ WaitFails(p, "ErrTimedOut") \/ WaitFails(p, "failed")
  PROVE  IInv'
<1> USE DEF IInv, Goto, Returns
<1>1. CASE RecvCandidate(p)
  <2>1. Types' /\ Keyed' /\ Agreed'
    BY <1>1 DEF RecvCandidate, clientVars, Types, Keyed, Agreed, Authenticated, relayVars
  <2> QED BY <1>1, <2>1, ReadsStream, QuietStreams DEF RecvCandidate
<1>2. CASE RemoteCandidatesEnd(p)
  <2>1. Types' /\ Keyed' /\ Agreed'
    BY <1>2 DEF RemoteCandidatesEnd, Types, Keyed, Agreed, Authenticated, relayVars
  <2> QED BY <1>2, <2>1, QuietStreams DEF RemoteCandidatesEnd
<1>3. CASE Open(p)
  <2>1. Types' /\ Keyed'
    BY <1>3 DEF Open, Types, Keyed, relayVars
  <2>2. Agreed'
    BY <1>3 DEF Open, Agreed, Authenticated, Peers
  <2> QED BY <1>3, <2>1, <2>2, QuietStreams DEF Open
<1>4. ASSUME NEW code \in Closes, NEW r \in Results, pc[p] = "waitOpen",
             CloseUnlessClosed(p, code), Returns(p, r),
             UNCHANGED <<pass, key, local, remote, gathered, opened, exited, toClient, relayVars>>
      PROVE  IInv'
  <2>1. closed' \subseteq Peers
    BY <1>4 DEF CloseUnlessClosed, Closing, Types
  <2>2. Types' /\ Keyed' /\ Agreed'
    BY <1>4, <2>1 DEF Types, Keyed, Agreed, Authenticated, Labels, relayVars
  <2>3. ServerStreams'
    BY <1>4, SendsStream, QuietStreams DEF CloseUnlessClosed, Closing
  <2> QED BY <1>4, <2>2, <2>3, QuietStreams
<1>5. CASE WaitSucceeds(p)
  BY <1>4, <1>5 DEF WaitSucceeds, Closes, Results
<1>6. CASE WaitFails(p, "ErrTimedOut") \/ WaitFails(p, "failed")
  BY <1>4, <1>6 DEF WaitFails, Closes, Results
<1> QED BY <1>1, <1>2, <1>3, <1>5, <1>6

(* The end of a process loses what it sent, or not. *)
LEMMA ExitStep ==
  ASSUME IInv, NEW p \in Peers, Exit(p)
  PROVE  IInv'
<1> USE DEF IInv
<1>1. Types' /\ Keyed' /\ Agreed'
  BY DEF Exit, Types, Keyed, Agreed, Authenticated, Labels, Results, Closes, relayVars
<1>2. PICK sent \in {toServer[p], <<>>} :
        toServer' = [toServer EXCEPT ![p] = Append(sent, Frame("dropped", None))]
  BY DEF Exit
<1>3. Frame("dropped", None) \in From(p) /\ From(p) \subseteq Frames
  BY FromFrames DEF Frame, From, Closes
<1>4. toServer[p] \in Seq(Frames) /\ toServer[p] \in Seq(From(p))
  BY DEF ServerStreams
<1>5. sent \in Seq(Frames) /\ sent \in Seq(From(p))
  BY <1>2, <1>4, SeqFacts
<1>6. Append(sent, Frame("dropped", None)) \in Seq(Frames)
  BY <1>3, <1>5, SeqFacts
<1>7. Append(sent, Frame("dropped", None)) \in Seq(From(p))
  BY <1>3, <1>5, SeqFacts
<1>8. \A q \in Peers : From(q)' = From(q)
  BY DEF From, Exit
<1>9. ServerStreams'
  BY <1>2, <1>6, <1>7, <1>8 DEF ServerStreams
<1> QED BY <1>1, <1>9, QuietStreams DEF Exit

-----------------------------------------------------------------------------
(* The steps of a read loop. *)

(* A frame that is forwarded is one of the other client's. *)
LEMMA ForwardStep ==
  ASSUME IInv, NEW p \in Peers, Forward(p)
  PROVE  IInv'
<1> USE DEF IInv
<1> DEFINE q == Other(p)
<1>1. q \in Peers /\ Other(q) = p
  BY DEF Other, Peers
<1>2. Types' /\ Keyed' /\ Agreed'
  BY DEF Forward, clientVars, Types, Keyed, Agreed, Authenticated
<1>3. toServer[p] \in Seq(Frames) /\ toServer[p] \in Seq(From(p)) /\ toServer[p] # <<>>
  BY DEF ServerStreams, Forward
<1>4. Head(toServer[p]) \in Frames /\ Tail(toServer[p]) \in Seq(Frames)
  BY <1>3, SeqFacts
<1>5. Head(toServer[p]) \in From(p) /\ Tail(toServer[p]) \in Seq(From(p))
  BY <1>3, SeqFacts
<1>6. \A x \in Peers : From(x)' = From(x)
  BY DEF From, Forward
<1>7. ServerStreams'
  BY <1>4, <1>5, <1>6 DEF ServerStreams, Forward
<1>8. toClient[q] \in Seq(Frames) /\ toClient[q] \in Seq(From(p))
  BY <1>1 DEF ClientStreams
<1>9. Append(toClient[q], Head(toServer[p])) \in Seq(Frames)
  BY <1>4, <1>8, SeqFacts
<1>10. Append(toClient[q], Head(toServer[p])) \in Seq(From(p))
  BY <1>5, <1>8, SeqFacts
<1>11. \A x \in Peers : From(Other(x))' = From(Other(x))
  BY DEF From, Forward
<1>12. ClientStreams'
  BY <1>1, <1>9, <1>10, <1>11 DEF ClientStreams, Forward
<1> QED BY <1>2, <1>7, <1>12

(* What a read loop does when its read fails seals nothing. *)
LEMMA ReadEndStep ==
  ASSUME IInv, NEW p \in Peers, ReadClose(p) \/ ReadFails(p)
  PROVE  IInv'
<1> USE DEF IInv
<1>1. UNCHANGED <<pass, clientVars, toServer>> /\ handler' = [handler EXCEPT ![p] = "done"]
  BY DEF ReadClose, ReadFails
<1>2. PICK code \in [Peers -> Closes \cup {None}] : CloseServer(code)
  <2>1. CASE ReadClose(p)
    <3>1. Head(toServer[p]).type \in Closes /\ Passed(Head(toServer[p]).type) \in Closes \cup {None}
      BY <2>1 DEF ReadClose, Passed, Closes
    <3> QED BY <2>1, <3>1 DEF ReadClose
  <2>2. CASE ReadFails(p)
    BY <2>2 DEF ReadFails, Closes
  <2> QED BY <2>1, <2>2
<1>3. ClientStreams' /\ server' \in [Peers -> {"open", "closed"}]
  BY <1>1, <1>2, CloseStream
<1>4. Types' /\ Keyed' /\ Agreed'
  BY <1>1, <1>3 DEF clientVars, Types, Keyed, Agreed, Authenticated
<1> QED BY <1>1, <1>3, <1>4, QuietStreams

-----------------------------------------------------------------------------
(* The theorems. *)

(* The inductive invariant holds in every reachable state. *)
THEOREM Invariance == Spec => []IInv
<1>1. Init => IInv
  <2> SUFFICES ASSUME Init PROVE IInv
    OBVIOUS
  <2>1. Types /\ Keyed /\ Agreed
    BY HandshakeAssumption DEF Init, Paired, Types, Keyed, Agreed, Authenticated, Labels, Results, Peers
  <2>2. ServerStreams /\ ClientStreams
    BY SeqFacts DEF Init, Paired, ServerStreams, ClientStreams
  <2> QED BY <2>1, <2>2 DEF IInv
<1>2. IInv /\ [Next]_vars => IInv'
  <2> SUFFICES ASSUME IInv, [Next]_vars PROVE IInv'
    OBVIOUS
  <2>1. ASSUME NEW p \in Peers,
               \/ Step(p) \/ Timer(p) \/ WaitFails(p, "failed") \/ SendCandidate(p) \/ Open(p)
               \/ LocalError(p) \/ Exit(p) \/ Relay(p) \/ ReadFails(p)
        PROVE  IInv'
    BY <2>1, PakeStep, DescribeStep, DescriptionStep, QuitStep, WaitStep, ExitStep,
       ForwardStep, ReadEndStep DEF Step, Timer, Relay
  <2>2. CASE UNCHANGED vars
    <3>1. Types' /\ Keyed' /\ Agreed'
      BY <2>2 DEF vars, clientVars, relayVars, IInv, Types, Keyed, Agreed, Authenticated
    <3> QED BY <2>2, <3>1, QuietStreams DEF vars, IInv
  <2> QED BY <2>1, <2>2 DEF Next
<1> QED BY <1>1, <1>2, PTL DEF Spec

(* Every variable keeps its type. *)
THEOREM TypeCorrect == Spec => []TypeOK
<1>1. IInv => TypeOK
  BY DEF IInv, TypeOK, Types, ServerStreams, ClientStreams
<1> QED BY <1>1, Invariance, PTL

(* Peers with different passwords never accept each other's description, and
   no data channel opens between them. *)
THEOREM OnlyEqualPasswords == Spec => []Authenticated
<1>1. IInv => Authenticated
  BY DEF IInv, Agreed
<1> QED BY <1>1, Invariance, PTL

-----------------------------------------------------------------------------
(* The order of the frames from one client to the other. *)

(* The labels of each side. *)
SideLabels(p) ==
  {"sendPake", "recvPake", "setLocal", "waitOpen", "returned"} \cup
    IF p = "A" THEN {"recvOffer", "sendAnswer"} ELSE {"sendOffer", "recvAnswer"}

(* What peer p sends after n other messages. *)
Sort(p, n) ==
  IF n = 0 THEN "pake" ELSE IF n > 1 THEN "candidate" ELSE IF p = "B" THEN "offer" ELSE "answer"

(* Messages that p has sent and has read, candidates not counted. *)
Sent(p) ==
  IF pc[p] = "sendPake" \/ (pc[p] = "recvPake" /\ p = "B") THEN 0
  ELSE IF pc[p] \in {"recvPake", "recvOffer", "sendAnswer", "sendOffer"} THEN 1 ELSE 2

Received(p) ==
  IF pc[p] = "recvPake" \/ (pc[p] = "sendPake" /\ p = "A") THEN 0
  ELSE IF pc[p] = "waitOpen" \/ (p = "A" /\ pc[p] # "recvOffer") THEN 2 ELSE 1

Capped(n) == IF n > 2 THEN 2 ELSE n

(* The frames of s, the first of which has n messages before it, come in the
   order in which p sends them. *)
InOrder(p, s, n) == \A j \in 1 .. Len(s) : s[j].type \in Closes \cup {Sort(p, n + j - 1)}

(* A client does not go on after it closed, and gathers candidates only once
   its description is sent. *)
Ends(p) ==
  /\ pc[p] \in SideLabels(p)
  /\ p \in closed => pc[p] \in {"waitOpen", "returned"}
  /\ p \in local => pc[p] \in {"recvAnswer", "waitOpen", "returned"}

(* What is on its way to p follows what p has read; and what its partner is
   about to send follows that, as long as anybody passes it on. *)
Ordered(p) ==
  LET q == Other(p)
      before == Received(p) + Len(toClient[p]) IN
  pc[p] # "returned" =>
    /\ InOrder(q, toClient[p], Received(p))
    /\ server[p] = "open" /\ handler[q] = "run" =>
         /\ InOrder(q, toServer[q], before)
         /\ q \notin closed /\ (pc[q] # "returned" \/ q \in local) =>
              Capped(before + Len(toServer[q])) = Sent(q)

Ordering == \A p \in Peers : Ends(p) /\ Ordered(p)

(* A stream in order stays so when its first frame, which is the one that
   comes next, is taken; ... *)
LEMMA OrderTail ==
  ASSUME NEW p \in Peers, NEW s \in Seq(Frames), NEW n \in Nat, InOrder(p, s, n), s # <<>>
  PROVE  /\ Head(s).type \in Closes \cup {Sort(p, n)}
         /\ InOrder(p, Tail(s), n + 1) /\ Len(Tail(s)) = Len(s) - 1
<1>1. Len(s) \in Nat /\ Len(s) >= 1 /\ Head(s) = s[1] /\ Len(Tail(s)) = Len(s) - 1
  OBVIOUS
<1>2. Head(s).type \in Closes \cup {Sort(p, n + 1 - 1)} /\ n + 1 - 1 = n
  BY <1>1 DEF InOrder
<1>3. ASSUME NEW j \in 1 .. Len(Tail(s))
      PROVE  Tail(s)[j].type \in Closes \cup {Sort(p, (n + 1) + j - 1)}
  <2>1. j + 1 \in 1 .. Len(s) /\ Tail(s)[j] = s[j + 1] /\ n + (j + 1) - 1 = (n + 1) + j - 1
    BY <1>1
  <2> QED BY <2>1 DEF InOrder
<1> QED BY <1>1, <1>2, <1>3 DEF InOrder

(* ... it stays so when what comes next, or a close, is added ... *)
LEMMA OrderAppend ==
  ASSUME NEW p \in Peers, NEW s \in Seq(Frames), NEW n \in Nat, InOrder(p, s, n),
         NEW f \in Frames, f.type \in Closes \cup {Sort(p, n + Len(s))}
  PROVE  InOrder(p, Append(s, f), n) /\ Len(Append(s, f)) = Len(s) + 1
<1>1. Len(s) \in Nat /\ Len(Append(s, f)) = Len(s) + 1
  OBVIOUS
<1>2. ASSUME NEW j \in 1 .. Len(Append(s, f))
      PROVE  Append(s, f)[j].type \in Closes \cup {Sort(p, n + j - 1)}
  <2>1. CASE j = Len(s) + 1
    <3>1. n + j - 1 = n + Len(s) /\ Append(s, f)[j] = f
      BY <1>1, <2>1
    <3> QED BY <3>1
  <2>2. CASE j # Len(s) + 1
    <3>1. j \in 1 .. Len(s) /\ Append(s, f)[j] = s[j]
      BY <1>1, <2>2
    <3> QED BY <3>1 DEF InOrder
  <2> QED BY <2>1, <2>2
<1> QED BY <1>1, <1>2 DEF InOrder

(* ... and when it moves among the candidates. *)
LEMMA OrderMoves ==
  ASSUME NEW p \in Peers, NEW s \in Seq(Frames), NEW n \in Nat, NEW m \in Nat,
         n >= 2, m >= 2, InOrder(p, s, n)
  PROVE  InOrder(p, s, m)
<1>1. ASSUME NEW j \in 1 .. Len(s)
      PROVE  s[j].type \in Closes \cup {Sort(p, m + j - 1)}
  <2>1. Sort(p, n + j - 1) = "candidate" /\ Sort(p, m + j - 1) = "candidate"
    BY DEF Sort
  <2> QED BY <2>1 DEF InOrder
<1> QED BY <1>1 DEF InOrder

(* What a peer has sent and read is at most its key exchange and description. *)
LEMMA Counts ==
  ASSUME NEW p \in Peers
  PROVE  Sent(p) \in 0 .. 2 /\ Received(p) \in 0 .. 2
BY DEF Sent, Received

(* A message that is read is counted by its reader. *)
LEMMA CappedMoves ==
  ASSUME NEW n \in 0 .. 2, NEW k \in Nat, NEW l \in Nat, k >= 1
  PROVE  Capped((IF n = 2 THEN 2 ELSE n + 1) + (k - 1) + l) = Capped(n + k + l)
BY DEF Capped

(* The streams of both peers are sequences of frames. *)
LEMMA Streams ==
  ASSUME IInv, NEW p \in Peers
  PROVE  /\ toServer[p] \in Seq(Frames) /\ toClient[p] \in Seq(Frames)
         /\ Len(toServer[p]) \in Nat /\ Len(toClient[p]) \in Nat
         /\ Other(p) \in Peers /\ Other(p) # p /\ Other(Other(p)) = p
<1>1. toServer[p] \in Seq(Frames) /\ toClient[p] \in Seq(Frames)
  BY DEF IInv, ServerStreams, ClientStreams
<1> QED BY <1>1 DEF Other, Peers

(* Nothing on the way to p changed, and p has read as much as before. *)
LEMMA ReaderWaits ==
  ASSUME NEW p \in Peers, Ordered(p),
         pc'[p] = "returned" \/ (pc[p] # "returned" /\ Received(p)' = Received(p)),
         UNCHANGED <<toClient[p], toServer[Other(p)], server, handler>>,
         pc'[Other(p)] = pc[Other(p)], Other(p) \in closed => Other(p) \in closed',
         Other(p) \in local' <=> Other(p) \in local
  PROVE  Ordered(p)'
<1>1. Sent(Other(p))' = Sent(Other(p))
  BY DEF Sent
<1>2. CASE pc'[p] = "returned"
  BY <1>2 DEF Ordered
<1>3. CASE pc[p] # "returned" /\ Received(p)' = Received(p)
  <2>1. InOrder(Other(p), toClient[p], Received(p))' = InOrder(Other(p), toClient[p], Received(p))
    BY <1>3 DEF InOrder, Sort
  <2>2. Ordered(p)' = Ordered(p)
    BY <1>1, <1>3 DEF Ordered, InOrder, Sort, Capped
  <2> QED BY <2>2
<1> QED BY <1>2, <1>3

(* p reads the first frame on its way, a message. *)
LEMMA ReaderReads ==
  ASSUME IInv, NEW p \in Peers, Ordered(p), NEW f, Reads(p, f),
         pc'[p] = "returned" \/ (pc[p] # "returned" /\ Received(p)' = Capped(Received(p) + 1)),
         UNCHANGED <<server, handler>>, toServer'[Other(p)] = toServer[Other(p)],
         pc'[Other(p)] = pc[Other(p)], UNCHANGED local,
         Other(p) \in closed => Other(p) \in closed'
  PROVE  Ordered(p)'
<1> DEFINE q == Other(p)
<1> SUFFICES ASSUME pc'[p] # "returned" PROVE Ordered(p)'
  BY DEF Ordered
<1>1. pc[p] # "returned" /\ Received(p)' = Capped(Received(p) + 1)
  OBVIOUS
<1>2. PICK n \in 0 .. 2 : n = Received(p)
  BY Counts
<1>3. PICK m \in 0 .. 2 : m = Received(p)' /\ m = IF n = 2 THEN 2 ELSE n + 1
  BY <1>1, <1>2 DEF Capped
<1>4. /\ toServer[q] \in Seq(Frames) /\ toClient[p] \in Seq(Frames)
      /\ Len(toServer[q]) \in Nat /\ Len(toClient[p]) \in Nat /\ q \in Peers
  BY Streams
<1>5. toClient[p] # <<>> /\ toClient'[p] = Tail(toClient[p]) /\ Tail(toClient[p]) \in Seq(Frames)
  BY <1>4, SeqFacts DEF Reads, IInv, ClientStreams
<1>6. InOrder(q, toClient[p], n)
  BY <1>1, <1>2 DEF Ordered
<1>7. InOrder(q, toClient'[p], n + 1) /\ Len(toClient'[p]) = Len(toClient[p]) - 1
  BY <1>4, <1>5, <1>6, OrderTail
<1>8. InOrder(q, toClient'[p], m)
  <2>1. m = n + 1 \/ (n + 1 >= 2 /\ m >= 2 /\ n + 1 \in Nat /\ m \in Nat)
    BY <1>3
  <2>2. toClient'[p] \in Seq(Frames)
    BY <1>5
  <2>3. CASE m = n + 1
    BY <1>7, <2>3
  <2>4. CASE n + 1 >= 2 /\ m >= 2 /\ n + 1 \in Nat /\ m \in Nat
    BY <1>4, <1>7, <2>2, <2>4, OrderMoves
  <2> QED BY <2>1, <2>3, <2>4
<1>9. ASSUME server[p] = "open", handler[q] = "run"
      PROVE  InOrder(q, toServer[q], m + Len(toClient'[p]))
  <2>1. InOrder(q, toServer[q], n + Len(toClient[p]))
    BY <1>1, <1>2, <1>9 DEF Ordered
  <2>2. Len(toClient[p]) >= 1
    BY <1>4, <1>5
  <2>3. CASE n = 2
    BY <1>3, <1>4, <1>7, <2>1, <2>2, <2>3, OrderMoves
  <2>4. CASE n # 2
    <3>1. PICK k \in Nat : k = Len(toClient[p])
      BY <1>4
    <3>2. m + (k - 1) = n + k
      BY <1>3, <2>4
    <3>3. m + Len(toClient'[p]) = n + Len(toClient[p])
      BY <1>7, <3>1, <3>2
    <3> QED BY <2>1, <3>3
  <2> QED BY <2>3, <2>4
<1>10. ASSUME server[p] = "open", handler[q] = "run",
              q \notin closed', pc'[q] # "returned" \/ q \in local'
       PROVE  Capped(m + Len(toClient'[p]) + Len(toServer[q])) = Sent(q)'
  <2>1. Capped(n + Len(toClient[p]) + Len(toServer[q])) = Sent(q)
    BY <1>1, <1>2, <1>10 DEF Ordered
  <2>2. Len(toClient[p]) >= 1
    BY <1>4, <1>5
  <2>3. Capped(m + Len(toClient'[p]) + Len(toServer[q])) = Capped(n + Len(toClient[p]) + Len(toServer[q]))
    <3>1. PICK k \in Nat, l \in Nat : k = Len(toClient[p]) /\ l = Len(toServer[q])
      BY <1>4
    <3>2. k - 1 = Len(toClient'[p]) /\ k >= 1 /\ m = (IF n = 2 THEN 2 ELSE n + 1)
      BY <1>3, <1>7, <2>2, <3>1
    <3>3. Capped(m + (k - 1) + l) = Capped(n + k + l)
      BY <1>2, <3>1, <3>2, CappedMoves
    <3> QED BY <3>1, <3>2, <3>3
  <2>4. Sent(q)' = Sent(q)
    BY DEF Sent
  <2> QED BY <2>1, <2>3, <2>4
<1>11. \A s, k : InOrder(q, s, k)' <=> InOrder(q, s', k')
  BY DEF InOrder, Sort
<1> QED BY <1>3, <1>8, <1>9, <1>10 DEF Ordered, InOrder, Sort

(* p sends nothing, and what it would send next is what it was before. *)
LEMMA SenderSilent ==
  ASSUME NEW p \in Peers, Ordered(Other(p)), Other(Other(p)) = p,
         UNCHANGED <<toClient[Other(p)], toServer[p], server, handler>>,
         pc'[Other(p)] = pc[Other(p)],
         p \notin closed' /\ (pc'[p] # "returned" \/ p \in local') =>
           p \notin closed /\ (pc[p] # "returned" \/ p \in local) /\ Sent(p)' = Sent(p)
  PROVE  Ordered(Other(p))'
<1>1. Received(Other(p))' = Received(Other(p))
  BY DEF Received
<1> QED BY <1>1 DEF Ordered, InOrder, Sort, Capped

(* p sends what is next, or closes. *)
LEMMA SenderSends ==
  ASSUME IInv, NEW p \in Peers, Ordered(Other(p)), NEW f \in Frames,
         toServer'[p] = Append(toServer[p], f),
         UNCHANGED <<toClient[Other(p)], server, handler>>, pc'[Other(p)] = pc[Other(p)],
         p \notin closed, pc[p] # "returned" \/ p \in local,
         f.type \in Closes \cup {Sort(p, Sent(p))},
         p \in closed' \/ Sent(p)' = Capped(Sent(p) + 1)
  PROVE  Ordered(Other(p))'
<1> DEFINE q == Other(p)
<1>1. /\ q \in Peers /\ Other(q) = p
      /\ toServer[p] \in Seq(Frames) /\ Len(toServer[p]) \in Nat /\ Len(toClient[q]) \in Nat
  BY Streams
<1>2. Received(q)' = Received(q) /\ Received(q) \in Nat /\ Sent(p) \in 0 .. 2
  <2>1. Received(q)' = Received(q)
    BY DEF Received
  <2> QED BY <1>1, <2>1, Counts
<1>3. PICK b \in Nat : b = Received(q) + Len(toClient[q])
  BY <1>1, <1>2
<1>4. PICK l \in Nat : l = Len(toServer[p])
  BY <1>1
<1> SUFFICES ASSUME pc[q] # "returned" PROVE Ordered(q)'
  BY DEF Ordered
<1>5. ASSUME server[q] = "open", handler[p] = "run"
      PROVE  /\ InOrder(p, toServer'[p], b)
             /\ p \notin closed' => Capped(b + Len(toServer'[p])) = Sent(p)'
  <2>1. InOrder(p, toServer[p], b) /\ Capped(b + l) = Sent(p)
    BY <1>1, <1>3, <1>4, <1>5 DEF Ordered
  <2>2. Sort(p, b + l) = Sort(p, Sent(p)) /\ Capped(Sent(p) + 1) = Capped(b + (l + 1))
    BY <2>1 DEF Sort, Capped
  <2>3. f.type \in Closes \cup {Sort(p, b + Len(toServer[p]))}
    BY <1>4, <2>2
  <2>4. InOrder(p, Append(toServer[p], f), b) /\ Len(Append(toServer[p], f)) = Len(toServer[p]) + 1
    <3> HIDE DEF q
    <3> QED BY <1>1, <1>3, <2>1, <2>3, OrderAppend
  <2> QED BY <1>4, <2>2, <2>4
<1> QED BY <1>1, <1>2, <1>3, <1>5 DEF Ordered, InOrder, Sort

(* What a client's labels have to do with its close and its candidates. *)
LEMMA EndsStep ==
  ASSUME NEW p \in Peers, pc'[p] \in SideLabels(p),
         p \in closed' => pc'[p] \in {"waitOpen", "returned"},
         p \in local' => pc'[p] \in {"recvAnswer", "waitOpen", "returned"}
  PROVE  Ends(p)'
BY DEF Ends, SideLabels

-----------------------------------------------------------------------------
(* Each step keeps the order. *)

(* A client that reads the next message, and goes on to what comes after it. *)
LEMMA ReadOrder ==
  ASSUME IInv, Ordering, NEW p \in Peers, NEW f, Reads(p, f),
         UNCHANGED <<local, closed, toServer, server, handler>>, Sent(p)' = Sent(p),
         pc[p] # "returned", p \notin closed \/ pc'[p] = pc[p], p \notin local \/ pc'[p] = "waitOpen",
         pc'[p] \in SideLabels(p) \ {"returned"}, \A x \in Peers \ {p} : pc'[x] = pc[x],
         Received(p)' = Capped(Received(p) + 1)
  PROVE  Ordering'
<1> DEFINE q == Other(p)
<1>1. q \in Peers /\ q # p /\ Other(q) = p /\ Peers = {p, q}
  BY Streams DEF Peers
<1>2. Ends(p) /\ Ends(q) /\ Ordered(p) /\ Ordered(q) /\ pc'[q] = pc[q]
  BY <1>1 DEF Ordering
<1>3. /\ toClient[p] # <<>> /\ toClient'[p] = Tail(toClient[p])
      /\ toClient'[q] = toClient[q]
  BY <1>1 DEF Reads, IInv, ClientStreams
<1>4. Ordered(p)'
  BY <1>1, <1>2, ReaderReads
<1>5. Ordered(q)'
  BY <1>1, <1>2, <1>3, SenderSilent
<1>6. Ends(p)'
  <2>1. p \in closed' => pc'[p] \in {"waitOpen", "returned"}
    BY <1>2 DEF Ends
  <2> QED BY <1>2, <1>3, <2>1, EndsStep
<1>7. Ends(q)'
  BY <1>1, <1>2, <1>3, EndsStep DEF Ends
<1> QED BY <1>1, <1>4, <1>5, <1>6, <1>7 DEF Ordering

(* A client that sends its next message, or closes. *)
LEMMA SendOrder ==
  ASSUME IInv, Ordering, NEW p \in Peers, NEW type \in Data \cup Closes,
         NEW k \in Passwords \cup {None}, Sends(p, type, k),
         UNCHANGED <<local, server, handler>>,
         \/ toClient' = toClient
         \/ pc'[p] = "returned" /\ toClient[p] # <<>>
            /\ toClient' = [toClient EXCEPT ![p] = Tail(@)],
         pc[p] # "returned" \/ p \in local, p \notin closed,
         \/ type \in Closes /\ closed' = closed \cup {p} /\ pc'[p] = "returned"
         \/ /\ closed' = closed /\ Received(p)' = Received(p)
            /\ type = Sort(p, Sent(p)) /\ Sent(p)' = Capped(Sent(p) + 1)
            /\ pc[p] # "returned" \/ pc'[p] = "returned"
            /\ p \in local => pc'[p] = pc[p],
         pc'[p] \in SideLabels(p), \A x \in Peers \ {p} : pc'[x] = pc[x]
  PROVE  Ordering'
<1> DEFINE q == Other(p)
           f == Frame(type, k)
<1>1. q \in Peers /\ q # p /\ Other(q) = p /\ Peers = {p, q}
  BY Streams DEF Peers
<1>2. Ends(p) /\ Ends(q) /\ Ordered(p) /\ Ordered(q) /\ pc'[q] = pc[q]
  BY <1>1 DEF Ordering
<1>3. f \in Frames /\ f.type = type
  BY DEF Frame, Frames
<1>4. toServer'[p] = Append(toServer[p], f) /\ toServer'[q] = toServer[q]
  BY <1>1 DEF Sends, IInv, ServerStreams
<1>5. /\ toClient'[q] = toClient[q]
      /\ toClient'[p] = toClient[p] \/ (toClient[p] # <<>> /\ toClient'[p] = Tail(toClient[p]))
  BY <1>1 DEF IInv, ClientStreams
<1>6. Ordered(q)'
  <2> HIDE DEF f
  <2> QED BY <1>1, <1>2, <1>3, <1>4, <1>5, SenderSends
<1>7. Ordered(p)'
  <2>1. CASE pc'[p] = "returned"
    BY <2>1 DEF Ordered
  <2>2. CASE pc'[p] # "returned"
    BY <1>1, <1>2, <1>4, <2>2, ReaderWaits
  <2> QED BY <2>1, <2>2
<1>8. Ends(p)'
  <2>2. p \in closed' => pc'[p] \in {"waitOpen", "returned"}
    OBVIOUS
  <2>3. p \in local' => pc'[p] \in {"recvAnswer", "waitOpen", "returned"}
    BY <1>2 DEF Ends
  <2> HIDE DEF f
  <2> QED BY <2>2, <2>3, EndsStep
<1>9. Ends(q)'
  <2>1. q \in closed' <=> q \in closed
    BY <1>1
  <2> QED BY <1>1, <1>2, <1>4, <1>5, <2>1, EndsStep DEF Ends
<1> QED BY <1>1, <1>6, <1>7, <1>8, <1>9 DEF Ordering

(* A client that neither sends nor takes a message; when it does go on after
   it closed, it was waiting. *)
LEMMA QuietOrder ==
  ASSUME IInv, Ordering, NEW p \in Peers,
         UNCHANGED <<toServer, toClient, server, handler>>,
         \A x \in Peers \ {p} : pc'[x] = pc[x] /\ (x \in local' <=> x \in local) /\ (x \in closed' <=> x \in closed),
         pc'[p] \in SideLabels(p), p \in closed => p \in closed', p \in local => p \in local',
         p \in closed' => pc'[p] \in {"waitOpen", "returned"},
         p \in local' => pc'[p] \in {"recvAnswer", "waitOpen", "returned"},
         pc'[p] = "returned" \/ (pc[p] # "returned" /\ Received(p)' = Received(p)),
         p \notin closed' /\ (pc'[p] # "returned" \/ p \in local') =>
           (pc[p] # "returned" \/ p \in local) /\ Sent(p)' = Sent(p)
  PROVE  Ordering'
<1> DEFINE q == Other(p)
<1>1. q \in Peers /\ q # p /\ Other(q) = p /\ Peers = {p, q}
  BY Streams DEF Peers
<1>2. Ends(p) /\ Ends(q) /\ Ordered(p) /\ Ordered(q)
  BY <1>1 DEF Ordering
<1>3. pc'[q] = pc[q] /\ (q \in local' <=> q \in local) /\ (q \in closed' <=> q \in closed)
  BY <1>1
<1>4. Ordered(p)'
  BY <1>1, <1>2, <1>3, ReaderWaits
<1>5. Ordered(q)'
  BY <1>1, <1>2, <1>3, SenderSilent
<1>6. Ends(p)'
  BY <1>1, <1>2, EndsStep
<1>7. Ends(q)'
  BY <1>1, <1>2, <1>3, EndsStep DEF Ends
<1> QED BY <1>1, <1>4, <1>5, <1>6, <1>7 DEF Ordering

(* The key exchange: side A speaks first. *)
LEMMA PakeOrder ==
  ASSUME IInv, Ordering, NEW p \in Peers, SendPake(p) \/ RecvPake(p)
  PROVE  Ordering'
<1> USE DEF Goto
<1>1. Ends(p) /\ pc \in [Peers -> Labels]
  BY DEF Ordering, IInv, Types
<1>2. CASE SendPake(p)
  <2>1. /\ pc[p] = "sendPake" /\ p \notin closed /\ p \notin local
        /\ pc'[p] = IF p = "A" THEN "recvPake" ELSE "sendOffer"
    BY <1>1, <1>2 DEF SendPake, Ends
  <2>2. Sent(p) = 0 /\ Sent(p)' = Capped(Sent(p) + 1) /\ Received(p)' = Received(p)
    BY <2>1 DEF Sent, Received, Capped
  <2>3. "pake" = Sort(p, Sent(p)) /\ pc'[p] \in SideLabels(p)
    BY <2>1, <2>2 DEF Sort, SideLabels
  <2>4. \A x \in Peers \ {p} : pc'[x] = pc[x]
    BY <1>1, <1>2 DEF SendPake
  <2> QED BY <1>2, <2>1, <2>2, <2>3, <2>4, SendOrder DEF SendPake, Data, relayVars
<1>3. CASE RecvPake(p)
  <2>1. PICK f \in Frames : Reads(p, f)
    BY <1>3 DEF RecvPake
  <2>2. /\ pc[p] = "recvPake" /\ p \notin closed /\ p \notin local
        /\ pc'[p] = IF p = "A" THEN "recvOffer" ELSE "sendPake"
    BY <1>1, <1>3 DEF RecvPake, Ends
  <2>3. /\ Sent(p)' = Sent(p) /\ Received(p)' = Capped(Received(p) + 1)
        /\ pc'[p] \in SideLabels(p) \ {"returned"}
    BY <2>2, <1>1 DEF Sent, Received, Capped, SideLabels, Peers
  <2>4. \A x \in Peers \ {p} : pc'[x] = pc[x]
    BY <1>1, <1>3 DEF RecvPake
  <2> QED BY <1>3, <2>1, <2>2, <2>3, <2>4, ReadOrder DEF RecvPake, relayVars
<1> QED BY <1>2, <1>3

(* The description goes out before the candidates are gathered. *)
LEMMA DescribeOrder ==
  ASSUME IInv, Ordering, NEW p \in Peers, Describe(p) \/ SendCandidate(p)
  PROVE  Ordering'
<1> USE DEF Goto
<1>1. Ends(p) /\ pc \in [Peers -> Labels] /\ key[p] \in Passwords \cup {None}
  BY DEF Ordering, IInv, Types
<1>2. CASE Describe(p) /\ pc[p] # "setLocal"
  <2>1. /\ pc[p] \in {"sendOffer", "sendAnswer"} /\ p \notin closed /\ p \notin local
        /\ pc'[p] = "setLocal" /\ (pc[p] = "sendOffer" <=> p = "B")
        /\ Sends(p, IF p = "B" THEN "offer" ELSE "answer", key[p])
    BY <1>1, <1>2 DEF Describe, Ends, SideLabels, Peers
  <2>2. /\ Sent(p) = 1 /\ Sent(p)' = Capped(Sent(p) + 1) /\ Received(p)' = Received(p)
        /\ pc'[p] \in SideLabels(p)
    BY <2>1 DEF Sent, Received, Capped, SideLabels
  <2>3. (IF p = "B" THEN "offer" ELSE "answer") = Sort(p, Sent(p))
    BY <2>2 DEF Sort
  <2>4. (IF p = "B" THEN "offer" ELSE "answer") \in Data
    BY DEF Data
  <2>5. \A x \in Peers \ {p} : pc'[x] = pc[x]
    BY <1>1, <1>2 DEF Describe
  <2> QED BY <1>1, <1>2, <2>1, <2>2, <2>3, <2>4, <2>5, SendOrder DEF Describe, relayVars
<1>3. CASE Describe(p) /\ pc[p] = "setLocal"
  <2>1. /\ p \notin closed /\ pc'[p] = IF p = "B" THEN "recvAnswer" ELSE "waitOpen"
        /\ local' = local \cup {p}
    BY <1>1, <1>3 DEF Describe, Ends
  <2>2. Sent(p)' = Sent(p) /\ Received(p)' = Received(p) /\ pc'[p] \in SideLabels(p)
    BY <1>3, <2>1 DEF Sent, Received, SideLabels, Peers
  <2>3. \A x \in Peers \ {p} : pc'[x] = pc[x]
    BY <1>1, <1>3 DEF Describe
  <2> QED BY <1>3, <2>1, <2>2, <2>3, QuietOrder DEF Describe, relayVars
<1>4. CASE SendCandidate(p)
  <2>1. pc[p] \in {"recvAnswer", "waitOpen", "returned"} /\ p \in local /\ UNCHANGED <<pc, closed, local>>
    BY <1>1, <1>4 DEF SendCandidate, Ends
  <2>2. Sent(p) = 2 /\ Sent(p)' = 2 /\ Received(p)' = Received(p) /\ pc'[p] \in SideLabels(p)
    BY <1>1, <2>1 DEF Sent, Received, Ends
  <2>3. CASE p \in closed
    <3>1. UNCHANGED <<toServer, toClient, server, handler>>
      BY <1>4, <2>3 DEF SendCandidate, relayVars
    <3>2. pc[p] \in {"waitOpen", "returned"}
      BY <1>1, <2>3 DEF Ends
    <3> QED BY <2>1, <2>2, <2>3, <3>1, <3>2, QuietOrder
  <2>4. CASE p \notin closed
    <3>1. "candidate" = Sort(p, Sent(p)) /\ Sent(p)' = Capped(Sent(p) + 1) /\ "candidate" \in Data
      BY <2>2 DEF Sort, Capped, Data
    <3>2. Sends(p, "candidate", key[p]) /\ UNCHANGED <<local, server, handler, toClient, closed, pc>>
      BY <1>4, <2>4 DEF SendCandidate, relayVars
    <3> QED BY <1>1, <2>1, <2>2, <2>4, <3>1, <3>2, SendOrder
  <2> QED BY <2>3, <2>4
<1> QED BY <1>2, <1>3, <1>4

(* A description that was read. *)
LEMMA DescriptionOrder ==
  ASSUME IInv, Ordering, NEW p \in Peers, RecvDescription(p)
  PROVE  Ordering'
<1> USE DEF Goto
<1>1. Ends(p) /\ pc \in [Peers -> Labels]
  BY DEF Ordering, IInv, Types
<1>2. PICK f \in Frames : Reads(p, f)
  BY DEF RecvDescription
<1>3. /\ pc[p] \in {"recvOffer", "recvAnswer"} /\ p \notin closed /\ (pc[p] = "recvOffer" <=> p = "A")
      /\ pc'[p] = IF p = "A" THEN "sendAnswer" ELSE "waitOpen"
      /\ p \in local => pc'[p] = "waitOpen"
  BY <1>1 DEF RecvDescription, Ends, SideLabels, Peers
<1>4. /\ Sent(p)' = Sent(p) /\ Received(p)' = Capped(Received(p) + 1)
      /\ pc'[p] \in SideLabels(p) \ {"returned"}
  BY <1>3 DEF Sent, Received, Capped, SideLabels, Peers
<1>5. \A x \in Peers \ {p} : pc'[x] = pc[x]
  BY <1>1 DEF RecvDescription
<1> QED BY <1>2, <1>3, <1>4, <1>5, ReadOrder DEF RecvDescription, relayVars

(* The ends of a call that come before the data channel is waited for. *)
LEMMA QuitOrder ==
  ASSUME IInv, Ordering, NEW p \in Peers, ReadClosed(p) \/ RecvBadKey(p) \/ LocalError(p)
  PROVE  Ordering'
<1> USE DEF Goto, Returns
<1>1. Ends(p) /\ pc \in [Peers -> Labels]
  BY DEF Ordering, IInv, Types
<1>2. pc' = [pc EXCEPT ![p] = "returned"] /\ UNCHANGED <<local, server, handler>>
  BY DEF ReadClosed, RecvBadKey, LocalError, relayVars
<1>3. /\ pc'[p] = "returned" /\ pc'[p] \in SideLabels(p) /\ pc[p] # "returned"
      /\ \A x \in Peers \ {p} : pc'[x] = pc[x]
  BY <1>1, <1>2 DEF SideLabels, ReadClosed, RecvBadKey, LocalError, Reading
<1>4. CASE ReadClosed(p)
  <2>1. UNCHANGED <<toServer, toClient>> /\ closed' = closed \cup {p}
    BY <1>4 DEF ReadClosed
  <2> QED BY <1>2, <1>3, <2>1, QuietOrder
<1>5. CASE RecvBadKey(p)
  <2>1. p \notin closed /\ closed' = closed \cup {p} /\ Sends(p, "BadKey", None)
    BY <1>1, <1>5 DEF RecvBadKey, Ends, Closing
  <2>2. toClient[p] # <<>> /\ toClient' = [toClient EXCEPT ![p] = Tail(@)]
    BY <1>5 DEF RecvBadKey, Reads
  <2> QED BY <1>2, <1>3, <2>1, <2>2, SendOrder DEF Closes
<1>6. CASE LocalError(p)
  <2>1. UNCHANGED <<toServer, toClient, closed>>
    BY <1>6 DEF LocalError
  <2>2. p \in local => Sent(p) = 2
    BY <1>1, <1>6 DEF LocalError, Ends, Sent
  <2>3. Sent(p)' = 2
    BY <1>3 DEF Sent
  <2>4. p \notin closed
    BY <1>1, <1>6 DEF LocalError, Ends
  <2> QED BY <1>2, <1>3, <2>1, <2>2, <2>3, <2>4, QuietOrder
<1> QED BY <1>4, <1>5, <1>6

(* Waiting for the data channel. *)
LEMMA WaitOrder ==
  ASSUME IInv, Ordering, NEW p \in Peers,
         \/ RecvCandidate(p) \/ RemoteCandidatesEnd(p) \/ Open(p)
         \/ WaitSucceeds(p) \/ WaitFails(p, "ErrTimedOut") \/ WaitFails(p, "failed")
  PROVE  Ordering'
<1> USE DEF Goto, Returns
<1>1. Ends(p) /\ pc \in [Peers -> Labels]
  BY DEF Ordering, IInv, Types
<1>2. pc[p] = "waitOpen" => Sent(p) = 2 /\ Received(p) = 2
  BY DEF Sent, Received
<1>3. CASE RecvCandidate(p)
  <2>1. PICK f \in Frames : Reads(p, f)
    BY <1>3 DEF RecvCandidate
  <2>2. /\ pc[p] = "waitOpen" /\ UNCHANGED <<pc, local, closed, toServer, server, handler>>
    BY <1>3 DEF RecvCandidate, clientVars, relayVars
  <2>3. /\ Sent(p)' = Sent(p) /\ Received(p)' = Capped(Received(p) + 1)
        /\ pc'[p] \in SideLabels(p) \ {"returned"}
    BY <1>1, <1>2, <2>2 DEF Sent, Received, Capped, Ends
  <2> QED BY <2>1, <2>2, <2>3, ReadOrder
<1>4. CASE RemoteCandidatesEnd(p) \/ Open(p)
  <2>1. /\ UNCHANGED <<pc, local, toServer, toClient, server, handler>>
        /\ closed' = closed \/ (pc[p] = "waitOpen" /\ closed' = closed \cup {p})
    BY <1>4 DEF RemoteCandidatesEnd, Open, relayVars
  <2>2. Sent(p)' = Sent(p) /\ Received(p)' = Received(p) /\ pc'[p] \in SideLabels(p)
    BY <1>1, <2>1 DEF Sent, Received, Ends
  <2>3. /\ p \in closed' => pc'[p] \in {"waitOpen", "returned"}
        /\ p \in local' => pc'[p] \in {"recvAnswer", "waitOpen", "returned"}
    BY <1>1, <2>1 DEF Ends
  <2> QED BY <2>1, <2>2, <2>3, QuietOrder
<1>5. ASSUME NEW code \in Closes, pc[p] = "waitOpen", CloseUnlessClosed(p, code),
             pc' = [pc EXCEPT ![p] = "returned"], UNCHANGED <<local, toClient, server, handler>>
      PROVE  Ordering'
  <2>1. /\ pc'[p] = "returned" /\ pc'[p] \in SideLabels(p)
        /\ \A x \in Peers \ {p} : pc'[x] = pc[x]
    BY <1>1, <1>5 DEF SideLabels
  <2>2. CASE p \in closed
    <3>1. UNCHANGED <<closed, toServer>>
      BY <1>5, <2>2 DEF CloseUnlessClosed
    <3> QED BY <1>5, <2>1, <2>2, <3>1, QuietOrder
  <2>3. CASE p \notin closed
    <3>1. closed' = closed \cup {p} /\ Sends(p, code, None)
      BY <1>5, <2>3 DEF CloseUnlessClosed, Closing
    <3> QED BY <1>5, <2>1, <2>3, <3>1, SendOrder
  <2> QED BY <2>2, <2>3
<1>6. CASE WaitSucceeds(p)
  BY <1>5, <1>6 DEF WaitSucceeds, Closes, relayVars
<1>7. CASE WaitFails(p, "ErrTimedOut") \/ WaitFails(p, "failed")
  BY <1>5, <1>7 DEF WaitFails, Closes, relayVars
<1> QED BY <1>3, <1>4, <1>6, <1>7

(* The end of a process: what it leaves behind is in order, if short. *)
LEMMA ExitOrder ==
  ASSUME IInv, Ordering, NEW p \in Peers, Exit(p)
  PROVE  Ordering'
<1> DEFINE q == Other(p)
           f == Frame("dropped", None)
<1>1. /\ q \in Peers /\ q # p /\ Other(q) = p /\ Peers = {p, q}
      /\ toServer[p] \in Seq(Frames) /\ Len(toServer[p]) \in Nat /\ Len(toClient[q]) \in Nat
  BY Streams DEF Peers
<1>2. Ends(p) /\ Ends(q) /\ Ordered(p) /\ Ordered(q)
  BY <1>1 DEF Ordering
<1>3. /\ pc' = [pc EXCEPT ![p] = "returned"] /\ closed' = closed \cup {p}
      /\ UNCHANGED <<local, toClient, server, handler>>
  BY DEF Exit, relayVars
<1>4. pc'[p] = "returned" /\ pc'[q] = pc[q] /\ (q \in closed' <=> q \in closed) /\ p \in closed'
  BY <1>1, <1>3 DEF IInv, Types
<1>5. PICK sent \in {toServer[p], <<>>} :
        toServer' = [toServer EXCEPT ![p] = Append(sent, f)]
  BY DEF Exit
<1>6. toServer'[p] = Append(sent, f) /\ toServer'[q] = toServer[q] /\ sent \in Seq(Frames)
  <2>1. toServer'[p] = Append(sent, f) /\ toServer'[q] = toServer[q]
    BY <1>1, <1>5 DEF IInv, ServerStreams
  <2>2. sent \in Seq(Frames)
    BY <1>1, <1>5, SeqFacts
  <2> QED BY <2>1, <2>2
<1>7. f \in Frames /\ f.type \in Closes
  BY DEF Frame, Frames, Closes
<1>8. Received(q)' = Received(q) /\ Received(q) \in Nat
  <2>1. Received(q)' = Received(q)
    BY <1>4 DEF Received
  <2> QED BY <1>1, <2>1, Counts
<1>9. Ordered(q)'
  <2> SUFFICES ASSUME pc[q] # "returned" PROVE Ordered(q)'
    BY <1>4 DEF Ordered
  <2>1. PICK b \in Nat : b = Received(q) + Len(toClient[q])
    BY <1>1, <1>8
  <2>2. ASSUME server[q] = "open", handler[p] = "run"
        PROVE  InOrder(p, toServer'[p], b)
    <3>1. InOrder(p, toServer[p], b)
      BY <1>1, <1>2, <2>1, <2>2 DEF Ordered
    <3>2. InOrder(p, sent, b)
      BY <1>5, <3>1 DEF InOrder
    <3>3. f.type \in Closes \cup {Sort(p, b + Len(sent))}
      BY <1>7
    <3> HIDE DEF f
    <3> QED BY <1>6, <1>7, <2>1, <3>2, <3>3, OrderAppend
  <2> QED BY <1>1, <1>2, <1>3, <1>4, <1>8, <2>1, <2>2 DEF Ordered, InOrder, Sort
<1>10. Ordered(p)'
  BY <1>4 DEF Ordered
<1>11. Ends(p)'
  <2>1. pc'[p] \in SideLabels(p) /\ toClient'[p] = toClient[p] /\ server'[p] = server[p]
    BY <1>3, <1>4 DEF SideLabels
  <2> QED BY <1>2, <1>4, <2>1, EndsStep
<1>12. Ends(q)'
  BY <1>1, <1>2, <1>3, <1>4, <1>6, EndsStep DEF Ends
<1> QED BY <1>1, <1>9, <1>10, <1>11, <1>12 DEF Ordering

(* A frame leaves one count and joins another. *)
LEMMA SumMoves ==
  ASSUME NEW a \in Nat, NEW b \in Nat, NEW c \in Nat
  PROVE  a + (b + 1) + (c - 1) = a + b + c
OBVIOUS

(* A message that is passed on moves from one stream to the other. *)
LEMMA ForwardOrder ==
  ASSUME IInv, Ordering, NEW p \in Peers, Forward(p)
  PROVE  Ordering'
<1> DEFINE q == Other(p)
<1>1. /\ q \in Peers /\ q # p /\ Other(q) = p /\ Peers = {p, q}
      /\ toServer[p] \in Seq(Frames) /\ Len(toServer[p]) \in Nat
      /\ toClient[q] \in Seq(Frames) /\ Len(toClient[q]) \in Nat
  BY Streams DEF Peers
<1>2. Ends(p) /\ Ends(q) /\ Ordered(p) /\ Ordered(q)
  BY <1>1 DEF Ordering
<1>3. UNCHANGED <<pc, local, closed, server>>
  BY DEF Forward, clientVars
<1>4. /\ handler[p] = "run" /\ server[p] = "open" /\ toServer[p] # <<>>
      /\ Head(toServer[p]).type \in Data
      /\ toServer'[p] = Tail(toServer[p]) /\ toServer'[q] = toServer[q]
      /\ toClient'[p] = toClient[p] /\ handler'[q] = handler[q]
  BY <1>1 DEF Forward, IInv, Types, ServerStreams, ClientStreams
<1>5. Head(toServer[p]) \in Frames /\ Tail(toServer[p]) \in Seq(Frames)
  BY <1>1, <1>4, SeqFacts
<1>6. \A x \in Peers : Received(x)' = Received(x) /\ Sent(x)' = Sent(x)
  BY <1>3 DEF Received, Sent
<1>7. Ordered(p)'
  BY <1>1, <1>2, <1>3, <1>4, <1>6 DEF Ordered, InOrder, Sort, Capped
<1>8. Ends(p)' /\ Ends(q)'
  BY <1>2, <1>3 DEF Ends, SideLabels
<1>9. CASE server[q] = "open" /\ toClient' = [toClient EXCEPT ![q] = Append(@, Head(toServer[p]))] /\ UNCHANGED handler
  <2>1. toClient'[q] = Append(toClient[q], Head(toServer[p]))
    BY <1>1, <1>9 DEF IInv, ClientStreams
  <2>2. PICK n \in 0 .. 2 : n = Received(q)
    BY <1>1, Counts
  <2>3. PICK k \in Nat : k = Len(toClient[q])
    BY <1>1
  <2>4. PICK l \in Nat : l = Len(toServer[p])
    BY <1>1
  <2>6. ASSUME pc[q] # "returned" PROVE Ordered(q)'
    <3>1. InOrder(p, toClient[q], n) /\ InOrder(p, toServer[p], n + k)
      BY <1>1, <1>2, <1>4, <1>9, <2>2, <2>3, <2>6 DEF Ordered
    <3>2. n \in Nat /\ n + k \in Nat
      BY <2>2, <2>3
    <3>3. /\ Head(toServer[p]).type \in Closes \cup {Sort(p, n + k)}
          /\ InOrder(p, Tail(toServer[p]), n + k + 1)
          /\ Len(Tail(toServer[p])) = l - 1
      <4> HIDE DEF q
      <4> QED BY <1>1, <1>4, <2>4, <3>1, <3>2, OrderTail
    <3>4. InOrder(p, toClient'[q], n) /\ Len(toClient'[q]) = k + 1
      <4>1. Head(toServer[p]).type \in Closes \cup {Sort(p, n + Len(toClient[q]))}
        BY <2>3, <3>3
      <4> HIDE DEF q
      <4> QED BY <1>1, <1>5, <2>1, <2>3, <3>1, <3>2, <4>1, OrderAppend
    <3>5. InOrder(p, toServer'[p], n + (k + 1))
      <4>1. n + (k + 1) = n + k + 1
        BY <2>2, <2>3
      <4> QED BY <1>4, <3>3, <4>1
    <3>6. p \notin closed /\ (pc[p] # "returned" \/ p \in local) =>
            Capped(n + (k + 1) + Len(toServer'[p])) = Sent(p)'
      <4>1. n + (k + 1) + (l - 1) = n + k + l
        <5>1. n \in Nat /\ k \in Nat /\ l \in Nat
          BY <2>3, <2>4, <3>2
        <5> QED BY <5>1, SumMoves
      <4>2. p \notin closed /\ (pc[p] # "returned" \/ p \in local) => Capped(n + k + l) = Sent(p)
        BY <1>1, <1>2, <1>4, <1>9, <2>2, <2>3, <2>4, <2>6 DEF Ordered
      <4>3. Len(toServer'[p]) = l - 1
        BY <1>4, <3>3
      <4> QED BY <1>6, <4>1, <4>2, <4>3
    <3>7. Received(q)' = n
      BY <1>1, <1>6, <2>2
    <3> QED BY <1>1, <1>3, <3>4, <3>5, <3>6, <3>7 DEF Ordered, InOrder, Sort
  <2>7. ASSUME pc[q] = "returned" PROVE Ordered(q)'
    <3>1. pc'[q] = "returned"
      BY <1>3, <2>7
    <3> HIDE DEF q
    <3> QED BY <3>1 DEF Ordered
  <2>8. Ordered(q)'
    BY <2>6, <2>7
  <2> QED BY <1>1, <1>7, <1>8, <2>8 DEF Ordering
<1>10. CASE server[q] = "closed" /\ UNCHANGED toClient
  <2>1. Ordered(q)'
    BY <1>1, <1>2, <1>3, <1>6, <1>10 DEF Ordered, InOrder, Sort
  <2> QED BY <1>1, <1>7, <1>8, <2>1 DEF Ordering
<1> QED BY <1>9, <1>10 DEF Forward

(* A read loop that ends stops passing on, and closes follow what was sent. *)
LEMMA ReadEndOrder ==
  ASSUME IInv, Ordering, NEW p \in Peers, ReadClose(p) \/ ReadFails(p)
  PROVE  Ordering'
<1>1. /\ UNCHANGED <<pc, local, closed, toServer>> /\ handler' = [handler EXCEPT ![p] = "done"]
  BY DEF ReadClose, ReadFails, clientVars
<1>2. PICK code \in [Peers -> Closes \cup {None}] : CloseServer(code) /\ code[p] \in Closes /\ code[p] # None
  <2>1. CASE ReadClose(p)
    <3>1. Head(toServer[p]).type \in Closes /\ Passed(Head(toServer[p]).type) \in Closes \cup {None}
      BY <2>1 DEF ReadClose, Passed, Closes
    <3> QED BY <2>1, <3>1, HandshakeAssumption DEF ReadClose
  <2>2. CASE ReadFails(p)
    BY <2>2, HandshakeAssumption DEF ReadFails, Closes
  <2> QED BY <2>1, <2>2
<1>3. ASSUME NEW x \in Peers PROVE Ends(x)' /\ Ordered(x)'
  <2>1. Ends(x) /\ Ordered(x) /\ Received(x)' = Received(x) /\ Received(x) \in Nat
    BY <1>1, Counts DEF Ordering, Received
  <2>2. toClient[x] \in Seq(Frames) /\ Other(x) \in Peers /\ Other(x) # x
    BY Streams
  <2>3. \/ toClient'[x] = toClient[x]
        \/ code[x] \in Closes /\ toClient'[x] = Append(toClient[x], Frame(code[x], None))
    BY <1>2 DEF CloseServer
  <2>4. Ends(x)'
    BY <1>1, <2>1 DEF Ends, SideLabels
  <2>5. server'[x] = "closed" \/ handler'[Other(x)] = "done"
    <3>1. CASE x = p
      BY <1>2, <3>1 DEF CloseServer
    <3>2. CASE x # p
      <4>1. Other(x) = p
        BY <3>2 DEF Other, Peers
      <4> QED BY <1>1, <4>1 DEF IInv, Types
    <3> QED BY <3>1, <3>2
  <2>6. ASSUME pc[x] # "returned"
        PROVE  InOrder(Other(x), toClient'[x], Received(x))
    <3>1. InOrder(Other(x), toClient[x], Received(x))
      BY <2>1, <2>6 DEF Ordered
    <3>2. CASE code[x] \in Closes /\ toClient'[x] = Append(toClient[x], Frame(code[x], None))
      <4>1. Frame(code[x], None) \in Frames /\ Frame(code[x], None).type \in Closes
        BY <3>2 DEF Frame, Frames
      <4>2. InOrder(Other(x), Append(toClient[x], Frame(code[x], None)), Received(x))
        BY <2>1, <2>2, <3>1, <4>1, OrderAppend
      <4> QED BY <3>2, <4>2
    <3> QED BY <2>3, <3>1, <3>2
  <2>7. Ordered(x)'
    BY <1>1, <2>1, <2>5, <2>6 DEF Ordered, InOrder, Sort
  <2> QED BY <2>4, <2>7
<1> QED BY <1>3 DEF Ordering

(* The order holds in every reachable state. *)
LEMMA OrderInvariance == Spec => []Ordering
<1>1. Init => Ordering
  <2> SUFFICES ASSUME Init PROVE Ordering
    OBVIOUS
  <2>1. ASSUME NEW p \in Peers PROVE Ends(p) /\ Ordered(p)
    <3>1. toServer = [x \in Peers |-> <<>>] /\ toClient = [x \in Peers |-> <<>>]
      BY DEF Init, Paired
    <3>2. toClient[p] = <<>> /\ toServer[Other(p)] = <<>>
      BY <3>1 DEF Other, Peers
    <3>3. Received(p) = 0 /\ Sent(Other(p)) = 0
      BY DEF Init, Paired, Received, Sent, Other, Peers
    <3>4. Ends(p)
      BY <3>1 DEF Init, Paired, Ends, SideLabels, Peers
    <3>5. Ordered(p)
      BY <3>2, <3>3 DEF Ordered, InOrder, Capped
    <3> QED BY <3>4, <3>5
  <2> QED BY <2>1 DEF Ordering
<1>2. IInv /\ Ordering /\ [Next]_vars => Ordering'
  <2> SUFFICES ASSUME IInv, Ordering, [Next]_vars PROVE Ordering'
    OBVIOUS
  <2>1. ASSUME NEW p \in Peers,
               \/ Step(p) \/ Timer(p) \/ WaitFails(p, "failed") \/ SendCandidate(p) \/ Open(p)
               \/ LocalError(p) \/ Exit(p) \/ Relay(p) \/ ReadFails(p)
        PROVE  Ordering'
    BY <2>1, PakeOrder, DescribeOrder, DescriptionOrder, QuitOrder, WaitOrder, ExitOrder,
       ForwardOrder, ReadEndOrder DEF Step, Timer, Relay
  <2>2. CASE UNCHANGED vars
    <3>1. UNCHANGED <<pc, local, closed, toServer, toClient, handler, server>>
      BY <2>2 DEF vars, clientVars, relayVars
    <3>2. \A p \in Peers : Ends(p)'
      BY <3>1 DEF Ordering, Ends, SideLabels
    <3>3. \A p \in Peers : Sent(p)' = Sent(p) /\ Received(p)' = Received(p)
      BY <3>1 DEF Sent, Received
    <3>4. ASSUME NEW p \in Peers PROVE Ordered(p)'
      BY <3>1, <3>3, Streams DEF Ordering, Ordered, InOrder, Sort, Capped
    <3> QED BY <3>2, <3>4 DEF Ordering
  <2> QED BY <2>1, <2>2 DEF Next
<1> QED BY <1>1, <1>2, Invariance, PTL DEF Spec

(* Every read of the handshake finds the message it decodes, or a close:
   candidates, sent from another goroutine, never overtake a description. *)
THEOREM OrderedHolds == Spec => []OrderedSignalling
<1>1. IInv /\ Ordering => OrderedSignalling
  <2> SUFFICES ASSUME IInv, Ordering, NEW p \in Peers,
                      pc[p] \in Reading \cup {"waitOpen"}, toClient[p] # <<>>
               PROVE  Head(toClient[p]).type \in Closes \cup {Expected(p)}
    BY DEF OrderedSignalling
  <2>1. Ends(p) /\ InOrder(Other(p), toClient[p], Received(p)) /\ Received(p) \in Nat
    BY Counts DEF Ordering, Ordered, Reading
  <2>2. Head(toClient[p]).type \in Closes \cup {Sort(Other(p), Received(p))}
    BY <2>1, Streams, OrderTail
  <2>3. Sort(Other(p), Received(p)) = IF pc[p] = "recvPake" THEN "pake"
          ELSE IF pc[p] = "recvOffer" THEN "offer"
          ELSE IF pc[p] = "recvAnswer" THEN "answer" ELSE "candidate"
    BY <2>1 DEF Sort, Received, Ends, SideLabels, Other, Peers, Reading
  <2>4. Sort(Other(p), Received(p)) = Expected(p)
    BY <2>3 DEF Expected, Reading
  <2> QED BY <2>2, <2>4
<1> QED BY <1>1, Invariance, OrderInvariance, PTL
=============================================================================
