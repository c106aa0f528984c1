--------------------------- MODULE SlotsRefinement ---------------------------
(* Slots implements Rendezvous, for any number of connections and keys. *)
EXTENDS SlotsProofs

(* Handlers that have exchanged nothing are in nobody's rconn; the others are
   in that of one handler, their partner, and have or will have it in theirs. *)
Matching ==
  /\ \A c \in Conns : pc[c] \notin {"await", "reply", "relay", "done"} =>
       rconn[c] = None /\ \A d \in Conns : rconn[d] # c
  /\ \A c, d \in Conns : rconn[c] = rconn[d] /\ rconn[c] # None => c = d
  /\ \A c \in Conns : pc[c] = "await" => rconn[c] = None
  /\ \A c \in Conns : rconn[c] # None /\ rconn[rconn[c]] # None => rconn[rconn[c]] = c

(* Steps that are not a handover move no handler into or back from one. *)
LEMMA OnlyTransferMatches ==
  ASSUME TypeOK, [Next]_vars
  PROVE  \/ \E s, r \in Conns : Transfer(s, r)
         \/ /\ rconn' = rconn
            /\ \A c \in Conns : pc'[c] \in {"await", "reply", "relay"} => pc'[c] = pc[c]
            /\ \A c \in Conns : pc'[c] \notin {"await", "reply", "relay", "done"}
                                  => pc[c] \notin {"await", "reply", "relay", "done"}
<1> USE DEF TypeOK, Procs, Goto
<1>1. ASSUME NEW c \in Conns, Setup(c)
      PROVE  rconn' = rconn /\ pc[c] = "new" /\ pc' = [pc EXCEPT ![c] = "write"]
  BY <1>1, SetupCases
<1>2. ASSUME NEW c \in Conns, Moves(c)
      PROVE  /\ rconn' = rconn
             /\ \/ pc[c] \in {"new", "write", "wait", "ping", "recv"}
                   /\ \E l \in {"alone", "done", "ping", "wait", "timedout"} : pc' = [pc EXCEPT ![c] = l]
                \/ pc' = [pc EXCEPT ![c] = "done"]
  BY <1>2 DEF Moves, NoMoreSlots, WrongProtocol, WriteInitFails, Ping, PingReturns, TimedOut, Leave
<1>3. ASSUME NEW c \in Conns, WriteInit(c) \/ Branch(c) \/ CloseTimedOut(c)
      PROVE  /\ rconn' = rconn /\ pc[c] \in {"write", "branch", "timedout"}
             /\ \E l \in {"branch", "wait", "recv", "alone"} : pc' = [pc EXCEPT ![c] = l]
  BY <1>3 DEF WriteInit, Branch, CloseTimedOut
<1>4. ASSUME NEW c \in Conns, Expire(c) PROVE UNCHANGED <<pc, rconn>>
  BY <1>4 DEF Expire
<1>5. ASSUME NEW r \in Reservers, ReserveFree(r) \/ ReserveFails(r) \/ ReserveStore(r) \/ MapFault(r)
      PROVE  rconn' = rconn /\ \A c \in Conns : pc'[c] = pc[c]
  BY <1>5, SlotsAssumption DEF ReserveFree, ReserveFails, ReserveStore, MapFault
<1>6. CASE UNCHANGED vars
  BY <1>6 DEF vars
<1>7. ASSUME NEW c \in Conns, Moves(c)
      PROVE  /\ rconn' = rconn
             /\ \A d \in Conns : pc'[d] \in {"await", "reply", "relay"} => pc'[d] = pc[d]
             /\ \A d \in Conns : pc'[d] \notin {"await", "reply", "relay", "done"}
                                   => pc[d] \notin {"await", "reply", "relay", "done"}
  BY <1>2, <1>7
<1> QED BY <1>1, <1>3, <1>4, <1>5, <1>6, <1>7, NextCases

(* Matching is kept by every step. *)
LEMMA MatchingStep ==
  ASSUME IInv, Matching, [Next]_vars
  PROVE  Matching'
<1>1. ASSUME NEW s \in Conns, NEW r \in Conns, Transfer(s, r) PROVE Matching'
  <2>1. TypeOK
    BY DEF IInv
  <2>2. /\ s # r /\ rconn' = [rconn EXCEPT ![r] = s]
        /\ \A c \in Conns \ {s, r} : pc'[c] = pc[c] /\ rconn'[c] = rconn[c]
        /\ rconn'[r] = s /\ rconn'[s] = rconn[s]
    BY <1>1, <2>1, TransferCases DEF TypeOK
  <2>3. \A c \in Conns : rconn[c] \in Conns \cup {None}
    BY <2>1 DEF TypeOK
  <2>4. CASE pc[s] = "wait" /\ pc[r] = "recv" /\ pc'[s] = "await" /\ pc'[r] = "reply"
    <3>1. rconn[s] = None /\ rconn[r] = None /\ \A d \in Conns : rconn[d] \notin {s, r}
      BY <2>4 DEF Matching
    <3> QED BY <2>2, <2>3, <2>4, <3>1, SlotsAssumption DEF Matching
  <2>5. CASE pc[s] = "reply" /\ pc[r] = "await" /\ pc'[s] = "relay" /\ pc'[r] = "relay" /\ rconn[s] = r
    <3>1. rconn[r] = None /\ \A d \in Conns : rconn[d] # s /\ (rconn[d] = r => d = s)
      BY <2>5, <2>3, SlotsAssumption DEF Matching
    <3> QED BY <2>2, <2>3, <2>5, <3>1, SlotsAssumption DEF Matching
  <2> QED BY <1>1, <2>4, <2>5, TransferCases
<1>2. ASSUME /\ rconn' = rconn
             /\ \A c \in Conns : pc'[c] \in {"await", "reply", "relay"} => pc'[c] = pc[c]
             /\ \A c \in Conns : pc'[c] \notin {"await", "reply", "relay", "done"}
                                   => pc[c] \notin {"await", "reply", "relay", "done"}
      PROVE  Matching'
  BY <1>2 DEF Matching
<1>3. TypeOK
  BY DEF IInv
<1> QED BY <1>1, <1>2, <1>3, OnlyTransferMatches

(* Matching holds in every reachable state. *)
THEOREM MatchingInv == Spec => [](IInv /\ Matching)
<1>1. Init => Matching
  BY SlotsAssumption DEF Init, Matching, Procs
<1>2. IInv /\ Matching /\ [Next]_vars => Matching'
  BY MatchingStep
<1> QED BY <1>1, <1>2, Invariance, PTL DEF Spec

-----------------------------------------------------------------------------
(* Partner, as a function of the rconns rc. *)
PartnerIn(rc, c) ==
  IF rc[c] # None THEN rc[c]
  ELSE IF \E d \in Conns : rc[d] = c THEN CHOOSE d \in Conns : rc[d] = c
  ELSE None

(* Partner is the rconn of a handler, else the one handler whose rconn it is. *)
LEMMA PartnerIs ==
  ASSUME NEW rc, NEW c \in Conns,
         \A d, e \in Conns : rc[d] = rc[e] /\ rc[d] # None => d = e
  PROVE  /\ rc[c] # None => PartnerIn(rc, c) = rc[c]
         /\ \A d \in Conns : rc[c] = None /\ rc[d] = c => PartnerIn(rc, c) = d
         /\ rc[c] = None /\ (\A d \in Conns : rc[d] # c) => PartnerIn(rc, c) = None
<1>1. ASSUME NEW d \in Conns, rc[c] = None, rc[d] = c PROVE PartnerIn(rc, c) = d
  <2>1. \A e \in Conns : rc[e] = c => e = d
    BY <1>1, SlotsAssumption
  <2>2. (CHOOSE e \in Conns : rc[e] = c) = d
    BY <1>1, <2>1
  <2> QED BY <1>1, <2>2 DEF PartnerIn
<1> QED BY <1>1 DEF PartnerIn

(* A step that leaves items and rconns alone is a stutter of Rendezvous. *)
LEMMA StutterStep ==
  ASSUME UNCHANGED <<item, rconn>>
  PROVE  UNCHANGED Abstract!vars
BY DEF Abstract!vars, Partner

(* Setup enters a room that has at most one connection in it. *)
LEMMA EnterStep ==
  ASSUME IInv, NEW c \in Conns, Setup(c)
  PROVE  Abstract!Next
<1> USE DEF IInv, TypeOK, Procs, Items
<1>1. PICK k \in Keys : SetupNew(c, k) \/ SetupExisting(c, k)
  BY SetupCases
<1>2. item[c] = None /\ rconn' = rconn
  BY SetupCases DEF Fresh
<1>3. [d \in Conns |-> Partner(d)]' = [d \in Conns |-> Partner(d)]
  BY <1>2 DEF Partner
<1>4. PICK i \in Items : item' = [item EXCEPT ![c] = i] /\ mode[i] \in {ModeNone, ModePeer1}
  <2>1. CASE SetupNew(c, k)
    <3>1. mode[c] = ModeNone
      BY SetupCases DEF Fresh
    <3> QED BY <2>1, <3>1 DEF SetupNew
  <2>2. CASE SetupExisting(c, k)
    <3>1. mode[slots[k]] \in {ModeNone, ModePeer1} /\ slots[k] \in Items
      BY <2>2 DEF SetupExisting, TableSound
    <3> QED BY <2>2, <3>1 DEF SetupExisting
  <2> QED BY <1>1, <2>1, <2>2
<1>5. ~ \E d, e \in Conns : d # e /\ item[d] = i /\ item[e] = i
  BY <1>4 DEF ModeUsers
<1>6. Abstract!Enter(c, i)
  BY <1>2, <1>3, <1>4, <1>5 DEF Abstract!Enter
<1> QED BY <1>4, <1>6 DEF Abstract!Next

(* The first of the two sends matches both handlers, the second is a stutter. *)
LEMMA MatchStep ==
  ASSUME IInv, Matching, Matching', NEW s \in Conns, NEW r \in Conns, Transfer(s, r)
  PROVE  [Abstract!Next]_(Abstract!vars)
<1>1. \A c \in Conns : rconn[c] \in Conns \cup {None}
  BY DEF IInv, TypeOK
<1>2. /\ s # r /\ item[s] = item[r] /\ item[s] # None /\ UNCHANGED item
      /\ \A c \in Conns \ {r} : rconn'[c] = rconn[c]
      /\ rconn'[r] = s
  BY TransferCases DEF IInv, TypeOK
<1>3. \A c \in Conns : Partner(c) = PartnerIn(rconn, c) /\ Partner(c)' = PartnerIn(rconn', c)
  BY DEF Partner, PartnerIn
<1>4. ASSUME NEW c \in Conns
      PROVE  /\ rconn[c] # None => Partner(c) = rconn[c]
             /\ \A d \in Conns : rconn[c] = None /\ rconn[d] = c => Partner(c) = d
             /\ rconn[c] = None /\ (\A d \in Conns : rconn[d] # c) => Partner(c) = None
  BY <1>3, <1>4, PartnerIs DEF Matching
<1>5. ASSUME NEW c \in Conns
      PROVE  /\ rconn'[c] # None => Partner(c)' = rconn'[c]
             /\ \A d \in Conns : rconn'[c] = None /\ rconn'[d] = c => Partner(c)' = d
             /\ rconn'[c] = None /\ (\A d \in Conns : rconn'[d] # c) => Partner(c)' = None
  BY <1>3, <1>5, PartnerIs DEF Matching
<1>6. ASSUME NEW c \in Conns \ {s, r} PROVE Partner(c)' = Partner(c)
  <2>1. rconn'[c] = rconn[c]
    BY <1>2, <1>6
  <2>2. \A d \in Conns : rconn'[d] = c <=> rconn[d] = c /\ d # r
    BY <1>2, <1>6
  <2>3. rconn[r] # c
    BY <1>1, TransferCases, SlotsAssumption DEF Matching
  <2> QED BY <1>4, <1>5, <1>6, <2>1, <2>2, <2>3
<1>7. CASE pc[s] = "wait" /\ pc[r] = "recv"
  <2>1. Partner(s) = None /\ Partner(r) = None
    BY <1>4, <1>7 DEF Matching
  <2>2. Partner(s)' = r /\ Partner(r)' = s
    <3>1. rconn'[s] = None /\ s # None
      BY <1>2, <1>7, SlotsAssumption DEF Matching
    <3> QED BY <1>2, <1>5, <3>1
  <2>3. [c \in Conns |-> Partner(c)]'
          = [[c \in Conns |-> Partner(c)] EXCEPT ![s] = r, ![r] = s]
    BY <1>2, <1>6, <2>2
  <2>4. Abstract!Match(s, r)
    BY <1>2, <2>1, <2>3 DEF Abstract!Match
  <2> QED BY <2>4 DEF Abstract!Next
<1>8. CASE pc[s] = "reply" /\ pc[r] = "await" /\ rconn[s] = r
  <2>1. rconn[r] = None /\ r # None /\ s # None
    BY <1>8, SlotsAssumption DEF Matching
  <2>2. Partner(r) = s /\ Partner(s) = r /\ Partner(r)' = s /\ Partner(s)' = r
    BY <1>2, <1>4, <1>5, <1>8, <2>1
  <2>3. [c \in Conns |-> Partner(c)]' = [c \in Conns |-> Partner(c)]
    BY <1>6, <2>2
  <2> QED BY <1>2, <2>3 DEF Abstract!vars
<1> QED BY <1>7, <1>8, TransferCases

(* Only Setup gives a handler an item, only a handover gives it an rconn. *)
LEMMA OnlyEnterOrMatch ==
  ASSUME [Next]_vars
  PROVE  \/ \E c \in Conns : Setup(c)
         \/ \E s, r \in Conns : Transfer(s, r)
         \/ UNCHANGED <<item, rconn>>
BY NextCases DEF vars, Moves, NoMoreSlots, WrongProtocol, WriteInitFails, Ping, PingReturns,
     TimedOut, Leave, WriteInit, Branch, CloseTimedOut, Expire,
     ReserveFree, ReserveFails, ReserveStore, MapFault

(* The handlers implement the rendezvous: a room is a slot item, a handler
   enters it in Setup, and the first send over the slot's channel matches it
   with the only other handler of that slot. *)
THEOREM Refinement == Spec => RendezvousSpec
<1>1. Init => Abstract!Init
  <2> SUFFICES ASSUME Init PROVE Abstract!Init
    OBVIOUS
  <2>1. \A c \in Conns : Partner(c) = None
    BY SlotsAssumption DEF Init, Partner
  <2> QED BY <2>1 DEF Init, Abstract!Init
<1>2. IInv /\ Matching /\ (IInv /\ Matching)' /\ [Next]_vars => [Abstract!Next]_(Abstract!vars)
  BY OnlyEnterOrMatch, EnterStep, MatchStep, StutterStep
<1> QED BY <1>1, <1>2, MatchingInv, PTL DEF Spec, RendezvousSpec, Abstract!Spec
=============================================================================
