----------------------------- MODULE SlotsProofs -----------------------------
(* The safety of Slots, for any number of connections, reservations and keys. *)
EXTENDS Slots, FiniteSetTheorems, TLAPS

-----------------------------------------------------------------------------
(* The inductive invariant, in named parts. *)

(* A process that has not allocated yet left no trace. *)
Fresh ==
  /\ \A p \in Procs : pc[p] \in {"new", "store"} =>
       mode[p] = ModeNone /\ \A k \in Keys : slots[k] # p
  /\ \A c \in Conns : pc[c] = "new" => item[c] = None /\ told[c] = ModeNone
  /\ \A c \in Conns : pc[c] # "store"

(* A handler in joinPeers has the item that Setup returned. *)
HasItem == \A c \in Conns : pc[c] \in JoinLabels => item[c] \in Items

(* The table holds an item under one key at most, and never a full one. *)
TableSound ==
  /\ \A k, l \in Keys : slots[k] = slots[l] /\ slots[k] # None => k = l
  /\ \A k \in Keys : slots[k] # None => mode[slots[k]] # ModePeer2

(* Mode tells who uses an item. *)
ModeUsers ==
  \A i \in Items :
    /\ mode[i] = ModeNone  => \A c \in Conns : item[c] # i
    /\ mode[i] = ModePeer1 => \E a \in Conns : \A c \in Conns : item[c] = i <=> c = a
    /\ mode[i] = ModePeer2 => \E a, b \in Conns : a # b /\ \A c \in Conns : item[c] = i <=> c \in {a, b}

(* Who a handler has received, and who waits for whom. *)
Paired ==
  \A c \in Conns :
    /\ pc[c] = "reply" => /\ rconn[c] \in Conns \ {c}
                          /\ item[rconn[c]] = item[c]
                          /\ pc[rconn[c]] = "await"
    /\ pc[c] = "await" => \E d \in Conns : pc[d] = "reply" /\ rconn[d] = c
    /\ pc[c] = "relay" => /\ rconn[c] \in Conns \ {c}
                          /\ item[rconn[c]] = item[c]
                          /\ rconn[rconn[c]] = c
                          /\ pc[rconn[c]] \in {"relay", "done"}

IInv == TypeOK /\ HasItem /\ Fresh /\ TableSound /\ ModeUsers /\ OneFirstPeer /\ OneWaiter /\ Paired

-----------------------------------------------------------------------------
(* The steps. *)

(* Steps of handler c that move its program counter and touch nothing else. *)
Moves(c) ==
  \/ NoMoreSlots(c) \/ WrongProtocol(c) \/ WriteInitFails(c)
  \/ Ping(c) \/ PingReturns(c) \/ TimedOut(c) \/ Leave(c)

(* The cases of Next, one per kind of step. *)
LEMMA NextCases ==
  ASSUME [Next]_vars
  PROVE  \/ \E c \in Conns : Setup(c)
         \/ \E c \in Conns : Moves(c)
         \/ \E c \in Conns : WriteInit(c)
         \/ \E c \in Conns : Branch(c)
         \/ \E c, d \in Conns : Transfer(c, d)
         \/ \E c \in Conns : CloseTimedOut(c)
         \/ \E c \in Conns : Expire(c)
         \/ \E r \in Reservers : ReserveFree(r)
         \/ \E r \in Reservers : ReserveFails(r)
         \/ \E r \in Reservers : ReserveStore(r)
         \/ \E r \in Reservers : MapFault(r)
         \/ UNCHANGED vars
BY Zenon DEF Next, Enter, Advance, Reserve, Stopped, Moves

(* Every variable keeps its type. *)
LEMMA TypeStep ==
  ASSUME TypeOK, HasItem, [Next]_vars
  PROVE  TypeOK'
<1> USE DEF TypeOK, Procs, Items, Labels, JoinLabels, ModeNone, ModePeer1, ModePeer2, Goto
<1>1. ASSUME NEW c \in Conns, Setup(c) PROVE TypeOK'
  <2>1. PICK p \in Keys \cup {Blank} :
          /\ path' = [path EXCEPT ![c] = p]
          /\ \/ \E k \in Keys : SetupNew(c, k)
             \/ p \in Keys /\ SetupExisting(c, p)
    BY <1>1 DEF Setup, FreeKeys
  <2>2. /\ slots' \in [Keys -> Items \cup {None}]
        /\ key' \in [Procs -> Keys \cup {None}]
        /\ mode' \in [Items -> {ModeNone, ModePeer1, ModePeer2}]
        /\ item' \in [Conns -> Items \cup {None}]
    <3>1. CASE \E k \in Keys : SetupNew(c, k)
      BY <3>1 DEF SetupNew
    <3>2. CASE p \in Keys /\ SetupExisting(c, p)
      BY <3>2 DEF SetupExisting
    <3> QED BY <2>1, <3>1, <3>2
  <2> QED BY <1>1, <2>1, <2>2 DEF Setup
<1>2. ASSUME NEW c \in Conns, Moves(c) PROVE TypeOK'
  BY <1>2 DEF Moves, NoMoreSlots, WrongProtocol, WriteInitFails, Ping, PingReturns, TimedOut, Leave
<1>3. ASSUME NEW c \in Conns, WriteInit(c) PROVE TypeOK'
  BY <1>3 DEF WriteInit, HasItem
<1>4. ASSUME NEW c \in Conns, Branch(c) PROVE TypeOK'
  BY <1>4 DEF Branch
<1>5. ASSUME NEW c \in Conns, NEW d \in Conns, Transfer(c, d) PROVE TypeOK'
  BY <1>5 DEF Transfer
<1>6. ASSUME NEW c \in Conns, CloseTimedOut(c) PROVE TypeOK'
  BY <1>6 DEF CloseTimedOut
<1>7. ASSUME NEW c \in Conns, Expire(c) PROVE TypeOK'
  BY <1>7 DEF Expire
<1>8. ASSUME NEW r \in Reservers, ReserveFree(r) \/ ReserveFails(r) PROVE TypeOK'
  BY <1>8 DEF ReserveFree, ReserveFails, FreeKeys
<1>9. ASSUME NEW r \in Reservers, ReserveStore(r) PROVE TypeOK'
  BY <1>9 DEF ReserveStore
<1>10. ASSUME NEW r \in Reservers, MapFault(r) PROVE TypeOK'
  BY <1>10 DEF MapFault
<1>11. CASE UNCHANGED vars
  BY <1>11 DEF vars
<1> QED BY <1>1, <1>2, <1>3, <1>4, <1>5, <1>6, <1>7, <1>8, <1>9, <1>10, <1>11, NextCases

-----------------------------------------------------------------------------
(* Setup gives the handler the item it allocated or the one under its key. *)
LEMMA SetupCases ==
  ASSUME NEW c \in Conns, Setup(c)
  PROVE  /\ pc[c] = "new" /\ pc' = [pc EXCEPT ![c] = "write"]
         /\ UNCHANGED <<told, rconn>>
         /\ \E k \in Keys : SetupNew(c, k) \/ SetupExisting(c, k)
BY DEF Setup, Goto, FreeKeys

(* A handler has an item for as long as it is in joinPeers. *)
LEMMA HasItemStep ==
  ASSUME TypeOK, HasItem, [Next]_vars
  PROVE  HasItem'
<1> USE DEF TypeOK, HasItem, Procs, Items, JoinLabels, Goto
<1>1. ASSUME NEW c \in Conns, Setup(c) PROVE HasItem'
  <2>1. PICK k \in Keys : SetupNew(c, k) \/ SetupExisting(c, k)
    BY <1>1, SetupCases
  <2>2. /\ item'[c] \in Items
        /\ \A d \in Conns \ {c} : item'[d] = item[d] /\ pc'[d] = pc[d]
    BY <1>1, <2>1, SetupCases DEF SetupNew, SetupExisting
  <2> QED BY <2>2
<1>2. ASSUME NEW c \in Conns, Moves(c) PROVE HasItem'
  BY <1>2 DEF Moves, NoMoreSlots, WrongProtocol, WriteInitFails, Ping, PingReturns, TimedOut, Leave
<1>3. ASSUME NEW c \in Conns, WriteInit(c) \/ Branch(c) PROVE HasItem'
  BY <1>3 DEF WriteInit, Branch
<1>4. ASSUME NEW c \in Conns, NEW d \in Conns, Transfer(c, d) PROVE HasItem'
  BY <1>4 DEF Transfer
<1>5. ASSUME NEW c \in Conns, CloseTimedOut(c) \/ Expire(c) PROVE HasItem'
  BY <1>5 DEF CloseTimedOut, Expire
<1>6. ASSUME NEW r \in Reservers, ReserveFree(r) \/ ReserveFails(r) PROVE HasItem'
  BY <1>6, SlotsAssumption DEF ReserveFree, ReserveFails
<1>7. ASSUME NEW r \in Reservers, ReserveStore(r) \/ MapFault(r) PROVE HasItem'
  BY <1>7, SlotsAssumption DEF ReserveStore, MapFault
<1>8. CASE UNCHANGED vars
  BY <1>8 DEF vars
<1> QED BY <1>1, <1>2, <1>3, <1>4, <1>5, <1>6, <1>7, <1>8, NextCases

(* A process that has not allocated yet leaves no trace. *)
LEMMA FreshStep ==
  ASSUME TypeOK, HasItem, Fresh, [Next]_vars
  PROVE  Fresh'
<1> USE DEF TypeOK, HasItem, Fresh, Procs, Items, JoinLabels, Goto, ModeNone, ModePeer1, ModePeer2
<1>1. ASSUME NEW c \in Conns, Setup(c) PROVE Fresh'
  <2>1. PICK k \in Keys : SetupNew(c, k) \/ SetupExisting(c, k)
    BY <1>1, SetupCases
  <2>2. CASE SetupNew(c, k)
    BY <1>1, <2>2, SetupCases, SlotsAssumption DEF SetupNew
  <2>3. CASE SetupExisting(c, k)
    BY <1>1, <2>3, SetupCases, SlotsAssumption DEF SetupExisting
  <2> QED BY <2>1, <2>2, <2>3
<1>2. ASSUME NEW c \in Conns, Moves(c) PROVE Fresh'
  BY <1>2 DEF Moves, NoMoreSlots, WrongProtocol, WriteInitFails, Ping, PingReturns, TimedOut, Leave
<1>3. ASSUME NEW c \in Conns, WriteInit(c) \/ Branch(c) PROVE Fresh'
  BY <1>3 DEF WriteInit, Branch
<1>4. ASSUME NEW c \in Conns, NEW d \in Conns, Transfer(c, d) PROVE Fresh'
  BY <1>4 DEF Transfer
<1>5. ASSUME NEW c \in Conns, CloseTimedOut(c) \/ Expire(c) PROVE Fresh'
  BY <1>5, SlotsAssumption DEF CloseTimedOut, Expire
<1>6. ASSUME NEW r \in Reservers, ReserveFree(r) \/ ReserveFails(r) PROVE Fresh'
  BY <1>6, SlotsAssumption DEF ReserveFree, ReserveFails
<1>7. ASSUME NEW r \in Reservers, ReserveStore(r) PROVE Fresh'
  BY <1>7, SlotsAssumption DEF ReserveStore
<1>8. ASSUME NEW r \in Reservers, MapFault(r) PROVE Fresh'
  BY <1>8 DEF MapFault
<1>9. CASE UNCHANGED vars
  BY <1>9 DEF vars
<1> QED BY <1>1, <1>2, <1>3, <1>4, <1>5, <1>6, <1>7, <1>8, <1>9, NextCases

(* The table stays one-to-one and free of full items: ReserveStore may drop an
   entry, but what it stores is new. *)
LEMMA TableStep ==
  ASSUME TypeOK, Fresh, TableSound, [Next]_vars
  PROVE  TableSound'
<1> USE DEF TypeOK, Fresh, TableSound, Procs, Items, Goto, ModeNone, ModePeer1, ModePeer2
<1>1. ASSUME NEW c \in Conns, Setup(c) PROVE TableSound'
  <2>1. PICK k \in Keys : SetupNew(c, k) \/ SetupExisting(c, k)
    BY <1>1, SetupCases
  <2>2. CASE SetupNew(c, k)
    BY <1>1, <2>2, SetupCases DEF SetupNew
  <2>3. CASE SetupExisting(c, k)
    <3>1. CASE mode[slots[k]] = ModePeer1
      BY <2>3, <3>1 DEF SetupExisting
    <3>2. CASE mode[slots[k]] = ModeNone
      BY <2>3, <3>2 DEF SetupExisting
    <3> QED BY <2>3, <3>1, <3>2 DEF SetupExisting
  <2> QED BY <2>1, <2>2, <2>3
<1>2. ASSUME NEW c \in Conns, Moves(c) PROVE TableSound'
  BY <1>2 DEF Moves, NoMoreSlots, WrongProtocol, WriteInitFails, Ping, PingReturns, TimedOut, Leave
<1>3. ASSUME NEW c \in Conns, WriteInit(c) \/ Branch(c) PROVE TableSound'
  BY <1>3 DEF WriteInit, Branch
<1>4. ASSUME NEW c \in Conns, NEW d \in Conns, Transfer(c, d) PROVE TableSound'
  BY <1>4 DEF Transfer
<1>5. ASSUME NEW c \in Conns, CloseTimedOut(c) \/ Expire(c) PROVE TableSound'
  BY <1>5 DEF CloseTimedOut, Expire
<1>6. ASSUME NEW r \in Reservers, ReserveFree(r) \/ ReserveFails(r) \/ MapFault(r) PROVE TableSound'
  BY <1>6 DEF ReserveFree, ReserveFails, MapFault
<1>7. ASSUME NEW r \in Reservers, ReserveStore(r) PROVE TableSound'
  BY <1>7 DEF ReserveStore
<1>8. CASE UNCHANGED vars
  BY <1>8 DEF vars
<1> QED BY <1>1, <1>2, <1>3, <1>4, <1>5, <1>6, <1>7, <1>8, NextCases

-----------------------------------------------------------------------------
(* Only Setup gives a handler an item or changes a mode. *)
LEMMA OnlySetupJoins ==
  ASSUME [Next]_vars
  PROVE  (\E c \in Conns : Setup(c)) \/ UNCHANGED <<item, mode>>
BY NextCases DEF vars, Moves, NoMoreSlots, WrongProtocol, WriteInitFails, Ping, PingReturns,
     TimedOut, Leave, WriteInit, Branch, Transfer, CloseTimedOut, Expire,
     ReserveFree, ReserveFails, ReserveStore, MapFault

(* Setup advances the mode of an item with each handler it gives it to. *)
LEMMA ModeUsersStep ==
  ASSUME TypeOK, Fresh, TableSound, ModeUsers, [Next]_vars
  PROVE  ModeUsers'
<1> USE DEF TypeOK, Procs, Items, ModeNone, ModePeer1, ModePeer2
<1>1. ASSUME NEW c \in Conns, Setup(c) PROVE ModeUsers'
  <2>1. PICK k \in Keys : SetupNew(c, k) \/ SetupExisting(c, k)
    BY <1>1, SetupCases
  <2> SUFFICES ASSUME NEW i \in Items
               PROVE  /\ mode'[i] = ModeNone => \A d \in Conns : item'[d] # i
                      /\ mode'[i] = ModePeer1 =>
                           \E a \in Conns : \A d \in Conns : item'[d] = i <=> d = a
                      /\ mode'[i] = ModePeer2 =>
                           \E a, b \in Conns : a # b /\ \A d \in Conns : item'[d] = i <=> d \in {a, b}
    BY Zenon DEF ModeUsers
  <2>2. item[c] = None
    BY <1>1, SetupCases DEF Fresh
  <2>3. CASE SetupNew(c, k)
    <3>1. \A d \in Conns : item[d] # c
      BY <1>1, SetupCases DEF Fresh, ModeUsers
    <3>2. CASE i = c
      BY <2>3, <3>1, <3>2 DEF SetupNew
    <3>3. CASE i # c
      <4>1. mode'[i] = mode[i] /\ \A d \in Conns : item'[d] = i <=> item[d] = i
        BY <2>2, <2>3, <3>3, SlotsAssumption DEF SetupNew
      <4> QED BY <4>1 DEF ModeUsers
    <3> QED BY <3>2, <3>3
  <2>4. CASE SetupExisting(c, k)
    <3>1. slots[k] \in Items /\ mode[slots[k]] \in {ModeNone, ModePeer1}
      BY <2>4 DEF SetupExisting, TableSound
    <3>2. CASE i # slots[k]
      <4>1. mode'[i] = mode[i] /\ \A d \in Conns : item'[d] = i <=> item[d] = i
        BY <2>2, <2>4, <3>2, SlotsAssumption DEF SetupExisting
      <4> QED BY <4>1 DEF ModeUsers
    <3>3. CASE i = slots[k] /\ mode[i] = ModeNone
      <4>1. mode'[i] = ModePeer1 /\ \A d \in Conns : item'[d] = i <=> d = c
        BY <2>4, <3>3 DEF SetupExisting, ModeUsers
      <4> QED BY <4>1
    <3>4. CASE i = slots[k] /\ mode[i] = ModePeer1
      <4>1. PICK a \in Conns : \A d \in Conns : item[d] = i <=> d = a
        BY <3>4 DEF ModeUsers
      <4>2. a # c
        BY <2>2, <4>1, SlotsAssumption
      <4>3. mode'[i] = ModePeer2 /\ \A d \in Conns : item'[d] = i <=> d \in {a, c}
        BY <2>4, <3>4, <4>1 DEF SetupExisting
      <4> QED BY <4>2, <4>3
    <3> QED BY <3>1, <3>2, <3>3, <3>4
  <2> QED BY <2>1, <2>3, <2>4
<1>2. CASE UNCHANGED <<item, mode>>
  BY <1>2 DEF ModeUsers
<1> QED BY <1>1, <1>2, OnlySetupJoins

(* No third handler: of three that share an item two are the same. *)
LEMMA AtMostTwo ==
  ASSUME TypeOK, ModeUsers, NEW a \in Conns, NEW b \in Conns, NEW c \in Conns,
         item[a] # None, item[a] = item[b], item[b] = item[c]
  PROVE  a = b \/ b = c \/ a = c
<1>1. item[a] \in Items /\ mode[item[a]] \in {ModeNone, ModePeer1, ModePeer2}
  BY DEF TypeOK
<1> QED BY <1>1 DEF ModeUsers

(* While the mode of its item is ModePeer1 a handler is alone. *)
LEMMA AloneInModePeer1 ==
  ASSUME TypeOK, ModeUsers, NEW c \in Conns, item[c] \in Items, mode[item[c]] = ModePeer1,
         NEW d \in Conns, item[d] = item[c]
  PROVE  d = c
BY DEF ModeUsers

(* A client is told ModePeer1 only while it is alone in its slot, and the one
   that joins it after that is not. *)
LEMMA OneFirstPeerStep ==
  ASSUME TypeOK, HasItem, Fresh, ModeUsers, OneFirstPeer, [Next]_vars
  PROVE  OneFirstPeer'
<1> USE DEF TypeOK, OneFirstPeer, Procs, Items, ModeNone, ModePeer1, ModePeer2
<1>1. ASSUME NEW c \in Conns, Setup(c) PROVE OneFirstPeer'
  <2>1. PICK k \in Keys : SetupNew(c, k) \/ SetupExisting(c, k)
    BY <1>1, SetupCases
  <2>2. told' = told /\ told[c] = ModeNone
    BY <1>1, SetupCases DEF Fresh
  <2>3. \A d \in Conns \ {c} : item'[d] = item[d]
    BY <2>1 DEF SetupNew, SetupExisting
  <2> QED BY <2>2, <2>3
<1>2. ASSUME NEW c \in Conns, WriteInit(c) PROVE OneFirstPeer'
  <2>1. item[c] \in Items /\ item' = item
    BY <1>2 DEF WriteInit, HasItem, JoinLabels
  <2>2. /\ told'[c] = mode[item[c]]
        /\ \A d \in Conns \ {c} : told'[d] = told[d]
    BY <1>2 DEF WriteInit
  <2> QED BY <2>1, <2>2, AloneInModePeer1
<1>3. CASE UNCHANGED <<item, told>>
  BY <1>3
<1>4. (\E c \in Conns : Setup(c) \/ WriteInit(c)) \/ UNCHANGED <<item, told>>
  BY NextCases DEF vars, Moves, NoMoreSlots, WrongProtocol, WriteInitFails, Ping, PingReturns,
       TimedOut, Leave, Branch, Transfer, CloseTimedOut, Expire,
       ReserveFree, ReserveFails, ReserveStore, MapFault
<1> QED BY <1>1, <1>2, <1>3, <1>4

(* A handler takes the sending end only while it is alone in its slot. *)
LEMMA OneWaiterStep ==
  ASSUME TypeOK, HasItem, ModeUsers, OneWaiter, [Next]_vars
  PROVE  OneWaiter'
<1> USE DEF TypeOK, OneWaiter, Procs, Items, Goto
<1>1. ASSUME NEW c \in Conns, Setup(c) PROVE OneWaiter'
  <2>1. PICK k \in Keys : SetupNew(c, k) \/ SetupExisting(c, k)
    BY <1>1, SetupCases
  <2>2. \A d \in Conns \ {c} : item'[d] = item[d] /\ pc'[d] = pc[d]
    BY <1>1, <2>1, SetupCases DEF SetupNew, SetupExisting
  <2>3. pc'[c] = "write"
    BY <1>1, SetupCases
  <2> QED BY <2>2, <2>3
<1>2. ASSUME NEW c \in Conns, Moves(c) PROVE OneWaiter'
  BY <1>2 DEF Moves, NoMoreSlots, WrongProtocol, WriteInitFails, Ping, PingReturns, TimedOut, Leave
<1>3. ASSUME NEW c \in Conns, WriteInit(c) PROVE OneWaiter'
  BY <1>3 DEF WriteInit
<1>4. ASSUME NEW c \in Conns, Branch(c) PROVE OneWaiter'
  <2>1. item[c] \in Items /\ item' = item /\ \A d \in Conns \ {c} : pc'[d] = pc[d]
    BY <1>4 DEF Branch, HasItem, JoinLabels
  <2>2. CASE mode[item[c]] = ModePeer1
    BY <2>1, <2>2, AloneInModePeer1
  <2>3. CASE mode[item[c]] # ModePeer1
    <3>1. pc'[c] = "recv"
      BY <1>4, <2>3 DEF Branch
    <3> QED BY <2>1, <3>1
  <2> QED BY <2>2, <2>3
<1>5. ASSUME NEW c \in Conns, NEW d \in Conns, Transfer(c, d) PROVE OneWaiter'
  BY <1>5 DEF Transfer
<1>6. ASSUME NEW c \in Conns, CloseTimedOut(c) \/ Expire(c) PROVE OneWaiter'
  BY <1>6 DEF CloseTimedOut, Expire
<1>7. ASSUME NEW r \in Reservers, ReserveFree(r) \/ ReserveFails(r) PROVE OneWaiter'
  BY <1>7, SlotsAssumption DEF ReserveFree, ReserveFails
<1>8. ASSUME NEW r \in Reservers, ReserveStore(r) \/ MapFault(r) PROVE OneWaiter'
  BY <1>8, SlotsAssumption DEF ReserveStore, MapFault
<1>9. CASE UNCHANGED vars
  BY <1>9 DEF vars
<1> QED BY <1>1, <1>2, <1>3, <1>4, <1>5, <1>6, <1>7, <1>8, <1>9, NextCases

-----------------------------------------------------------------------------
(* The handover over the channel. *)

(* What Paired says of a handler does not change when the handlers that
   refer to each other keep their program counters, items and rconns. *)
LEMMA PairedFrame ==
  ASSUME TypeOK, Paired, NEW c \in Conns,
         pc[c] \notin {"reply", "await", "relay"},
         pc'[c] \notin {"reply", "await", "relay"},
         \A d \in Conns \ {c} : pc'[d] = pc[d] /\ item'[d] = item[d],
         rconn' = rconn, pc[c] # "done"
  PROVE  Paired'
BY DEF Paired, TypeOK

(* The partner that a handler received is the only one it can reply to, and
   the first handover finds nobody else on the channel. *)
LEMMA TransferStep ==
  ASSUME TypeOK, HasItem, ModeUsers, OneWaiter, Paired,
         NEW s \in Conns, NEW r \in Conns, Transfer(s, r)
  PROVE  Paired'
<1> USE DEF TypeOK, Procs
<1>1. /\ s # r /\ item[s] = item[r] /\ item[s] # None
      /\ pc[s] \in {"wait", "reply"} /\ pc[r] \in {"recv", "await"}
      /\ UNCHANGED item
      /\ rconn' = [rconn EXCEPT ![r] = s]
  BY SlotsAssumption DEF Transfer, HasItem, JoinLabels, Items
<1>2. pc' = [pc EXCEPT ![s] = IF pc[s] = "wait" THEN "await" ELSE "relay",
                       ![r] = IF pc[r] = "recv" THEN "reply" ELSE "relay"]
  BY DEF Transfer
<1>3. CASE pc[s] = "wait" /\ pc[r] = "recv"
  <2>1. pc'[s] = "await" /\ pc'[r] = "reply" /\ rconn'[r] = s
    BY <1>1, <1>2, <1>3
  <2>2. \A c \in Conns \ {s, r} : pc'[c] = pc[c] /\ rconn'[c] = rconn[c]
    BY <1>1, <1>2
  <2>3. \A c \in Conns : pc[c] \in {"reply", "relay"} => rconn[c] \notin {s, r}
    BY <1>3 DEF Paired
  <2> QED BY <1>1, <1>3, <2>1, <2>2, <2>3 DEF Paired
<1>4. pc[s] = "wait" => pc[r] # "await"
  BY <1>1 DEF OneWaiter
<1>5. CASE pc[s] = "reply"
  <2>1. rconn[s] \in Conns \ {s} /\ item[rconn[s]] = item[s] /\ pc[rconn[s]] = "await"
    BY <1>5 DEF Paired
  <2>2. rconn[s] = r
    BY <1>1, <2>1, AtMostTwo
  <2>3. pc'[s] = "relay" /\ pc'[r] = "relay" /\ rconn'[s] = r /\ rconn'[r] = s
    BY <1>1, <1>2, <1>5, <2>1, <2>2
  <2>4. \A c \in Conns \ {s, r} : pc'[c] = pc[c] /\ rconn'[c] = rconn[c]
    BY <1>1, <1>2
  <2>5. \A c \in Conns \ {s, r} : pc[c] \in {"reply", "await", "relay"} =>
          /\ pc[c] \in {"reply", "relay"} => rconn[c] \notin {s, r}
          /\ pc[c] = "await" => \E d \in Conns \ {s, r} : pc[d] = "reply" /\ rconn[d] = c
    <3> SUFFICES ASSUME NEW c \in Conns \ {s, r}
                 PROVE  /\ pc[c] = "reply" => rconn[c] \notin {s, r}
                        /\ pc[c] = "relay" => rconn[c] \notin {s, r}
                        /\ pc[c] = "await" => \E d \in Conns \ {s, r} : pc[d] = "reply" /\ rconn[d] = c
      OBVIOUS
    <3>1. pc[c] = "reply" => rconn[c] \notin {s, r}
      BY <1>1, <1>5, <2>1, <2>2, AtMostTwo DEF Paired
    <3>2. pc[c] = "relay" => rconn[c] \notin {s, r}
      BY <1>5, <2>1, <2>2 DEF Paired
    <3>3. pc[c] = "await" => \E d \in Conns \ {s, r} : pc[d] = "reply" /\ rconn[d] = c
      BY <2>1, <2>2 DEF Paired
    <3> QED BY <3>1, <3>2, <3>3
  <2>6. ASSUME NEW c \in Conns \ {s, r}
        PROVE  /\ pc'[c] = "reply" => /\ rconn'[c] \in Conns \ {c}
                                      /\ item'[rconn'[c]] = item'[c]
                                      /\ pc'[rconn'[c]] = "await"
               /\ pc'[c] = "await" => \E d \in Conns : pc'[d] = "reply" /\ rconn'[d] = c
               /\ pc'[c] = "relay" => /\ rconn'[c] \in Conns \ {c}
                                      /\ item'[rconn'[c]] = item'[c]
                                      /\ rconn'[rconn'[c]] = c
                                      /\ pc'[rconn'[c]] \in {"relay", "done"}
    BY <1>1, <2>4, <2>5 DEF Paired
  <2> QED BY <1>1, <2>3, <2>6 DEF Paired
<1> QED BY <1>1, <1>3, <1>4, <1>5

(* Steps that are not a handover leave every pair as it was. *)
LEMMA PairedStep ==
  ASSUME TypeOK, HasItem, ModeUsers, OneWaiter, Paired, [Next]_vars
  PROVE  Paired'
<1> USE DEF TypeOK, Procs, Goto
<1>1. ASSUME NEW c \in Conns, Setup(c) PROVE Paired'
  <2>1. PICK k \in Keys : SetupNew(c, k) \/ SetupExisting(c, k)
    BY <1>1, SetupCases
  <2>2. \A d \in Conns \ {c} : item'[d] = item[d] /\ pc'[d] = pc[d]
    BY <1>1, <2>1, SetupCases DEF SetupNew, SetupExisting
  <2>3. pc[c] = "new" /\ pc'[c] = "write" /\ rconn' = rconn
    BY <1>1, SetupCases
  <2> QED BY <2>2, <2>3, PairedFrame
<1>2. ASSUME NEW c \in Conns, Moves(c), ~ Leave(c) PROVE Paired'
  <2>1. /\ pc[c] \in {"new", "write", "wait", "ping", "recv"}
        /\ pc'[c] \in {"alone", "done", "ping", "wait", "timedout"}
        /\ \A d \in Conns \ {c} : pc'[d] = pc[d]
        /\ UNCHANGED <<item, rconn>>
    BY <1>2 DEF Moves, NoMoreSlots, WrongProtocol, WriteInitFails, Ping, PingReturns, TimedOut
  <2> QED BY <2>1, PairedFrame
<1>3. ASSUME NEW c \in Conns, Leave(c) PROVE Paired'
  BY <1>3 DEF Leave, Paired
<1>4. ASSUME NEW c \in Conns, WriteInit(c) \/ Branch(c) PROVE Paired'
  <2>1. /\ pc[c] \in {"write", "branch"} /\ pc'[c] \in {"branch", "wait", "recv"}
        /\ \A d \in Conns \ {c} : pc'[d] = pc[d]
        /\ UNCHANGED <<item, rconn>>
    BY <1>4 DEF WriteInit, Branch
  <2> QED BY <2>1, PairedFrame
<1>5. ASSUME NEW c \in Conns, NEW d \in Conns, Transfer(c, d) PROVE Paired'
  BY <1>5, TransferStep
<1>6. ASSUME NEW c \in Conns, CloseTimedOut(c) PROVE Paired'
  <2>1. /\ pc[c] = "timedout" /\ pc'[c] = "alone"
        /\ \A d \in Conns \ {c} : pc'[d] = pc[d]
        /\ UNCHANGED <<item, rconn>>
    BY <1>6 DEF CloseTimedOut
  <2> QED BY <2>1, PairedFrame
<1>7. ASSUME NEW c \in Conns, Expire(c) PROVE Paired'
  BY <1>7 DEF Expire, Paired
<1>8. ASSUME NEW r \in Reservers, ReserveFree(r) \/ ReserveFails(r) \/ ReserveStore(r) \/ MapFault(r)
      PROVE  Paired'
  <2>1. (\A c \in Conns : pc'[c] = pc[c]) /\ UNCHANGED <<item, rconn>>
    BY <1>8, SlotsAssumption DEF ReserveFree, ReserveFails, ReserveStore, MapFault
  <2> QED BY <2>1 DEF Paired
<1>9. CASE UNCHANGED vars
  BY <1>9 DEF vars, Paired
<1> QED BY <1>1, <1>2, <1>3, <1>4, <1>5, <1>6, <1>7, <1>8, <1>9, NextCases

-----------------------------------------------------------------------------
(* The theorems. *)

(* The inductive invariant holds in every reachable state. *)
THEOREM Invariance == Spec => []IInv
<1>1. Init => IInv
  BY SlotsAssumption DEF Init, IInv, TypeOK, HasItem, Fresh, TableSound, ModeUsers, OneFirstPeer,
     OneWaiter, Paired, Procs, Items, Labels, JoinLabels, ModeNone, ModePeer1, ModePeer2
<1>2. IInv /\ [Next]_vars => IInv'
  BY TypeStep, HasItemStep, FreshStep, TableStep, ModeUsersStep, OneFirstPeerStep,
     OneWaiterStep, PairedStep DEF IInv
<1> QED BY <1>1, <1>2, PTL DEF Spec

(* Every variable keeps its type. *)
THEOREM TypeCorrect == Spec => []TypeOK
<1>1. IInv => TypeOK
  BY DEF IInv
<1> QED BY <1>1, Invariance, PTL

(* SlotItem.Mode counts the handlers that were given the item: no slot ever
   has a third one, although Reserve and Delete do not respect the lock or the
   owner of an entry. *)
THEOREM ModeCounts == Spec => []ModeCountsUsers
<1>1. ASSUME IInv PROVE ModeCountsUsers
  <2>1. ASSUME NEW i \in Items PROVE Cardinality(Users(i)) = mode[i]
    <3>1. mode[i] \in {ModeNone, ModePeer1, ModePeer2}
      BY <1>1, <2>1 DEF IInv, TypeOK
    <3>2. CASE mode[i] = ModeNone
      <4>1. Users(i) = {}
        BY <1>1, <3>2 DEF IInv, ModeUsers, Users
      <4> QED BY <3>2, <4>1, FS_EmptySet DEF ModeNone
    <3>3. CASE mode[i] = ModePeer1
      <4>1. PICK a \in Conns : Users(i) = {a}
        BY <1>1, <3>3 DEF IInv, ModeUsers, Users
      <4> QED BY <3>3, <4>1, FS_Singleton DEF ModePeer1
    <3>4. CASE mode[i] = ModePeer2
      <4>1. PICK a, b \in Conns : a # b /\ Users(i) = {a} \cup {b}
        BY <1>1, <3>4 DEF IInv, ModeUsers, Users
      <4>2. IsFiniteSet({a}) /\ Cardinality({a}) = 1 /\ b \notin {a}
        BY <4>1, FS_Singleton
      <4>3. Cardinality({a} \cup {b}) = Cardinality({a}) + 1
        BY <4>2, FS_AddElement, Zenon
      <4> QED BY <3>4, <4>1, <4>2, <4>3 DEF ModePeer2
    <3> QED BY <3>1, <3>2, <3>3, <3>4
  <2> QED BY <1>1, <2>1 DEF ModeCountsUsers, IInv, TableSound
<1> QED BY <1>1, Invariance, PTL

(* The two clients of a slot are never both told to wait for the other. *)
THEOREM FirstPeer == Spec => []OneFirstPeer
<1>1. IInv => OneFirstPeer
  BY DEF IInv
<1> QED BY <1>1, Invariance, PTL

(* The two handlers of a slot are never both at the sending end. *)
THEOREM Waiter == Spec => []OneWaiter
<1>1. IInv => OneWaiter
  BY DEF IInv
<1> QED BY <1>1, Invariance, PTL

(* Handlers are piped together in pairs, each to the other. *)
THEOREM Pairing == Spec => []PairedMutually
<1>1. IInv => PairedMutually
  BY DEF IInv, Paired, PairedMutually
<1> QED BY <1>1, Invariance, PTL
-----------------------------------------------------------------------------
(* What the clients were told. *)

(* A handover is one of the two sends of an exchange between the only two
   handlers of a slot. *)
LEMMA TransferCases ==
  ASSUME IInv, NEW s \in Conns, NEW r \in Conns, Transfer(s, r)
  PROVE  /\ s # r /\ item[s] = item[r] /\ item[s] # None
         /\ rconn' = [rconn EXCEPT ![r] = s] /\ UNCHANGED item
         /\ \A c \in Conns \ {s, r} : pc'[c] = pc[c]
         /\ \/ pc[s] = "wait" /\ pc[r] = "recv" /\ pc'[s] = "await" /\ pc'[r] = "reply"
            \/ /\ pc[s] = "reply" /\ pc[r] = "await" /\ pc'[s] = "relay" /\ pc'[r] = "relay"
               /\ rconn[s] = r
<1> USE DEF IInv, TypeOK, Procs
<1>1. /\ s # r /\ item[s] = item[r] /\ item[s] # None
      /\ pc[s] \in {"wait", "reply"} /\ pc[r] \in {"recv", "await"}
      /\ UNCHANGED item /\ rconn' = [rconn EXCEPT ![r] = s]
      /\ \A c \in Conns \ {s, r} : pc'[c] = pc[c]
      /\ pc'[s] = (IF pc[s] = "wait" THEN "await" ELSE "relay")
      /\ pc'[r] = (IF pc[r] = "recv" THEN "reply" ELSE "relay")
  BY SlotsAssumption DEF Transfer, HasItem, JoinLabels, Items
<1>2. pc[s] = "wait" => pc[r] # "await"
  BY <1>1 DEF OneWaiter
<1>3. ASSUME pc[s] = "reply" PROVE rconn[s] = r /\ pc[r] = "await"
  <2>1. rconn[s] \in Conns \ {s} /\ item[rconn[s]] = item[s] /\ pc[rconn[s]] = "await"
    BY <1>3 DEF Paired
  <2> QED BY <1>1, <2>1, AtMostTwo
<1> QED BY <1>1, <1>2, <1>3

(* A handler that waits, or is about to, had its client told ModePeer1. *)
Waiters ==
  \A c \in Conns :
    /\ pc[c] = "branch" /\ mode[item[c]] = ModePeer1 => told[c] = ModePeer1
    /\ pc[c] \in {"wait", "ping", "await"} => told[c] = ModePeer1

(* Whoever is in the slot of a handler that waits was told ModePeer2. *)
Latecomers ==
  \A c, d \in Conns :
    /\ c # d /\ item[c] = item[d]
    /\ pc[c] \in {"wait", "ping"} /\ pc[d] \in {"branch", "recv"}
    => told[d] = ModePeer2

(* Two handlers that have swapped connections, or are about to. *)
Joined ==
  \A c \in Conns :
    /\ pc[c] = "reply" => told[c] = ModePeer2 /\ told[rconn[c]] = ModePeer1
    /\ pc[c] = "relay" => \/ told[c] = ModePeer1 /\ told[rconn[c]] = ModePeer2
                          \/ told[c] = ModePeer2 /\ told[rconn[c]] = ModePeer1

Roles == Waiters /\ Latecomers /\ Joined

(* A handler that leaves, or goes to ping and back, keeps Roles. *)
LEMMA RolesFrame ==
  ASSUME Roles, UNCHANGED <<item, mode, told, rconn>>,
         NEW c \in Conns, \A d \in Conns \ {c} : pc'[d] = pc[d],
         \/ pc'[c] \in {"alone", "done", "timedout"}
         \/ pc[c] = "wait" /\ pc'[c] = "ping"
         \/ pc[c] = "ping" /\ pc'[c] = "wait"
  PROVE  Roles'
BY DEF Roles, Waiters, Latecomers, Joined

(* Setup does not change a mode back to ModePeer1. *)
LEMMA RolesSetup ==
  ASSUME IInv, Roles, NEW c \in Conns, Setup(c)
  PROVE  Roles'
<1> USE DEF IInv, TypeOK, Procs, Items
<1>1. PICK k \in Keys : SetupNew(c, k) \/ SetupExisting(c, k)
  BY SetupCases
<1>2. /\ pc[c] = "new" /\ pc'[c] = "write" /\ UNCHANGED <<told, rconn>>
      /\ \A d \in Conns \ {c} : pc'[d] = pc[d] /\ item'[d] = item[d]
  BY <1>1, SetupCases DEF SetupNew, SetupExisting
<1>3. ASSUME NEW d \in Conns \ {c}, item[d] \in Items, mode'[item[d]] = ModePeer1
      PROVE  mode[item[d]] = ModePeer1
  <2>1. mode[item[d]] # ModeNone
    BY <1>3 DEF ModeUsers
  <2>2. CASE SetupNew(c, k)
    <3>1. item[d] # c
      BY <1>2, <1>3, <2>1 DEF Fresh
    <3> QED BY <1>3, <2>2, <3>1 DEF SetupNew
  <2>3. CASE SetupExisting(c, k)
    BY <1>3, <2>1, <2>3 DEF SetupExisting, TableSound, ModeNone, ModePeer1, ModePeer2
  <2> QED BY <1>1, <2>2, <2>3
<1>4. \A d \in Conns : pc[d] = "branch" => item[d] \in Items
  BY DEF HasItem, JoinLabels
<1> QED BY <1>2, <1>3, <1>4 DEF Roles, Waiters, Latecomers, Joined

(* A client that is told while its peer waits is told ModePeer2. *)
LEMMA RolesWrite ==
  ASSUME IInv, Roles, NEW c \in Conns, WriteInit(c)
  PROVE  Roles'
<1> USE DEF IInv, TypeOK, Procs, Items
<1>1. /\ pc[c] = "write" /\ pc'[c] = "branch" /\ told'[c] = mode[item[c]]
      /\ \A d \in Conns \ {c} : pc'[d] = pc[d] /\ told'[d] = told[d]
      /\ UNCHANGED <<item, mode, rconn>>
  BY DEF WriteInit, Goto
<1>2. \A d \in Conns : pc[d] \in {"reply", "relay"} => d # c /\ rconn[d] \in Conns \ {c}
  BY <1>1 DEF Paired
<1>3. ASSUME NEW d \in Conns \ {c}, item[d] = item[c] PROVE mode[item[c]] = ModePeer2
  <2>1. item[c] \in Items
    BY <1>1 DEF HasItem, JoinLabels
  <2>2. mode[item[c]] # ModeNone
    BY <2>1 DEF ModeUsers
  <2>3. mode[item[c]] # ModePeer1
    BY <1>3, <2>1, AloneInModePeer1
  <2> QED BY <2>1, <2>2, <2>3
<1>4. Waiters' /\ Latecomers'
  BY <1>1, <1>3 DEF Roles, Waiters, Latecomers
<1>5. Joined'
  BY <1>1, <1>2 DEF Roles, Joined
<1> QED BY <1>4, <1>5 DEF Roles

(* A handler that begins to wait is alone in its slot. *)
LEMMA RolesBranch ==
  ASSUME IInv, Roles, NEW c \in Conns, Branch(c)
  PROVE  Roles'
<1> USE DEF IInv, TypeOK, Procs, Items
<1>1. /\ pc[c] = "branch" /\ pc'[c] = (IF mode[item[c]] = ModePeer1 THEN "wait" ELSE "recv")
      /\ \A d \in Conns \ {c} : pc'[d] = pc[d]
      /\ UNCHANGED <<item, mode, told, rconn>>
  BY DEF Branch, Goto
<1>2. item[c] \in Items
  BY <1>1 DEF HasItem, JoinLabels
<1>3. CASE mode[item[c]] = ModePeer1
  <2>1. told[c] = ModePeer1 /\ pc'[c] = "wait"
    BY <1>1, <1>3 DEF Roles, Waiters
  <2>2. \A d \in Conns \ {c} : item[d] # item[c]
    BY <1>2, <1>3, AloneInModePeer1
  <2>3. Waiters' /\ Joined'
    BY <1>1, <2>1 DEF Roles, Waiters, Joined
  <2>4. Latecomers'
    BY <1>1, <2>1, <2>2 DEF Roles, Latecomers
  <2> QED BY <2>3, <2>4 DEF Roles
<1>4. CASE mode[item[c]] # ModePeer1
  <2>1. pc'[c] = "recv"
    BY <1>1, <1>4
  <2>2. Waiters' /\ Joined'
    BY <1>1, <2>1 DEF Roles, Waiters, Joined
  <2>3. Latecomers'
    BY <1>1, <2>1 DEF Roles, Latecomers
  <2> QED BY <2>2, <2>3 DEF Roles
<1> QED BY <1>3, <1>4

(* A handover joins a client that was told ModePeer1 to one that was not. *)
LEMMA RolesTransfer ==
  ASSUME IInv, Roles, NEW s \in Conns, NEW r \in Conns, Transfer(s, r)
  PROVE  Roles'
<1>1. /\ s # r /\ item[s] = item[r] /\ UNCHANGED <<item, mode, told>>
      /\ \A c \in Conns \ {s, r} : pc'[c] = pc[c] /\ rconn'[c] = rconn[c]
      /\ rconn'[r] = s /\ rconn'[s] = rconn[s]
  <2>1. UNCHANGED <<mode, told>> /\ TypeOK
    BY DEF Transfer, IInv
  <2> QED BY <2>1, TransferCases DEF TypeOK
<1>2. CASE pc[s] = "wait" /\ pc[r] = "recv" /\ pc'[s] = "await" /\ pc'[r] = "reply"
  <2>1. told[s] = ModePeer1 /\ told[r] = ModePeer2
    BY <1>1, <1>2 DEF Roles, Waiters, Latecomers
  <2>2. Waiters' /\ Latecomers'
    BY <1>1, <1>2, <2>1 DEF Roles, Waiters, Latecomers
  <2>3. Joined'
    BY <1>1, <1>2, <2>1 DEF Roles, Joined
  <2> QED BY <2>2, <2>3 DEF Roles
<1>3. CASE pc[s] = "reply" /\ pc[r] = "await" /\ pc'[s] = "relay" /\ pc'[r] = "relay" /\ rconn[s] = r
  <2>1. told[s] = ModePeer2 /\ told[r] = ModePeer1
    BY <1>3 DEF Roles, Joined
  <2>2. Waiters' /\ Latecomers'
    BY <1>1, <1>3, <2>1 DEF Roles, Waiters, Latecomers
  <2>3. Joined'
    BY <1>1, <1>3, <2>1 DEF Roles, Joined
  <2> QED BY <2>2, <2>3 DEF Roles
<1> QED BY <1>2, <1>3, TransferCases

(* Roles is kept by every step. *)
LEMMA RolesStep ==
  ASSUME IInv, Roles, [Next]_vars
  PROVE  Roles'
<1>1. ASSUME NEW c \in Conns, Moves(c) PROVE Roles'
  <2>1. /\ UNCHANGED <<item, mode, told, rconn>>
        /\ \A d \in Conns \ {c} : pc'[d] = pc[d]
        /\ \/ pc'[c] \in {"alone", "done", "timedout"}
           \/ pc[c] = "wait" /\ pc'[c] = "ping"
           \/ pc[c] = "ping" /\ pc'[c] = "wait"
    BY <1>1 DEF IInv, TypeOK, Procs, Goto, Moves, NoMoreSlots, WrongProtocol, WriteInitFails,
         Ping, PingReturns, TimedOut, Leave
  <2> QED BY <2>1, RolesFrame
<1>2. ASSUME NEW c \in Conns, CloseTimedOut(c) PROVE Roles'
  <2>1. /\ UNCHANGED <<item, mode, told, rconn>> /\ pc'[c] = "alone"
        /\ \A d \in Conns \ {c} : pc'[d] = pc[d]
    BY <1>2 DEF IInv, TypeOK, Procs, Goto, CloseTimedOut
  <2> QED BY <2>1, RolesFrame
<1>3. ASSUME NEW c \in Conns, Expire(c) PROVE Roles'
  BY <1>3 DEF Expire, Roles, Waiters, Latecomers, Joined
<1>4. ASSUME NEW r \in Reservers, ReserveFree(r) \/ ReserveFails(r) \/ ReserveStore(r) \/ MapFault(r)
      PROVE  Roles'
  <2>1. (\A c \in Conns : pc'[c] = pc[c]) /\ UNCHANGED <<item, mode, told, rconn>>
    BY <1>4, SlotsAssumption DEF IInv, TypeOK, Procs, Goto, ReserveFree, ReserveFails, ReserveStore, MapFault
  <2> QED BY <2>1 DEF Roles, Waiters, Latecomers, Joined
<1>5. CASE UNCHANGED vars
  BY <1>5 DEF vars, Roles, Waiters, Latecomers, Joined
<1> QED BY <1>1, <1>2, <1>3, <1>4, <1>5, RolesSetup, RolesWrite, RolesBranch, RolesTransfer, NextCases

(* The two clients that are piped together are one of each role. *)
THEOREM RolesCorrect == Spec => []RolesDiffer
<1>1. Init => Roles
  BY SlotsAssumption DEF Init, Roles, Waiters, Latecomers, Joined, Procs
<1>2. IInv /\ Roles /\ [Next]_vars => Roles'
  BY RolesStep
<1>3. Roles => RolesDiffer
  BY DEF Roles, Joined, RolesDiffer
<1> QED BY <1>1, <1>2, <1>3, Invariance, PTL DEF Spec
=============================================================================
