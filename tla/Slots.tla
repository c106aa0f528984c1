-------------------------------- MODULE Slots --------------------------------
(***************************************************************************)
(* The signalling server's rendezvous: the slot table of                   *)
(* cmd/gowormhole/slot.go and the websocket handlers of                    *)
(* cmd/gowormhole/signallingserver.go that meet in it.                     *)
(*                                                                         *)
(* Every websocket connection has a handler goroutine (relay) and every    *)
(* reservation request one of its own (reserveSlotKey).  Handlers share    *)
(* the table and, through the *SlotItem that Setup returns, an unbuffered  *)
(* channel and the field Mode, which they read after the table's lock is   *)
(* released.  An item is named for the process that allocated it, which    *)
(* allocates one at most.                                                  *)
(***************************************************************************)
EXTENDS Naturals, FiniteSets

CONSTANTS Conns,      \* websocket connections, each with its handler
          Reservers,  \* reservation requests, each with its handler
          Keys,       \* slot keys
          Blank,      \* the empty key: a client asks the server for a slot
          None        \* no item, no key, no connection

ASSUME SlotsAssumption ==
  /\ Conns \cap Reservers = {}
  /\ Blank \notin Keys
  /\ None \notin Conns \cup Reservers \cup Keys

Procs == Conns \cup Reservers
Items == Procs

ModeNone  == 0   \* reserved, nobody has connected
ModePeer1 == 1   \* one connection
ModePeer2 == 2   \* two connections

VARIABLES
  slots,    \* Slots.m: the item held under each key
  key,      \* SlotItem.SlotKey of the item each process allocated
  mode,     \* SlotItem.Mode
  pc,       \* where each handler is
  path,     \* slotKey of relay: the key in the URL, Blank when it has none
  item,     \* the item Setup returned to a handler
  told,     \* InitMsg.Mode as written to the client
  rconn,    \* relay's rconn: the connection the handler forwards to
  expired,  \* the handlers whose ctx (slotTimeout) is done
  up        \* the process runs

vars == <<slots, key, mode, pc, path, item, told, rconn, expired, up>>

(* A handler inside joinPeers, from the return of Setup to its own. *)
JoinLabels == {"write", "branch", "wait", "ping", "recv", "await", "reply"}
Labels == JoinLabels \cup {"new", "store", "timedout", "relay", "alone", "done"}

TypeOK ==
  /\ slots \in [Keys -> Items \cup {None}]
  /\ key \in [Procs -> Keys \cup {None}]
  /\ mode \in [Items -> {ModeNone, ModePeer1, ModePeer2}]
  /\ pc \in [Procs -> Labels]
  /\ path \in [Conns -> Keys \cup {Blank}]
  /\ item \in [Conns -> Items \cup {None}]
  /\ told \in [Conns -> {ModeNone, ModePeer1, ModePeer2}]
  /\ rconn \in [Conns -> Conns \cup {None}]
  /\ expired \subseteq Conns
  /\ up \in BOOLEAN

Init ==
  /\ slots = [k \in Keys |-> None]
  /\ key = [p \in Procs |-> None]
  /\ mode = [i \in Items |-> ModeNone]
  /\ pc = [p \in Procs |-> "new"]
  /\ path = [c \in Conns |-> Blank]
  /\ item = [c \in Conns |-> None]
  /\ told = [c \in Conns |-> ModeNone]
  /\ rconn = [c \in Conns |-> None]
  /\ expired = {}
  /\ up = TRUE

Goto(p, label) == pc' = [pc EXCEPT ![p] = label]

-----------------------------------------------------------------------------
(* The slot table. *)

(* free: random tries at ever more digits until one is not in the map. *)
FreeKeys == {k \in Keys : slots[k] = None}

(* free gives up when every try hit a taken key. *)
TriesCanFail == FreeKeys # Keys

(* Mutant: the key found by free is lost (`:=` for `=`). *)
SetupNewShadowed(c, k) ==
  /\ slots[k] = None
  /\ slots' = [slots EXCEPT ![k] = c]
  /\ key' = [key EXCEPT ![c] = path'[c]]
  /\ mode' = [mode EXCEPT ![c] = ModePeer1]
  /\ item' = [item EXCEPT ![c] = c]

(* Setup of a key that is not in the map: the key of the URL, or a free one. *)
SetupNew(c, k) ==
  /\ slots[k] = None
  /\ slots' = [slots EXCEPT ![k] = c]
  /\ key' = [key EXCEPT ![c] = k]
  /\ mode' = [mode EXCEPT ![c] = ModePeer1]
  /\ item' = [item EXCEPT ![c] = c]

(* Mutant: a full slot is left in the table. *)
SetupExistingKeepsEntry(c, k) ==
  LET i == slots[k] IN
  /\ i # None
  /\ item' = [item EXCEPT ![c] = i]
  /\ mode' = [mode EXCEPT ![i] = IF mode[i] = ModeNone THEN ModePeer1 ELSE ModePeer2]
  /\ UNCHANGED <<slots, key>>

(* Mutant: the entry is deleted but Mode is not advanced to ModePeer2. *)
SetupExistingKeepsMode(c, k) ==
  LET i == slots[k] IN
  /\ i # None
  /\ item' = [item EXCEPT ![c] = i]
  /\ mode' = [mode EXCEPT ![i] = ModePeer1]
  /\ slots' = IF mode[i] = ModePeer1 THEN [slots EXCEPT ![k] = None] ELSE slots
  /\ UNCHANGED key

(* Setup of a key in the map: the first connection of a reserved item makes
   it ModePeer1, the second one makes it ModePeer2 and takes it off the map. *)
SetupExisting(c, k) ==
  LET i == slots[k] IN
  /\ i # None
  /\ item' = [item EXCEPT ![c] = i]
  /\ mode' = [mode EXCEPT ![i] = IF mode[i] = ModeNone THEN ModePeer1 ELSE ModePeer2]
  /\ slots' = IF mode[i] = ModePeer1 THEN [slots EXCEPT ![k] = None] ELSE slots
  /\ UNCHANGED key

(* joinPeers up to the return of Setup, which holds the lock throughout. *)
Setup(c) ==
  /\ pc[c] = "new"
  /\ \E p \in Keys \cup {Blank} :
       /\ path' = [path EXCEPT ![c] = p]
       /\ \/ p = Blank /\ \E k \in FreeKeys : SetupNew(c, k)
          \/ p # Blank /\ (SetupNew(c, p) \/ SetupExisting(c, p))
  /\ Goto(c, "write")
  /\ UNCHANGED <<told, rconn, expired, up>>

(* "no more slots available" is not a slotError: relay goes on to its read
   loop, and the client is neither answered nor closed. *)
NoMoreSlots(c) ==
  /\ pc[c] = "new" /\ TriesCanFail
  /\ Goto(c, "alone")
  /\ UNCHANGED <<slots, key, mode, path, item, told, rconn, expired, up>>

(* relay refuses a client of another protocol version before it joins. *)
WrongProtocol(c) ==
  /\ pc[c] = "new"
  /\ Goto(c, "done")
  /\ UNCHANGED <<slots, key, mode, path, item, told, rconn, expired, up>>

(* Reserve takes no lock: free reads the map in one step ... *)
ReserveFree(r) ==
  /\ pc[r] = "new"
  /\ \E k \in FreeKeys : key' = [key EXCEPT ![r] = k]
  /\ Goto(r, "store")
  /\ UNCHANGED <<slots, mode, path, item, told, rconn, expired, up>>

ReserveFails(r) ==
  /\ pc[r] = "new" /\ TriesCanFail
  /\ Goto(r, "done")
  /\ UNCHANGED <<slots, key, mode, path, item, told, rconn, expired, up>>

(* ... and the entry is stored in another, whatever the map holds by then. *)
ReserveStore(r) ==
  /\ pc[r] = "store"
  /\ slots' = [slots EXCEPT ![key[r]] = r]
  /\ Goto(r, "done")
  /\ UNCHANGED <<key, mode, path, item, told, rconn, expired, up>>

(* Go's runtime ends the process when it sees a map written while another
   goroutine reads or writes it, as it may while Reserve is in the map. *)
MapFault(r) ==
  /\ pc[r] = "store"
  /\ \E p \in Procs \ {r} : pc[p] \in {"new", "store", "timedout"}
  /\ up' = FALSE
  /\ UNCHANGED <<slots, key, mode, pc, path, item, told, rconn, expired>>

-----------------------------------------------------------------------------
(* joinPeers after Setup. *)

(* Mutant: a client that names a slot is taken for the second one in it. *)
WriteInitByURL(c) ==
  /\ pc[c] = "write"
  /\ told' = [told EXCEPT ![c] = IF path[c] = Blank THEN ModePeer1 ELSE ModePeer2]
  /\ Goto(c, "branch")
  /\ UNCHANGED <<slots, key, mode, path, item, rconn, expired, up>>

(* slot.Mode is read, without the lock, into the InitMsg the client gets. *)
WriteInit(c) ==
  /\ pc[c] = "write"
  /\ told' = [told EXCEPT ![c] = mode[item[c]]]
  /\ Goto(c, "branch")
  /\ UNCHANGED <<slots, key, mode, path, item, rconn, expired, up>>

(* writeConn fails with a slotError that has no CloseReason: relay neither
   closes the connection nor deletes the entry. *)
WriteInitFails(c) ==
  /\ pc[c] = "write"
  /\ Goto(c, "alone")
  /\ UNCHANGED <<slots, key, mode, path, item, told, rconn, expired, up>>

(* Mutant: the branches of joinPeers are exchanged. *)
BranchSwapped(c) ==
  /\ pc[c] = "branch"
  /\ Goto(c, IF mode[item[c]] = ModePeer1 THEN "recv" ELSE "wait")
  /\ UNCHANGED <<slots, key, mode, path, item, told, rconn, expired, up>>

(* slot.Mode is read again, after the write to the network, to decide which
   end of the channel to take. *)
Branch(c) ==
  /\ pc[c] = "branch"
  /\ Goto(c, IF mode[item[c]] = ModePeer1 THEN "wait" ELSE "recv")
  /\ UNCHANGED <<slots, key, mode, path, item, told, rconn, expired, up>>

(* waitPair's 30 s timer: while Ping blocks, nobody can receive from c. *)
Ping(c) ==
  /\ pc[c] = "wait" /\ c \notin expired
  /\ Goto(c, "ping")
  /\ UNCHANGED <<slots, key, mode, path, item, told, rconn, expired, up>>

PingReturns(c) ==
  /\ pc[c] = "ping"
  /\ Goto(c, "wait")
  /\ UNCHANGED <<slots, key, mode, path, item, told, rconn, expired, up>>

(* Mutant: the receiver does not send its own connection back. *)
TransferNoReply(s, r) ==
  /\ s # r /\ item[s] = item[r]
  /\ pc[s] \in {"wait", "reply"} /\ pc[r] \in {"recv", "await"}
  /\ rconn' = [rconn EXCEPT ![r] = s]
  /\ pc' = [pc EXCEPT ![s] = IF pc[s] = "wait" THEN "await" ELSE "relay", ![r] = "relay"]
  /\ UNCHANGED <<slots, key, mode, path, item, told, expired, up>>

(* A connection passes over the slot's unbuffered channel: s is blocked in
   `sc <- conn` or `slot.C <- conn`, r in one of the two `<-slot.C`. *)
Transfer(s, r) ==
  /\ s # r /\ item[s] = item[r]
  /\ pc[s] \in {"wait", "reply"} /\ pc[r] \in {"recv", "await"}
  /\ rconn' = [rconn EXCEPT ![r] = s]
  /\ pc' = [pc EXCEPT ![s] = IF pc[s] = "wait" THEN "await" ELSE "relay",
                      ![r] = IF pc[r] = "recv" THEN "reply" ELSE "relay"]
  /\ UNCHANGED <<slots, key, mode, path, item, told, expired, up>>

(* slotTimeout passes: the ctx made when the handler started is done. *)
Expire(c) ==
  /\ pc[c] \in JoinLabels /\ c \notin expired
  /\ expired' = expired \cup {c}
  /\ UNCHANGED <<slots, key, mode, pc, path, item, told, rconn, up>>

(* Mutant: only waitPair watches the ctx. *)
TimedOutWaiting(c) ==
  /\ pc[c] = "wait" /\ c \in expired
  /\ Goto(c, "timedout")
  /\ UNCHANGED <<slots, key, mode, path, item, told, rconn, expired, up>>

(* The ctx.Done() cases of waitPair's select and of joinPeers'. *)
TimedOut(c) ==
  /\ pc[c] \in {"wait", "recv"} /\ c \in expired
  /\ Goto(c, "timedout")
  /\ UNCHANGED <<slots, key, mode, path, item, told, rconn, expired, up>>

-----------------------------------------------------------------------------
(* relay after joinPeers. *)

(* relay closes the connection, then deletes the key of the URL: nothing
   when that was blank, and whoever holds it by then otherwise. *)
CloseTimedOut(c) ==
  /\ pc[c] = "timedout"
  /\ slots' = [k \in Keys |-> IF k = path[c] THEN None ELSE slots[k]]
  /\ Goto(c, "alone")
  /\ UNCHANGED <<key, mode, path, item, told, rconn, expired, up>>

(* The read loop ends: at once if it reads anything while rconn is nil. *)
Leave(c) ==
  /\ pc[c] \in {"relay", "alone"}
  /\ Goto(c, "done")
  /\ UNCHANGED <<slots, key, mode, path, item, told, rconn, expired, up>>

-----------------------------------------------------------------------------
(* What the scheduler must let handler c do once it is in joinPeers: Ping is
   sure to return only when its ctx is done. *)
Advance(c) ==
  \/ WriteInit(c) \/ WriteInitFails(c) \/ Branch(c)
  \/ c \in expired /\ PingReturns(c)
  \/ TimedOut(c) \/ CloseTimedOut(c)
  \/ \E d \in Conns : Transfer(c, d) \/ Transfer(d, c)

Enter(c) == Setup(c) \/ NoMoreSlots(c) \/ WrongProtocol(c)

Reserve(r) == ReserveFree(r) \/ ReserveFails(r) \/ ReserveStore(r) \/ MapFault(r)

(* Nothing is left to do, or the process is gone. *)
Stopped == /\ ~up \/ \A p \in Procs : pc[p] = "done"
           /\ UNCHANGED vars

Next ==
  \/ up /\ \E c \in Conns : \/ Enter(c) \/ Advance(c) \/ Leave(c)
                           \/ Ping(c) \/ PingReturns(c) \/ Expire(c)
  \/ up /\ \E r \in Reservers : Reserve(r)
  \/ Stopped

Spec == Init /\ [][Next]_vars

(* Goroutines that can run do run, and slotTimeout is a timer. *)
Fairness == \A c \in Conns : /\ WF_vars(up /\ Advance(c))
                             /\ WF_vars(up /\ Expire(c))

FairSpec == Spec /\ Fairness

-----------------------------------------------------------------------------
(* Properties. *)

Users(i) == {c \in Conns : item[c] = i}

(* SlotItem.Mode is the number of handlers that Setup gave the item to, so a
   slot never has a third one, however Reserve, Setup and Delete interleave;
   and an item that is full is never in the table. *)
ModeCountsUsers ==
  /\ \A i \in Items : Cardinality(Users(i)) = mode[i]
  /\ \A k \in Keys : slots[k] # None => mode[slots[k]] # ModePeer2

(* The two clients of a slot are never both told ModePeer1: at most one of
   them waits for the other's first message, whenever Mode is read. *)
OneFirstPeer ==
  \A c, d \in Conns :
    c # d /\ item[c] = item[d] /\ item[c] # None
      => ~ (told[c] = ModePeer1 /\ told[d] = ModePeer1)

(* Of the two handlers of a slot at most one offers its connection first, so
   they never both wait for the other to receive. *)
OneWaiter ==
  \A c, d \in Conns :
    c # d /\ item[c] = item[d] /\ item[c] # None
      => ~ (pc[c] \in {"wait", "ping", "await"} /\ pc[d] \in {"wait", "ping", "await"})

(* The two `rconn`s of a pair point at each other as soon as the read loops
   run, and a handler that still has to hand over its connection finds the
   partner it received waiting for it: no third party can take it. *)
PairedMutually ==
  \A c \in Conns :
    /\ pc[c] = "relay" => /\ rconn[c] \in Conns \ {c}
                          /\ item[rconn[c]] = item[c]
                          /\ rconn[rconn[c]] = c
    /\ pc[c] = "reply" => /\ rconn[c] \in Conns \ {c}
                          /\ item[rconn[c]] = item[c]
                          /\ pc[rconn[c]] = "await"

(* Of two clients that are piped together one was told ModePeer1 and one
   ModePeer2, so that one offers and the other answers (dial.go:122), although
   each is told before its handler chooses an end of the channel. *)
RolesDiffer ==
  \A c \in Conns : pc[c] = "relay" => {told[c], told[rconn[c]]} = {ModePeer1, ModePeer2}

(* Whom a handler is piped to: the connection it received, or the one that
   received it and has yet to reply. *)
Partner(c) ==
  IF rconn[c] # None THEN rconn[c]
  ELSE IF \E d \in Conns : rconn[d] = c THEN CHOOSE d \in Conns : rconn[d] = c
  ELSE None

Abstract == INSTANCE Rendezvous
              WITH Rooms <- Items, room <- item, partner <- [c \in Conns |-> Partner(c)]

(* The handlers implement the rendezvous: rooms of two, one partner for ever,
   both sides matched at once. *)
RendezvousSpec == Abstract!Spec

(* joinPeers returns: the two channel operations that do not watch ctx
   (signallingserver.go:190 and :201) never keep a handler, and the others
   not beyond slotTimeout. *)
JoinEnds == \A c \in Conns : (pc[c] \in JoinLabels) ~> (~up \/ pc[c] \notin JoinLabels)

(* relay "sets up a rendezvous on a slot" (signallingserver.go:75): the two
   handlers of a slot are never both at the receiving end of its channel. *)
NotBothReceiving ==
  \A c, d \in Conns :
    c # d /\ item[c] = item[d] /\ item[c] # None => ~ (pc[c] = "recv" /\ pc[d] = "recv")

(* slotTimeout "is the maximum amount of time a client is allowed to hold a
   slot" (signallingserver.go:32): once the handler of a client that timed out
   has cleaned up, the table does not hold that client's slot. *)
TimeoutFreesSlot ==
  [][\A c \in Conns : CloseTimedOut(c) => \A k \in Keys : slots'[k] # item[c]]_vars

(* free "assumes slots is locked" (slot.go:112), so that the entry of the
   client that waits under a key is the one a second client will find. *)
WaiterKeepsEntry ==
  \A c \in Conns :
    pc[c] \in {"write", "branch", "wait", "ping"} /\ mode[item[c]] = ModePeer1
      => slots[key[item[c]]] = item[c]
=============================================================================
