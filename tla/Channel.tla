------------------------------- MODULE Channel -------------------------------
(***************************************************************************)
(* An open data channel between two ends, as wormhole/dial.go uses it: the *)
(* Write that waits for a flush on a condition variable, the callback that *)
(* signals it, Read, and the Close that first waits for the buffer.        *)
(*                                                                         *)
(* The channel itself is pion's (SCTP): messages arrive in order, a window *)
(* stops the sender when nobody reads, and an end that closed is noticed   *)
(* by the other one after everything that arrived before was read.  A      *)
(* message is its number.  Who calls Write, Read and Close is in Pipe and  *)
(* TimeoutIO; a goroutine that makes these calls is a routine.             *)
(***************************************************************************)
EXTENDS Naturals, Sequences, FiniteSets

CONSTANTS Load,       \* bound: messages each end has to write
          Threshold,  \* BufferedAmountLowThreshold, in messages
          Window      \* messages that arrive before one is read

Ends == {"a", "b"}
Other(p) == IF p = "a" THEN "b" ELSE "a"
Routines == {1, 2}

ASSUME ChannelAssumption ==
  Load \in [Ends -> Nat] /\ Threshold \in Nat /\ Window \in Nat \ {0}

VARIABLES
  pc,       \* where each routine is
  carries,  \* the message it writes or has read
  holder,   \* the routine that holds flushc.L, or 0
  low,      \* the ends whose OnBufferedAmountLow callback is under way
  buf,      \* written and not acknowledged: BufferedAmount is its length
  inq,      \* arrived and not read
  link,     \* "up", or "cut" once packets stop
  closed,   \* the ends whose Close is done, or whose process is gone
  ended,    \* the ends whose Reads end with io.EOF, after what has arrived
  gaveUp,   \* the ends whose Close did not wait until the buffer was empty
  job,      \* what uses an end: "pipe", or a program that must "send" or "receive"
  main,     \* where that program is
  sent,     \* messages it took from its source
  out       \* messages it gave to its sink

userVars == <<job, main, sent, out>>
dataVars == <<buf, inq, link, closed, ended, gaveUp>>
syncVars == <<holder, low>>
channelVars == <<pc, carries, syncVars, dataVars>>

Numbers == 0 .. (Load["a"] + Load["b"])

(* A routine is in Write (lock .. write), in Read, or has an outcome. *)
InWrite == {"lock", "park", "waiting", "write"}
Outcomes == {"ok", "eof", "err"}

ChannelInit ==
  /\ sent = [p \in Ends |-> 0] /\ out = [p \in Ends |-> <<>>]
  /\ carries = [p \in Ends |-> [i \in Routines |-> 0]]
  /\ holder = [p \in Ends |-> 0] /\ low = {}
  /\ buf = [p \in Ends |-> <<>>] /\ inq = [p \in Ends |-> <<>>]
  /\ link = "up" /\ closed = {} /\ gaveUp = {}
  /\ ended = {}

Goto(p, i, label) == pc' = [pc EXCEPT ![p][i] = label]

-----------------------------------------------------------------------------
(* Write. *)

(* flushc.L.Lock(), on entry and again when Wait has been woken, and the
   condition of the loop; the lock is kept on the way to Wait. *)
Lock(p, i) ==
  /\ pc[p][i] = "lock" /\ holder[p] = 0
  /\ IF Len(buf[p]) > Threshold
       THEN Goto(p, i, "park") /\ holder' = [holder EXCEPT ![p] = i]
       ELSE Goto(p, i, "write") /\ UNCHANGED holder
  /\ UNCHANGED <<carries, low, dataVars, userVars>>

(* flushc.Wait() up to its sleep: listed as a waiter, then unlocked. *)
Park(p, i) ==
  /\ pc[p][i] = "park"
  /\ Goto(p, i, "waiting")
  /\ holder' = [holder EXCEPT ![p] = 0]
  /\ UNCHANGED <<carries, low, dataVars, userVars>>

Waiting(p) == {i \in Routines : pc[p][i] = "waiting"}

(* Wakes one waiter, if there is one. *)
Signal(p) ==
  IF Waiting(p) = {} THEN UNCHANGED pc ELSE \E i \in Waiting(p) : Goto(p, i, "lock")

(* Mutant: flushed does not take the lock. *)
FlushedUnlocked(p) ==
  /\ p \in low /\ low' = low \ {p}
  /\ Signal(p)
  /\ UNCHANGED <<carries, holder, dataVars, userVars>>

(* The callback: lock, Signal, unlock. *)
Flushed(p) ==
  /\ p \in low /\ holder[p] = 0 /\ low' = low \ {p}
  /\ Signal(p)
  /\ UNCHANGED <<carries, holder, dataVars, userVars>>

(* rwc.Write: buffered, or an error once this end knows of the channel's end. *)
Put(p, i) ==
  /\ pc[p][i] = "write"
  /\ \/ /\ p \notin closed
        /\ buf' = [buf EXCEPT ![p] = Append(@, carries[p][i])]
        /\ Goto(p, i, "ok")
     \/ /\ p \in closed \cup ended \/ link = "cut"
        /\ Goto(p, i, "err")
        /\ UNCHANGED buf
  /\ UNCHANGED <<carries, syncVars, inq, link, closed, ended, gaveUp, userVars>>

-----------------------------------------------------------------------------
(* Read. *)

(* rwc.Read returns a message that has arrived ... *)
Take(p, i) ==
  /\ pc[p][i] = "read" /\ inq[p] # <<>>
  /\ inq' = [inq EXCEPT ![p] = Tail(@)]
  /\ carries' = [carries EXCEPT ![p][i] = Head(inq[p])]
  /\ Goto(p, i, "ok")
  /\ UNCHANGED <<syncVars, buf, link, closed, ended, gaveUp, userVars>>

(* ... and after the last one, how the channel ended. *)
ReadEnds(p, i) ==
  /\ pc[p][i] = "read" /\ inq[p] = <<>>
  /\ \/ p \in ended /\ Goto(p, i, "eof")
     \/ (p \in closed \/ link = "cut") /\ Goto(p, i, "err")
  /\ UNCHANGED <<carries, syncVars, dataVars, userVars>>

-----------------------------------------------------------------------------
(* The channel. *)

(* A message arrives and is acknowledged; the callback is called when that
   takes the buffered amount from above the threshold down to it. *)
Deliver(p) ==
  LET q == Other(p) IN
  /\ link = "up" /\ closed = {}
  /\ buf[p] # <<>> /\ Len(inq[q]) < Window
  /\ buf' = [buf EXCEPT ![p] = Tail(@)]
  /\ inq' = [inq EXCEPT ![q] = Append(@, Head(buf[p]))]
  /\ low' = IF Len(buf[p]) = Threshold + 1 THEN low \cup {p} ELSE low
  /\ UNCHANGED <<pc, carries, holder, link, closed, ended, gaveUp, userVars>>

(* Packets stop.  A Read or a Write may then fail, or never hear of it. *)
Break ==
  /\ link = "up" /\ link' = "cut"
  /\ UNCHANGED <<pc, carries, syncVars, buf, inq, closed, ended, gaveUp, userVars>>

(* Mutant: Close does not wait for the buffer. *)
CloseAtOnce(p) ==
  /\ closed' = closed \cup {p}
  /\ UNCHANGED gaveUp
  /\ ended' = IF link = "up" THEN ended \cup {Other(p)} ELSE ended
  /\ UNCHANGED <<carries, syncVars, buf, inq, link>>

(* Close, when the buffer is empty or CloseTimeout is over: the other end
   reads the end of the channel, unless packets do not reach it. *)
CloseChannel(p) ==
  /\ closed' = closed \cup {p}
  /\ gaveUp' = IF buf[p] = <<>> THEN gaveUp ELSE gaveUp \cup {p}
  /\ ended' = IF link = "up" THEN ended \cup {Other(p)} ELSE ended
  /\ UNCHANGED <<carries, syncVars, buf, inq, link>>

(* Steps of a routine that is inside Write or Read. *)
Routine(p, i) ==
  \/ Lock(p, i) \/ Park(p, i) \/ Put(p, i)
  \/ Take(p, i) \/ ReadEnds(p, i)

Network(p) == Flushed(p) \/ Deliver(p)
=============================================================================
