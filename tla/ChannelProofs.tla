----------------------------- MODULE ChannelProofs -----------------------------
(***************************************************************************)
(* The safety of ChannelUse, for any number of messages, any threshold of  *)
(* the buffer and any window.                                              *)
(*                                                                         *)
(* A message is its number, so what is said of the order of messages is    *)
(* said by counting: each place of the way from one program to the other   *)
(* holds the numbers that follow those of the place before it.             *)
(***************************************************************************)
EXTENDS ChannelUse, FiniteSetTheorems, TLAPS

-----------------------------------------------------------------------------
(* What the routines of an end are for. *)

Writes(p, i) == job[p] = "send" \/ (job[p] = "pipe" /\ i = 1)
Reads(p, i) == job[p] = "receive" \/ (job[p] = "pipe" /\ i = 2)

Labels == InWrite \cup Outcomes \cup
  {"stdin", "read", "done", "gone", "idle", "nil", "io.EOF", "failure", "returned"}

StdinLabels == InWrite \cup {"stdin", "ok", "err", "done"}
StdoutLabels == {"read", "ok", "eof", "err", "done"}
Stored == {"nil", "io.EOF", "failure"}
SendLabels == InWrite \cup {"idle", "ok", "err", "nil", "failure", "returned"}
ReceiveLabels == {"read", "idle", "returned"} \cup Outcomes \cup Stored

-----------------------------------------------------------------------------
(* The inductive invariant, in named parts: first the control of one end. *)

Types ==
  /\ job \in Jobs
  /\ pc \in [Ends -> [Routines -> Labels]]
  /\ carries \in [Ends -> [Routines -> Numbers]]
  /\ holder \in [Ends -> Routines \cup {0}] /\ low \subseteq Ends
  /\ buf \in [Ends -> Seq(Numbers)] /\ inq \in [Ends -> Seq(Numbers)]
  /\ link \in {"up", "cut"} /\ closed \subseteq Ends /\ ended \subseteq Ends /\ gaveUp \subseteq Ends
  /\ main \in [Ends -> {"wait", "next", "select", "timedOut", "got", "closing", "exited", "fatal"}]
  /\ sent \in [Ends -> Nat] /\ (\A p \in Ends : sent[p] <= Load[p])
  /\ out \in [Ends -> Seq(Numbers)]
  /\ first \in [Ends -> Routines \cup {0}]
  /\ call \in [Ends -> Routines \cup {0}] /\ expired \subseteq Ends
  /\ retN \in [Ends -> {0, 1}]
  /\ retErr \in [Ends -> {"nil", "io.EOF", "failure", "ErrTimeout"}]

(* A pipe: its routines are where they belong until the process is gone, and
   what made main leave has ended. *)
PipeEnd(p) ==
  /\ call[p] = 0 /\ p \notin expired
  /\ main[p] \in {"wait", "closing", "exited", "fatal"}
  /\ main[p] = "wait" => first[p] = 0
  /\ main[p] = "fatal" => link = "cut"
  /\ p \in closed <=> main[p] \in {"exited", "fatal"}
  /\ p \in closed => \A i \in Routines : pc[p][i] = "gone"
  /\ p \notin closed => /\ pc[p][1] \in StdinLabels /\ pc[p][2] \in StdoutLabels
                        /\ first[p] # 0 => pc[p][first[p]] = "done"

(* A caller behind timeouts: one goroutine at most is alive beside it, the one
   of its call, or the one that a call left behind when the program was about
   to close. *)
Calling(p) == main[p] \in {"select", "timedOut", "got"}

CallEnd(p) ==
  /\ first[p] = 0
  /\ main[p] \in {"next", "select", "timedOut", "got", "closing", "exited"}
  /\ p \in closed <=> main[p] = "exited"
  /\ call[p] # 0 <=> Calling(p)
  /\ \A i \in Routines :
       /\ pc[p][i] \in IF job[p] = "send" THEN SendLabels ELSE ReceiveLabels
       /\ i = call[p] => pc[p][i] # "idle"
       /\ pc[p][i] # "idle" => i = call[p] \/ (main[p] \in {"closing", "exited"} /\ p \in expired)
       /\ pc[p][i] = "returned" => i = call[p]
  /\ \A i, j \in Routines : pc[p][i] # "idle" /\ pc[p][j] # "idle" => i = j

(* The named results n and err.  As long as no timer ended a call they are what
   its goroutine stored; err is nil only when the goroutine stored it last. *)
Results(p) ==
  /\ main[p] = "timedOut" => p \in expired
  /\ main[p] = "got" /\ (p \notin expired \/ retErr[p] = "nil") => pc[p][call[p]] = "returned"
  /\ main[p] \in {"select", "got"} /\ (p \notin expired \/ main[p] = "select") =>
       LET at == pc[p][call[p]] IN
       /\ at \in Stored => (retN[p] = 1 <=> at = "nil")
       /\ at = "returned" => (retN[p] = 1 <=> retErr[p] = "nil")
  /\ ~Calling(p) => retN[p] = 0

EndOK(p) == IF job[p] = "pipe" THEN PipeEnd(p) ELSE CallEnd(p) /\ Results(p)

(* The condition variable. *)
SyncOK(p) ==
  /\ \A i \in Routines : pc[p][i] = "park" => holder[p] = i
  /\ \A i \in Routines : pc[p][i] \in {"park", "waiting"} => Len(buf[p]) > Threshold \/ p \in low

(* The end of the channel. *)
ClosedOK(p) ==
  /\ p \in ended => Other(p) \in closed
  /\ p \in closed /\ link = "up" /\ p \notin gaveUp => buf[p] = <<>>

-----------------------------------------------------------------------------
(* Then the messages on their way to end p. *)

(* Routine i of p has read a message that p has not handed on. *)
Holding(p, i) ==
  Reads(p, i) /\ (pc[p][i] \in {"ok", "nil"} \/ (pc[p][i] = "returned" /\ retN[p] = 1))

Held(p) == IF \E i \in Routines : Holding(p, i) THEN 1 ELSE 0

Base(p) == Len(out[p]) + Held(p)
Total(p) == Base(p) + Len(inq[p]) + Len(buf[Other(p)])

(* All that end q took from its source is on its way. *)
AllWritten(q) ==
  \/ job[q] = "pipe" /\ (pc[q][1] \in {"stdin", "ok", "done"} \/ first[q] = 1)
  \/ job[q] = "send" /\ \/ main[q] = "next" \/ retN[q] = 1
                        \/ \E i \in Routines : pc[q][i] \in {"ok", "nil"}

OutOK(p) ==
  /\ Len(out[p]) <= sent[Other(p)]
  /\ \A k \in 1 .. Len(out[p]) : out[p][k] = k

OnTheWay(p) ==
  /\ Total(p) <= sent[Other(p)]
  /\ \A i \in Routines : Holding(p, i) => carries[p][i] = Base(p)
  /\ \A k \in 1 .. Len(inq[p]) : inq[p][k] = Base(p) + k
  /\ \A k \in 1 .. Len(buf[Other(p)]) : buf[Other(p)][k] = Base(p) + Len(inq[p]) + k
  /\ \A i \in Routines : pc[Other(p)][i] \in InWrite =>
       carries[Other(p)][i] = Total(p) + 1 /\ sent[Other(p)] = Total(p) + 1
  /\ AllWritten(Other(p)) => sent[Other(p)] = Total(p)

Stream(p) == p \notin expired => OutOK(p) /\ (p \notin closed => OnTheWay(p))

(* An end of a pipe that saw the channel end has read all that there was. *)
SawEnd(p) ==
  job[p] = "pipe" /\ (pc[p][2] = "eof" \/ (p \notin closed /\ pc[p][2] = "done") \/ first[p] = 2)
    => p \in ended /\ inq[p] = <<>>

AllRead(p) ==
  job[p] = "pipe" /\ first[p] = 2 /\ first[Other(p)] = 1
  /\ link = "up" /\ Other(p) \notin gaveUp
    => Len(out[p]) = sent[Other(p)]

IInv ==
  Types /\ \A p \in Ends :
    EndOK(p) /\ SyncOK(p) /\ ClosedOK(p) /\ Stream(p) /\ SawEnd(p) /\ AllRead(p)

-----------------------------------------------------------------------------
(* The two ends, and the routines. *)

LEMMA TwoEnds ==
  \A p \in Ends :
    /\ Other(p) \in Ends /\ Other(p) # p /\ Other(Other(p)) = p
    /\ \A q \in Ends : q = p \/ q = Other(p)
BY DEF Ends, Other

(* Both ends do the same job, or one sends and the other receives. *)
LEMMA JobFacts ==
  ASSUME Types, NEW p \in Ends
  PROVE  /\ job[p] \in {"pipe", "send", "receive"}
         /\ job[p] = "pipe" <=> job[Other(p)] = "pipe"
         /\ job[p] = "send" <=> job[Other(p)] = "receive"
BY DEF Types, Jobs, Ends, Other

(* Of two things said of routines, one is of routine i and one of the others. *)
LEMMA OtherRoutine == \A i, j, k \in Routines : i # j => k = i \/ k = j
BY DEF Routines

(* One routine's value changes, and no other one's. *)
LEMMA Nested ==
  ASSUME NEW S, NEW f \in [Ends -> [Routines -> S]], NEW p \in Ends, NEW i \in Routines,
         NEW v \in S, NEW g, g = [f EXCEPT ![p][i] = v]
  PROVE  /\ g \in [Ends -> [Routines -> S]]
         /\ g[p][i] = v
         /\ \A j \in Routines : j # i => g[p][j] = f[p][j]
         /\ \A q \in Ends : q # p => g[q] = f[q]
<1>1. g = [f EXCEPT ![p] = [f[p] EXCEPT ![i] = v]]
  OBVIOUS
<1>2. f[p] \in [Routines -> S] /\ [f[p] EXCEPT ![i] = v] \in [Routines -> S]
  OBVIOUS
<1>3. g \in [Ends -> [Routines -> S]] /\ g[p] = [f[p] EXCEPT ![i] = v]
  BY <1>1, <1>2
<1>4. \A q \in Ends : q # p => g[q] = f[q]
  BY <1>1
<1> QED BY <1>2, <1>3, <1>4

(* A routine goes to a label. *)
LEMMA GotoIs ==
  ASSUME Types, NEW p \in Ends, NEW i \in Routines, NEW l \in Labels, Goto(p, i, l)
  PROVE  /\ pc' \in [Ends -> [Routines -> Labels]]
         /\ pc'[p][i] = l
         /\ \A j \in Routines : j # i => pc'[p][j] = pc[p][j]
         /\ \A q \in Ends : q # p => pc'[q] = pc[q]
BY Nested DEF Types, Goto

(* It gets another message. *)
LEMMA CarriesIs ==
  ASSUME Types, NEW p \in Ends, NEW i \in Routines, NEW n \in Numbers,
         carries' = [carries EXCEPT ![p][i] = n]
  PROVE  /\ carries' \in [Ends -> [Routines -> Numbers]]
         /\ carries'[p][i] = n
         /\ \A j \in Routines : j # i => carries'[p][j] = carries[p][j]
         /\ \A q \in Ends : q # p => carries'[q] = carries[q]
BY Nested DEF Types

(* Messages are added at one side of a queue and taken at the other. *)
LEMMA QueueFacts ==
  ASSUME NEW S, NEW s \in Seq(S)
  PROVE  /\ Len(s) \in Nat
         /\ \A e \in S : /\ Append(s, e) \in Seq(S) /\ Len(Append(s, e)) = Len(s) + 1
                         /\ \A k \in 1 .. Len(s) : Append(s, e)[k] = s[k]
                         /\ Append(s, e)[Len(s) + 1] = e
         /\ s # <<>> => /\ Head(s) \in S /\ Head(s) = s[1] /\ Len(s) > 0
                        /\ Tail(s) \in Seq(S) /\ Len(Tail(s)) = Len(s) - 1
                        /\ \A k \in 1 .. Len(s) - 1 : Tail(s)[k] = s[k + 1]
         /\ s = <<>> <=> Len(s) = 0
OBVIOUS

(* Numbers are enough for the messages of an end. *)
LEMMA NumberFacts ==
  /\ Numbers \subseteq Nat /\ 0 \in Numbers
  /\ \A p \in Ends : Load[p] \in Nat
  /\ \A p \in Ends : \A n \in 0 .. Load[p] : n \in Numbers
  /\ Threshold \in Nat
BY ChannelAssumption DEF Numbers, Ends

-----------------------------------------------------------------------------
(* Types stays true. *)

(* The first store of a goroutine, by what its Read or Write came to. *)
Stores(at) == IF at = "ok" THEN "nil" ELSE IF at = "eof" THEN "io.EOF" ELSE "failure"

LEMMA StoreNIs ==
  ASSUME NEW p, NEW i, StoreN(p, i)
  PROVE  /\ call[p] = i /\ pc[p][i] \in Outcomes
         /\ retN' = [retN EXCEPT ![p] = IF pc[p][i] = "ok" THEN 1 ELSE 0]
         /\ Goto(p, i, Stores(pc[p][i])) /\ Stores(pc[p][i]) \in Stored
         /\ UNCHANGED <<carries, holder, low, buf, inq, link, closed, ended, gaveUp,
                        job, main, sent, out, call, retErr, expired>>
<1> DEFINE at == pc[p][i]
           label == CASE at = "ok" -> "nil" [] at = "eof" -> "io.EOF" [] at = "err" -> "failure"
<1>1. at \in Outcomes /\ Goto(p, i, label)
  BY Zenon DEF StoreN
<1>2. at = "ok" \/ at = "eof" \/ at = "err"
  BY <1>1 DEF Outcomes
<1>3. label = Stores(at)
  BY <1>2, Zenon DEF Stores
<1>4. Stores(at) \in Stored
  BY DEF Stores, Stored
<1>5. Goto(p, i, Stores(at))
  BY <1>1, <1>3, Zenon
<1>6. /\ call[p] = i
      /\ retN' = [retN EXCEPT ![p] = IF pc[p][i] = "ok" THEN 1 ELSE 0]
      /\ UNCHANGED <<carries, syncVars, dataVars, userVars, call, retErr, expired>>
  BY Zenon DEF StoreN
<1> QED BY <1>1, <1>4, <1>5, <1>6 DEF syncVars, dataVars, userVars

LEMMA RoutineTypes ==
  ASSUME IInv, NEW p \in Ends, NEW i \in Routines, OfRoutine(p, i)
  PROVE  Types'
<1> Types
  BY DEF IInv
<1> USE DEF vars, channelVars, userVars, callVars, syncVars, dataVars, Routine
<1>1. CASE Lock(p, i) /\ UNCHANGED <<first, callVars>>
  <2>1. pc' \in [Ends -> [Routines -> Labels]]
    BY <1>1, GotoIs DEF Lock, Labels, InWrite
  <2> QED BY <1>1, <2>1 DEF Lock, Types
<1>2. CASE Park(p, i) /\ UNCHANGED <<first, callVars>>
  <2>1. pc' \in [Ends -> [Routines -> Labels]]
    BY <1>2, GotoIs DEF Park, Labels, InWrite
  <2> QED BY <1>2, <2>1 DEF Park, Types
<1>3. CASE Put(p, i) /\ UNCHANGED <<first, callVars>>
  <2>1. pc' \in [Ends -> [Routines -> Labels]]
    BY <1>3, GotoIs DEF Put, Labels, Outcomes
  <2>2. carries[p][i] \in Numbers /\ buf[p] \in Seq(Numbers)
    BY DEF Types
  <2>3. Append(buf[p], carries[p][i]) \in Seq(Numbers)
    BY <2>2, QueueFacts
  <2>4. buf' \in [Ends -> Seq(Numbers)]
    BY <1>3, <2>3 DEF Put, Types
  <2> QED BY <1>3, <2>1, <2>4 DEF Put, Types
<1>4. CASE Take(p, i) /\ UNCHANGED <<first, callVars>>
  <2>1. pc' \in [Ends -> [Routines -> Labels]]
    BY <1>4, GotoIs DEF Take, Labels, Outcomes
  <2>2. Head(inq[p]) \in Numbers /\ Tail(inq[p]) \in Seq(Numbers)
    BY <1>4, QueueFacts DEF Types, Take
  <2>3. carries' \in [Ends -> [Routines -> Numbers]]
    BY <1>4, <2>2, CarriesIs DEF Take
  <2> QED BY <1>4, <2>1, <2>2, <2>3 DEF Take, Types
<1>5. CASE ReadEnds(p, i) /\ UNCHANGED <<first, callVars>>
  <2>1. pc' \in [Ends -> [Routines -> Labels]]
    BY <1>5, GotoIs DEF ReadEnds, Labels, Outcomes
  <2> QED BY <1>5, <2>1 DEF ReadEnds, Types
<1>6. CASE StoreN(p, i) /\ UNCHANGED first
  <2>1. Stores(pc[p][i]) \in Labels
    BY <1>6, StoreNIs DEF Labels, Stored
  <2>2. pc' \in [Ends -> [Routines -> Labels]]
    BY <1>6, <2>1, StoreNIs, GotoIs
  <2>3. retN' \in [Ends -> {0, 1}]
    BY <1>6, StoreNIs DEF Types
  <2> QED BY <1>6, <2>2, <2>3, StoreNIs DEF Types
<1>7. CASE StoreErr(p, i) /\ UNCHANGED first
  <2>1. pc' \in [Ends -> [Routines -> Labels]]
    BY <1>7, GotoIs DEF StoreErr, Labels
  <2> QED BY <1>7, <2>1 DEF StoreErr, Types
<1>8. CASE AbandonedEnds(p, i) /\ UNCHANGED first
  <2>1. pc' \in [Ends -> [Routines -> Labels]]
    BY <1>8, GotoIs DEF AbandonedEnds, Labels
  <2>2. carries' \in [Ends -> [Routines -> Numbers]]
    BY <1>8, NumberFacts, CarriesIs DEF AbandonedEnds
  <2> QED BY <1>8, <2>1, <2>2 DEF AbandonedEnds, Types
<1> QED BY <1>1, <1>2, <1>3, <1>4, <1>5, <1>6, <1>7, <1>8 DEF OfRoutine

LEMMA NetworkTypes ==
  ASSUME IInv, NEW p \in Ends, OfNetwork(p)
  PROVE  Types'
<1> Types /\ Other(p) \in Ends
  BY TwoEnds DEF IInv
<1> USE DEF vars, channelVars, userVars, callVars, syncVars, dataVars
<1>1. CASE Flushed(p) /\ UNCHANGED <<first, callVars>>
  <2>1. pc' \in [Ends -> [Routines -> Labels]]
    BY <1>1, GotoIs DEF Flushed, Signal, Waiting, Labels, InWrite, Types
  <2> QED BY <1>1, <2>1 DEF Flushed, Types
<1>2. CASE Deliver(p) /\ UNCHANGED <<first, callVars>>
  <2>1. buf[p] \in Seq(Numbers) /\ inq[Other(p)] \in Seq(Numbers) /\ buf[p] # <<>>
    BY <1>2 DEF Types, Deliver
  <2>2. Head(buf[p]) \in Numbers /\ Tail(buf[p]) \in Seq(Numbers)
    BY <2>1, QueueFacts
  <2>3. Append(inq[Other(p)], Head(buf[p])) \in Seq(Numbers)
    BY <2>1, <2>2, QueueFacts
  <2> QED BY <1>2, <2>2, <2>3 DEF Deliver, Types
<1> QED BY <1>1, <1>2 DEF OfNetwork, Network

LEMMA FatalTypes ==
  ASSUME Types, NEW p \in Ends, Fatal(p), UNCHANGED callVars
  PROVE  Types'
<1>1. pc' \in [Ends -> [Routines -> Labels]]
  BY DEF Fatal, Types, Labels
<1> QED BY <1>1 DEF Fatal, Types, syncVars, callVars

LEMMA ReadStdinTypes ==
  ASSUME Types, NEW p \in Ends, ReadStdin(p), UNCHANGED callVars
  PROVE  Types'
<1> USE DEF callVars, syncVars, dataVars
<1>1. 1 \in Routines
  BY DEF Routines
<1>2. pc' \in [Ends -> [Routines -> Labels]]
  BY <1>1, GotoIs DEF ReadStdin, Labels, InWrite
<1>3. CASE sent[p] < Load[p] /\ sent' = [sent EXCEPT ![p] = @ + 1]
           /\ carries' = [carries EXCEPT ![p][1] = sent[p] + 1]
  <2>1. sent[p] \in Nat /\ Load[p] \in Nat /\ sent[p] + 1 \in Numbers
    BY <1>3, NumberFacts DEF Types
  <2>2. carries' \in [Ends -> [Routines -> Numbers]]
    BY <1>1, <1>3, <2>1, CarriesIs
  <2>3. sent' \in [Ends -> Nat] /\ \A q \in Ends : sent'[q] <= Load[q]
    BY <1>3, <2>1 DEF Types
  <2> QED BY <1>2, <2>2, <2>3 DEF ReadStdin, Types
<1>4. CASE UNCHANGED <<sent, carries>>
  BY <1>2, <1>4 DEF ReadStdin, Types
<1> QED BY <1>3, <1>4 DEF ReadStdin

LEMMA ProgramTypes ==
  ASSUME IInv, NEW p \in Ends, OfProgram(p)
  PROVE  Types'
<1> Types
  BY DEF IInv
<1>0. 1 \in Routines /\ 2 \in Routines
  BY DEF Routines
<1> USE DEF vars, channelVars, userVars, callVars, syncVars, dataVars
<1>1. CASE StdinCopied(p) /\ UNCHANGED callVars
  <2>1. CASE pc[p][1] = "ok"
    <3>1. pc' \in [Ends -> [Routines -> Labels]]
      BY <1>0, <1>1, <2>1, GotoIs DEF StdinCopied, Labels
    <3> QED BY <1>1, <2>1, <3>1 DEF StdinCopied, Types
  <2> QED BY <1>1, <2>1, FatalTypes DEF StdinCopied
<1>2. CASE WriteStdout(p) /\ UNCHANGED callVars
  <2>1. CASE pc[p][2] = "ok"
    <3>1. pc' \in [Ends -> [Routines -> Labels]]
      BY <1>0, <1>2, <2>1, GotoIs DEF WriteStdout, Labels
    <3>2. Append(out[p], carries[p][2]) \in Seq(Numbers)
      BY <1>0, QueueFacts DEF Types
    <3>3. out' \in [Ends -> Seq(Numbers)]
      BY <1>2, <2>1, <3>2 DEF WriteStdout, Types
    <3> QED BY <1>2, <2>1, <3>1, <3>3 DEF WriteStdout, Types
  <2>2. CASE pc[p][2] = "eof"
    <3>1. pc' \in [Ends -> [Routines -> Labels]]
      BY <1>0, <1>2, <2>2, GotoIs DEF WriteStdout, Labels
    <3> QED BY <1>2, <2>2, <3>1 DEF WriteStdout, Types
  <2>3. CASE Fatal(p)
    BY <1>2, <2>3, FatalTypes
  <2> QED BY <1>2, <2>1, <2>2, <2>3 DEF WriteStdout
<1>3. CASE MainDone(p) /\ UNCHANGED callVars
  BY <1>3 DEF MainDone, Types
<1>4. CASE PipeCloses(p) /\ UNCHANGED callVars
  <2>1. pc' \in [Ends -> [Routines -> Labels]]
    BY <1>4 DEF PipeCloses, Types, Labels
  <2>2. closed' \subseteq Ends /\ ended' \subseteq Ends /\ gaveUp' \subseteq Ends
    BY <1>4, TwoEnds DEF PipeCloses, CloseChannel, Types
  <2>3. main' \in [Ends -> {"wait", "next", "select", "timedOut", "got", "closing", "exited", "fatal"}]
    BY <1>4 DEF PipeCloses, Types
  <2> QED BY <1>4, <2>1, <2>2, <2>3 DEF PipeCloses, CloseChannel, Types
<1>5. CASE Call(p) /\ UNCHANGED first
  <2>1. CASE job[p] = "send" /\ sent[p] = Load[p]
    BY <1>5, <2>1 DEF Call, Types
  <2>2. CASE ~(job[p] = "send" /\ sent[p] = Load[p])
    <3>1. PICK i \in Idle(p) :
            /\ call' = [call EXCEPT ![p] = i]
            /\ main' = [main EXCEPT ![p] = "select"]
            /\ IF job[p] = "send"
                 THEN /\ sent' = [sent EXCEPT ![p] = @ + 1]
                      /\ carries' = [carries EXCEPT ![p][i] = sent[p] + 1]
                      /\ Goto(p, i, "lock")
                 ELSE Goto(p, i, "read") /\ UNCHANGED <<sent, carries>>
            /\ UNCHANGED <<retN, retErr, expired>>
      BY <1>5, <2>2 DEF Call
    <3>2. i \in Routines
      BY DEF Idle
    <3>3. pc' \in [Ends -> [Routines -> Labels]]
      BY <3>1, <3>2, GotoIs DEF Labels, InWrite
    <3>4. CASE job[p] = "send"
      <4>1. sent[p] \in Nat /\ Load[p] \in Nat /\ sent[p] < Load[p] /\ sent[p] + 1 \in Numbers
        BY <2>2, <3>4, NumberFacts DEF Types
      <4>2. carries' \in [Ends -> [Routines -> Numbers]]
        BY <3>1, <3>2, <3>4, <4>1, CarriesIs
      <4>3. sent' = [sent EXCEPT ![p] = @ + 1]
        BY <3>1, <3>4
      <4>4. sent' \in [Ends -> Nat] /\ \A q \in Ends : sent'[q] <= Load[q]
        BY <4>1, <4>3 DEF Types
      <4> QED BY <1>5, <3>1, <3>2, <3>3, <4>2, <4>4 DEF Call, Types
    <3> QED BY <1>5, <3>1, <3>2, <3>3, <3>4 DEF Call, Types
  <2> QED BY <2>1, <2>2
<1>6. CASE SelectDone(p) /\ UNCHANGED first
  BY <1>6 DEF SelectDone, Types
<1>7. CASE SetTimeout(p) /\ UNCHANGED first
  BY <1>7 DEF SetTimeout, Types
<1>8. CASE CallReturns(p) /\ UNCHANGED first
  <2>1. call[p] \in Routines /\ call[p] # 0
    <3>1. main[p] = "got" /\ EndOK(p)
      BY <1>8 DEF CallReturns, IInv
    <3>2. call[p] # 0
      BY <3>1 DEF EndOK, PipeEnd, CallEnd, Calling
    <3> QED BY <3>2 DEF Types
  <2>2. pc' \in [Ends -> [Routines -> Labels]]
    BY <1>8, <2>1, Nested DEF CallReturns, Types, Labels
  <2>3. carries' \in [Ends -> [Routines -> Numbers]]
    BY <1>8, <2>1, Nested, NumberFacts DEF CallReturns, Types
  <2>4. Append(out[p], carries[p][call[p]]) \in Seq(Numbers)
    BY <2>1, QueueFacts DEF Types
  <2> QED BY <1>8, <2>2, <2>3, <2>4 DEF CallReturns, Types
<1>9. CASE CallerCloses(p) /\ UNCHANGED first
  BY <1>9, TwoEnds DEF CallerCloses, CloseChannel, Types
<1> QED BY <1>1, <1>2, <1>3, <1>4, <1>5, <1>6, <1>7, <1>8, <1>9
       DEF OfProgram, PipeStep, CallStep

LEMMA TypesStep ==
  ASSUME IInv, Next
  PROVE  Types'
<1> Types
  BY DEF IInv
<1>1. ASSUME NEW p \in Ends, OfTimer(p)
      PROVE  Types'
  BY <1>1 DEF OfTimer, SelectTimer, Types, channelVars, syncVars, dataVars
<1>2. CASE OfEnvironment
  <2>1. CASE Break /\ UNCHANGED <<first, callVars>>
    BY <2>1 DEF Break, Types, syncVars, userVars, callVars
  <2> QED BY <1>2, <2>1, ReadStdinTypes DEF OfEnvironment
<1> QED BY <1>1, <1>2, RoutineTypes, NetworkTypes, ProgramTypes DEF Next, System

-----------------------------------------------------------------------------
(* The control of one end. *)

(* What an end is made of does not change. *)
Same(q) ==
  /\ job' = job /\ pc'[q] = pc[q] /\ call'[q] = call[q] /\ main'[q] = main[q]
  /\ first'[q] = first[q] /\ retN'[q] = retN[q] /\ retErr'[q] = retErr[q]
  /\ q \in expired' <=> q \in expired
  /\ q \in closed' <=> q \in closed
  /\ link' = link \/ link' = "cut"

LEMMA EndStays ==
  ASSUME NEW q \in Ends, EndOK(q), Same(q)
  PROVE  EndOK(q)'
<1>1. CASE job[q] = "pipe"
  BY <1>1 DEF EndOK, PipeEnd, Same
<1>2. CASE job[q] # "pipe"
  <2>1. CallEnd(q)'
    BY <1>2 DEF EndOK, CallEnd, Calling, Same
  <2>2. Results(q)'
    BY <1>2 DEF EndOK, Results, Calling, Same
  <2> QED BY <1>2, <2>1, <2>2 DEF EndOK, Same
<1> QED BY <1>1, <1>2

(* A routine goes on inside a Write or a Read, or ends it. *)
GoesOn(from, to) ==
  \/ from \in InWrite /\ to \in InWrite \cup {"ok", "err"}
  \/ from = "read" /\ to \in {"ok", "eof", "err"}

LEMMA GoesOnEnd ==
  ASSUME Types, NEW p \in Ends, NEW i \in Routines, NEW l \in Labels, EndOK(p),
         Goto(p, i, l), GoesOn(pc[p][i], l),
         UNCHANGED <<job, call, main, first, retN, retErr, expired, closed, link>>
  PROVE  EndOK(p)'
<1>1. pc'[p][i] = l /\ \A j \in Routines : j # i => pc'[p][j] = pc[p][j]
  BY GotoIs
<1>2. l \in InWrite \cup {"ok", "eof", "err"} /\ pc[p][i] \in InWrite \cup {"read"}
  BY DEF GoesOn
<1>3. CASE job[p] = "pipe"
  <2>1. p \notin closed /\ (first[p] # 0 => pc[p][first[p]] = "done")
    BY <1>2, <1>3 DEF EndOK, PipeEnd, InWrite
  <2>2. first[p] # 0 => first[p] \in Routines /\ first[p] # i
    BY <1>2, <2>1 DEF Types, InWrite
  <2>3. pc'[p][1] \in StdinLabels /\ pc'[p][2] \in StdoutLabels
    BY <1>1, <1>3, <2>1 DEF EndOK, PipeEnd, GoesOn, StdinLabels, StdoutLabels, InWrite, Routines
  <2> QED BY <1>1, <1>3, <2>1, <2>2, <2>3 DEF EndOK, PipeEnd
<1>4. CASE job[p] # "pipe"
  <2> CallEnd(p) /\ Results(p)
    BY <1>4 DEF EndOK
  <2>1. pc'[p][i] \in IF job[p] = "send" THEN SendLabels ELSE ReceiveLabels
    <3>1. pc[p][i] \in IF job[p] = "send" THEN SendLabels ELSE ReceiveLabels
      BY DEF CallEnd
    <3> QED BY <1>1, <3>1 DEF GoesOn, SendLabels, ReceiveLabels, InWrite, Outcomes, Stored
  <2>2. \A j \in Routines : (pc'[p][j] # "idle" <=> pc[p][j] # "idle")
                            /\ (pc'[p][j] = "returned" <=> pc[p][j] = "returned")
                            /\ (pc'[p][j] \in Stored <=> pc[p][j] \in Stored)
                            /\ (pc[p][j] \in Stored => pc'[p][j] = pc[p][j])
    BY <1>1, <1>2 DEF InWrite, Stored
  <2>3. CallEnd(p)'
    BY <1>1, <2>1, <2>2 DEF CallEnd, Calling
  <2>4. Calling(p) => call[p] \in Routines
    BY DEF CallEnd, Types
  <2>5. Results(p)'
    BY <2>2, <2>4 DEF Results, Calling
  <2> QED BY <1>4, <2>3, <2>5 DEF EndOK
<1> QED BY <1>3, <1>4

(* All routines of a pipe's end are gone, and it is closed. *)
LEMMA GoneEnd ==
  ASSUME NEW p \in Ends, Types, EndOK(p), job[p] = "pipe", UNCHANGED <<job, call, first, expired>>,
         pc' = [pc EXCEPT ![p] = [i \in Routines |-> "gone"]], p \in closed',
         main'[p] \in {"exited", "fatal"}, main'[p] = "fatal" => link' = "cut"
  PROVE  EndOK(p)'
<1>1. \A i \in Routines : pc'[p][i] = "gone"
  BY DEF Types
<1>2. main'[p] # "wait"
  OBVIOUS
<1> QED BY <1>1, <1>2 DEF EndOK, PipeEnd

LEMMA RoutineEnd ==
  ASSUME IInv, NEW p \in Ends, NEW i \in Routines, OfRoutine(p, i)
  PROVE  \A q \in Ends : EndOK(q)'
<1> Types /\ \A q \in Ends : EndOK(q)
  BY DEF IInv
<1> USE DEF userVars, callVars, syncVars, dataVars
<1>1. ASSUME NEW l \in Labels, Goto(p, i, l), GoesOn(pc[p][i], l),
             UNCHANGED <<job, call, main, first, retN, retErr, expired, closed, link>>
      PROVE  \A q \in Ends : EndOK(q)'
  <2>1. \A q \in Ends : q # p => Same(q)
    BY <1>1, GotoIs DEF Same
  <2> QED BY <1>1, <2>1, GoesOnEnd, EndStays
<1>2. CASE Routine(p, i) /\ UNCHANGED <<first, callVars>>
  <2>1. UNCHANGED <<job, call, main, first, retN, retErr, expired, closed, link>>
    BY <1>2 DEF Routine, Lock, Park, Put, Take, ReadEnds
  <2>2. PICK l \in {"park", "write", "waiting", "ok", "err", "eof"} :
          Goto(p, i, l) /\ GoesOn(pc[p][i], l)
    BY <1>2 DEF Routine, Lock, Park, Put, Take, ReadEnds, GoesOn, InWrite
  <2>3. l \in Labels
    BY DEF Labels, InWrite, Outcomes
  <2> QED BY <1>1, <2>1, <2>2, <2>3
<1>3. CASE StoreN(p, i) /\ UNCHANGED first
  <2> DEFINE l == Stores(pc[p][i])
  <2>1. /\ call[p] = i /\ pc[p][i] \in Outcomes /\ Goto(p, i, l) /\ l \in Stored /\ l \in Labels
        /\ retN' = [retN EXCEPT ![p] = IF pc[p][i] = "ok" THEN 1 ELSE 0]
        /\ UNCHANGED <<job, main, call, retErr, expired, closed, link, first>>
    BY <1>3, StoreNIs DEF Stored, Labels
  <2>2. pc'[p][i] = l /\ \A j \in Routines : j # i => pc'[p][j] = pc[p][j]
    BY <2>1, GotoIs
  <2>3. \A q \in Ends : q # p => Same(q)
    BY <2>1, GotoIs DEF Same, Types
  <2>4. job[p] # "pipe" /\ CallEnd(p) /\ Results(p) /\ Calling(p)
    BY <2>1 DEF EndOK, PipeEnd, CallEnd, Routines
  <2>5. pc[p][i] # "idle" /\ pc[p][i] # "returned"
    BY <2>1 DEF Outcomes
  <2>6. CallEnd(p)'
    <3>1. l \in IF job[p] = "send" THEN SendLabels ELSE ReceiveLabels
      <4>1. job[p] = "send" => pc[p][i] # "eof"
        BY <2>4 DEF CallEnd, SendLabels, InWrite
      <4> QED BY <4>1 DEF Stores, SendLabels, ReceiveLabels, Stored
    <3> QED BY <2>1, <2>2, <2>4, <2>5, <3>1 DEF CallEnd, Calling, Stored
  <2>7. retN'[p] = 1 <=> l = "nil"
    BY <2>1 DEF Types, Stores
  <2>8. Results(p)'
    BY <2>1, <2>2, <2>4, <2>5, <2>7 DEF Results, Calling, Stored
  <2> QED BY <2>1, <2>3, <2>4, <2>6, <2>8, EndStays DEF EndOK
<1>4. CASE StoreErr(p, i) /\ UNCHANGED first
  <2>1. /\ call[p] = i /\ pc[p][i] \in Stored /\ Goto(p, i, "returned") /\ "returned" \in Labels
        /\ retErr' = [retErr EXCEPT ![p] = pc[p][i]]
        /\ UNCHANGED <<job, main, call, retN, expired, closed, link, first>>
    BY <1>4 DEF StoreErr, Stored, Labels
  <2>2. pc'[p][i] = "returned" /\ \A j \in Routines : j # i => pc'[p][j] = pc[p][j]
    BY <2>1, GotoIs
  <2>3. \A q \in Ends : q # p => Same(q)
    BY <2>1, GotoIs DEF Same, Types
  <2>4. job[p] # "pipe" /\ CallEnd(p) /\ Results(p) /\ Calling(p)
    BY <2>1 DEF EndOK, PipeEnd, CallEnd, Routines
  <2>5. pc[p][i] # "idle" /\ pc[p][i] # "returned"
    BY <2>1 DEF Stored
  <2>6. CallEnd(p)'
    BY <2>1, <2>2, <2>4, <2>5 DEF CallEnd, Calling, SendLabels, ReceiveLabels
  <2>7. retErr'[p] = pc[p][i]
    BY <2>1 DEF Types
  <2>8. Results(p)'
    BY <2>1, <2>2, <2>4, <2>5, <2>7 DEF Results, Calling, Stored
  <2> QED BY <2>1, <2>3, <2>4, <2>6, <2>8, EndStays DEF EndOK
<1>5. CASE AbandonedEnds(p, i) /\ UNCHANGED first
  <2>1. /\ job[p] # "pipe" /\ call[p] # i /\ pc[p][i] \in Outcomes \cup Stored
        /\ Goto(p, i, "idle") /\ "idle" \in Labels
        /\ UNCHANGED <<job, main, call, retN, retErr, expired, closed, link, first>>
    BY <1>5 DEF AbandonedEnds, Stored, Labels
  <2>2. pc'[p][i] = "idle" /\ \A j \in Routines : j # i => pc'[p][j] = pc[p][j]
    BY <2>1, GotoIs
  <2>3. \A q \in Ends : q # p => Same(q)
    BY <2>1, GotoIs DEF Same
  <2>4. CallEnd(p) /\ Results(p)
    BY <2>1 DEF EndOK
  <2>5. CallEnd(p)'
    BY <2>1, <2>2, <2>4 DEF CallEnd, Calling, SendLabels, ReceiveLabels
  <2>6. Calling(p) => call[p] \in Routines
    BY <2>4 DEF CallEnd, Types
  <2>7. Results(p)'
    BY <2>1, <2>2, <2>4, <2>6 DEF Results, Calling
  <2> QED BY <2>1, <2>3, <2>5, <2>7, EndStays DEF EndOK
<1> QED BY <1>2, <1>3, <1>4, <1>5 DEF OfRoutine

LEMMA NetworkEnd ==
  ASSUME IInv, NEW p \in Ends, OfNetwork(p)
  PROVE  \A q \in Ends : EndOK(q)'
<1> Types /\ \A q \in Ends : EndOK(q)
  BY DEF IInv
<1> USE DEF userVars, callVars, dataVars
<1>1. UNCHANGED <<job, call, main, first, retN, retErr, expired, closed, link>>
  BY DEF OfNetwork, Network, Flushed, Deliver
<1>2. CASE UNCHANGED pc
  BY <1>1, <1>2, EndStays DEF Same
<1>3. CASE \E i \in Waiting(p) : Goto(p, i, "lock")
  <2>1. PICK i \in Routines : pc[p][i] = "waiting" /\ Goto(p, i, "lock")
    BY <1>3 DEF Waiting
  <2>2. "lock" \in Labels /\ GoesOn(pc[p][i], "lock")
    BY <2>1 DEF GoesOn, InWrite, Labels
  <2>3. \A q \in Ends : q # p => Same(q)
    BY <1>1, <2>1, <2>2, GotoIs DEF Same
  <2> QED BY <1>1, <2>1, <2>2, <2>3, GoesOnEnd, EndStays
<1> QED BY <1>2, <1>3 DEF OfNetwork, Network, Flushed, Signal, Deliver

(* A routine of a pipe is between a Write or a Read and the next. *)
LEMMA PipeRoutineEnd ==
  ASSUME Types, NEW p \in Ends, NEW i \in Routines, NEW l, \A q \in Ends : EndOK(q),
         job[p] = "pipe", p \notin closed, pc[p][i] # "done", Goto(p, i, l),
         i = 1 => l \in StdinLabels, i = 2 => l \in StdoutLabels,
         UNCHANGED <<job, call, main, first, retN, retErr, expired, closed, link>>
  PROVE  \A q \in Ends : EndOK(q)'
<1>1. l \in Labels
  BY DEF Routines, StdinLabels, StdoutLabels, Labels, InWrite, Outcomes
<1>2. pc'[p][i] = l /\ \A j \in Routines : j # i => pc'[p][j] = pc[p][j]
  BY <1>1, GotoIs
<1>3. \A q \in Ends : q # p => Same(q)
  BY <1>1, GotoIs DEF Same
<1>4. first[p] # 0 => first[p] \in Routines /\ first[p] # i
  BY DEF EndOK, PipeEnd, Types
<1>5. PipeEnd(p)'
  BY <1>2, <1>4 DEF EndOK, PipeEnd, Routines
<1> QED BY <1>3, <1>5, EndStays DEF EndOK

LEMMA FatalEnd ==
  ASSUME Types, NEW p \in Ends, \A q \in Ends : EndOK(q), job[p] = "pipe",
         Fatal(p), UNCHANGED callVars
  PROVE  \A q \in Ends : EndOK(q)'
<1>1. \A q \in Ends : q # p => Same(q)
  BY DEF Same, Fatal, Types, callVars
<1>2. EndOK(p)'
  BY GoneEnd DEF Fatal, Types, callVars
<1> QED BY <1>1, <1>2, EndStays

LEMMA ReadStdinEnd ==
  ASSUME IInv, NEW p \in Ends, ReadStdin(p), UNCHANGED callVars
  PROVE  \A q \in Ends : EndOK(q)'
<1>1. Types /\ (\A q \in Ends : EndOK(q)) /\ 1 \in Routines
  BY DEF IInv, Routines
<1>2. pc[p][1] = "stdin"
  BY DEF ReadStdin
<1>3. job[p] = "pipe" /\ p \notin closed
  BY <1>1, <1>2 DEF EndOK, PipeEnd, CallEnd, SendLabels, ReceiveLabels, InWrite, Outcomes, Stored
<1>4. PICK l \in {"lock", "done"} : Goto(p, 1, l)
  BY DEF ReadStdin
<1>5. l \in StdinLabels /\ UNCHANGED <<job, call, main, first, retN, retErr, expired, closed, link>>
  BY DEF ReadStdin, callVars, dataVars, StdinLabels, InWrite
<1> QED BY <1>1, <1>2, <1>3, <1>4, <1>5, PipeRoutineEnd

LEMMA PipeStepEnd ==
  ASSUME IInv, NEW p \in Ends, PipeStep(p), UNCHANGED callVars
  PROVE  \A q \in Ends : EndOK(q)'
<1>0. /\ Types /\ (\A q \in Ends : EndOK(q)) /\ 1 \in Routines /\ 2 \in Routines
      /\ job[p] = "pipe" /\ PipeEnd(p)
  BY DEF IInv, Routines, PipeStep, EndOK
<1> USE DEF userVars, callVars, syncVars, dataVars
<1>1. CASE pc[p][1] = "ok" /\ StdinCopied(p)
  <2>1. Goto(p, 1, "stdin") /\ "stdin" \in StdinLabels /\ p \notin closed
    BY <1>0, <1>1 DEF StdinCopied, StdinLabels, PipeEnd
  <2>2. UNCHANGED <<job, call, main, first, retN, retErr, expired, closed, link>>
    BY <1>1 DEF StdinCopied
  <2> QED BY <1>0, <1>1, <2>1, <2>2, PipeRoutineEnd
<1>2. CASE pc[p][2] \in {"ok", "eof"} /\ WriteStdout(p)
  <2>1. PICK l \in {"read", "done"} : Goto(p, 2, l)
    BY <1>2 DEF WriteStdout
  <2>2. l \in StdoutLabels /\ p \notin closed
    BY <1>0, <1>2 DEF StdoutLabels, PipeEnd
  <2>3. UNCHANGED <<job, call, main, first, retN, retErr, expired, closed, link>>
    BY <1>2 DEF WriteStdout
  <2> QED BY <1>0, <1>2, <2>1, <2>2, <2>3, PipeRoutineEnd
<1>3. CASE Fatal(p)
  BY <1>0, <1>3, FatalEnd
<1>4. CASE MainDone(p)
  <2>1. PICK i \in Routines : pc[p][i] = "done" /\ first' = [first EXCEPT ![p] = i]
    BY <1>4 DEF MainDone
  <2>2. \A q \in Ends : q # p => Same(q)
    BY <1>0, <1>4 DEF MainDone, Same, Types, channelVars
  <2>3. main[p] = "wait" /\ main'[p] = "closing" /\ first'[p] = i /\ pc' = pc
    BY <1>0, <1>4, <2>1 DEF MainDone, Types, channelVars
  <2>4. PipeEnd(p)'
    BY <1>0, <1>4, <2>1, <2>3 DEF PipeEnd, MainDone, channelVars
  <2> QED BY <1>0, <1>4, <2>2, <2>4, EndStays DEF EndOK, MainDone
<1>5. CASE PipeCloses(p)
  <2>1. \A q \in Ends : q # p => Same(q)
    BY <1>0, <1>5 DEF PipeCloses, CloseChannel, Same, Types
  <2>2. EndOK(p)'
    BY <1>0, <1>5, GoneEnd DEF PipeCloses, CloseChannel, Types
  <2> QED BY <1>0, <2>1, <2>2, EndStays
<1> QED BY <1>1, <1>2, <1>3, <1>4, <1>5 DEF PipeStep, StdinCopied, WriteStdout

LEMMA CallStepEnd ==
  ASSUME IInv, NEW p \in Ends, CallStep(p) \/ SelectTimer(p), UNCHANGED first
  PROVE  \A q \in Ends : EndOK(q)'
<1>0. Types /\ \A q \in Ends : EndOK(q)
  BY DEF IInv
<1> USE DEF channelVars, userVars, callVars, syncVars, dataVars
<1>1. job[p] # "pipe" /\ CallEnd(p) /\ Results(p)
  BY <1>0 DEF EndOK, PipeEnd, CallStep, Call, SelectDone, SelectTimer, SetTimeout, CallReturns, CallerCloses
<1>2. SUFFICES (\A q \in Ends : q # p => Same(q)) /\ CallEnd(p)' /\ Results(p)' /\ job' = job
  BY <1>0, <1>1, EndStays DEF EndOK
<1>3. CASE Call(p)
  <2>1. main[p] = "next" /\ call[p] = 0 /\ \A i \in Routines : pc[p][i] = "idle"
    BY <1>1, <1>3 DEF Call, CallEnd, Calling, Routines
  <2>2. CASE job[p] = "send" /\ sent[p] = Load[p]
    <3>1. \A q \in Ends : q # p => Same(q)
      BY <1>0, <1>3, <2>2 DEF Call, Same, Types
    <3>2. main'[p] = "closing" /\ UNCHANGED <<pc, callVars, closed, job>>
      BY <1>0, <1>3, <2>2 DEF Call, Types
    <3>3. CallEnd(p)' /\ Results(p)'
      BY <1>1, <2>1, <3>2 DEF CallEnd, Results, Calling
    <3> QED BY <3>1, <3>2, <3>3
  <2>3. CASE ~(job[p] = "send" /\ sent[p] = Load[p])
    <3>1. PICK i \in Idle(p) :
            /\ call' = [call EXCEPT ![p] = i]
            /\ main' = [main EXCEPT ![p] = "select"]
            /\ Goto(p, i, IF job[p] = "send" THEN "lock" ELSE "read")
            /\ UNCHANGED <<retN, retErr, expired>>
      BY <1>3, <2>3 DEF Call
    <3> DEFINE l == IF job[p] = "send" THEN "lock" ELSE "read"
    <3>2. i \in Routines /\ l \in Labels
      BY DEF Idle, Labels, InWrite
    <3>3. pc'[p][i] = l /\ \A j \in Routines : j # i => pc'[p][j] = pc[p][j]
      BY <1>0, <3>1, <3>2, GotoIs
    <3>4. \A q \in Ends : q # p => Same(q)
      BY <1>0, <1>3, <3>1, <3>2, GotoIs DEF Call, Same, Types
    <3>5. call'[p] = i /\ main'[p] = "select" /\ UNCHANGED <<closed, job, first, retN, retErr, expired>>
      BY <1>0, <1>3, <3>1 DEF Call, Types
    <3>6. l \in (IF job[p] = "send" THEN SendLabels ELSE ReceiveLabels) /\ l \notin Stored \cup {"idle", "returned"}
      BY DEF SendLabels, ReceiveLabels, InWrite, Stored
    <3>7. i # 0
      BY <3>2 DEF Routines
    <3>8. CallEnd(p)'
      BY <1>1, <2>1, <3>2, <3>3, <3>5, <3>6, <3>7 DEF CallEnd, Calling
    <3>9. Results(p)'
      BY <1>1, <2>1, <3>2, <3>3, <3>5, <3>6 DEF Results, Calling
    <3> QED BY <3>4, <3>5, <3>8, <3>9
  <2> QED BY <2>2, <2>3
<1>4. CASE SelectDone(p)
  <2>1. main[p] = "select" /\ main'[p] = "got" /\ pc[p][call[p]] = "returned"
        /\ UNCHANGED <<pc, callVars, closed, job, first>>
    BY <1>0, <1>4 DEF SelectDone, Types
  <2>2. \A q \in Ends : q # p => Same(q)
    BY <1>0, <1>4 DEF SelectDone, Same, Types
  <2>3. CallEnd(p)' /\ Results(p)'
    BY <1>1, <2>1 DEF CallEnd, Results, Calling, Stored
  <2> QED BY <2>1, <2>2, <2>3
<1>5. CASE SelectTimer(p)
  <2>1. main[p] = "select" /\ main'[p] = "timedOut" /\ p \in expired' /\ retN'[p] = 0
        /\ UNCHANGED <<pc, call, closed, job, first>>
    BY <1>0, <1>5 DEF SelectTimer, Types
  <2>2. \A q \in Ends : q # p => Same(q)
    BY <1>0, <1>5 DEF SelectTimer, Same, Types
  <2>3. CallEnd(p)' /\ Results(p)'
    BY <1>1, <2>1 DEF CallEnd, Results, Calling
  <2> QED BY <2>1, <2>2, <2>3
<1>6. CASE SetTimeout(p)
  <2>1. main[p] = "timedOut" /\ main'[p] = "got" /\ p \in expired /\ retErr'[p] = "ErrTimeout"
        /\ UNCHANGED <<pc, call, closed, job, first, retN, expired>>
    BY <1>0, <1>1, <1>6 DEF SetTimeout, Results, Types
  <2>2. \A q \in Ends : q # p => Same(q)
    BY <1>0, <1>6 DEF SetTimeout, Same, Types
  <2>3. CallEnd(p)' /\ Results(p)'
    BY <1>1, <2>1 DEF CallEnd, Results, Calling
  <2> QED BY <2>1, <2>2, <2>3
<1>7. CASE CallReturns(p)
  <2> DEFINE i == call[p]
             l == IF pc[p][i] = "returned" THEN "idle" ELSE pc[p][i]
             m == IF retErr[p] = "nil" /\ (job[p] = "send" => retN[p] = 1) THEN "next" ELSE "closing"
  <2>1. main[p] = "got" /\ i \in Routines /\ l \in Labels
    BY <1>0, <1>1, <1>7 DEF CallReturns, CallEnd, Calling, Types, Labels
  <2>2. /\ pc'[p][i] = l /\ (\A j \in Routines : j # i => pc'[p][j] = pc[p][j])
        /\ \A q \in Ends : q # p => pc'[q] = pc[q]
    <3>1. pc' = [pc EXCEPT ![p][i] = l]
      BY <1>7 DEF CallReturns
    <3>2. pc \in [Ends -> [Routines -> Labels]]
      BY <1>0 DEF Types
    <3> QED BY <2>1, <3>1, <3>2, Nested
  <2>3. \A q \in Ends : q # p => Same(q)
    BY <1>0, <1>7, <2>2 DEF CallReturns, Same, Types
  <2>4. call'[p] = 0 /\ main'[p] = m /\ m \in {"next", "closing"} /\ retN'[p] = 0
        /\ UNCHANGED <<closed, job, first, expired>>
    BY <1>0, <1>7 DEF CallReturns, Types
  <2>5. p \notin expired \/ m = "next" => pc[p][i] = "returned"
    BY <1>1, <2>1 DEF Results
  <2>6. \A j \in Routines : j # i => pc[p][j] = "idle"
    BY <1>1, <2>1 DEF CallEnd
  <2>7. \A j \in Routines : pc'[p][j] # "returned"
    BY <2>2, <2>6, <2>1
  <2>8. pc[p][i] \in IF job[p] = "send" THEN SendLabels ELSE ReceiveLabels
    BY <1>1, <2>1 DEF CallEnd
  <2>9. \A j \in Routines : pc'[p][j] \in IF job[p] = "send" THEN SendLabels ELSE ReceiveLabels
    BY <2>2, <2>6, <2>8, <2>1 DEF SendLabels, ReceiveLabels
  <2>10. \A j \in Routines : pc'[p][j] # "idle" => j = i /\ m = "closing" /\ p \in expired
    BY <2>2, <2>4, <2>5, <2>6
  <2>11. CallEnd(p)'
    BY <1>1, <2>1, <2>4, <2>7, <2>9, <2>10 DEF CallEnd, Calling, Routines
  <2>12. Results(p)'
    BY <2>4 DEF Results
  <2> QED BY <2>3, <2>4, <2>11, <2>12
<1>8. CASE CallerCloses(p)
  <2>1. main[p] = "closing" /\ main'[p] = "exited" /\ p \in closed'
        /\ UNCHANGED <<pc, callVars, job, first>>
    BY <1>0, <1>8 DEF CallerCloses, CloseChannel, Types
  <2>2. \A q \in Ends : q # p => Same(q)
    BY <1>0, <1>8 DEF CallerCloses, CloseChannel, Same, Types
  <2>3. CallEnd(p)' /\ Results(p)'
    BY <1>1, <2>1 DEF CallEnd, Results, Calling
  <2> QED BY <2>1, <2>2, <2>3
<1> QED BY <1>3, <1>4, <1>5, <1>6, <1>7, <1>8 DEF CallStep

LEMMA EndStep ==
  ASSUME IInv, Next
  PROVE  \A q \in Ends : EndOK(q)'
<1>1. CASE Break /\ UNCHANGED <<first, callVars>>
  BY <1>1, EndStays DEF IInv, Break, Same, userVars, callVars
<1> QED BY <1>1, RoutineEnd, NetworkEnd, ReadStdinEnd, PipeStepEnd, CallStepEnd
       DEF Next, System, OfProgram, OfTimer, OfEnvironment, PipeStep

-----------------------------------------------------------------------------
(* The condition variable. *)

(* Nobody comes to wait, and what a waiter waits for does not go away. *)
NoNewWaiter(q) ==
  /\ \A i \in Routines : pc'[q][i] \in {"park", "waiting"} => pc'[q][i] = pc[q][i]
  /\ holder'[q] = holder[q] /\ Len(buf'[q]) >= Len(buf[q])
  /\ q \in low => q \in low'

LEMMA SyncStays ==
  ASSUME Types, NEW q \in Ends, SyncOK(q), NoNewWaiter(q), Types'
  PROVE  SyncOK(q)'
<1>1. Len(buf[q]) \in Nat /\ Len(buf'[q]) \in Nat /\ Threshold \in Nat
  BY QueueFacts, NumberFacts DEF Types
<1> QED BY <1>1 DEF SyncOK, NoNewWaiter

(* One routine of an end is in Write at most. *)
LEMMA OneWriterAt ==
  ASSUME Types, NEW p \in Ends, EndOK(p), NEW i \in Routines, NEW j \in Routines,
         pc[p][i] \in InWrite, pc[p][j] \in InWrite
  PROVE  i = j
<1>1. CASE job[p] = "pipe"
  BY <1>1 DEF EndOK, PipeEnd, StdoutLabels, InWrite, Routines
<1>2. CASE job[p] # "pipe"
  BY <1>2 DEF EndOK, CallEnd, InWrite
<1> QED BY <1>1, <1>2

LEMMA RoutineSync ==
  ASSUME IInv, Types', NEW p \in Ends, NEW i \in Routines, OfRoutine(p, i)
  PROVE  \A q \in Ends : SyncOK(q)'
<1> Types /\ \A q \in Ends : EndOK(q) /\ SyncOK(q)
  BY DEF IInv
<1>0. \A q \in Ends : Len(buf[q]) \in Nat /\ Threshold \in Nat
  BY QueueFacts, NumberFacts DEF Types
<1> USE DEF userVars, callVars, syncVars, dataVars
<1>1. CASE Lock(p, i)
  <2>1. CASE Len(buf[p]) > Threshold
    <3>1. /\ pc'[p][i] = "park" /\ (\A j \in Routines : j # i => pc'[p][j] = pc[p][j])
          /\ \A q \in Ends : q # p => pc'[q] = pc[q]
      BY <1>1, <2>1, GotoIs DEF Lock, Labels, InWrite
    <3>2. holder[p] = 0 /\ holder'[p] = i /\ buf' = buf /\ low' = low
          /\ \A q \in Ends : q # p => holder'[q] = holder[q]
      BY <1>1, <2>1 DEF Lock, Types
    <3>3. \A j \in Routines : pc[p][j] # "park"
      BY <3>2 DEF SyncOK, Routines
    <3>4. SyncOK(p)'
      BY <2>1, <3>1, <3>2, <3>3 DEF SyncOK
    <3>5. \A q \in Ends : q # p => SyncOK(q)'
      BY <3>1, <3>2 DEF SyncOK
    <3> QED BY <3>4, <3>5
  <2>2. CASE ~(Len(buf[p]) > Threshold)
    <3>1. Goto(p, i, "write") /\ "write" \in Labels /\ UNCHANGED <<holder, low, buf>>
      BY <1>1, <2>2 DEF Lock, Labels, InWrite
    <3>2. \A q \in Ends : NoNewWaiter(q)
      BY <1>0, <3>1, GotoIs DEF NoNewWaiter
    <3> QED BY <3>2, SyncStays
  <2> QED BY <2>1, <2>2
<1>2. CASE Park(p, i)
  <2>1. /\ pc'[p][i] = "waiting" /\ (\A j \in Routines : j # i => pc'[p][j] = pc[p][j])
        /\ \A q \in Ends : q # p => pc'[q] = pc[q]
    BY <1>2, GotoIs DEF Park, Labels, InWrite
  <2>2. pc[p][i] = "park" /\ buf' = buf /\ low' = low
        /\ \A q \in Ends : q # p => holder'[q] = holder[q]
    BY <1>2 DEF Park, Types
  <2>3. \A j \in Routines : j # i => pc[p][j] # "park"
    BY <2>2, OneWriterAt DEF InWrite
  <2>4. SyncOK(p)'
    BY <2>1, <2>2, <2>3 DEF SyncOK
  <2>5. \A q \in Ends : q # p => SyncOK(q)'
    BY <2>1, <2>2 DEF SyncOK
  <2> QED BY <2>4, <2>5
<1>3. CASE Put(p, i)
  <2>1. PICK l \in {"ok", "err"} : Goto(p, i, l)
    BY <1>3 DEF Put
  <2>2. l \in Labels /\ holder' = holder /\ low' = low
    BY <1>3 DEF Put, Labels, Outcomes
  <2>3. \A q \in Ends : Len(buf'[q]) >= Len(buf[q])
    <3>1. CASE buf' = [buf EXCEPT ![p] = Append(@, carries[p][i])]
      <4>1. buf[p] \in Seq(Numbers) /\ carries[p][i] \in Numbers
        BY DEF Types
      <4>2. Len(Append(buf[p], carries[p][i])) = Len(buf[p]) + 1
        BY <4>1, QueueFacts
      <4>3. buf'[p] = Append(buf[p], carries[p][i]) /\ \A q \in Ends : q # p => buf'[q] = buf[q]
        BY <3>1 DEF Types
      <4> QED BY <1>0, <4>2, <4>3
    <3> QED BY <1>0, <1>3, <3>1 DEF Put
  <2>4. \A q \in Ends : NoNewWaiter(q)
    BY <2>1, <2>2, <2>3, GotoIs DEF NoNewWaiter
  <2> QED BY <2>4, SyncStays
<1>4. CASE Take(p, i) \/ ReadEnds(p, i) \/ StoreN(p, i) \/ StoreErr(p, i) \/ AbandonedEnds(p, i)
  <2>1. PICK l \in {"ok", "eof", "err", "nil", "io.EOF", "failure", "returned", "idle"} : Goto(p, i, l)
    BY <1>4, StoreNIs DEF Take, ReadEnds, StoreErr, AbandonedEnds, Stored
  <2>2. l \in Labels /\ UNCHANGED <<holder, low, buf>>
    BY <1>4, StoreNIs DEF Take, ReadEnds, StoreErr, AbandonedEnds, Labels, Outcomes
  <2>3. \A q \in Ends : NoNewWaiter(q)
    BY <1>0, <2>1, <2>2, GotoIs DEF NoNewWaiter
  <2> QED BY <2>3, SyncStays
<1> QED BY <1>1, <1>2, <1>3, <1>4 DEF OfRoutine, Routine

LEMMA FlushedSync ==
  ASSUME IInv, NEW p \in Ends, Flushed(p)
  PROVE  \A q \in Ends : SyncOK(q)'
<1>1. Types /\ \A q \in Ends : EndOK(q) /\ SyncOK(q)
  BY DEF IInv
<1>2. holder[p] = 0 /\ low' = low \ {p} /\ buf' = buf /\ holder' = holder
  BY DEF Flushed, dataVars
<1>3. \A i \in Routines : pc[p][i] # "park"
  BY <1>1, <1>2 DEF SyncOK, Routines
<1>4. CASE Waiting(p) = {} /\ pc' = pc
  BY <1>1, <1>2, <1>3, <1>4 DEF SyncOK, Waiting
<1>5. CASE \E i \in Waiting(p) : Goto(p, i, "lock")
  <2>1. PICK i \in Routines : pc[p][i] = "waiting" /\ Goto(p, i, "lock")
    BY <1>5 DEF Waiting
  <2>2. /\ pc'[p][i] = "lock" /\ (\A j \in Routines : j # i => pc'[p][j] = pc[p][j])
        /\ \A q \in Ends : q # p => pc'[q] = pc[q]
    BY <1>1, <2>1, GotoIs DEF Labels, InWrite
  <2>3. \A j \in Routines : j # i => pc[p][j] \notin {"park", "waiting"}
    BY <1>1, <2>1, OneWriterAt DEF InWrite
  <2>4. SyncOK(p)'
    BY <2>2, <2>3 DEF SyncOK
  <2>5. \A q \in Ends : q # p => SyncOK(q)'
    BY <1>1, <1>2, <2>2 DEF SyncOK
  <2> QED BY <2>4, <2>5
<1> QED BY <1>4, <1>5 DEF Flushed, Signal

LEMMA DeliverSync ==
  ASSUME IInv, NEW p \in Ends, Deliver(p)
  PROVE  \A q \in Ends : SyncOK(q)'
<1>1. Types /\ (\A q \in Ends : SyncOK(q)) /\ Threshold \in Nat
  BY NumberFacts DEF IInv
<1>2. pc' = pc /\ holder' = holder
  BY DEF Deliver
<1>3. Len(buf'[p]) = Len(buf[p]) - 1 /\ Len(buf[p]) \in Nat
      /\ \A q \in Ends : q # p => buf'[q] = buf[q]
  <2>1. buf[p] \in Seq(Numbers) /\ buf[p] # <<>> /\ buf' = [buf EXCEPT ![p] = Tail(@)]
    BY <1>1 DEF Deliver, Types
  <2> QED BY <1>1, <2>1, QueueFacts DEF Types
<1>4. low' = IF Len(buf[p]) = Threshold + 1 THEN low \cup {p} ELSE low
  BY DEF Deliver
<1>5. SyncOK(p)'
  BY <1>1, <1>2, <1>3, <1>4 DEF SyncOK
<1>6. \A q \in Ends : q # p => SyncOK(q)'
  BY <1>1, <1>2, <1>3, <1>4 DEF SyncOK
<1> QED BY <1>5, <1>6

(* A program's steps start no wait. *)
LEMMA ProgramSync ==
  ASSUME IInv, Types', NEW p \in Ends, OfProgram(p) \/ OfTimer(p) \/ (ReadStdin(p) /\ UNCHANGED callVars)
  PROVE  \A q \in Ends : SyncOK(q)'
<1> Types /\ (\A q \in Ends : EndOK(q) /\ SyncOK(q)) /\ 1 \in Routines /\ 2 \in Routines
  BY DEF IInv, Routines
<1>0. \A q \in Ends : Len(buf[q]) \in Nat
  BY QueueFacts DEF Types
<1> USE DEF userVars, callVars, syncVars, dataVars, channelVars
<1>1. UNCHANGED <<holder, low, buf>>
  BY DEF OfProgram, OfTimer, PipeStep, CallStep, ReadStdin, StdinCopied, WriteStdout, Fatal,
         MainDone, PipeCloses, CloseChannel, Call, SelectDone, SelectTimer, SetTimeout,
         CallReturns, CallerCloses
<1> DEFINE NoneWaits == \A q \in Ends, i \in Routines :
             pc'[q][i] \in {"park", "waiting"} => pc'[q][i] = pc[q][i]
<1>2. ASSUME NEW i \in Routines, NEW l \in {"lock", "read", "stdin", "done"}, Goto(p, i, l)
      PROVE  NoneWaits
  BY <1>2, GotoIs DEF Labels, InWrite
<1>3. CASE pc' = [pc EXCEPT ![p] = [i \in Routines |-> "gone"]]
  <2>1. NoneWaits
    BY <1>3 DEF Types
  <2> QED BY <1>0, <1>1, <2>1, SyncStays DEF NoNewWaiter
<1>4. CASE CallReturns(p)
  <2> DEFINE l == IF pc[p][call[p]] = "returned" THEN "idle" ELSE pc[p][call[p]]
  <2>1. call[p] \in Routines /\ l \in Labels
    BY <1>4 DEF CallReturns, EndOK, PipeEnd, CallEnd, Calling, Types, Labels
  <2>2. pc' = [pc EXCEPT ![p][call[p]] = l] /\ pc \in [Ends -> [Routines -> Labels]]
    BY <1>4 DEF CallReturns, Types
  <2>3. NoneWaits
    BY <2>1, <2>2, Nested
  <2> QED BY <1>0, <1>1, <2>3, SyncStays DEF NoNewWaiter
<1>5. CASE UNCHANGED pc \/ \E i \in Routines, l \in {"lock", "read", "stdin", "done"} : Goto(p, i, l)
  <2>1. NoneWaits
    BY <1>2, <1>5
  <2> QED BY <1>0, <1>1, <2>1, SyncStays DEF NoNewWaiter
<1>6. CASE Call(p)
  BY <1>5, <1>6 DEF Call, Idle
<1>7. CASE OfProgram(p) /\ ~CallReturns(p) /\ ~Call(p)
  BY <1>3, <1>5, <1>7 DEF OfProgram, PipeStep, CallStep, StdinCopied, WriteStdout, Fatal, MainDone,
     PipeCloses, SelectDone, SetTimeout, CallerCloses
<1>8. CASE OfTimer(p)
  BY <1>5, <1>8 DEF OfTimer, SelectTimer
<1>9. CASE ReadStdin(p)
  BY <1>5, <1>9 DEF ReadStdin
<1> QED BY <1>4, <1>6, <1>7, <1>8, <1>9

LEMMA SyncStep ==
  ASSUME IInv, Next, Types'
  PROVE  \A q \in Ends : SyncOK(q)'
<1>1. CASE Break
  BY <1>1 DEF IInv, Break, SyncOK, syncVars
<1> QED BY <1>1, RoutineSync, FlushedSync, DeliverSync, ProgramSync
       DEF Next, System, OfNetwork, Network, OfEnvironment

-----------------------------------------------------------------------------
(* The end of the channel. *)

LEMMA ClosedStep ==
  ASSUME IInv, Next
  PROVE  \A q \in Ends : ClosedOK(q)'
<1>0. Types /\ (\A q \in Ends : ClosedOK(q)) /\ \A q \in Ends : Other(q) \in Ends
  BY TwoEnds DEF IInv
<1> USE DEF userVars, callVars, syncVars, dataVars, channelVars
<1>1. CASE UNCHANGED <<closed, ended, gaveUp, buf>> /\ (link' = link \/ link' = "cut")
  BY <1>0, <1>1 DEF ClosedOK
<1>2. ASSUME NEW p \in Ends, NEW i \in Routines, Put(p, i)
      PROVE  \A q \in Ends : ClosedOK(q)'
  <2>1. CASE p \notin closed /\ buf' = [buf EXCEPT ![p] = Append(@, carries[p][i])]
    BY <1>0, <1>2, <2>1 DEF ClosedOK, Put, Types
  <2>2. CASE buf' = buf
    BY <1>1, <1>2, <2>2 DEF Put
  <2> QED BY <1>2, <2>1, <2>2 DEF Put
<1>3. ASSUME NEW p \in Ends, Deliver(p)
      PROVE  \A q \in Ends : ClosedOK(q)'
  BY <1>0, <1>3 DEF ClosedOK, Deliver
<1>4. ASSUME NEW p \in Ends, Fatal(p)
      PROVE  \A q \in Ends : ClosedOK(q)'
  BY <1>0, <1>4 DEF ClosedOK, Fatal
<1>5. ASSUME NEW p \in Ends, CloseChannel(p)
      PROVE  \A q \in Ends : ClosedOK(q)'
  BY <1>0, <1>5, TwoEnds DEF ClosedOK, CloseChannel
<1>6. ASSUME NEW p \in Ends, NEW i \in Routines, OfRoutine(p, i)
      PROVE  \A q \in Ends : ClosedOK(q)'
  BY <1>1, <1>2, <1>6, StoreNIs
     DEF OfRoutine, Routine, Lock, Park, Take, ReadEnds, StoreErr, AbandonedEnds
<1>7. ASSUME NEW p \in Ends, OfProgram(p)
      PROVE  \A q \in Ends : ClosedOK(q)'
  BY <1>1, <1>4, <1>5, <1>7
     DEF OfProgram, PipeStep, CallStep, StdinCopied, WriteStdout, MainDone, PipeCloses, Call,
         SelectDone, SetTimeout, CallReturns, CallerCloses
<1>8. ASSUME NEW p \in Ends, Flushed(p) \/ OfTimer(p) \/ ReadStdin(p)
      PROVE  \A q \in Ends : ClosedOK(q)'
  BY <1>1, <1>8 DEF Flushed, OfTimer, SelectTimer, ReadStdin
<1>9. CASE Break
  BY <1>1, <1>9 DEF Break
<1> QED BY <1>3, <1>6, <1>7, <1>8, <1>9 DEF Next, System, OfEnvironment, OfNetwork, Network

(* What is read when the channel's end is: nothing more arrives. *)
LEMMA SawEndStays ==
  ASSUME NEW q \in Ends, SawEnd(q), UNCHANGED <<job, closed>>, ended \subseteq ended',
         inq'[q] = inq[q], first'[q] = first[q], 
         job[q] = "pipe" => pc'[q][2] = pc[q][2] \/ pc'[q][2] \notin {"eof", "done"}
  PROVE  SawEnd(q)'
BY DEF SawEnd

LEMMA SawEndLeaves ==
  ASSUME NEW q \in Ends, SawEnd(q), UNCHANGED job, ended \subseteq ended',
         inq'[q] = inq[q], first'[q] = first[q], q \in closed', 
         job[q] = "pipe" => pc'[q][2] = "gone"
  PROVE  SawEnd(q)'
BY DEF SawEnd

LEMMA RoutineSawEnd ==
  ASSUME IInv, NEW p \in Ends, NEW i \in Routines, OfRoutine(p, i)
  PROVE  \A q \in Ends : SawEnd(q)'
<1>0. Types /\ (\A q \in Ends : EndOK(q) /\ SawEnd(q)) /\ 2 \in Routines
  BY DEF IInv, Routines
<1> USE DEF userVars, callVars, syncVars, dataVars, channelVars
<1>1. CASE Lock(p, i) \/ Park(p, i) \/ Put(p, i)
  <2>1. PICK l \in {"park", "write", "waiting", "ok", "err"} : Goto(p, i, l)
    BY <1>1 DEF Lock, Park, Put
  <2>2. l \in Labels /\ UNCHANGED <<job, closed, ended, inq, first>>
    BY <1>1 DEF Labels, InWrite, Outcomes, Lock, Park, Put, OfRoutine, StoreN, StoreErr, AbandonedEnds
  <2>3. \A q \in Ends : pc'[q][2] = pc[q][2] \/ pc'[q][2] \notin {"eof", "done"}
    BY <1>0, <2>1, <2>2, GotoIs
  <2> QED BY <1>0, <2>2, <2>3, SawEndStays
<1>2. CASE Take(p, i)
  <2>1. pc'[p][i] = "ok" /\ \A q \in Ends : q # p => pc'[q] = pc[q]
    BY <1>0, <1>2, GotoIs DEF Take, Labels, Outcomes
  <2>2. pc[p][i] = "read" /\ UNCHANGED <<job, closed, ended, first>>
        /\ \A q \in Ends : q # p => inq'[q] = inq[q]
    BY <1>0, <1>2 DEF Take, Types, OfRoutine, StoreN, StoreErr, AbandonedEnds
  <2>3. job[p] = "pipe" => i = 2 /\ first[p] # 2
    BY <1>0, <2>2 DEF EndOK, PipeEnd, StdinLabels, InWrite, Routines
  <2>4. SawEnd(p)'
    BY <2>1, <2>2, <2>3 DEF SawEnd
  <2> QED BY <1>0, <2>1, <2>2, <2>4, SawEndStays
<1>3. CASE ReadEnds(p, i)
  <2>1. pc[p][i] = "read" /\ inq[p] = <<>> /\ UNCHANGED <<job, closed, ended, first, inq>>
    BY <1>3 DEF ReadEnds, OfRoutine, StoreN, StoreErr, AbandonedEnds
  <2>2. PICK l \in {"eof", "err"} : Goto(p, i, l) /\ (l = "eof" => p \in ended)
    BY <1>3 DEF ReadEnds
  <2>3. /\ pc'[p][i] = l /\ (\A j \in Routines : j # i => pc'[p][j] = pc[p][j])
        /\ \A q \in Ends : q # p => pc'[q] = pc[q]
    BY <1>0, <2>2, GotoIs DEF Labels, Outcomes
  <2>4. job[p] = "pipe" => i = 2
    BY <1>0, <2>1 DEF EndOK, PipeEnd, StdinLabels, InWrite, Routines
  <2>5. SawEnd(p)'
    BY <1>0, <2>1, <2>2, <2>3, <2>4 DEF SawEnd
  <2> QED BY <1>0, <2>1, <2>3, <2>5, SawEndStays
<1>4. CASE StoreN(p, i) \/ StoreErr(p, i) \/ AbandonedEnds(p, i)
  <2>1. job[p] # "pipe"
    BY <1>0, <1>4, StoreNIs DEF StoreErr, AbandonedEnds, EndOK, PipeEnd, Routines
  <2>2. PICK l \in {"nil", "io.EOF", "failure", "returned", "idle"} : Goto(p, i, l)
    BY <1>4, StoreNIs DEF StoreErr, AbandonedEnds, Stored
  <2>3. \A q \in Ends : q # p => pc'[q] = pc[q]
    BY <1>0, <2>2, GotoIs DEF Labels
  <2>4. UNCHANGED <<job, closed, ended, inq>>
    BY <1>4, StoreNIs DEF StoreErr, AbandonedEnds
  <2>5. UNCHANGED first
    BY DEF OfRoutine
  <2> QED BY <1>0, <2>1, <2>3, <2>4, <2>5, SawEndStays
<1> QED BY <1>1, <1>2, <1>3, <1>4 DEF OfRoutine, Routine

LEMMA NetworkSawEnd ==
  ASSUME IInv, NEW p \in Ends, OfNetwork(p)
  PROVE  \A q \in Ends : SawEnd(q)'
<1>0. Types /\ (\A q \in Ends : ClosedOK(q) /\ SawEnd(q)) /\ 2 \in Routines
  BY DEF IInv, Routines
<1>1. CASE Flushed(p)
  <2>1. UNCHANGED <<job, closed, ended, inq, first>>
    BY <1>1 DEF Flushed, OfNetwork, userVars, dataVars
  <2>2. \A q \in Ends : pc'[q][2] = pc[q][2] \/ pc'[q][2] \notin {"eof", "done"}
    BY <1>0, <1>1, GotoIs DEF Flushed, Signal, Waiting, Labels, InWrite
  <2> QED BY <1>0, <2>1, <2>2, SawEndStays
<1>2. CASE Deliver(p)
  <2>1. UNCHANGED <<job, pc, closed, ended, first>> /\ closed = {}
    BY <1>2 DEF Deliver, OfNetwork, userVars
  <2>2. ended = {}
    BY <1>0, <2>1 DEF ClosedOK, Types
  <2> QED BY <1>0, <2>1, <2>2 DEF SawEnd
<1> QED BY <1>1, <1>2 DEF OfNetwork, Network

LEMMA PipeSawEnd ==
  ASSUME IInv, NEW p \in Ends, PipeStep(p) \/ ReadStdin(p)
  PROVE  \A q \in Ends : SawEnd(q)'
<1>0. Types /\ (\A q \in Ends : EndOK(q) /\ SawEnd(q)) /\ 1 \in Routines /\ 2 \in Routines
  BY DEF IInv, Routines
<1> USE DEF userVars, callVars, syncVars, dataVars, channelVars
<1>1. CASE ReadStdin(p) \/ (pc[p][1] = "ok" /\ StdinCopied(p))
  <2>1. PICK l \in {"lock", "stdin", "done"} : Goto(p, 1, l)
    BY <1>1 DEF ReadStdin, StdinCopied
  <2>2. \A q \in Ends : pc'[q][2] = pc[q][2]
    BY <1>0, <2>1, GotoIs DEF Labels, InWrite
  <2>3. UNCHANGED <<job, closed, ended, inq, first>>
    BY <1>1 DEF ReadStdin, StdinCopied
  <2> QED BY <1>0, <2>2, <2>3, SawEndStays
<1>2. CASE pc[p][2] \in {"ok", "eof"} /\ WriteStdout(p)
  <2>1. PICK l \in {"read", "done"} : Goto(p, 2, l) /\ (l = "done" => pc[p][2] = "eof")
    BY <1>2 DEF WriteStdout
  <2>2. pc'[p][2] = l /\ \A q \in Ends : q # p => pc'[q] = pc[q]
    BY <1>0, <2>1, GotoIs DEF Labels
  <2>3. UNCHANGED <<job, closed, ended, inq, first>>
    BY <1>2 DEF WriteStdout
  <2>4. SawEnd(p)'
    BY <1>0, <2>1, <2>2, <2>3 DEF SawEnd
  <2> QED BY <1>0, <2>2, <2>3, <2>4, SawEndStays
<1>3. CASE Fatal(p) \/ PipeCloses(p)
  <2>1. /\ pc'[p][2] = "gone" /\ p \in closed' /\ (\A q \in Ends : q # p => pc'[q] = pc[q])
        /\ \A q \in Ends : q # p => (q \in closed' <=> q \in closed)
    BY <1>0, <1>3 DEF Fatal, PipeCloses, CloseChannel, Types
  <2>2. ended \subseteq ended' /\ UNCHANGED <<job, inq, first>>
    BY <1>3 DEF Fatal, PipeCloses, CloseChannel
  <2>3. SawEnd(p)'
    BY <1>0, <2>1, <2>2, SawEndLeaves
  <2>4. \A q \in Ends : q # p => SawEnd(q)'
    BY <1>0, <2>1, <2>2 DEF SawEnd
  <2> QED BY <2>3, <2>4
<1>4. CASE PipeStep(p) /\ MainDone(p)
  <2>1. PICK i \in Routines : pc[p][i] = "done" /\ first' = [first EXCEPT ![p] = i]
    BY <1>4 DEF MainDone
  <2>2. main[p] = "wait" /\ p \notin closed
    BY <1>0, <1>4 DEF MainDone, PipeStep, EndOK, PipeEnd
  <2>3. UNCHANGED <<job, pc, closed, ended, inq>> /\ first'[p] = i
        /\ \A q \in Ends : q # p => first'[q] = first[q]
    BY <1>0, <1>4, <2>1 DEF MainDone, Types
  <2>4. SawEnd(p)'
    BY <1>0, <2>1, <2>2, <2>3 DEF SawEnd
  <2> QED BY <1>0, <2>3, <2>4, SawEndStays
<1> QED BY <1>1, <1>2, <1>3, <1>4 DEF PipeStep, StdinCopied, WriteStdout

LEMMA CallSawEnd ==
  ASSUME IInv, NEW p \in Ends, CallStep(p) \/ SelectTimer(p), UNCHANGED first
  PROVE  \A q \in Ends : SawEnd(q)'
<1> USE DEF userVars, callVars, syncVars, dataVars, channelVars
<1>1. (\A q \in Ends : SawEnd(q)) /\ job[p] # "pipe" /\ job' = job
  BY DEF IInv, EndOK, PipeEnd, CallStep, Call, SelectDone, SelectTimer, SetTimeout, CallReturns, CallerCloses
<1>2. \A q \in Ends : q # p => pc'[q] = pc[q] /\ (q \in closed' <=> q \in closed)
  <2>0. Types
    BY DEF IInv
  <2>1. CASE Call(p)
    <3>1. pc' = pc \/ \E i \in Routines, l \in {"lock", "read"} : Goto(p, i, l)
      BY <2>1 DEF Call, Idle
    <3> QED BY <2>0, <2>1, <3>1, GotoIs DEF Labels, InWrite, Call
  <2>2. CASE CallReturns(p)
    BY <2>0, <2>2 DEF CallReturns, Types
  <2> QED BY <2>1, <2>2 DEF CallStep, SelectDone, SelectTimer, SetTimeout, CallerCloses, CloseChannel
<1>3. ended \subseteq ended' /\ inq' = inq
  BY DEF CallStep, Call, SelectDone, SelectTimer, SetTimeout, CallReturns, CallerCloses, CloseChannel
<1>4. SawEnd(p)'
  BY <1>1 DEF SawEnd
<1> QED BY <1>1, <1>2, <1>3, <1>4 DEF SawEnd

LEMMA SawEndStep ==
  ASSUME IInv, Next
  PROVE  \A q \in Ends : SawEnd(q)'
<1>1. CASE Break /\ UNCHANGED <<first, callVars>>
  BY <1>1 DEF IInv, Break, SawEnd, userVars
<1> QED BY <1>1, RoutineSawEnd, NetworkSawEnd, PipeSawEnd, CallSawEnd
       DEF Next, System, OfProgram, OfTimer, OfEnvironment

-----------------------------------------------------------------------------
(* The messages on their way: the steps that move none of them. *)

LEMMA Counts ==
  ASSUME Types
  PROVE  \A p \in Ends :
           /\ Len(out[p]) \in Nat /\ Len(inq[p]) \in Nat /\ Len(buf[p]) \in Nat
           /\ Base(p) \in Nat /\ sent[p] \in Nat
           /\ out[p] \in Seq(Numbers) /\ inq[p] \in Seq(Numbers) /\ buf[p] \in Seq(Numbers)
           /\ \A i \in Routines : carries[p][i] \in Numbers /\ carries[p][i] \in Nat
<1>1. TAKE p \in Ends
<1>2. out[p] \in Seq(Numbers) /\ inq[p] \in Seq(Numbers) /\ buf[p] \in Seq(Numbers) /\ sent[p] \in Nat
  BY DEF Types
<1>3. Len(out[p]) \in Nat /\ Len(inq[p]) \in Nat /\ Len(buf[p]) \in Nat
  BY <1>2, QueueFacts
<1>4. Base(p) \in Nat
  <2>1. Held(p) = 0 \/ Held(p) = 1
    BY DEF Held
  <2> QED BY <1>3, <2>1 DEF Base
<1>5. \A i \in Routines : carries[p][i] \in Numbers /\ carries[p][i] \in Nat
  BY NumberFacts DEF Types
<1> QED BY <1>2, <1>3, <1>4, <1>5

(* What is left of the stream to end q, and what its sender may add. *)
ReceiverSame(q) ==
  /\ q \in expired => q \in expired'
  /\ q \in closed => q \in closed'
  /\ out'[q] = out[q] /\ inq'[q] = inq[q]
  /\ \A i \in Routines : Holding(q, i)' <=> Holding(q, i)
  /\ \A i \in Routines : Holding(q, i) => carries'[q][i] = carries[q][i]

SenderSame(q) ==
  /\ buf'[q] = buf[q] /\ sent'[q] = sent[q]
  /\ \A i \in Routines : pc'[q][i] \in InWrite => pc[q][i] \in InWrite /\ carries'[q][i] = carries[q][i]
  /\ AllWritten(q)' => AllWritten(q)

LEMMA StreamStays ==
  ASSUME NEW q \in Ends, Stream(q), ReceiverSame(q), SenderSame(Other(q))
  PROVE  Stream(q)'
<1>1. Base(q)' = Base(q)
  BY DEF Base, Held, ReceiverSame
<1>2. Total(q)' = Total(q)
  BY <1>1 DEF Total, ReceiverSame, SenderSame
<1>3. OutOK(q) => OutOK(q)'
  BY DEF OutOK, ReceiverSame, SenderSame
<1>4. ASSUME OnTheWay(q)
      PROVE  OnTheWay(q)'
  <2>1. Total(q)' <= sent'[Other(q)]
    BY <1>2, <1>4 DEF OnTheWay, SenderSame
  <2>2. \A i \in Routines : Holding(q, i)' => carries'[q][i] = Base(q)'
    BY <1>1, <1>4 DEF OnTheWay, ReceiverSame
  <2>3. /\ \A k \in 1 .. Len(inq'[q]) : inq'[q][k] = Base(q)' + k
        /\ \A k \in 1 .. Len(buf'[Other(q)]) : buf'[Other(q)][k] = Base(q)' + Len(inq'[q]) + k
    BY <1>1, <1>4 DEF OnTheWay, ReceiverSame, SenderSame
  <2>4. \A i \in Routines : pc'[Other(q)][i] \in InWrite =>
          carries'[Other(q)][i] = Total(q)' + 1 /\ sent'[Other(q)] = Total(q)' + 1
    BY <1>2, <1>4 DEF OnTheWay, SenderSame
  <2>5. AllWritten(Other(q))' => sent'[Other(q)] = Total(q)'
    BY <1>2, <1>4 DEF OnTheWay, SenderSame
  <2> QED BY <2>1, <2>2, <2>3, <2>4, <2>5 DEF OnTheWay
<1> QED BY <1>3, <1>4 DEF Stream, ReceiverSame

(* An end that a step has nothing to do with. *)
Untouched(q) ==
  /\ job' = job /\ pc'[q] = pc[q] /\ carries'[q] = carries[q] /\ main'[q] = main[q]
  /\ first'[q] = first[q] /\ retN'[q] = retN[q]
  /\ out'[q] = out[q] /\ inq'[q] = inq[q] /\ buf'[q] = buf[q] /\ sent'[q] = sent[q]
  /\ q \in expired => q \in expired'
  /\ q \in closed => q \in closed'

LEMMA UntouchedSame ==
  ASSUME NEW q \in Ends, Untouched(q)
  PROVE  ReceiverSame(q) /\ SenderSame(q)
<1>1. \A i \in Routines : Holding(q, i)' <=> Holding(q, i)
  BY DEF Holding, Reads, Untouched
<1>2. AllWritten(q)' <=> AllWritten(q)
  BY DEF AllWritten, Untouched
<1> QED BY <1>1, <1>2 DEF ReceiverSame, SenderSame, Untouched

(* A step of one end that moves no message. *)
LEMMA NothingMoves ==
  ASSUME NEW p \in Ends, Untouched(Other(p)), SenderSame(p),
         ReceiverSame(p) \/ p \in expired', \A q \in Ends : Stream(q)
  PROVE  \A q \in Ends : Stream(q)'
<1>1. ReceiverSame(Other(p)) /\ SenderSame(Other(p)) /\ Other(Other(p)) = p
  BY TwoEnds, UntouchedSame
<1>2. Stream(Other(p))'
  BY <1>1, TwoEnds, StreamStays
<1>3. Stream(p)'
  <2>1. CASE ReceiverSame(p)
    BY <1>1, <2>1, StreamStays
  <2>2. CASE p \in expired'
    BY <2>2 DEF Stream
  <2> QED BY <2>1, <2>2
<1> QED BY <1>2, <1>3, TwoEnds

(* One routine of p goes on, and its end keeps or loses no message by that. *)
LEMMA RoutineMovesNothing ==
  ASSUME IInv, NEW p \in Ends, NEW i \in Routines, NEW l \in Labels, Goto(p, i, l),
         UNCHANGED <<job, carries, main, first, retN, out, inq, buf, sent, expired, closed>>,
         l \in InWrite => pc[p][i] \in InWrite,
         l \in {"stdin", "ok", "nil", "done"} =>
           pc[p][i] \in {"stdin", "ok", "nil", "done"} \/ (job[p] = "pipe" /\ i # 1),
         p \notin expired => (Holding(p, i)' <=> Holding(p, i))
  PROVE  \A q \in Ends : Stream(q)'
<1>1. Types /\ \A q \in Ends : Stream(q)
  BY DEF IInv
<1>2. /\ pc'[p][i] = l /\ (\A j \in Routines : j # i => pc'[p][j] = pc[p][j])
      /\ \A q \in Ends : q # p => pc'[q] = pc[q]
  BY <1>1, GotoIs
<1>3. Untouched(Other(p))
  BY <1>2, TwoEnds DEF Untouched
<1>4. p \notin expired => \A j \in Routines : Holding(p, j)' <=> Holding(p, j)
  BY <1>2 DEF Holding, Reads
<1>5. AllWritten(p)' => AllWritten(p)
  <2>1. 1 \in Routines /\ EndOK(p)
    BY DEF Routines, IInv
  <2>2. CASE job[p] = "pipe"
    BY <1>2, <2>1, <2>2 DEF AllWritten, EndOK, PipeEnd, StdinLabels, InWrite
  <2>3. CASE job[p] = "send"
    BY <1>2, <2>1, <2>3 DEF AllWritten, EndOK, CallEnd, SendLabels, InWrite, Stored
  <2> QED BY <2>2, <2>3 DEF AllWritten
<1>6. SenderSame(p) /\ (p \notin expired => ReceiverSame(p))
  BY <1>2, <1>4, <1>5 DEF SenderSame, ReceiverSame
<1> QED BY <1>1, <1>3, <1>6, NothingMoves

-----------------------------------------------------------------------------
(* The messages on their way: the steps that move one of them. *)

LEMMA Sums ==
  \A a, b, c, d \in Nat : a + 1 + b + c <= d => a + 1 <= d
OBVIOUS

(* A message is taken from the source, to be written. *)
LEMMA SourceMoves ==
  ASSUME Types, NEW q \in Ends, NEW s \in Ends, s = Other(q), NEW i \in Routines,
         Stream(q), ReceiverSame(q), q \notin closed => AllWritten(s),
         buf'[s] = buf[s], sent'[s] = sent[s] + 1, carries'[s][i] = sent[s] + 1,
         \A j \in Routines : pc'[s][j] \in InWrite => j = i, ~AllWritten(s)'
  PROVE  Stream(q)'
<1>1. Base(q)' = Base(q) /\ Total(q)' = Total(q)
  BY DEF Base, Held, Total, ReceiverSame
<1>2. Len(out[q]) \in Nat /\ sent[s] \in Nat
  BY Counts
<1>3. OutOK(q) => OutOK(q)'
  BY <1>2 DEF OutOK, ReceiverSame
<1>4. ASSUME OnTheWay(q), q \notin closed
      PROVE  OnTheWay(q)'
  <2>1. sent[s] = Total(q)
    BY <1>4 DEF OnTheWay
  <2>2. Total(q)' <= sent'[s]
    BY <1>1, <1>2, <2>1
  <2>3. \A j \in Routines : Holding(q, j)' => carries'[q][j] = Base(q)'
    BY <1>1, <1>4 DEF OnTheWay, ReceiverSame
  <2>4. /\ \A k \in 1 .. Len(inq'[q]) : inq'[q][k] = Base(q)' + k
        /\ \A k \in 1 .. Len(buf'[s]) : buf'[s][k] = Base(q)' + Len(inq'[q]) + k
    BY <1>1, <1>4 DEF OnTheWay, ReceiverSame
  <2>5. \A j \in Routines : pc'[s][j] \in InWrite =>
          carries'[s][j] = Total(q)' + 1 /\ sent'[s] = Total(q)' + 1
    BY <1>1, <2>1
  <2> QED BY <2>2, <2>3, <2>4, <2>5 DEF OnTheWay
<1> QED BY <1>3, <1>4 DEF Stream, ReceiverSame

(* It is written. *)
LEMMA WriteMoves ==
  ASSUME Types, NEW q \in Ends, NEW s \in Ends, s = Other(q), NEW i \in Routines,
         Stream(q), ReceiverSame(q), pc[s][i] \in InWrite,
         buf'[s] = Append(buf[s], carries[s][i]), sent'[s] = sent[s],
         \A j \in Routines : pc'[s][j] \notin InWrite
  PROVE  Stream(q)'
<1>1. /\ Len(out[q]) \in Nat /\ Len(inq[q]) \in Nat /\ Len(buf[s]) \in Nat
      /\ Base(q) \in Nat /\ buf[s] \in Seq(Numbers) /\ carries[s][i] \in Numbers
  BY Counts
<1>2. Base(q)' = Base(q)
  BY DEF Base, Held, ReceiverSame
<1>3. /\ Len(buf'[s]) = Len(buf[s]) + 1 /\ buf'[s][Len(buf[s]) + 1] = carries[s][i]
      /\ \A k \in 1 .. Len(buf[s]) : buf'[s][k] = buf[s][k]
  BY <1>1, QueueFacts
<1>4. Total(q)' = Total(q) + 1
  BY <1>1, <1>2, <1>3 DEF Total, ReceiverSame
<1>5. OutOK(q) => OutOK(q)'
  BY DEF OutOK, ReceiverSame
<1>6. ASSUME OnTheWay(q)
      PROVE  OnTheWay(q)'
  <2>1. carries[s][i] = Total(q) + 1 /\ sent[s] = Total(q) + 1
    BY <1>6 DEF OnTheWay
  <2>2. Total(q)' <= sent'[s] /\ sent'[s] = Total(q)'
    BY <1>1, <1>4, <2>1 DEF Total
  <2>3. \A j \in Routines : Holding(q, j)' => carries'[q][j] = Base(q)'
    BY <1>2, <1>6 DEF OnTheWay, ReceiverSame
  <2>4. \A k \in 1 .. Len(inq'[q]) : inq'[q][k] = Base(q)' + k
    BY <1>2, <1>6 DEF OnTheWay, ReceiverSame
  <2>5. \A k \in 1 .. Len(buf'[s]) : buf'[s][k] = Base(q)' + Len(inq'[q]) + k
    <3>1. TAKE k \in 1 .. Len(buf'[s])
    <3>2. CASE k \in 1 .. Len(buf[s])
      BY <1>2, <1>3, <1>6, <3>2 DEF OnTheWay, ReceiverSame
    <3>3. CASE k = Len(buf[s]) + 1
      <4>1. buf'[s][k] = Total(q) + 1
        BY <1>3, <2>1, <3>3
      <4>2. Total(q) = Base(q) + Len(inq[q]) + Len(buf[s]) /\ inq'[q] = inq[q]
        BY DEF Total, ReceiverSame
      <4> QED BY <1>1, <1>2, <3>3, <4>1, <4>2
    <3> QED BY <1>1, <1>3, <3>2, <3>3
  <2> QED BY <2>2, <2>3, <2>4, <2>5 DEF OnTheWay
<1> QED BY <1>5, <1>6 DEF Stream, ReceiverSame

(* It arrives. *)
LEMMA ArrivalMoves ==
  ASSUME Types, NEW q \in Ends, NEW s \in Ends, s = Other(q), Stream(q), buf[s] # <<>>,
         inq'[q] = Append(inq[q], Head(buf[s])), buf'[s] = Tail(buf[s]),
         UNCHANGED <<job, pc, carries, main, first, retN, out, sent, expired, closed>>
  PROVE  Stream(q)'
<1>1. /\ Len(out[q]) \in Nat /\ Len(inq[q]) \in Nat /\ Len(buf[s]) \in Nat
      /\ Base(q) \in Nat /\ buf[s] \in Seq(Numbers) /\ inq[q] \in Seq(Numbers)
  BY Counts
<1>2. Base(q)' = Base(q)
  BY DEF Base, Held, Holding, Reads
<1>3. /\ Len(buf[s]) > 0 /\ Head(buf[s]) = buf[s][1] /\ Head(buf[s]) \in Numbers
      /\ Len(buf'[s]) = Len(buf[s]) - 1
      /\ \A k \in 1 .. Len(buf[s]) - 1 : buf'[s][k] = buf[s][k + 1]
  BY <1>1, QueueFacts
<1>4. /\ Len(inq'[q]) = Len(inq[q]) + 1 /\ inq'[q][Len(inq[q]) + 1] = buf[s][1]
      /\ \A k \in 1 .. Len(inq[q]) : inq'[q][k] = inq[q][k]
  BY <1>1, <1>3, QueueFacts
<1>5. Total(q)' = Total(q)
  BY <1>1, <1>2, <1>3, <1>4 DEF Total
<1>6. OutOK(q) => OutOK(q)'
  BY DEF OutOK
<1>7. ASSUME OnTheWay(q)
      PROVE  OnTheWay(q)'
  <2>1. buf[s][1] = Base(q) + Len(inq[q]) + 1
    <3>1. 1 \in 1 .. Len(buf[s])
      BY <1>1, <1>3
    <3> QED BY <1>7, <3>1 DEF OnTheWay
  <2>2. \A k \in 1 .. Len(inq'[q]) : inq'[q][k] = Base(q)' + k
    <3>1. TAKE k \in 1 .. Len(inq'[q])
    <3>2. CASE k \in 1 .. Len(inq[q])
      BY <1>2, <1>4, <1>7, <3>2 DEF OnTheWay
    <3>3. CASE k = Len(inq[q]) + 1
      BY <1>1, <1>2, <1>4, <2>1, <3>3
    <3> QED BY <1>1, <1>4, <3>2, <3>3
  <2>3. \A k \in 1 .. Len(buf'[s]) : buf'[s][k] = Base(q)' + Len(inq'[q]) + k
    <3>1. TAKE k \in 1 .. Len(buf'[s])
    <3>2. k + 1 \in 1 .. Len(buf[s]) /\ buf'[s][k] = buf[s][k + 1]
      BY <1>1, <1>3
    <3>3. buf[s][k + 1] = Base(q) + Len(inq[q]) + (k + 1)
      BY <1>7, <3>2 DEF OnTheWay
    <3>4. buf'[s][k] = Base(q) + Len(inq[q]) + (k + 1)
      BY <3>2, <3>3
    <3>5. Base(q) + Len(inq[q]) + (k + 1) = Base(q) + (Len(inq[q]) + 1) + k
      <4>1. PICK a \in Nat, b \in Nat : a = Base(q) /\ b = Len(inq[q])
        BY <1>1
      <4>2. a + b + (k + 1) = a + (b + 1) + k
        OBVIOUS
      <4> QED BY <4>1, <4>2
    <3> QED BY <1>2, <1>4, <3>4, <3>5
  <2>4. \A j \in Routines : Holding(q, j)' => carries'[q][j] = Base(q)'
    BY <1>2, <1>7 DEF OnTheWay, Holding, Reads
  <2>5. /\ Total(q)' <= sent'[s]
        /\ \A j \in Routines : pc'[s][j] \in InWrite =>
             carries'[s][j] = Total(q)' + 1 /\ sent'[s] = Total(q)' + 1
        /\ AllWritten(s)' => sent'[s] = Total(q)'
    BY <1>5, <1>7 DEF OnTheWay, AllWritten
  <2> QED BY <2>2, <2>3, <2>4, <2>5 DEF OnTheWay
<1> QED BY <1>6, <1>7 DEF Stream

(* It is read. *)
LEMMA ReadMoves ==
  ASSUME Types, NEW q \in Ends, Stream(q), SenderSame(Other(q)), NEW i \in Routines,
         UNCHANGED <<out, expired, closed>>, inq[q] # <<>>, inq'[q] = Tail(inq[q]),
         carries'[q][i] = Head(inq[q]),
         \A j \in Routines : ~Holding(q, j) /\ (Holding(q, j)' <=> j = i)
  PROVE  Stream(q)'
<1> DEFINE s == Other(q)
<1>1. /\ s \in Ends /\ Len(out[q]) \in Nat /\ Len(inq[q]) \in Nat /\ Len(buf[s]) \in Nat
      /\ Base(q) \in Nat /\ inq[q] \in Seq(Numbers)
  BY Counts, TwoEnds
<1>2. Held(q) = 0 /\ Held(q)' = 1
  BY DEF Held
<1>3. Base(q)' = Base(q) + 1
  BY <1>1, <1>2 DEF Base
<1>4. /\ Len(inq[q]) > 0 /\ Head(inq[q]) = inq[q][1]
      /\ Len(inq'[q]) = Len(inq[q]) - 1
      /\ \A k \in 1 .. Len(inq[q]) - 1 : inq'[q][k] = inq[q][k + 1]
  BY <1>1, QueueFacts
<1>5. Total(q)' = Total(q) /\ buf'[s] = buf[s] /\ sent'[s] = sent[s]
  BY <1>1, <1>3, <1>4 DEF Total, SenderSame
<1>6. OutOK(q) => OutOK(q)'
  BY <1>5 DEF OutOK
<1>7. ASSUME OnTheWay(q)
      PROVE  OnTheWay(q)'
  <2>1. \A j \in Routines : Holding(q, j)' => carries'[q][j] = Base(q)'
    BY <1>1, <1>3, <1>4, <1>7 DEF OnTheWay
  <2>2. \A k \in 1 .. Len(inq'[q]) : inq'[q][k] = Base(q)' + k
    <3>1. TAKE k \in 1 .. Len(inq'[q])
    <3>2. k + 1 \in 1 .. Len(inq[q]) /\ inq'[q][k] = inq[q][k + 1]
      BY <1>1, <1>4
    <3>3. inq[q][k + 1] = Base(q) + (k + 1)
      BY <1>7, <3>2 DEF OnTheWay
    <3> QED BY <1>1, <1>3, <3>2, <3>3
  <2>3. \A k \in 1 .. Len(buf'[s]) : buf'[s][k] = Base(q)' + Len(inq'[q]) + k
    BY <1>1, <1>3, <1>4, <1>5, <1>7 DEF OnTheWay
  <2>4. /\ Total(q)' <= sent'[s]
        /\ \A j \in Routines : pc'[s][j] \in InWrite =>
             carries'[s][j] = Total(q)' + 1 /\ sent'[s] = Total(q)' + 1
        /\ AllWritten(s)' => sent'[s] = Total(q)'
    BY <1>5, <1>7 DEF OnTheWay, SenderSame
  <2> QED BY <2>1, <2>2, <2>3, <2>4 DEF OnTheWay
<1> QED BY <1>6, <1>7 DEF Stream

(* It is handed on. *)
LEMMA SinkMoves ==
  ASSUME Types, NEW q \in Ends, Stream(q), SenderSame(Other(q)), NEW i \in Routines,
         q \notin expired, q \notin closed, UNCHANGED <<expired, closed, inq>>,
         out'[q] = Append(out[q], carries[q][i]),
         Holding(q, i), \A j \in Routines : ~Holding(q, j)'
  PROVE  Stream(q)'
<1> DEFINE s == Other(q)
<1>1. /\ s \in Ends /\ Len(out[q]) \in Nat /\ Len(inq[q]) \in Nat /\ Len(buf[s]) \in Nat
      /\ sent[s] \in Nat /\ out[q] \in Seq(Numbers) /\ carries[q][i] \in Numbers
  BY Counts, TwoEnds
<1>2. Held(q) = 1 /\ Held(q)' = 0
  BY DEF Held
<1>3. /\ Len(out'[q]) = Len(out[q]) + 1 /\ out'[q][Len(out[q]) + 1] = carries[q][i]
      /\ \A k \in 1 .. Len(out[q]) : out'[q][k] = out[q][k]
  BY <1>1, QueueFacts
<1>4. Base(q) = Len(out[q]) + 1 /\ Base(q)' = Base(q)
  BY <1>1, <1>2, <1>3 DEF Base
<1>5. Total(q)' = Total(q) /\ buf'[s] = buf[s] /\ sent'[s] = sent[s]
  BY <1>4 DEF Total, SenderSame
<1>6. OutOK(q) /\ OnTheWay(q)
  BY DEF Stream
<1>7. carries[q][i] = Len(out[q]) + 1 /\ Len(out[q]) + 1 <= sent[s]
  <2>1. carries[q][i] = Base(q) /\ Total(q) <= sent[s]
    BY <1>6 DEF OnTheWay
  <2>2. Total(q) = Len(out[q]) + 1 + Len(inq[q]) + Len(buf[s])
    BY <1>4 DEF Total
  <2>3. Len(out[q]) + 1 + Len(inq[q]) + Len(buf[s]) <= sent[s]
    BY <2>1, <2>2
  <2>4. Len(out[q]) + 1 <= sent[s]
    BY <1>1, <2>3, Sums
  <2> QED BY <1>4, <2>1, <2>4
<1>8. OutOK(q)'
  <2>1. \A k \in 1 .. Len(out'[q]) : out'[q][k] = k
    <3>1. TAKE k \in 1 .. Len(out'[q])
    <3>2. CASE k \in 1 .. Len(out[q])
      BY <1>3, <1>6, <3>2 DEF OutOK
    <3>3. CASE k = Len(out[q]) + 1
      BY <1>3, <1>7, <3>3
    <3> QED BY <1>1, <1>3, <3>2, <3>3
  <2> QED BY <1>3, <1>5, <1>7, <2>1 DEF OutOK
<1>9. OnTheWay(q)'
  BY <1>4, <1>5, <1>6 DEF OnTheWay, SenderSame
<1> QED BY <1>8, <1>9 DEF Stream

-----------------------------------------------------------------------------
(* The messages on their way: each step. *)

LEMMA PutStream ==
  ASSUME IInv, NEW p \in Ends, NEW i \in Routines, Put(p, i), UNCHANGED <<first, callVars>>
  PROVE  \A q \in Ends : Stream(q)'
<1>0. Types /\ EndOK(p) /\ (\A q \in Ends : Stream(q)) /\ pc[p][i] = "write"
  BY DEF IInv, Put
<1>1. ~Reads(p, i) /\ UNCHANGED <<job, carries, main, first, retN, out, inq, sent, expired, closed>>
  BY <1>0 DEF Put, Reads, EndOK, PipeEnd, CallEnd, StdoutLabels, ReceiveLabels, InWrite, Outcomes,
              Stored, callVars, userVars
<1>2. CASE p \notin closed /\ buf' = [buf EXCEPT ![p] = Append(@, carries[p][i])] /\ Goto(p, i, "ok")
  <2>1. /\ pc'[p][i] = "ok" /\ (\A j \in Routines : j # i => pc'[p][j] = pc[p][j])
        /\ \A q \in Ends : q # p => pc'[q] = pc[q]
    BY <1>0, <1>2, GotoIs DEF Labels, Outcomes
  <2>2. buf'[p] = Append(buf[p], carries[p][i]) /\ \A q \in Ends : q # p => buf'[q] = buf[q]
    BY <1>0, <1>2 DEF Types
  <2>3. Untouched(Other(p))
    BY <1>1, <2>1, <2>2, TwoEnds DEF Untouched
  <2>4. ReceiverSame(p)
    <3>1. \A j \in Routines : Holding(p, j)' <=> Holding(p, j)
      BY <1>1, <2>1 DEF Holding, Reads
    <3> QED BY <1>1, <3>1 DEF ReceiverSame
  <2>5. Stream(p)'
    BY <1>0, <2>3, <2>4, TwoEnds, UntouchedSame, StreamStays
  <2>6. \A j \in Routines : pc'[p][j] \notin InWrite
    BY <1>0, <2>1, OneWriterAt DEF InWrite
  <2>7. ReceiverSame(Other(p)) /\ Other(p) \in Ends /\ p = Other(Other(p))
    BY <2>3, TwoEnds, UntouchedSame
  <2>8. Stream(Other(p))'
    BY <1>0, <1>1, <2>2, <2>6, <2>7, WriteMoves DEF InWrite
  <2> QED BY <2>5, <2>8, TwoEnds
<1>3. CASE Goto(p, i, "err") /\ UNCHANGED buf
  <2>1. ~Holding(p, i) /\ ~Holding(p, i)'
    BY <1>1 DEF Holding, Reads
  <2> QED BY <1>1, <1>3, <2>1, RoutineMovesNothing DEF Labels, InWrite, Outcomes
<1> QED BY <1>2, <1>3 DEF Put

LEMMA TakeStream ==
  ASSUME IInv, NEW p \in Ends, NEW i \in Routines, Take(p, i), UNCHANGED <<first, callVars>>
  PROVE  \A q \in Ends : Stream(q)'
<1>0. Types /\ EndOK(p) /\ (\A q \in Ends : Stream(q)) /\ pc[p][i] = "read" /\ inq[p] # <<>>
  BY DEF IInv, Take
<1>1. /\ pc'[p][i] = "ok" /\ (\A j \in Routines : j # i => pc'[p][j] = pc[p][j])
      /\ \A q \in Ends : q # p => pc'[q] = pc[q]
  BY <1>0, GotoIs DEF Take, Labels, Outcomes
<1>2. Head(inq[p]) \in Numbers
  BY <1>0, QueueFacts DEF Types
<1>3. /\ carries'[p][i] = Head(inq[p]) /\ (\A j \in Routines : j # i => carries'[p][j] = carries[p][j])
      /\ \A q \in Ends : q # p => carries'[q] = carries[q]
  BY <1>0, <1>2, CarriesIs DEF Take
<1>4. UNCHANGED <<job, main, first, retN, out, buf, sent, expired, closed>>
      /\ inq'[p] = Tail(inq[p]) /\ \A q \in Ends : q # p => inq'[q] = inq[q]
  BY <1>0 DEF Take, Types, callVars, userVars
<1>5. Untouched(Other(p))
  BY <1>1, <1>3, <1>4, TwoEnds DEF Untouched
<1>6. /\ job[p] = "pipe" => i = 2
      /\ job[p] # "send"
      /\ job[p] # "pipe" => \A j \in Routines : j # i => pc[p][j] = "idle"
  BY <1>0 DEF EndOK, PipeEnd, CallEnd, StdinLabels, SendLabels, InWrite, Routines
<1>7. SenderSame(p)
  <2>1. AllWritten(p)' => AllWritten(p)
    BY <1>1, <1>4, <1>6 DEF AllWritten, Routines
  <2> QED BY <1>1, <1>3, <1>4, <2>1 DEF SenderSame, InWrite
<1>8. \A j \in Routines : ~Holding(p, j) /\ (Holding(p, j)' <=> j = i)
  BY <1>0, <1>1, <1>4, <1>6, JobFacts DEF Holding, Reads, Routines
<1>9. Stream(p)'
  BY <1>0, <1>3, <1>4, <1>5, <1>8, TwoEnds, UntouchedSame, ReadMoves
<1>10. Stream(Other(p))'
  BY <1>0, <1>5, <1>7, TwoEnds, UntouchedSame, StreamStays
<1> QED BY <1>9, <1>10, TwoEnds

LEMMA StoreNStream ==
  ASSUME IInv, NEW p \in Ends, NEW i \in Routines, StoreN(p, i), UNCHANGED first
  PROVE  \A q \in Ends : Stream(q)'
<1> DEFINE l == Stores(pc[p][i])
<1>0. Types /\ EndOK(p) /\ \A q \in Ends : Stream(q)
  BY DEF IInv
<1>1. /\ call[p] = i /\ pc[p][i] \in Outcomes /\ l \in Labels /\ Goto(p, i, l)
      /\ retN' = [retN EXCEPT ![p] = IF pc[p][i] = "ok" THEN 1 ELSE 0]
      /\ UNCHANGED <<job, carries, main, first, out, inq, buf, sent, expired, closed>>
  BY StoreNIs DEF Stored, Labels
<1>2. /\ pc'[p][i] = l /\ (\A j \in Routines : j # i => pc'[p][j] = pc[p][j])
      /\ \A q \in Ends : q # p => pc'[q] = pc[q]
  BY <1>0, <1>1, GotoIs
<1>3. retN'[p] = (IF pc[p][i] = "ok" THEN 1 ELSE 0) /\ \A q \in Ends : q # p => retN'[q] = retN[q]
  BY <1>0, <1>1 DEF Types
<1>4. Untouched(Other(p))
  BY <1>1, <1>2, <1>3, TwoEnds DEF Untouched
<1>5. /\ job[p] # "pipe"
      /\ \A j \in Routines : j # i => pc[p][j] = "idle"
  BY <1>0, <1>1 DEF EndOK, PipeEnd, CallEnd, Routines, Outcomes
<1>6. l = "nil" <=> pc[p][i] = "ok"
  BY DEF Stores
<1>7. ReceiverSame(p)
  <2>1. \A j \in Routines : Holding(p, j)' <=> Holding(p, j)
    BY <1>1, <1>2, <1>5, <1>6 DEF Holding, Reads, Outcomes, Stores
  <2> QED BY <1>1, <2>1 DEF ReceiverSame
<1>8. SenderSame(p)
  <2>1. \A j \in Routines : pc'[p][j] \in InWrite => pc[p][j] \in InWrite
    BY <1>2 DEF Stores, InWrite
  <2>2. AllWritten(p)' => AllWritten(p)
    BY <1>1, <1>2, <1>3, <1>5, <1>6 DEF AllWritten, Stores
  <2> QED BY <1>1, <2>1, <2>2 DEF SenderSame
<1> QED BY <1>0, <1>4, <1>7, <1>8, NothingMoves

LEMMA RoutineStream ==
  ASSUME IInv, NEW p \in Ends, NEW i \in Routines, OfRoutine(p, i)
  PROVE  \A q \in Ends : Stream(q)'
<1>0. Types /\ EndOK(p) /\ \A q \in Ends : Stream(q)
  BY DEF IInv
<1> USE DEF userVars, callVars, dataVars
<1>1. CASE (Lock(p, i) \/ Park(p, i) \/ ReadEnds(p, i)) /\ UNCHANGED <<first, callVars>>
  <2>1. PICK l \in {"park", "write", "waiting", "eof", "err"} : Goto(p, i, l)
    BY <1>1 DEF Lock, Park, ReadEnds
  <2>2. l \in Labels /\ (l \in InWrite => pc[p][i] \in InWrite)
        /\ UNCHANGED <<job, carries, main, first, retN, out, inq, buf, sent, expired, closed>>
    BY <1>1, <1>0, <2>1, GotoIs DEF Lock, Park, ReadEnds, Labels, InWrite, Outcomes
  <2>3. ~Holding(p, i) /\ ~Holding(p, i)'
    BY <1>0, <1>1, <2>1, <2>2, GotoIs DEF Holding, Lock, Park, ReadEnds
  <2> QED BY <2>1, <2>2, <2>3, RoutineMovesNothing
<1>2. CASE StoreErr(p, i) /\ UNCHANGED first
  <2>1. /\ call[p] = i /\ pc[p][i] \in Stored /\ Goto(p, i, "returned") /\ "returned" \in Labels
        /\ UNCHANGED <<job, carries, main, first, retN, out, inq, buf, sent, expired, closed>>
    BY <1>2 DEF StoreErr, Stored, Labels
  <2>2. pc'[p][i] = "returned"
    BY <1>0, <2>1, GotoIs
  <2>3. CallEnd(p) /\ Results(p) /\ Calling(p)
    BY <1>0, <2>1 DEF EndOK, PipeEnd, CallEnd, Routines
  <2>4. p \notin expired => (retN[p] = 1 <=> pc[p][i] = "nil")
    BY <2>1, <2>3 DEF Results, Calling
  <2>5. p \notin expired => (Holding(p, i)' <=> Holding(p, i))
    BY <2>1, <2>2, <2>4 DEF Holding, Reads, Stored
  <2> QED BY <2>1, <2>5, RoutineMovesNothing DEF InWrite
<1>3. CASE AbandonedEnds(p, i) /\ UNCHANGED first
  <2>1. /\ job[p] # "pipe" /\ call[p] # i /\ pc[p][i] \in Outcomes \cup Stored
        /\ Goto(p, i, "idle") /\ carries' = [carries EXCEPT ![p][i] = 0]
        /\ UNCHANGED <<job, main, first, retN, out, inq, buf, sent, expired, closed>>
    BY <1>3 DEF AbandonedEnds, Stored
  <2>2. /\ pc'[p][i] = "idle" /\ (\A j \in Routines : j # i => pc'[p][j] = pc[p][j])
        /\ \A q \in Ends : q # p => pc'[q] = pc[q]
    BY <1>0, <2>1, GotoIs DEF Labels
  <2>3. /\ \A j \in Routines : j # i => carries'[p][j] = carries[p][j]
        /\ \A q \in Ends : q # p => carries'[q] = carries[q]
    BY <1>0, <2>1, NumberFacts, CarriesIs
  <2>4. Untouched(Other(p))
    BY <2>1, <2>2, <2>3, TwoEnds DEF Untouched
  <2>5. p \in expired'
    BY <1>0, <2>1 DEF EndOK, CallEnd, Outcomes, Stored
  <2>6. SenderSame(p)
    <3>1. AllWritten(p)' => AllWritten(p)
      BY <2>1, <2>2 DEF AllWritten
    <3> QED BY <2>1, <2>2, <2>3, <3>1 DEF SenderSame, InWrite
  <2> QED BY <1>0, <2>4, <2>5, <2>6, NothingMoves
<1> QED BY <1>1, <1>2, <1>3, PutStream, TakeStream, StoreNStream DEF OfRoutine, Routine

LEMMA NetworkStream ==
  ASSUME IInv, NEW p \in Ends, OfNetwork(p)
  PROVE  \A q \in Ends : Stream(q)'
<1>0. Types /\ EndOK(p) /\ \A q \in Ends : Stream(q)
  BY DEF IInv
<1> USE DEF userVars, callVars, dataVars
<1>1. CASE Flushed(p)
  <2>1. UNCHANGED <<job, carries, main, first, retN, out, inq, buf, sent, expired, closed>>
    BY <1>1 DEF OfNetwork, Flushed
  <2>2. CASE UNCHANGED pc
    <3>1. \A q \in Ends : Untouched(q)
      BY <2>1, <2>2 DEF Untouched
    <3> QED BY <1>0, <3>1, TwoEnds, UntouchedSame, NothingMoves
  <2>3. CASE \E i \in Waiting(p) : Goto(p, i, "lock")
    <3>1. PICK i \in Routines : pc[p][i] = "waiting" /\ Goto(p, i, "lock")
      BY <2>3 DEF Waiting
    <3>2. ~Holding(p, i) /\ ~Holding(p, i)'
      BY <1>0, <3>1, GotoIs DEF Holding, Labels, InWrite
    <3> QED BY <2>1, <3>1, <3>2, RoutineMovesNothing DEF InWrite, Labels
  <2> QED BY <1>1, <2>2, <2>3 DEF Flushed, Signal
<1>2. CASE Deliver(p)
  <2> DEFINE o == Other(p)
  <2>1. /\ UNCHANGED <<job, pc, carries, main, first, retN, out, sent, expired, closed>>
        /\ buf[p] # <<>>
        /\ buf' = [buf EXCEPT ![p] = Tail(@)] /\ inq' = [inq EXCEPT ![o] = Append(@, Head(buf[p]))]
    BY <1>2 DEF Deliver, OfNetwork
  <2>2. /\ o \in Ends /\ p = Other(o) /\ buf'[p] = Tail(buf[p]) /\ buf'[o] = buf[o]
        /\ inq'[o] = Append(inq[o], Head(buf[p])) /\ inq'[p] = inq[p]
    BY <1>0, <2>1, TwoEnds DEF Types
  <2>3. Stream(o)'
    BY <1>0, <2>1, <2>2, ArrivalMoves
  <2>4. ReceiverSame(p)
    BY <2>1, <2>2 DEF ReceiverSame, Holding, Reads
  <2>5. SenderSame(o)
    BY <2>1, <2>2 DEF SenderSame, AllWritten
  <2>6. Stream(p)'
    BY <1>0, <2>4, <2>5, StreamStays
  <2> QED BY <2>3, <2>6, TwoEnds
<1> QED BY <1>1, <1>2 DEF OfNetwork, Network

LEMMA ReadStdinStream ==
  ASSUME IInv, NEW p \in Ends, ReadStdin(p), UNCHANGED callVars
  PROVE  \A q \in Ends : Stream(q)'
<1>0. Types /\ EndOK(p) /\ (\A q \in Ends : Stream(q)) /\ pc[p][1] = "stdin" /\ 1 \in Routines
  BY DEF IInv, ReadStdin, Routines
<1>1. job[p] = "pipe" /\ PipeEnd(p) /\ p \notin closed
  BY <1>0 DEF EndOK, PipeEnd, CallEnd, SendLabels, ReceiveLabels, InWrite, Outcomes, Stored
<1>2. UNCHANGED <<job, main, first, retN, out, inq, buf, expired, closed>>
  BY DEF ReadStdin, callVars, dataVars
<1>3. CASE Goto(p, 1, "done") /\ UNCHANGED <<sent, carries>>
  <2>1. ~Holding(p, 1) /\ ~Holding(p, 1)'
    BY <1>1, <1>2 DEF Holding, Reads
  <2> QED BY <1>0, <1>2, <1>3, <2>1, RoutineMovesNothing DEF Labels, InWrite
<1>4. CASE /\ sent' = [sent EXCEPT ![p] = @ + 1]
           /\ carries' = [carries EXCEPT ![p][1] = sent[p] + 1]
           /\ Goto(p, 1, "lock") /\ sent[p] < Load[p]
  <2>1. /\ pc'[p][1] = "lock" /\ (\A j \in Routines : j # 1 => pc'[p][j] = pc[p][j])
        /\ \A q \in Ends : q # p => pc'[q] = pc[q]
    BY <1>0, <1>4, GotoIs DEF Labels, InWrite
  <2>2. sent[p] \in Nat /\ sent[p] + 1 \in Numbers
    BY <1>0, <1>4, NumberFacts DEF Types
  <2>3. /\ carries'[p][1] = sent[p] + 1 /\ (\A j \in Routines : j # 1 => carries'[p][j] = carries[p][j])
        /\ \A q \in Ends : q # p => carries'[q] = carries[q]
    BY <1>0, <1>4, <2>2, CarriesIs
  <2>4. sent'[p] = sent[p] + 1 /\ \A q \in Ends : q # p => sent'[q] = sent[q]
    BY <1>0, <1>4 DEF Types
  <2>5. Untouched(Other(p))
    BY <1>2, <2>1, <2>3, <2>4, TwoEnds DEF Untouched
  <2>6. ReceiverSame(p)
    <3>1. \A j \in Routines : Holding(p, j)' <=> Holding(p, j)
      BY <1>1, <1>2, <2>1 DEF Holding, Reads, Routines
    <3>2. ~Holding(p, 1)
      BY <1>1 DEF Holding, Reads
    <3> QED BY <1>2, <2>3, <3>1, <3>2 DEF ReceiverSame
  <2>7. Stream(p)'
    BY <1>0, <2>5, <2>6, TwoEnds, UntouchedSame, StreamStays
  <2>8. AllWritten(p) /\ ~AllWritten(p)'
    BY <1>0, <1>1, <1>2, <2>1 DEF AllWritten, PipeEnd
  <2>9. \A j \in Routines : pc'[p][j] \in InWrite => j = 1
    BY <1>1, <2>1 DEF PipeEnd, StdoutLabels, InWrite, Routines
  <2>10. Stream(Other(p))'
    BY <1>0, <1>2, <2>3, <2>4, <2>5, <2>8, <2>9, TwoEnds, UntouchedSame, SourceMoves
  <2> QED BY <2>7, <2>10, TwoEnds
<1> QED BY <1>3, <1>4 DEF ReadStdin

(* The end of a process, or a caller's Close: what p had of messages is lost. *)
LEMMA LeavesStream ==
  ASSUME IInv, NEW p \in Ends, closed' = closed \cup {p},
         UNCHANGED <<job, carries, first, retN, out, inq, buf, sent, expired>>,
         \A q \in Ends : q # p => pc'[q] = pc[q] /\ main'[q] = main[q],
         main'[p] # "next", pc'[p] = pc[p] \/ \A i \in Routines : pc'[p][i] = "gone"
  PROVE  \A q \in Ends : Stream(q)'
<1>0. \A q \in Ends : Stream(q)
  BY DEF IInv
<1>1. Untouched(Other(p))
  BY TwoEnds DEF Untouched
<1>2. SenderSame(p)
  <2>1. AllWritten(p)' => AllWritten(p)
    BY DEF AllWritten, Routines
  <2> QED BY <2>1 DEF SenderSame, InWrite
<1>3. Stream(Other(p))'
  BY <1>0, <1>1, <1>2, TwoEnds, UntouchedSame, StreamStays
<1>4. Stream(p)'
  BY <1>0 DEF Stream, OutOK
<1> QED BY <1>3, <1>4, TwoEnds

LEMMA PipeStepStream ==
  ASSUME IInv, NEW p \in Ends, PipeStep(p), UNCHANGED callVars
  PROVE  \A q \in Ends : Stream(q)'
<1>0. /\ Types /\ (\A q \in Ends : Stream(q)) /\ 1 \in Routines /\ 2 \in Routines
      /\ job[p] = "pipe" /\ PipeEnd(p)
  BY DEF IInv, Routines, PipeStep, EndOK
<1> USE DEF userVars, callVars, syncVars, dataVars
<1>1. CASE pc[p][1] = "ok" /\ Goto(p, 1, "stdin")
           /\ UNCHANGED <<carries, syncVars, dataVars, userVars, first>>
  <2>1. ~Holding(p, 1) /\ ~Holding(p, 1)'
    BY <1>0, <1>1 DEF Holding, Reads
  <2> QED BY <1>0, <1>1, <2>1, RoutineMovesNothing DEF Labels, InWrite
<1>2. CASE /\ pc[p][2] = "ok" /\ out' = [out EXCEPT ![p] = Append(@, carries[p][2])]
           /\ Goto(p, 2, "read")
           /\ UNCHANGED <<carries, syncVars, dataVars, job, main, sent, first>>
  <2>1. /\ pc'[p][2] = "read" /\ (\A j \in Routines : j # 2 => pc'[p][j] = pc[p][j])
        /\ \A q \in Ends : q # p => pc'[q] = pc[q]
    BY <1>0, <1>2, GotoIs DEF Labels
  <2>2. out'[p] = Append(out[p], carries[p][2]) /\ \A q \in Ends : q # p => out'[q] = out[q]
    BY <1>0, <1>2 DEF Types
  <2>3. Untouched(Other(p))
    BY <1>2, <2>1, <2>2, TwoEnds DEF Untouched
  <2>4. SenderSame(p)
    <3>1. AllWritten(p)' => AllWritten(p)
      BY <1>0, <1>2, <2>1 DEF AllWritten
    <3> QED BY <1>2, <2>1, <3>1 DEF SenderSame, InWrite
  <2>5. Stream(Other(p))'
    BY <1>0, <2>3, <2>4, TwoEnds, UntouchedSame, StreamStays
  <2>6. p \notin closed /\ p \notin expired
    BY <1>0, <1>2 DEF PipeEnd
  <2>7. Holding(p, 2) /\ \A j \in Routines : ~Holding(p, j)'
    BY <1>0, <1>2, <2>1 DEF Holding, Reads, Routines
  <2>8. SenderSame(Other(p))
    BY <2>3, TwoEnds, UntouchedSame
  <2>9. Stream(p)'
    BY <1>0, <1>2, <2>2, <2>6, <2>7, <2>8, SinkMoves
  <2> QED BY <2>5, <2>9, TwoEnds
<1>3. CASE pc[p][2] = "eof" /\ Goto(p, 2, "done")
           /\ UNCHANGED <<carries, syncVars, dataVars, userVars, first>>
  <2>1. ~Holding(p, 2) /\ ~Holding(p, 2)'
    BY <1>0, <1>3, GotoIs DEF Holding, Labels
  <2> QED BY <1>0, <1>3, <2>1, RoutineMovesNothing DEF Labels, InWrite
<1>4. CASE Fatal(p)
  BY <1>0, <1>4, LeavesStream DEF Fatal, Types
<1>5. CASE PipeCloses(p)
  BY <1>0, <1>5, LeavesStream DEF PipeCloses, CloseChannel, Types
<1>6. CASE MainDone(p)
  <2>1. PICK i \in Routines : pc[p][i] = "done" /\ first' = [first EXCEPT ![p] = i]
    BY <1>6 DEF MainDone
  <2>2. /\ UNCHANGED <<job, pc, carries, retN, out, inq, buf, sent, expired, closed>>
        /\ first'[p] = i /\ \A q \in Ends : q # p => first'[q] = first[q] /\ main'[q] = main[q]
    BY <1>0, <1>6, <2>1 DEF MainDone, channelVars, Types
  <2>3. Untouched(Other(p))
    BY <2>2, TwoEnds DEF Untouched
  <2>4. ReceiverSame(p)
    BY <2>2 DEF ReceiverSame, Holding, Reads
  <2>5. SenderSame(p)
    <3>1. AllWritten(p)' => AllWritten(p)
      BY <1>0, <2>1, <2>2 DEF AllWritten
    <3> QED BY <2>2, <3>1 DEF SenderSame
  <2> QED BY <1>0, <2>3, <2>4, <2>5, NothingMoves
<1> QED BY <1>1, <1>2, <1>3, <1>4, <1>5, <1>6 DEF PipeStep, StdinCopied, WriteStdout

LEMMA CallStream ==
  ASSUME IInv, NEW p \in Ends, Call(p), UNCHANGED first, job[p] # "pipe"
  PROVE  \A q \in Ends : Stream(q)'
<1>0. /\ Types /\ (\A q \in Ends : Stream(q)) /\ CallEnd(p) /\ Results(p) /\ main[p] = "next"
      /\ p \notin closed /\ \A i \in Routines : pc[p][i] = "idle"
  BY DEF IInv, EndOK, Call, CallEnd, Calling, Routines
<1> USE DEF userVars, callVars, syncVars, dataVars
<1>1. UNCHANGED <<job, retN, out, inq, buf, expired, closed>>
  BY DEF Call
<1>2. CASE job[p] = "send" /\ sent[p] = Load[p]
  <2>1. UNCHANGED <<pc, carries, sent>> /\ main'[p] = "closing"
        /\ \A q \in Ends : q # p => main'[q] = main[q]
    BY <1>0, <1>2 DEF Call, Types
  <2>2. Untouched(Other(p))
    BY <1>1, <2>1, TwoEnds DEF Untouched
  <2>3. ReceiverSame(p)
    BY <1>1, <2>1 DEF ReceiverSame, Holding, Reads
  <2>4. SenderSame(p)
    BY <1>0, <1>1, <1>2, <2>1 DEF SenderSame, AllWritten
  <2> QED BY <1>0, <2>2, <2>3, <2>4, NothingMoves
<1>3. CASE ~(job[p] = "send" /\ sent[p] = Load[p])
  <2>1. PICK i \in Idle(p) :
          /\ main' = [main EXCEPT ![p] = "select"]
          /\ IF job[p] = "send"
               THEN /\ sent' = [sent EXCEPT ![p] = @ + 1]
                    /\ carries' = [carries EXCEPT ![p][i] = sent[p] + 1]
                    /\ Goto(p, i, "lock")
               ELSE Goto(p, i, "read") /\ UNCHANGED <<sent, carries>>
    BY <1>3 DEF Call
  <2>2. i \in Routines /\ main'[p] = "select" /\ \A q \in Ends : q # p => main'[q] = main[q]
    BY <1>0, <2>1 DEF Idle, Types
  <2>3. CASE job[p] # "send"
    <3>1. /\ pc'[p][i] = "read" /\ (\A j \in Routines : j # i => pc'[p][j] = pc[p][j])
          /\ \A q \in Ends : q # p => pc'[q] = pc[q]
      BY <1>0, <2>1, <2>2, <2>3, GotoIs DEF Labels
    <3>2. UNCHANGED <<sent, carries>>
      BY <2>1, <2>3
    <3>3. Untouched(Other(p))
      BY <1>1, <2>2, <3>1, <3>2, TwoEnds DEF Untouched
    <3>4. ReceiverSame(p)
      <4>1. \A j \in Routines : ~Holding(p, j) /\ ~Holding(p, j)'
        BY <1>0, <3>1 DEF Holding
      <4> QED BY <1>1, <3>2, <4>1 DEF ReceiverSame
    <3>5. SenderSame(p)
      <4>1. job'[p] = job[p] /\ ~AllWritten(p)'
        BY <1>1, <2>3 DEF AllWritten, CallEnd
      <4> QED BY <1>0, <1>1, <3>1, <3>2, <4>1 DEF SenderSame, InWrite
    <3> QED BY <1>0, <3>3, <3>4, <3>5, NothingMoves
  <2>4. CASE job[p] = "send"
    <3>1. /\ pc'[p][i] = "lock" /\ (\A j \in Routines : j # i => pc'[p][j] = pc[p][j])
          /\ \A q \in Ends : q # p => pc'[q] = pc[q]
      BY <1>0, <2>1, <2>2, <2>4, GotoIs DEF Labels, InWrite
    <3>2. sent[p] \in Nat /\ sent[p] < Load[p] /\ sent[p] + 1 \in Numbers
      <4>1. sent[p] \in Nat /\ Load[p] \in Nat /\ sent[p] <= Load[p]
        BY <1>0, NumberFacts DEF Types
      <4> QED BY <1>3, <2>4, <4>1, NumberFacts
    <3>3. /\ carries'[p][i] = sent[p] + 1
          /\ \A q \in Ends : q # p => carries'[q] = carries[q]
      BY <1>0, <2>1, <2>2, <2>4, <3>2, CarriesIs
    <3>4. sent'[p] = sent[p] + 1 /\ \A q \in Ends : q # p => sent'[q] = sent[q]
      BY <1>0, <2>1, <2>4 DEF Types
    <3>5. Untouched(Other(p))
      BY <1>1, <2>2, <3>1, <3>3, <3>4, TwoEnds DEF Untouched
    <3>6. ReceiverSame(p)
      <4>1. \A j \in Routines : ~Holding(p, j) /\ ~Holding(p, j)'
        BY <1>1, <2>4 DEF Holding, Reads
      <4> QED BY <1>1, <4>1 DEF ReceiverSame
    <3>7. Stream(p)'
      BY <1>0, <3>5, <3>6, TwoEnds, UntouchedSame, StreamStays
    <3>8. AllWritten(p)
      BY <1>0, <2>4 DEF AllWritten
    <3>9. ~AllWritten(p)'
      <4>1. retN'[p] = 0
        BY <1>0, <1>1 DEF Results, Calling
      <4> QED BY <1>0, <1>1, <2>2, <2>4, <3>1, <4>1 DEF AllWritten
    <3>10. \A j \in Routines : pc'[p][j] \in InWrite => j = i
      BY <1>0, <3>1 DEF InWrite
    <3>11. Stream(Other(p))'
      BY <1>0, <1>1, <2>2, <3>3, <3>4, <3>5, <3>8, <3>9, <3>10, TwoEnds, UntouchedSame, SourceMoves
    <3> QED BY <3>7, <3>11, TwoEnds
  <2> QED BY <2>3, <2>4
<1> QED BY <1>2, <1>3

LEMMA CallReturnsStream ==
  ASSUME IInv, NEW p \in Ends, CallReturns(p), UNCHANGED first
  PROVE  \A q \in Ends : Stream(q)'
<1> DEFINE i == call[p]
           l == IF pc[p][i] = "returned" THEN "idle" ELSE pc[p][i]
           n == IF pc[p][i] = "returned" THEN 0 ELSE carries[p][i]
<1>0. /\ Types /\ (\A q \in Ends : Stream(q)) /\ main[p] = "got"
      /\ job[p] # "pipe" /\ CallEnd(p) /\ Results(p)
  BY DEF IInv, EndOK, PipeEnd, CallReturns
<1>1. i \in Routines /\ l \in Labels /\ n \in Numbers
  BY <1>0, NumberFacts DEF CallEnd, Calling, Types, Labels
<1>2. /\ pc'[p][i] = l /\ (\A j \in Routines : j # i => pc'[p][j] = pc[p][j])
      /\ \A q \in Ends : q # p => pc'[q] = pc[q]
  <2>1. pc' = [pc EXCEPT ![p][i] = l] /\ pc \in [Ends -> [Routines -> Labels]]
    BY <1>0 DEF CallReturns, Types
  <2> QED BY <1>1, <2>1, Nested
<1>3. /\ carries'[p][i] = n /\ (\A j \in Routines : j # i => carries'[p][j] = carries[p][j])
      /\ \A q \in Ends : q # p => carries'[q] = carries[q]
  <2>1. carries' = [carries EXCEPT ![p][i] = n] /\ carries \in [Ends -> [Routines -> Numbers]]
    BY <1>0 DEF CallReturns, Types
  <2> QED BY <1>1, <2>1, Nested
<1>4. /\ UNCHANGED <<job, inq, buf, sent, expired, closed>>
      /\ \A q \in Ends : q # p => main'[q] = main[q] /\ retN'[q] = retN[q] /\ out'[q] = out[q]
      /\ retN'[p] = 0
      /\ main'[p] = "next" => retErr[p] = "nil" /\ (job[p] = "send" => retN[p] = 1)
      /\ out'[p] = IF job[p] = "receive" /\ retN[p] = 1 THEN Append(out[p], carries[p][i]) ELSE out[p]
  BY <1>0 DEF CallReturns, Types, dataVars
<1>5. Untouched(Other(p))
  BY <1>2, <1>3, <1>4, TwoEnds DEF Untouched
<1>6. SenderSame(p)
  <2>1. \A j \in Routines : pc'[p][j] \in InWrite => pc[p][j] \in InWrite /\ carries'[p][j] = carries[p][j]
    BY <1>2, <1>3 DEF InWrite
  <2>2. AllWritten(p)' => AllWritten(p)
    BY <1>0, <1>2, <1>4 DEF AllWritten
  <2> QED BY <1>4, <2>1, <2>2 DEF SenderSame
<1>7. Stream(Other(p))'
  BY <1>0, <1>5, <1>6, TwoEnds, UntouchedSame, StreamStays
<1>8. SenderSame(Other(p))
  BY <1>5, TwoEnds, UntouchedSame
<1>9. ASSUME p \in expired
      PROVE  Stream(p)'
  BY <1>4, <1>9 DEF Stream
<1>10. ASSUME p \notin expired
       PROVE  Stream(p)'
  <2>1. pc[p][i] = "returned" /\ p \notin closed /\ \A j \in Routines : j # i => pc[p][j] = "idle"
    BY <1>0, <1>1, <1>10 DEF Results, CallEnd
  <2>2. \A j \in Routines : ~Holding(p, j)'
    BY <1>2, <2>1 DEF Holding
  <2>3. CASE job[p] = "receive" /\ retN[p] = 1
    <3>1. Holding(p, i)
      BY <2>1, <2>3 DEF Holding, Reads
    <3> QED BY <1>0, <1>1, <1>4, <1>8, <1>10, <2>1, <2>2, <2>3, <3>1, SinkMoves
  <2>4. CASE ~(job[p] = "receive" /\ retN[p] = 1)
    <3>1. \A j \in Routines : ~Holding(p, j)
      BY <1>0, <2>1, <2>4 DEF Holding, Reads
    <3>2. ReceiverSame(p)
      BY <1>4, <2>2, <2>4, <3>1 DEF ReceiverSame
    <3> QED BY <1>0, <1>8, <3>2, StreamStays
  <2> QED BY <2>3, <2>4
<1> QED BY <1>7, <1>9, <1>10, TwoEnds

LEMMA CallStepStream ==
  ASSUME IInv, NEW p \in Ends, CallStep(p) \/ SelectTimer(p), UNCHANGED first
  PROVE  \A q \in Ends : Stream(q)'
<1>0. Types /\ (\A q \in Ends : Stream(q)) /\ EndOK(p)
  BY DEF IInv
<1> USE DEF channelVars, userVars, callVars, syncVars, dataVars
<1>1. job[p] # "pipe" /\ CallEnd(p) /\ Results(p)
  BY <1>0 DEF EndOK, PipeEnd, CallStep, Call, SelectDone, SelectTimer, SetTimeout, CallReturns, CallerCloses
<1>2. CASE SelectDone(p) \/ SetTimeout(p) \/ SelectTimer(p)
  <2>1. /\ UNCHANGED <<job, pc, carries, out, inq, buf, sent, closed>> /\ main'[p] # "next"
        /\ \A q \in Ends : q # p => main'[q] = main[q] /\ retN'[q] = retN[q]
        /\ expired \subseteq expired'
        /\ (retN' = retN \/ (retN'[p] = 0 /\ p \in expired'))
    BY <1>0, <1>2 DEF SelectDone, SetTimeout, SelectTimer, Types
  <2>2. Untouched(Other(p))
    BY <2>1, TwoEnds DEF Untouched
  <2>3. SenderSame(p)
    <3>1. AllWritten(p)' => AllWritten(p)
      BY <1>1, <2>1 DEF AllWritten
    <3> QED BY <2>1, <3>1 DEF SenderSame
  <2>4. ReceiverSame(p) \/ p \in expired'
    BY <2>1 DEF ReceiverSame, Holding, Reads
  <2> QED BY <1>0, <2>2, <2>3, <2>4, NothingMoves
<1>3. CASE CallerCloses(p)
  BY <1>0, <1>3, LeavesStream DEF CallerCloses, CloseChannel, Types
<1> QED BY <1>1, <1>2, <1>3, CallStream, CallReturnsStream DEF CallStep

LEMMA StreamStep ==
  ASSUME IInv, Next
  PROVE  \A q \in Ends : Stream(q)'
<1>1. CASE Break /\ UNCHANGED <<first, callVars>>
  <2>1. \A q \in Ends : Untouched(q) /\ Stream(q)
    BY <1>1 DEF IInv, Break, Untouched, userVars, callVars
  <2> QED BY <2>1, TwoEnds, UntouchedSame, StreamStays
<1> QED BY <1>1, RoutineStream, NetworkStream, ReadStdinStream, PipeStepStream, CallStepStream
       DEF Next, System, OfProgram, OfTimer, OfEnvironment

-----------------------------------------------------------------------------
(* What a pipe has printed when the other side's stdin ended. *)

LEMMA AllReadStays ==
  ASSUME NEW q \in Ends, AllRead(q), UNCHANGED job, gaveUp \subseteq gaveUp',
         link' = link \/ link' = "cut",
         job[q] = "pipe" /\ first'[q] = 2 /\ first'[Other(q)] = 1 =>
           /\ first[q] = 2 /\ first[Other(q)] = 1
           /\ out'[q] = out[q] /\ sent'[Other(q)] = sent[Other(q)]
  PROVE  AllRead(q)'
BY DEF AllRead

LEMMA MainDoneAllRead ==
  ASSUME IInv, NEW p \in Ends, job[p] = "pipe", MainDone(p)
  PROVE  \A q \in Ends : AllRead(q)'
<1> DEFINE o == Other(p)
<1>0. /\ Types /\ PipeEnd(p) /\ o \in Ends /\ Other(o) = p /\ o # p
      /\ \A q \in Ends : ClosedOK(q) /\ SawEnd(q) /\ AllRead(q) /\ Stream(q) /\ EndOK(q)
  BY TwoEnds DEF IInv, EndOK
<1>1. PICK i \in Routines : pc[p][i] = "done" /\ first' = [first EXCEPT ![p] = i]
  BY DEF MainDone
<1>2. main[p] = "wait" /\ p \notin closed /\ p \notin expired
  BY <1>0 DEF MainDone, PipeEnd
<1>3. UNCHANGED <<job, pc, out, inq, buf, sent, closed, ended, gaveUp, link>>
      /\ first'[p] = i /\ first'[o] = first[o]
  BY <1>0, <1>1 DEF MainDone, channelVars, dataVars, Types
<1>4. AllRead(p)'
  <2>1. SUFFICES ASSUME i = 2, first[o] = 1, link = "up", o \notin gaveUp
                 PROVE  Len(out[p]) = sent[o]
    BY <1>3 DEF AllRead
  <2>2. p \in ended /\ inq[p] = <<>>
    BY <1>0, <1>1, <1>2, <2>1 DEF SawEnd
  <2>3. o \in closed /\ buf[o] = <<>>
    BY <1>0, <2>1, <2>2 DEF ClosedOK
  <2>4. Held(p) = 0
    BY <1>1, <2>1 DEF Held, Holding, Reads, Routines
  <2>5. Len(out[p]) \in Nat /\ Len(inq[p]) = 0 /\ Len(buf[o]) = 0
    BY <1>0, <2>2, <2>3, Counts, QueueFacts
  <2>6. Total(p) = Len(out[p])
    BY <2>4, <2>5 DEF Total, Base
  <2>7. AllWritten(o)
    BY <1>0, <2>1, JobFacts DEF AllWritten
  <2> QED BY <1>0, <1>2, <2>6, <2>7 DEF Stream, OnTheWay
<1>5. AllRead(o)'
  <2>1. SUFFICES ASSUME first[o] = 2
                 PROVE  FALSE
    BY <1>0, <1>3 DEF AllRead
  <2>2. o \in ended
    BY <1>0, <2>1, JobFacts DEF SawEnd
  <2> QED BY <1>0, <1>2, <2>2 DEF ClosedOK
<1> QED BY <1>4, <1>5, TwoEnds

LEMMA AllReadStep ==
  ASSUME IInv, Next
  PROVE  \A q \in Ends : AllRead(q)'
<1>0. Types /\ (\A q \in Ends : AllRead(q) /\ EndOK(q)) /\ 1 \in Routines /\ 2 \in Routines
  BY DEF IInv, Routines
<1> USE DEF channelVars, userVars, callVars, syncVars, dataVars
<1>1. ASSUME NEW p \in Ends, NEW i \in Routines, OfRoutine(p, i)
      PROVE  \A q \in Ends : AllRead(q)'
  <2>1. UNCHANGED <<job, gaveUp, link, first, out, sent>>
    BY <1>1, StoreNIs DEF OfRoutine, Routine, Lock, Park, Put, Take, ReadEnds, StoreErr, AbandonedEnds
  <2> QED BY <1>0, <2>1, AllReadStays
<1>2. ASSUME NEW p \in Ends, OfNetwork(p)
      PROVE  \A q \in Ends : AllRead(q)'
  <2>1. UNCHANGED <<job, gaveUp, link, first, out, sent>>
    BY <1>2 DEF OfNetwork, Network, Flushed, Deliver
  <2> QED BY <1>0, <2>1, AllReadStays
<1>3. ASSUME NEW p \in Ends, ReadStdin(p)
      PROVE  \A q \in Ends : AllRead(q)'
  <2>1. first[p] # 1
    BY <1>0, <1>3 DEF ReadStdin, EndOK, PipeEnd, CallEnd
  <2>2. UNCHANGED <<job, gaveUp, link, first, out>> /\ \A q \in Ends : q # p => sent'[q] = sent[q]
    BY <1>0, <1>3 DEF ReadStdin, Types
  <2> QED BY <1>0, <2>1, <2>2, AllReadStays, TwoEnds
<1>4. ASSUME NEW p \in Ends, PipeStep(p)
      PROVE  \A q \in Ends : AllRead(q)'
  <2>0. job[p] = "pipe" /\ PipeEnd(p)
    BY <1>0, <1>4 DEF PipeStep, EndOK
  <2>1. CASE pc[p][2] = "ok" /\ WriteStdout(p)
    <3>1. UNCHANGED <<job, gaveUp, first, sent>> /\ (link' = link \/ link' = "cut")
          /\ \A q \in Ends : q # p => out'[q] = out[q]
      BY <1>0, <2>1 DEF WriteStdout, Fatal, Types
    <3>2. first[p] # 2
      BY <1>0, <2>0, <2>1 DEF PipeEnd
    <3> QED BY <1>0, <3>1, <3>2, AllReadStays, TwoEnds
  <2>2. CASE PipeStep(p) /\ ~MainDone(p) /\ ~(pc[p][2] = "ok" /\ WriteStdout(p))
    <3>1. UNCHANGED <<job, first, out, sent>> /\ (link' = link \/ link' = "cut")
          /\ gaveUp \subseteq gaveUp'
      BY <2>2 DEF PipeStep, StdinCopied, WriteStdout, Fatal, PipeCloses, CloseChannel
    <3> QED BY <1>0, <3>1, AllReadStays
  <2> QED BY <1>4, <2>0, <2>1, <2>2, MainDoneAllRead
<1>5. ASSUME NEW p \in Ends, CallStep(p) \/ SelectTimer(p), UNCHANGED first
      PROVE  \A q \in Ends : AllRead(q)'
  <2>1. job[p] # "pipe"
    BY <1>0, <1>5 DEF EndOK, PipeEnd, CallStep, Call, SelectDone, SelectTimer, SetTimeout, CallReturns, CallerCloses
  <2>2. \A q \in Ends : job[q] # "pipe"
    BY <1>0, <2>1, JobFacts, TwoEnds
  <2>3. UNCHANGED job
    BY <1>5 DEF CallStep, Call, SelectDone, SelectTimer, SetTimeout, CallReturns, CallerCloses
  <2> QED BY <2>2, <2>3 DEF AllRead
<1>6. CASE Break /\ UNCHANGED <<first, callVars>>
  BY <1>0, <1>6, AllReadStays DEF Break
<1> QED BY <1>1, <1>2, <1>3, <1>4, <1>5, <1>6 DEF Next, System, OfProgram, OfTimer, OfEnvironment

-----------------------------------------------------------------------------
(* The invariant. *)

LEMMA Starts ==
  ASSUME Init
  PROVE  IInv
<1> USE DEF Init, ChannelInit
<1>1. \A p \in Ends : job[p] \in {"pipe", "send", "receive"}
  BY DEF Jobs
<1>2. Types
  <2>1. pc \in [Ends -> [Routines -> Labels]]
    <3>1. PipeBegins \in [Routines -> Labels] /\ <<"idle", "idle">> \in [Routines -> Labels]
      BY DEF PipeBegins, Labels, Routines
    <3> QED BY <3>1
  <2>2. carries \in [Ends -> [Routines -> Numbers]]
    BY NumberFacts
  <2>3. sent \in [Ends -> Nat] /\ \A p \in Ends : sent[p] <= Load[p]
    BY NumberFacts
  <2>4. <<>> \in Seq(Numbers)
    OBVIOUS
  <2> QED BY <2>1, <2>2, <2>3, <2>4 DEF Types
<1>3. \A p \in Ends, i \in Routines :
        pc[p][i] = IF job[p] = "pipe" THEN (IF i = 1 THEN "stdin" ELSE "read") ELSE "idle"
  BY DEF PipeBegins, Routines
<1>4. ASSUME NEW p \in Ends
      PROVE  EndOK(p)
  <2>1. CASE job[p] = "pipe"
    BY <1>3, <2>1 DEF EndOK, PipeEnd, StdinLabels, StdoutLabels, Routines
  <2>2. CASE job[p] # "pipe"
    <3>1. CallEnd(p)
      BY <1>3, <2>2 DEF CallEnd, Calling, SendLabels, ReceiveLabels, Routines
    <3>2. Results(p)
      BY <2>2 DEF Results
    <3> QED BY <2>2, <3>1, <3>2 DEF EndOK
  <2> QED BY <2>1, <2>2
<1>5. ASSUME NEW p \in Ends
      PROVE  SyncOK(p) /\ ClosedOK(p) /\ SawEnd(p) /\ AllRead(p)
  BY <1>3 DEF SyncOK, ClosedOK, SawEnd, AllRead, Routines
<1>6. ASSUME NEW p \in Ends
      PROVE  Stream(p)
  <2> DEFINE o == Other(p)
  <2>1. o \in Ends /\ Len(out[p]) = 0 /\ Len(inq[p]) = 0 /\ Len(buf[o]) = 0 /\ sent[o] = 0
    BY TwoEnds
  <2>2. \A i \in Routines : ~Holding(p, i)
    BY <1>3 DEF Holding, Reads, Routines
  <2>3. Base(p) = 0 /\ Total(p) = 0
    BY <2>1, <2>2 DEF Base, Held, Total
  <2>4. \A i \in Routines : pc[o][i] \notin InWrite
    BY <1>3, <2>1 DEF InWrite
  <2> QED BY <2>1, <2>2, <2>3, <2>4 DEF Stream, OutOK, OnTheWay
<1> QED BY <1>2, <1>4, <1>5, <1>6 DEF IInv

LEMMA Inductive ==
  ASSUME IInv, [Next]_vars
  PROVE  IInv'
<1>1. CASE Next
  BY <1>1, TypesStep, EndStep, SyncStep, ClosedStep, StreamStep, SawEndStep, AllReadStep DEF IInv
<1>2. CASE UNCHANGED vars
  <2> USE <1>2 DEF vars, channelVars, userVars, callVars, syncVars, dataVars
  <2>1. Types'
    BY DEF IInv, Types
  <2>2. \A q \in Ends : Untouched(q) /\ Same(q) /\ EndOK(q) /\ Stream(q)
    BY DEF IInv, Untouched, Same
  <2>3. \A q \in Ends : EndOK(q)' /\ Stream(q)'
    BY <2>2, TwoEnds, EndStays, UntouchedSame, StreamStays
  <2>4. \A q \in Ends : SyncOK(q)' /\ ClosedOK(q)' /\ SawEnd(q)' /\ AllRead(q)'
    BY DEF IInv, SyncOK, ClosedOK, SawEnd, AllRead
  <2> QED BY <2>1, <2>3, <2>4 DEF IInv
<1> QED BY <1>1, <1>2

LEMMA Invariance == Spec => []IInv
BY Starts, Inductive, PTL DEF Spec

-----------------------------------------------------------------------------
(* The theorems. *)

(* The variables have their types, whatever the load, threshold and window. *)
THEOREM TypeCorrect == Spec => []TypeOK
<1>1. IInv => TypeOK
  <2>1. SUFFICES ASSUME IInv
                 PROVE  TypeOK
    OBVIOUS
  <2>2. Types
    BY <2>1 DEF IInv
  <2>3. sent \in [Ends -> Numbers]
    <3>1. \A p \in Ends : sent[p] \in 0 .. Load[p]
      BY <2>2, NumberFacts DEF Types
    <3> QED BY <2>2, <3>1, NumberFacts DEF Types
  <2> QED BY <2>2, <2>3 DEF Types, TypeOK, Labels
<1> QED BY <1>1, Invariance, PTL

(* One routine of an end at most is in Write, abandoned goroutines included:
   timeoutio.go starts none beside one that it left behind, because no caller
   goes on after a timeout. *)
THEOREM OneWriterHolds == Spec => []OneWriter
<1>1. IInv => OneWriter
  <2>1. SUFFICES ASSUME IInv, NEW p \in Ends
                 PROVE  Cardinality({i \in Routines : pc[p][i] \in InWrite}) <= 1
    BY DEF OneWriter
  <2> DEFINE W == {i \in Routines : pc[p][i] \in InWrite}
  <2>2. \A i, j \in W : i = j
    BY <2>1, OneWriterAt DEF IInv
  <2>3. CASE W = {}
    <3>1. Cardinality(W) = 0
      BY <2>3, FS_EmptySet
    <3> QED BY <3>1
  <2>4. CASE W # {}
    <3>1. PICK i \in W : W = {i}
      BY <2>2, <2>4
    <3>2. Cardinality(W) = 1
      BY <3>1, FS_Singleton
    <3> QED BY <3>2
  <2> QED BY <2>3, <2>4
<1> QED BY <1>1, Invariance, PTL

(* A Write that waits for the buffer, or is about to, is woken: the buffer is
   still above the threshold or the callback that signals is under way.  The
   lock that Wait and the callback take, and OneWriter, are what make it so. *)
THEOREM WakeupDueHolds == Spec => []WakeupDue
<1>1. IInv => WakeupDue
  BY DEF IInv, SyncOK, WakeupDue
<1> QED BY <1>1, Invariance, PTL

(* What an end hands on is what the other end took, in order and with nothing
   left out, unless a timer ended one of its reads. *)
THEOREM NothingLeftOutHolds == Spec => []NothingLeftOut
<1>1. IInv => NothingLeftOut
  <2>1. SUFFICES ASSUME IInv, NEW p \in Ends, p \notin expired
                 PROVE  IsPrefix(out[p], [n \in 1 .. sent[Other(p)] |-> n])
    BY DEF NothingLeftOut
  <2> DEFINE m == sent[Other(p)]
             t == [n \in 1 .. m |-> n]
  <2>2. OutOK(p) /\ out[p] \in Seq(Numbers) /\ m \in Nat /\ Len(out[p]) \in Nat
    BY <2>1, Counts, TwoEnds DEF IInv, Stream
  <2>3. t \in Seq(Nat) /\ Len(t) = m
    BY <2>2
  <2>4. SubSeq(out[p], 1, Len(out[p])) = out[p]
    BY <2>2
  <2>5. /\ SubSeq(t, 1, Len(out[p])) \in Seq(Nat) /\ Len(SubSeq(t, 1, Len(out[p]))) = Len(out[p])
        /\ \A k \in 1 .. Len(out[p]) : SubSeq(t, 1, Len(out[p]))[k] = k
    BY <2>2, <2>3 DEF OutOK
  <2>6. out[p] = SubSeq(t, 1, Len(out[p]))
    BY <2>2, <2>5 DEF OutOK
  <2> QED BY <2>2, <2>3, <2>4, <2>6 DEF IsPrefix, OutOK
<1> QED BY <1>1, Invariance, PTL

(* A pipe that ended because the other side's stdin did has printed all of that
   stdin, unless packets stopped or that side's Close ran out of time. *)
THEOREM FirstToEndDeliversHolds == Spec => []FirstToEndDelivers
<1>1. IInv => FirstToEndDelivers
  <2>1. SUFFICES ASSUME IInv, NEW p \in Ends, main[p] = "exited", first[p] = 2,
                        first[Other(p)] = 1, link = "up", Other(p) \notin gaveUp
                 PROVE  Len(out[p]) = sent[Other(p)]
    BY DEF FirstToEndDelivers
  <2>2. job[p] = "pipe"
    BY <2>1 DEF IInv, EndOK, CallEnd
  <2> QED BY <2>1, <2>2 DEF IInv, AllRead
<1> QED BY <1>1, Invariance, PTL
=============================================================================
