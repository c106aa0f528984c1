----------------------------- MODULE ChannelUse -----------------------------
(***************************************************************************)
(* A wormhole and the programs at its two ends: both run pipe.go, or one   *)
(* sends and the other receives through the timeouts of timeoutio.go.      *)
(***************************************************************************)
EXTENDS Pipe, TimeoutIO, SequencesExt

vars == <<channelVars, userVars, first, callVars>>

Jobs == {[p \in Ends |-> "pipe"], [p \in Ends |-> IF p = "a" THEN "send" ELSE "receive"]}

Init ==
  /\ job \in Jobs
  /\ ChannelInit
  /\ pc = [p \in Ends |-> IF job[p] = "pipe" THEN PipeBegins ELSE <<"idle", "idle">>]
  /\ main = [p \in Ends |-> IF job[p] = "pipe" THEN "wait" ELSE "next"]
  /\ first = [p \in Ends |-> 0]
  /\ call = [p \in Ends |-> 0] /\ expired = {}
  /\ retN = [p \in Ends |-> 0] /\ retErr = [p \in Ends |-> "nil"]

TypeOK ==
  /\ job \in Jobs
  /\ pc \in [Ends -> [Routines -> InWrite \cup Outcomes \cup
       {"stdin", "read", "done", "gone", "idle", "nil", "io.EOF", "failure", "returned"}]]
  /\ carries \in [Ends -> [Routines -> Numbers]]
  /\ holder \in [Ends -> Routines \cup {0}] /\ low \subseteq Ends
  /\ buf \in [Ends -> Seq(Numbers)] /\ inq \in [Ends -> Seq(Numbers)]
  /\ link \in {"up", "cut"} /\ {closed, ended, gaveUp} \subseteq SUBSET Ends
  /\ main \in [Ends -> {"wait", "next", "select", "timedOut", "got", "closing", "exited", "fatal"}]
  /\ sent \in [Ends -> Numbers] /\ out \in [Ends -> Seq(Numbers)]
  /\ first \in [Ends -> Routines \cup {0}]
  /\ call \in [Ends -> Routines \cup {0}] /\ expired \subseteq Ends
  /\ retN \in [Ends -> {0, 1}]
  /\ retErr \in [Ends -> {"nil", "io.EOF", "failure", "ErrTimeout"}]

OfRoutine(p, i) ==
  \/ Routine(p, i) /\ UNCHANGED <<first, callVars>>
  \/ (StoreN(p, i) \/ StoreErr(p, i) \/ AbandonedEnds(p, i)) /\ UNCHANGED first

OfNetwork(p) == Network(p) /\ UNCHANGED <<first, callVars>>

OfProgram(p) ==
  \/ PipeStep(p) /\ UNCHANGED callVars
  \/ CallStep(p) /\ UNCHANGED first

OfTimer(p) == SelectTimer(p) /\ UNCHANGED first

(* Stdin is read when there is something to read, and packets stop whenever
   they stop. *)
OfEnvironment ==
  \/ \E p \in Ends : ReadStdin(p) /\ UNCHANGED callVars
  \/ Break /\ UNCHANGED <<first, callVars>>

System == \E p \in Ends :
  \/ \E i \in Routines : OfRoutine(p, i)
  \/ OfNetwork(p) \/ OfProgram(p) \/ OfTimer(p)

Next == System \/ OfEnvironment

Spec == Init /\ [][Next]_vars

(* Goroutines that can run do run, packets arrive while none are lost for
   good, and the timers of the select and of Close expire.  No step can be
   repeated for ever (messages are bounded), so that fairness for all of them
   together leaves none of them out.  Stdin and the loss of packets have no
   fairness. *)
FairSpec == Spec /\ WF_vars(System)

-----------------------------------------------------------------------------
(* Properties. *)

(* What an end hands on is what the other end's program took, in order and
   with nothing left out, except after a timer ended one of its reads: the
   two pairs of stores can then leave n = 0 and err = nil, and CopyN goes on
   without the message that the goroutine had read. *)
NothingLeftOut ==
  \A p \in Ends : p \notin expired =>
    IsPrefix(out[p], [n \in 1 .. sent[Other(p)] |-> n])

(* One routine of an end at most is in Write, with a call that timed out and
   the goroutine it abandoned counted.  This is why flushed can Signal, which
   wakes one waiter only and is not repeated for the next. *)
OneWriter ==
  \A p \in Ends : Cardinality({i \in Routines : pc[p][i] \in InWrite}) <= 1

(* A Write that waits, or is on its way to, is woken when the buffer has gone
   down: the buffer is still above the threshold, or the callback that signals
   is under way. *)
WakeupDue ==
  \A p \in Ends, i \in Routines :
    pc[p][i] \in {"park", "waiting"} => Len(buf[p]) > Threshold \/ p \in low

(* A pipe that ended because the other side's stdin did has printed all of
   that stdin, unless packets stopped or a Close ran out of time.  (What the
   end that is closed on still had to say is lost.) *)
FirstToEndDelivers ==
  \A p \in Ends :
    main[p] = "exited" /\ first[p] = 2 /\ first[Other(p)] = 1
    /\ link = "up" /\ Other(p) \notin gaveUp
      => Len(out[p]) = sent[Other(p)]

(* No wakeup is missed: a Write that waits goes on, as long as packets arrive
   and neither end has closed the channel.  (Close does not signal, so that a
   Write that waits then waits for ever.) *)
WriteResumes ==
  \A p \in Ends : (Waiting(p) # {}) ~> (Waiting(p) = {} \/ link = "cut" \/ closed # {})

(* When one end of a pipe leaves, the other one does. *)
PipeEndsTogether ==
  \A p \in Ends :
    (main[p] = "exited" /\ job[p] = "pipe")
      ~> (main[Other(p)] \in {"exited", "fatal"} \/ link = "cut")

(* A transfer's program ends, whatever becomes of its channel and of the
   goroutines it abandoned. *)
CallersEnd == <>(\A p \in Ends : job[p] = "pipe" \/ main[p] = "exited")
=============================================================================
