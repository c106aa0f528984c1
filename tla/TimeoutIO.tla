------------------------------ MODULE TimeoutIO ------------------------------
(***************************************************************************)
(* Calls through internal/util/timeoutio.go, as sendFilePos and receiving  *)
(* make them: each Read or Write runs in a goroutine of its own, and the   *)
(* caller waits for it or for a timer.                                     *)
(*                                                                         *)
(* After the timer the goroutine is abandoned, not stopped.  It shares the *)
(* named results n and err with the call it belongs to, so its two stores  *)
(* to them race with the two that "return 0, ErrTimeout" makes before the  *)
(* deferred timer.Stop: a caller can get any mixture of both.              *)
(***************************************************************************)
EXTENDS Channel

VARIABLES
  call,     \* the routine of the call under way, or 0
  retN,     \* the call's named result n: whether it says that bytes moved
  retErr,   \* the call's named result err
  expired   \* the ends where a timer ended a call

callVars == <<call, retN, retErr, expired>>

Idle(p) == {i \in Routines : pc[p][i] = "idle"}

(* Mutant: the sender does not stop at the end of its file. *)
CallUnending(p) ==
  /\ main[p] = "next"
  /\ \E i \in Idle(p) :
       /\ call' = [call EXCEPT ![p] = i]
       /\ main' = [main EXCEPT ![p] = "select"]
       /\ sent' = [sent EXCEPT ![p] = @ + 1]
       /\ carries' = [carries EXCEPT ![p][i] = sent[p] + 1]
       /\ Goto(p, i, IF job[p] = "send" THEN "lock" ELSE "read")
  /\ UNCHANGED <<syncVars, dataVars, job, out, retN, retErr, expired>>

(* The next Write or Read of the caller starts its goroutine, or the sender
   has nothing left to send. *)
Call(p) ==
  /\ main[p] = "next"
  /\ IF job[p] = "send" /\ sent[p] = Load[p]
       THEN /\ main' = [main EXCEPT ![p] = "closing"]
            /\ UNCHANGED <<pc, carries, sent, callVars>>
       ELSE \E i \in Idle(p) :
            /\ call' = [call EXCEPT ![p] = i]
            /\ main' = [main EXCEPT ![p] = "select"]
            /\ IF job[p] = "send"
                 THEN /\ sent' = [sent EXCEPT ![p] = @ + 1]
                      /\ carries' = [carries EXCEPT ![p][i] = sent[p] + 1]
                      /\ Goto(p, i, "lock")
                 ELSE Goto(p, i, "read") /\ UNCHANGED <<sent, carries>>
            /\ UNCHANGED <<retN, retErr, expired>>
  /\ UNCHANGED <<syncVars, dataVars, job, out>>

(* n, err = t.w.Write(p): the first store of the goroutine ... *)
StoreN(p, i) ==
  /\ call[p] = i /\ pc[p][i] \in Outcomes
  /\ retN' = [retN EXCEPT ![p] = IF pc[p][i] = "ok" THEN 1 ELSE 0]
  /\ Goto(p, i, CASE pc[p][i] = "ok" -> "nil"
                  [] pc[p][i] = "eof" -> "io.EOF"
                  [] pc[p][i] = "err" -> "failure")
  /\ UNCHANGED <<carries, syncVars, dataVars, userVars, call, retErr, expired>>

(* ... its second one, and close(done). *)
StoreErr(p, i) ==
  /\ call[p] = i /\ pc[p][i] \in {"nil", "io.EOF", "failure"}
  /\ retErr' = [retErr EXCEPT ![p] = pc[p][i]]
  /\ Goto(p, i, "returned")
  /\ UNCHANGED <<carries, syncVars, dataVars, userVars, call, retN, expired>>

(* A goroutine whose call has returned stores where nobody looks, and ends. *)
AbandonedEnds(p, i) ==
  /\ job[p] # "pipe" /\ call[p] # i
  /\ pc[p][i] \in Outcomes \cup {"nil", "io.EOF", "failure"}
  /\ Goto(p, i, "idle") /\ carries' = [carries EXCEPT ![p][i] = 0]
  /\ UNCHANGED <<syncVars, dataVars, userVars, callVars>>

(* The select: done ... *)
SelectDone(p) ==
  /\ main[p] = "select" /\ pc[p][call[p]] = "returned"
  /\ main' = [main EXCEPT ![p] = "got"]
  /\ UNCHANGED <<channelVars, job, sent, out, callVars>>

(* Mutant: the select has no timer. *)
SelectNoTimer(p) == main[p] = "select" /\ FALSE /\ UNCHANGED <<channelVars, userVars, callVars>>

(* ... or the timer, and the first store of "return 0, ErrTimeout" ... *)
SelectTimer(p) ==
  /\ main[p] = "select"
  /\ main' = [main EXCEPT ![p] = "timedOut"]
  /\ retN' = [retN EXCEPT ![p] = 0]
  /\ expired' = expired \cup {p}
  /\ UNCHANGED <<channelVars, job, sent, out, call, retErr>>

(* ... and the second one. *)
SetTimeout(p) ==
  /\ main[p] = "timedOut"
  /\ main' = [main EXCEPT ![p] = "got"]
  /\ retErr' = [retErr EXCEPT ![p] = "ErrTimeout"]
  /\ UNCHANGED <<channelVars, job, sent, out, call, retN, expired>>

(* Mutant: a call that timed out is made again on the same channel. *)
CallReturnsRetried(p) ==
  /\ main[p] = "got"
  /\ call' = [call EXCEPT ![p] = 0]
  /\ pc' = [pc EXCEPT ![p][call[p]] = IF @ = "returned" THEN "idle" ELSE @]
  /\ out' = IF job[p] = "receive" /\ retN[p] = 1
              THEN [out EXCEPT ![p] = Append(@, carries[p][call[p]])] ELSE out
  /\ main' = [main EXCEPT ![p] =
       IF retErr[p] \in {"nil", "ErrTimeout"} THEN "next" ELSE "closing"]
  /\ retN' = [retN EXCEPT ![p] = 0] /\ retErr' = [retErr EXCEPT ![p] = "nil"]
  /\ carries' = [carries EXCEPT ![p][call[p]] = IF pc[p][call[p]] = "returned" THEN 0 ELSE @]
  /\ UNCHANGED <<syncVars, dataVars, job, sent, expired>>

(* The call returns what n and err hold by now.  CopyBuffer stops at an error
   and at a short write, CopyN at an error, after it used the bytes it got;
   no caller goes on after an error, they return it and Close is deferred. *)
CallReturns(p) ==
  /\ main[p] = "got"
  /\ call' = [call EXCEPT ![p] = 0]
  /\ pc' = [pc EXCEPT ![p][call[p]] = IF @ = "returned" THEN "idle" ELSE @]
  /\ out' = IF job[p] = "receive" /\ retN[p] = 1
              THEN [out EXCEPT ![p] = Append(@, carries[p][call[p]])] ELSE out
  /\ main' = [main EXCEPT ![p] =
       IF retErr[p] = "nil" /\ (job[p] = "send" => retN[p] = 1) THEN "next" ELSE "closing"]
  /\ retN' = [retN EXCEPT ![p] = 0] /\ retErr' = [retErr EXCEPT ![p] = "nil"]
  /\ carries' = [carries EXCEPT ![p][call[p]] = IF pc[p][call[p]] = "returned" THEN 0 ELSE @]
  /\ UNCHANGED <<syncVars, dataVars, job, sent, expired>>

(* The deferred Close, beside an abandoned goroutine perhaps. *)
CallerCloses(p) ==
  /\ job[p] # "pipe" /\ main[p] = "closing"
  /\ CloseChannel(p)
  /\ main' = [main EXCEPT ![p] = "exited"]
  /\ UNCHANGED <<pc, job, sent, out, callVars>>

CallStep(p) ==
  Call(p) \/ SelectDone(p) \/ SetTimeout(p) \/ CallReturns(p) \/ CallerCloses(p)
=============================================================================
