-------------------------------- MODULE Pipe --------------------------------
(***************************************************************************)
(* pipe.go over an open channel: one goroutine copies the channel to       *)
(* stdout, one copies stdin to the channel, and the first of them to end   *)
(* makes main close the wormhole and leave.  Nothing has a timeout here.   *)
(***************************************************************************)
EXTENDS Channel

VARIABLE first   \* the routine whose end made an end's main close, or 0

(* Routine 1 copies stdin to the channel, routine 2 the channel to stdout. *)
PipeBegins == <<"stdin", "read">>

(* os.Exit(1) of FatalfIf, from either routine: nobody closes the wormhole. *)
Fatal(p) ==
  /\ main' = [main EXCEPT ![p] = "fatal"]
  /\ pc' = [pc EXCEPT ![p] = [i \in Routines |-> "gone"]]
  /\ closed' = closed \cup {p} /\ link' = "cut"
  /\ UNCHANGED <<carries, syncVars, buf, inq, ended, gaveUp, job, sent, out, first>>

(* Mutant: both directions copy through one buffer. *)
ReadStdinSharedBuffer(p) ==
  /\ pc[p][1] = "stdin"
  /\ \/ /\ sent[p] < Load[p]
        /\ sent' = [sent EXCEPT ![p] = @ + 1]
        /\ carries' = [carries EXCEPT ![p] = [i \in Routines |-> sent[p] + 1]]
        /\ Goto(p, 1, "lock")
     \/ Goto(p, 1, "done") /\ UNCHANGED <<sent, carries>>
  /\ UNCHANGED <<syncVars, dataVars, job, main, out, first>>

(* The sending end: CopyBuffer reads stdin and calls Write ... *)
ReadStdin(p) ==
  /\ pc[p][1] = "stdin"
  /\ \/ /\ sent[p] < Load[p]
        /\ sent' = [sent EXCEPT ![p] = @ + 1]
        /\ carries' = [carries EXCEPT ![p][1] = sent[p] + 1]
        /\ Goto(p, 1, "lock")
     \/ Goto(p, 1, "done") /\ UNCHANGED <<sent, carries>>
  /\ UNCHANGED <<syncVars, dataVars, job, main, out, first>>

(* ... until a Write fails. *)
StdinCopied(p) ==
  \/ /\ pc[p][1] = "ok"
     /\ Goto(p, 1, "stdin")
     /\ UNCHANGED <<carries, syncVars, dataVars, userVars, first>>
  \/ pc[p][1] = "err" /\ Fatal(p)

(* The receiving end: io.EOF ends it, another error ends the process. *)
WriteStdout(p) ==
  \/ /\ pc[p][2] = "ok"
     /\ out' = [out EXCEPT ![p] = Append(@, carries[p][2])]
     /\ Goto(p, 2, "read")
     /\ UNCHANGED <<carries, syncVars, dataVars, job, main, sent, first>>
  \/ /\ pc[p][2] = "eof"
     /\ Goto(p, 2, "done")
     /\ UNCHANGED <<carries, syncVars, dataVars, userVars, first>>
  \/ pc[p][2] = "err" /\ Fatal(p)

(* <-done: main goes on to Close; the other routine goes on as well. *)
MainDone(p) ==
  /\ main[p] = "wait"
  /\ \E i \in Routines : pc[p][i] = "done" /\ first' = [first EXCEPT ![p] = i]
  /\ main' = [main EXCEPT ![p] = "closing"]
  /\ UNCHANGED <<channelVars, job, sent, out>>

(* Mutant: main returns without Close. *)
PipeLeaves(p) ==
  /\ main[p] = "closing"
  /\ closed' = closed \cup {p}
  /\ main' = [main EXCEPT ![p] = "exited"]
  /\ pc' = [pc EXCEPT ![p] = [i \in Routines |-> "gone"]]
  /\ UNCHANGED <<carries, syncVars, buf, inq, link, ended, gaveUp, job, sent, out, first>>

(* c.Close() returns and so does main, which ends the process. *)
PipeCloses(p) ==
  /\ main[p] = "closing"
  /\ CloseChannel(p)
  /\ main' = [main EXCEPT ![p] = "exited"]
  /\ pc' = [pc EXCEPT ![p] = [i \in Routines |-> "gone"]]
  /\ UNCHANGED <<job, sent, out, first>>

PipeStep(p) ==
  /\ job[p] = "pipe"
  /\ StdinCopied(p) \/ WriteStdout(p) \/ MainDone(p) \/ PipeCloses(p)
=============================================================================
