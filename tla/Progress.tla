------------------------------ MODULE Progress ------------------------------
(***************************************************************************)
(* A transfer that was asked of the HTTP service or of the C library       *)
(* (sendFiles and recvFiles of http.go): Transfer, with the FilesResult    *)
(* that both keep as their progress bar and return as their answer, and    *)
(* the wrappers of internal/util/pb.go that feed it.                       *)
(*                                                                         *)
(* FilesResult has an entry for every Start, in all attempts, and a        *)
(* pointer to the entry of the file under way, which Finish sets to nil:   *)
(* an Add or a Finish without a Start panics.  The result file has the     *)
(* entries as of the last writeJSON.                                       *)
(***************************************************************************)
EXTENDS Transfer

Sides == {"sender", "receiver"}

VARIABLES
  entries,  \* Progresses
  current,  \* the sides whose currentProgress points to their last entry
  lagging,  \* the sides whose result file is behind the entries
  outcome   \* how the call ended: with a result, with an error, in a panic

barVars == <<entries, current, lagging>>
progressVars == <<vars, barVars, outcome>>

(* The size of an entry is that of its file. *)
Entries == [file : Files, written : Nat, finished : BOOLEAN]

ProgressTypeOK ==
  /\ TypeOK
  /\ entries \in [Sides -> Seq(Entries)]
  /\ current \subseteq {s \in Sides : entries[s] # <<>>} /\ lagging \subseteq Sides
  /\ outcome \in [Sides -> {"none", "result", "error", "panic"}]

ProgressInit ==
  /\ Init
  /\ entries = [s \in Sides |-> <<>>] /\ current = {} /\ lagging = {}
  /\ outcome = [s \in Sides |-> "none"]

-----------------------------------------------------------------------------
(* The progress bar. *)

(* Mutant: the bar of a resumed file starts at 0. *)
StartedAtZero(s, i, pos, finished) ==
  Append(entries[s], [file |-> i, written |-> 0, finished |-> finished])

(* Start, the Add of the position that both callers make next, and Finish when
   nothing is missing. *)
Started(s, i, pos, finished) ==
  Append(entries[s], [file |-> i, written |-> pos, finished |-> finished])

(* Add and then perhaps Finish, for a last entry. *)
Updated(s, n, finished) ==
  LET e == Last(entries[s]) IN
  [entries[s] EXCEPT ![Len(entries[s])] =
     [file |-> e.file, written |-> e.written + n, finished |-> finished]]

(* Start and Finish write the result file, Add only when it is time to. *)
Bar(s, updated, open) ==
  /\ entries' = [entries EXCEPT ![s] = updated]
  /\ current' = IF open THEN current \cup {s} ELSE current \ {s}
  /\ lagging' \in IF open THEN {lagging \ {s}, lagging \cup {s}} ELSE {lagging \ {s}}

(* Whatever ends the copy of a file, the deferred Finish calls it finished. *)
Closed(s) == IF s \in current THEN Bar(s, Updated(s, 0, TRUE), FALSE) ELSE UNCHANGED barVars

-----------------------------------------------------------------------------
(* The sender: no bar for a file that is complete at the other side. *)

SendHeaderBar ==
  /\ SendHeader
  /\ LET pos == ResumeAt(sfile, answers[sfile]) IN
       IF pos < Size(sfile) THEN Bar("sender", Started("sender", sfile, pos, FALSE), TRUE)
                            ELSE UNCHANGED barVars

SendDataBar ==
  /\ SendData
  /\ LET last == spos + 1 = Size(sfile) IN Bar("sender", Updated("sender", 1, last), ~last)

(* The steps that do not touch the bar. *)
Silent == SendMeta \/ RecvRsp \/ SendDone \/ SenderCloses \/ RecvMeta \/ Break

-----------------------------------------------------------------------------
(* The receiver. *)

RecvHeaderBar ==
  /\ RecvHeader
  /\ LET m == Head(wire)
         complete == m.pos >= Size(m.file) IN
       Bar("receiver", Started("receiver", m.file, m.pos, complete), ~complete)

(* Reader.Read adds what it has read, before CopyN writes it. *)
RecvDataBar ==
  /\ RecvData
  /\ Bar("receiver", Updated("receiver", 1, FALSE), TRUE)

(* The Write does not touch the bar, but after the last one CopyN returns, and
   receiving with its deferred Finish. *)
WriteDataBar ==
  /\ WriteData
  /\ IF rpos + 1 = Size(rfile) THEN Closed("receiver") ELSE UNCHANGED barVars

(* An Add of nothing. *)
ReadLosesBar ==
  /\ ReadLoses
  /\ Bar("receiver", Updated("receiver", 0, FALSE), TRUE)

(* Reader.Read, the wrapper around the channel, finishes the bar at io.EOF. *)
FinishesItself(type) == type = "eof"

(* When it did, the Finish that receiving deferred finds no current entry. *)
RecvEndBar ==
  /\ RecvEnd
  /\ Closed("receiver")
  /\ outcome' = IF rpc = "data" /\ FinishesItself(Head(wire).type)
                  THEN [outcome EXCEPT !["receiver"] = "panic"] ELSE outcome

-----------------------------------------------------------------------------
(* The calls. *)

Ended(s) == outcome[s] # "none"

(* Mutant: recvFiles and sendFiles answer when they have no error. *)
ReturnsResult(s, at) ==
  /\ ~Ended(s) /\ at = "ok"
  /\ outcome' = [outcome EXCEPT ![s] = "result"]
  /\ UNCHANGED <<vars, barVars>>

(* The answer: after a success, or when the attempts are used up.  A side
   whose peer's call has ended dials alone in those it has left. *)
Returns(s, at) ==
  /\ ~Ended(s)
  /\ \/ at = "ok"
     \/ at = "failed" /\ (attempt = RetryTimes \/ \E t \in Sides : Ended(t))
  /\ outcome' = [outcome EXCEPT ![s] = IF at = "ok" THEN "result" ELSE "error"]
  /\ UNCHANGED <<vars, barVars>>

RedialService ==
  /\ \A s \in Sides : ~Ended(s)
  /\ Redial
  /\ UNCHANGED <<barVars, outcome>>

Quiet == Silent /\ UNCHANGED <<barVars, outcome>>
Bars ==
  /\ SendHeaderBar \/ SendDataBar \/ RecvHeaderBar \/ RecvDataBar \/ WriteDataBar \/ ReadLosesBar
  /\ UNCHANGED outcome
SenderFailsBar == SenderFails /\ Closed("sender") /\ UNCHANGED outcome
ReceiverFailsBar == ReceiverFails /\ Closed("receiver") /\ UNCHANGED outcome
Return == Returns("sender", spc) \/ Returns("receiver", rpc)

ProgressNext ==
  \/ Quiet \/ Bars \/ RecvEndBar \/ SenderFailsBar \/ ReceiverFailsBar
  \/ Return \/ RedialService

ProgressSpec == ProgressInit /\ [][ProgressNext]_progressVars

(* Programs run, disks answer, and the timers of the timeout wrapper expire. *)
ServiceFairness ==
  /\ WF_progressVars(Return) /\ WF_progressVars(RedialService)
  /\ WF_progressVars(SenderCloses /\ Quiet)
  /\ WF_progressVars(SendDone /\ Quiet)
  /\ WF_progressVars(WriteDataBar /\ UNCHANGED outcome)
  /\ WF_progressVars(SenderFailsBar) /\ WF_progressVars(rpc # "write" /\ ReceiverFailsBar)
FairProgressSpec == ProgressSpec /\ ServiceFairness

-----------------------------------------------------------------------------
(* Properties. *)

(* What the receiver reports as written of the file under way is what it has
   read of it: at most one chunk ahead of its disk.  And as long as no Read has
   lost a message this is so of every entry, in whatever attempt it was made:
   but for its last chunk, which may not have been written, the part reported
   is on the disk as the sender has it. *)
WrittenOnDisk ==
  LET reported == entries["receiver"] IN
  /\ "receiver" \in current =>
       /\ Last(reported).file = rfile
       /\ Last(reported).written = IF rpc = "write" THEN rpos + 1 ELSE rpos
  /\ lost = {} => \A k \in DOMAIN reported :
       LET i == reported[k].file
           n == reported[k].written - 1 IN
       Sole(i) /\ n >= 0 => IsPrefix(SubSeq(source[i], 1, n), dest[path[i]])

(* No file is reported to be further than its size, however often it is
   resumed and whatever was in its place before. *)
WithinSize ==
  \A s \in Sides : \A k \in DOMAIN entries[s] :
    entries[s][k].written <= Size(entries[s][k].file)

(* The service documents "finished" as whether the transfer of the file is
   complete (cshare.go:74,120). *)
FinishedIsComplete ==
  \A s \in Sides : \A k \in DOMAIN entries[s] :
    entries[s][k].finished => entries[s][k].written = Size(entries[s][k].file)

(* A receiver that answers without an error for all files, in an attempt in
   which no Read lost a message, lists each of them with all of its bytes, and
   its result file says the same. *)
ReportsComplete ==
  outcome["receiver"] = "result" /\ rfile = NFiles /\ Whole =>
    /\ \A i \in Files : \E k \in DOMAIN entries["receiver"] :
         entries["receiver"][k] = [file |-> i, written |-> Size(i), finished |-> TRUE]
    /\ "receiver" \notin lagging

(* Every call ends. *)
CallsEnd == <>(\A s \in Sides : Ended(s))
=============================================================================
