------------------------------ MODULE Transfer ------------------------------
(***************************************************************************)
(* The transfer of files over an open wormhole: send.go, recv.go and       *)
(* meta.go, with their retries, on top of the read and write timeouts of   *)
(* internal/util/timeoutio.go and the flush of Wormhole.Close.             *)
(*                                                                         *)
(* A file is a sequence of chunks, a chunk is what one message carries,    *)
(* and the hash of a prefix is the prefix (xxhash is taken not to          *)
(* collide).  The sender announces its files, the receiver answers with    *)
(* what it has of each, and the sender sends a header and the rest of each *)
(* file.  After an error both sides dial again, RetryTimes at most.        *)
(*                                                                         *)
(* Two things that the code does not exclude: files of one base name share *)
(* a destination, and a Read that times out can lose the message it took.  *)
(***************************************************************************)
EXTENDS Naturals, Sequences, SequencesExt

CONSTANTS NFiles,      \* files announced
          Chunks,      \* chunk contents
          MaxLen,      \* bound: chunks in a file
          WireCap,     \* messages buffered before a write blocks
          RetryTimes,  \* attempts
          None         \* no file, no hash, no message

ASSUME TransferAssumption ==
  /\ {NFiles, WireCap, RetryTimes} \subseteq Nat \ {0} /\ MaxLen \in Nat
  /\ None \notin Seq(Chunks)

Files == 1 .. NFiles
Contents == SeqOf(Chunks, MaxLen)

VARIABLES
  source,   \* the sender's files
  path,     \* where each is received: the first file with its CleanName
  dest,     \* the receiver's directory
  spc, sfile, spos,   \* sendFilesByWormhole: place, file, chunks behind it
  answers,  \* SendFilesMetaRsp as the sender read it
  rpc, rfile, rpos,   \* receiveByWormhole: place, last header, chunks on disk
  inhand,   \* the chunk that CopyN has read and not written
  wire,     \* messages to the receiver
  reply,    \* the message to the sender, or None
  link,     \* "up" until either side closes or the connection breaks
  attempt,  \* dials so far
  lost,     \* the attempts in which a Read lost a message
  faults    \* a timeout, a break or a local error happened

senderVars == <<spc, sfile, spos, answers>>
receiverVars == <<dest, rpc, rfile, rpos, inhand>>
vars == <<source, path, senderVars, receiverVars, wire, reply, link, attempt, lost, faults>>

Answers == [Files -> [pos : 0 .. MaxLen, hash : Contents \cup {None}]]

(* eof ends the channel in good order, err is what a broken one reads as. *)
Messages == [type : {"meta", "eof", "err"}]
       \cup [type : {"header"}, file : Files, pos : 0 .. MaxLen]
       \cup [type : {"data"}, chunk : Chunks]

TypeOK ==
  /\ source \in [Files -> Contents] /\ path \in [Files -> Files]
  /\ dest \in [Files -> Contents \cup {None}]
  /\ spc \in {"meta", "rsp", "header", "data", "close", "ok", "failed"}
  /\ sfile \in 1 .. NFiles + 1 /\ spos \in 0 .. MaxLen
  /\ answers \in Answers \cup {None}
  /\ rpc \in {"meta", "header", "data", "write", "ok", "failed"}
  /\ rfile \in 0 .. NFiles /\ rpos \in 0 .. MaxLen
  /\ inhand \in Chunks \cup {None}
  /\ wire \in Seq(Messages) /\ reply \in Answers \cup {None}
  /\ link \in {"up", "down"} /\ attempt \in 1 .. RetryTimes
  /\ lost \subseteq 1 .. attempt /\ faults \in BOOLEAN

Connected ==
  /\ spc = "meta" /\ sfile = 1 /\ spos = 0 /\ answers = None
  /\ rpc = "meta" /\ rfile = 0 /\ rpos = 0 /\ inhand = None
  /\ wire = <<>> /\ reply = None /\ link = "up"

Init ==
  /\ source \in [Files -> Contents]
  /\ path \in [Files -> Files] /\ \A i \in Files : path[i] <= i /\ path[path[i]] = path[i]
  /\ dest \in [Files -> Contents \cup {None}] /\ \A i \in Files : path[i] # i => dest[i] = None
  /\ Connected
  /\ attempt = 1 /\ lost = {} /\ faults = FALSE

Size(i) == Len(source[i])

-----------------------------------------------------------------------------
(* The sender. *)

(* A write to the data channel: blocks while too much is buffered, and goes
   nowhere, without an error, once the other end is gone. *)
Writes(m) ==
  \/ link = "up" /\ Len(wire) < WireCap /\ wire' = Append(wire, m)
  \/ link = "down" /\ UNCHANGED wire

SendMeta ==
  /\ spc = "meta"
  /\ Writes([type |-> "meta"])
  /\ spc' = "rsp"
  /\ UNCHANGED <<source, path, sfile, spos, answers, receiverVars, reply, link, attempt, lost, faults>>

RecvRsp ==
  /\ spc = "rsp" /\ reply # None
  /\ answers' = reply /\ reply' = None
  /\ spc' = "header"
  /\ UNCHANGED <<source, path, sfile, spos, receiverVars, wire, link, attempt, lost, faults>>

(* createFileMetaRsp of the sender's own file: the hash of its first pos
   chunks, of all of it for 0, and none when it has fewer. *)
LocalHash(i, pos) ==
  IF pos = 0 THEN source[i]
  ELSE IF pos > Size(i) THEN None ELSE SubSeq(source[i], 1, pos)

(* Mutant: what the receiver has is not compared. *)
ResumeUnchecked(i, answer) == answer.pos

(* Where to resume file i: at the receiver's position, or from the start when
   what the receiver has is not a beginning of the file. *)
ResumeAt(i, answer) ==
  IF answer.hash # None /\ LocalHash(i, answer.pos) # answer.hash THEN 0 ELSE answer.pos

(* sendFile up to its data. *)
SendHeader ==
  /\ spc = "header" /\ sfile <= NFiles
  /\ LET pos == ResumeAt(sfile, answers[sfile]) IN
       /\ Writes([type |-> "header", file |-> sfile, pos |-> pos])
       /\ IF pos >= Size(sfile) THEN sfile' = sfile + 1 /\ UNCHANGED <<spc, spos>>
                                ELSE spc' = "data" /\ spos' = pos /\ UNCHANGED sfile
  /\ UNCHANGED <<source, path, answers, receiverVars, reply, link, attempt, lost, faults>>

(* One round of sendFilePos's CopyBuffer. *)
SendData ==
  /\ spc = "data"
  /\ Writes([type |-> "data", chunk |-> source[sfile][spos + 1]])
  /\ spos' = spos + 1
  /\ IF spos + 1 = Size(sfile) THEN spc' = "header" /\ sfile' = sfile + 1
                               ELSE UNCHANGED <<spc, sfile>>
  /\ UNCHANGED <<source, path, answers, receiverVars, reply, link, attempt, lost, faults>>

(* Mutant: the loop over the files stops before the last one. *)
SendDoneEarly ==
  /\ spc = "header" /\ sfile >= NFiles
  /\ spc' = "close"
  /\ UNCHANGED <<source, path, sfile, spos, answers, receiverVars, wire, reply, link, attempt, lost, faults>>

SendDone ==
  /\ spc = "header" /\ sfile > NFiles
  /\ spc' = "close"
  /\ UNCHANGED <<source, path, sfile, spos, answers, receiverVars, wire, reply, link, attempt, lost, faults>>

(* What the receiver can still read when the channel goes: everything, or,
   when it did not get through in time, only some of it. *)
Delivered == {SubSeq(wire, 1, n) : n \in 0 .. Len(wire)}

(* Mutant: sendFilesOnce does not close the wormhole. *)
SenderLeaves ==
  /\ spc = "close" /\ spc' = "ok"
  /\ UNCHANGED <<source, path, sfile, spos, answers, receiverVars, wire, reply, link, attempt, lost, faults>>

(* The deferred Close: it waits until the buffer is empty, for CloseTimeout at
   most; the call has its result already, and returns no error. *)
SenderCloses ==
  /\ spc = "close" /\ spc' = "ok"
  /\ IF link = "down" THEN UNCHANGED <<wire, faults>>
     ELSE \E got \in Delivered : /\ wire' = Append(got, [type |-> "eof"])
                                 /\ faults' = (faults \/ got # wire)
  /\ link' = "down"
  /\ UNCHANGED <<source, path, sfile, spos, answers, receiverVars, reply, attempt, lost>>

(* A write or a read times out (RwTimeout), fails, or the file cannot be
   read: the wormhole is closed and the call returns an error. *)
SenderFails ==
  /\ spc \in {"meta", "rsp", "header", "data"}
  /\ spc' = "failed" /\ faults' = TRUE
  /\ IF link = "down" THEN UNCHANGED wire
     ELSE \E got \in Delivered : wire' = Append(got, [type |-> "eof"])
  /\ link' = "down"
  /\ UNCHANGED <<source, path, sfile, spos, answers, receiverVars, reply, attempt, lost>>

-----------------------------------------------------------------------------
(* The receiver. *)

Reads(type) == wire # <<>> /\ Head(wire).type = type /\ wire' = Tail(wire)

(* LookupFilePos for every announced file, at the path of its base name, and
   the answer. *)
RecvMeta ==
  /\ rpc = "meta" /\ Reads("meta")
  /\ reply' = IF link = "down" THEN None
              ELSE [i \in Files |-> LET had == dest[path[i]] IN
                      [pos |-> IF had = None THEN 0 ELSE Len(had), hash |-> had]]
  /\ rpc' = "header"
  /\ UNCHANGED <<source, path, senderVars, dest, rfile, rpos, inhand, link, attempt, lost, faults>>

(* Mutant: the file is opened with O_TRUNC. *)
RecvHeaderTruncates ==
  /\ rpc = "header" /\ Reads("header")
  /\ LET m == Head(wire) IN
       /\ dest' = [dest EXCEPT ![path[m.file]] = <<>>]
       /\ rfile' = m.file
       /\ rpos' = m.pos
       /\ rpc' = IF m.pos >= Size(m.file) THEN "header" ELSE "data"
  /\ UNCHANGED <<source, path, senderVars, inhand, reply, link, attempt, lost, faults>>

(* Mutant: the receiver waits for the data of a file it has all of. *)
RecvHeaderWaits ==
  /\ rpc = "header" /\ Reads("header")
  /\ LET m == Head(wire) IN
       /\ dest' = [dest EXCEPT ![path[m.file]] = IF @ = None THEN <<>> ELSE @]
       /\ rfile' = m.file
       /\ rpos' = m.pos
       /\ rpc' = IF m.pos > Size(m.file) THEN "header" ELSE "data"
  /\ UNCHANGED <<source, path, senderVars, inhand, reply, link, attempt, lost, faults>>

(* A header, and receiving up to its CopyN: the file is opened, and created
   when it is not there, but never truncated. *)
RecvHeader ==
  /\ rpc = "header" /\ Reads("header")
  /\ LET m == Head(wire) IN
       /\ dest' = [dest EXCEPT ![path[m.file]] = IF @ = None THEN <<>> ELSE @]
       /\ rfile' = m.file
       /\ rpos' = m.pos
       /\ rpc' = IF m.pos >= Size(m.file) THEN "header" ELSE "data"
  /\ UNCHANGED <<source, path, senderVars, inhand, reply, link, attempt, lost, faults>>

(* One round of receiving's CopyN: its Read takes the next message for data.
   If that is a header, its bytes stand for any chunk. *)
RecvData ==
  /\ rpc = "data"
  /\ \/ Reads("data") /\ inhand' = Head(wire).chunk
     \/ Reads("header") /\ inhand' \in Chunks
  /\ rpc' = "write"
  /\ UNCHANGED <<source, path, senderVars, dest, rfile, rpos, reply, link, attempt, lost, faults>>

(* Mutant: chunks are added at the end of the file, without the seek. *)
WriteDataAppends ==
  /\ rpc = "write"
  /\ dest' = [dest EXCEPT ![path[rfile]] = Append(@, inhand)]
  /\ inhand' = None
  /\ rpos' = rpos + 1
  /\ rpc' = IF rpos + 1 = Size(rfile) THEN "header" ELSE "data"
  /\ UNCHANGED <<source, path, senderVars, rfile, wire, reply, link, attempt, lost, faults>>

(* ... and its Write puts the chunk where the last one ended. *)
WriteData ==
  /\ rpc = "write"
  /\ dest' = [dest EXCEPT ![path[rfile]] =
       [n \in 1 .. (IF rpos < Len(@) THEN Len(@) ELSE rpos + 1) |->
          IF n = rpos + 1 THEN inhand ELSE @[n]]]
  /\ inhand' = None
  /\ rpos' = rpos + 1
  /\ rpc' = IF rpos + 1 = Size(rfile) THEN "header" ELSE "data"
  /\ UNCHANGED <<source, path, senderVars, rfile, wire, reply, link, attempt, lost, faults>>

(* The channel ends: io.EOF where a header is due is success. *)
RecvEnd ==
  /\ rpc \in {"meta", "header", "data"}
  /\ wire # <<>> /\ Head(wire).type \in {"eof", "err"}
  /\ rpc' = IF rpc = "header" /\ Head(wire).type = "eof" THEN "ok" ELSE "failed"
  /\ UNCHANGED <<source, path, senderVars, dest, rfile, rpos, inhand, wire, reply, link, attempt, lost, faults>>

(* The timer of a Read fires as its goroutine returns, and of the results that
   both store n = 0 and err = nil are left (TimeoutIO): CopyN goes on without
   the message.  At the other reads such a result is a JSON error. *)
ReadLoses ==
  /\ rpc = "data" /\ (Reads("data") \/ Reads("header"))
  /\ lost' = lost \cup {attempt} /\ faults' = TRUE
  /\ UNCHANGED <<source, path, senderVars, receiverVars, reply, link, attempt>>

(* A read or a write times out and says so, a message is not the JSON that is
   due, or too long for the rest of the file, or the disk fails; Close takes the
   channel down, and what was on its way is lost. *)
ReceiverFails ==
  /\ rpc \in {"meta", "header", "data", "write"}
  /\ rpc' = "failed" /\ inhand' = None /\ faults' = TRUE
  /\ link' = "down" /\ wire' = <<>> /\ reply' = None
  /\ UNCHANGED <<source, path, senderVars, dest, rfile, rpos, attempt, lost>>

-----------------------------------------------------------------------------
(* The connection breaks. *)
Break ==
  /\ link = "up"
  /\ link' = "down" /\ faults' = TRUE
  /\ \E got \in Delivered, type \in {"eof", "err"} : wire' = Append(got, [type |-> type])
  /\ reply' \in {reply, None}
  /\ UNCHANGED <<source, path, senderVars, receiverVars, attempt, lost>>

(* sendFilesRetry and receiveRetry: both dial again, and meet because the
   first success of newConn wrote its code back into the arguments. *)
Redial ==
  /\ spc = "failed" /\ rpc = "failed" /\ attempt < RetryTimes
  /\ attempt' = attempt + 1
  /\ spc' = "meta" /\ sfile' = 1 /\ spos' = 0 /\ answers' = None
  /\ rpc' = "meta" /\ rfile' = 0 /\ rpos' = 0 /\ inhand' = None
  /\ wire' = <<>> /\ reply' = None /\ link' = "up"
  /\ UNCHANGED <<source, path, dest, lost, faults>>

Sender == SendMeta \/ RecvRsp \/ SendHeader \/ SendData \/ SendDone \/ SenderCloses
Receiver == RecvMeta \/ RecvHeader \/ RecvData \/ WriteData \/ RecvEnd

Next == Sender \/ Receiver \/ SenderFails \/ ReadLoses \/ ReceiverFails \/ Break \/ Redial

Spec == Init /\ [][Next]_vars
Fairness == WF_vars(Sender) /\ WF_vars(Receiver)
FairSpec == Spec /\ Fairness

-----------------------------------------------------------------------------
(* Properties. *)

(* No Read has lost a message in this attempt; and no other announced file is
   received where file i is. *)
Whole == attempt \notin lost
Sole(i) == \A j \in Files \ {i} : path[j] # path[i]

(* Headers and raw data share one channel with nothing to tell them apart:
   both sides count the data from the same header, so the receiver never
   takes a header for data or data for a header, until a Read has lost a
   message. *)
Framing ==
  Whole /\ rpc \in {"meta", "header", "data"} /\ wire # <<>>
    => Head(wire).type \in {rpc, "eof", "err"}

(* What the receiver wrote of a file, and what it kept of it from an earlier
   attempt, is a beginning of the sender's file; all of it once the file is
   finished.  It is so again in an attempt after one that lost a message.  Of
   files that share a destination nothing is said: each is resumed from what
   was there before the others came. *)
ReceivedIsSent ==
  LET copying == rpc \in {"data", "write"} IN
  Whole /\ (copying \/ rpc \in {"header", "ok"}) =>
    /\ copying /\ Sole(rfile) =>
         SubSeq(dest[path[rfile]], 1, rpos) = SubSeq(source[rfile], 1, rpos)
    /\ \A i \in 1 .. (IF copying THEN rfile - 1 ELSE rfile) :
         Sole(i) => IsPrefix(source[i], dest[path[i]])

(* A beginning of a file that was received stays one and only grows, so that
   every attempt resumes where the last one got to, whatever cut it short. *)
ProgressKept ==
  [][\A i \in Files :
       Whole /\ Sole(i) /\ dest[path[i]] # None /\ IsPrefix(dest[path[i]], source[i])
         => /\ IsPrefix(dest[path[i]], dest'[path[i]])
            /\ IsPrefix(dest'[path[i]], source[i])]_vars

(* A call only fails for a fault, and a receiver that returns without an error
   for fewer files than were announced does so only after one: the end of the
   channel says that everything was sent. *)
CompleteUnlessFault ==
  ~faults => spc # "failed" /\ rpc # "failed" /\ (rpc = "ok" => rfile = NFiles)

(* Without a fault both calls return without an error: neither waits for a
   message that the other one does not send. *)
TransferEnds == <>(faults \/ (spc = "ok" /\ rpc = "ok" /\ rfile = NFiles))

(* When the hashes differ the file is sent again from the start
   (send.go:164), so a file whose transfer is finished is the sender's. *)
RestartReplaces ==
  rpc = "ok" => \A i \in 1 .. rfile : dest[path[i]] = source[i]
=============================================================================
