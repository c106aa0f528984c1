---------------------------- MODULE ProgressProofs ----------------------------
(***************************************************************************)
(* The answers of the HTTP service and of the C library, for any files,    *)
(* window and number of attempts: the service transfers files as Transfer  *)
(* does, and the entries it keeps follow the transfer.                     *)
(***************************************************************************)
EXTENDS Progress, TransferProofs

-----------------------------------------------------------------------------
(* Every step of the service is one of the transfer, or changes nothing but
   the entries and outcomes. *)
LEMMA ServiceSteps == [ProgressNext]_progressVars => [Next]_vars
BY DEF ProgressNext, Next, Sender, Receiver, Quiet, Silent, Bars, SendHeaderBar, SendDataBar,
   RecvHeaderBar, RecvDataBar, WriteDataBar, ReadLosesBar, RecvEndBar, SenderFailsBar, ReceiverFailsBar, Return, Returns,
   RedialService, progressVars

(* sendFiles and recvFiles of http.go run the transfer of send.go and recv.go:
   what holds of it holds of the service. *)
THEOREM ServiceTransfers == ProgressSpec => Spec
<1>1. ProgressInit => Init
  BY DEF ProgressInit
<1> QED
  BY <1>1, ServiceSteps, PTL DEF ProgressSpec, Spec

-----------------------------------------------------------------------------
(* The inductive invariant, in named parts. *)

EntriesOK ==
  /\ entries \in [Sides -> Seq(Entries)]
  /\ current \subseteq {s \in Sides : entries[s] # <<>>} /\ lagging \subseteq current
  /\ outcome \in [Sides -> {"none", "result", "error", "panic"}]

(* The pointer is set while a file is copied, and its entry says how far. *)
SenderBar ==
  /\ "sender" \in current <=> spc = "data"
  /\ spc = "data" => Last(entries["sender"]) = [file |-> sfile, written |-> spos, finished |-> FALSE]

ReceiverBar ==
  /\ "receiver" \in current <=> rpc \in {"data", "write"}
  /\ rpc \in {"data", "write"} =>
       Last(entries["receiver"]) =
         [file |-> rfile, written |-> IF rpc = "write" THEN rpos + 1 ELSE rpos, finished |-> FALSE]

(* The receiver has the first n chunks of file i, if no Read ever lost one. *)
Has(i, n) ==
  lost = {} /\ Sole(i) => LET has == dest[path[i]] IN
    has # None /\ n <= Len(has) /\ \A k \in 1 .. n : has[k] = source[i][k]

(* All but one chunk of what an entry reports is on the disk, and every file
   that the receiver is through with in this attempt has a full one. *)
OnDisk(e) == \E n \in Nat : e.written <= n + 1 /\ Has(e.file, n)

Logged == \A k \in DOMAIN entries["receiver"] : OnDisk(entries["receiver"][k])

(* The files that the receiver is through with. *)
Through == IF rpc \in {"data", "write"} THEN rfile - 1 ELSE rfile

Listed ==
  Whole /\ rpc \in {"header", "data", "write", "ok"} =>
    \A i \in 1 .. Through :
      \E k \in DOMAIN entries["receiver"] :
        entries["receiver"][k] = [file |-> i, written |-> Size(i), finished |-> TRUE]

Answered == outcome["receiver"] = "result" => rpc = "ok"

PInv == /\ IInv /\ EntriesOK /\ SenderBar /\ ReceiverBar
        /\ WithinSize /\ Logged /\ Listed /\ Answered

(* What a step keeps, a Redial included. *)
Follows ==
  /\ UNCHANGED source
  /\ Whole' => Whole \/ rpc' = "meta"
  /\ \A i \in Files, n \in Nat : Has(i, n) => Has(i, n)'

Within(s) == \A k \in DOMAIN entries[s] : entries[s][k].written <= Size(entries[s][k].file)

-----------------------------------------------------------------------------
(* What the bar does to the entries of one side. *)

LEMMA LastUpdated ==
  ASSUME NEW e \in Seq(Entries), e # <<>>, NEW n \in Nat, NEW fin \in BOOLEAN, NEW u,
         u = [e EXCEPT ![Len(e)] = [file |-> Last(e).file, written |-> Last(e).written + n,
                                    finished |-> fin]]
  PROVE  /\ u \in Seq(Entries) /\ u # <<>> /\ Len(u) = Len(e) /\ Len(e) \in Nat /\ Len(e) > 0
         /\ Last(e) = e[Len(e)] /\ Last(u) = u[Len(e)]
         /\ u[Len(e)] = [file |-> e[Len(e)].file, written |-> e[Len(e)].written + n,
                         finished |-> fin]
         /\ \A k \in 1 .. Len(e) : k # Len(e) => u[k] = e[k]
<1>1. Len(e) \in Nat /\ Len(e) > 0 /\ Len(e) \in 1 .. Len(e) /\ e \in [1 .. Len(e) -> Entries]
  OBVIOUS
<1>2. e[Len(e)] \in Entries
  BY <1>1
<1>3. PICK x : x = [file |-> e[Len(e)].file, written |-> e[Len(e)].written + n, finished |-> fin]
  OBVIOUS
<1>4. x \in Entries
  BY <1>2, <1>3 DEF Entries
<1>5. u = [e EXCEPT ![Len(e)] = x]
  BY <1>3 DEF Last
<1>6. u \in [1 .. Len(e) -> Entries]
  BY <1>1, <1>4, <1>5
<1>7. u \in Seq(Entries) /\ Len(u) = Len(e)
  <2>1. PICK n1 \in Nat : n1 = Len(e)
    BY <1>1
  <2>2. u \in [1 .. n1 -> Entries]
    BY <1>6, <2>1
  <2>3. u \in Seq(Entries) /\ Len(u) = n1
    BY <2>2
  <2> QED
    BY <2>1, <2>3
<1>8. u[Len(e)] = x /\ \A k \in 1 .. Len(e) : k # Len(e) => u[k] = e[k]
  BY <1>1, <1>5
<1> QED
  BY <1>1, <1>3, <1>7, <1>8 DEF Last

(* A step of one side's bar leaves the other side's alone. *)
LEMMA BarOfOne ==
  ASSUME EntriesOK, NEW s \in Sides, NEW e \in Seq(Entries), e # <<>>, NEW open \in BOOLEAN,
         Bar(s, e, open), outcome' \in [Sides -> {"none", "result", "error", "panic"}]
  PROVE  /\ EntriesOK' /\ entries'[s] = e /\ (s \in current' <=> open)
         /\ \A t \in Sides : t # s => /\ entries'[t] = entries[t]
                                      /\ t \in current' <=> t \in current
<1>1. entries' = [entries EXCEPT ![s] = e]
  BY DEF Bar
<1>2. /\ entries' \in [Sides -> Seq(Entries)] /\ entries'[s] = e
      /\ \A t \in Sides : t # s => entries'[t] = entries[t]
  BY <1>1 DEF EntriesOK
<1>3. current' = IF open THEN current \cup {s} ELSE current \ {s}
  BY DEF Bar
<1>4. lagging' \in IF open THEN {lagging \ {s}, lagging \cup {s}} ELSE {lagging \ {s}}
  BY DEF Bar
<1>5. lagging' \subseteq current'
  BY <1>3, <1>4 DEF EntriesOK
<1>6. current' \subseteq {t \in Sides : entries'[t] # <<>>}
  BY <1>2, <1>3 DEF EntriesOK
<1> QED
  BY <1>2, <1>3, <1>5, <1>6 DEF EntriesOK

-----------------------------------------------------------------------------
(* What a step of one side does to the invariant. *)

LEMMA EntryIs ==
  ASSUME EntriesOK, TypeOK, NEW s \in Sides, NEW k \in DOMAIN entries[s]
  PROVE  /\ entries[s] \in Seq(Entries) /\ entries[s][k] \in Entries
         /\ entries[s][k].file \in Files /\ entries[s][k].written \in Nat
         /\ Size(entries[s][k].file) \in Nat /\ k \in Nat
<1>1. entries[s] \in Seq(Entries) /\ entries[s][k] \in Entries /\ k \in Nat
  BY DEF EntriesOK
<1>2. entries[s][k].file \in Files /\ entries[s][k].written \in Nat
  BY <1>1 DEF Entries
<1> QED
  BY <1>1, <1>2, DestIs

LEMMA WithinStill ==
  ASSUME NEW s \in Sides, Within(s), entries'[s] = entries[s], source' = source
  PROVE  Within(s)'
BY DEF Within, Size

LEMMA WithinBoth ==
  ASSUME Within("sender"), Within("receiver")
  PROVE  WithinSize
BY DEF Within, WithinSize, Sides

LEMMA SenderBarStill ==
  ASSUME SenderBar, entries'["sender"] = entries["sender"],
         "sender" \in current' <=> "sender" \in current,
         spc' = "data" <=> spc = "data", spc = "data" => UNCHANGED <<sfile, spos>>
  PROVE  SenderBar'
BY DEF SenderBar

(* The receiver's entries do not change. *)
LEMMA ReceiverBarStill ==
  ASSUME TypeOK, EntriesOK, Follows, ReceiverBar, Logged, Listed,
         entries'["receiver"] = entries["receiver"],
         "receiver" \in current' <=> "receiver" \in current,
         rpc' \in {"data", "write"} <=> rpc \in {"data", "write"},
         rpc \in {"data", "write"} => UNCHANGED <<rpc, rfile, rpos>>,
         Whole' /\ rpc' \in {"header", "ok"} =>
           rfile' = 0 \/ (rpc \in {"header", "ok"} /\ rfile' = rfile)
  PROVE  ReceiverBar' /\ Logged' /\ Listed'
<1>1. ReceiverBar'
  BY DEF ReceiverBar
<1>2. Logged'
  <2> SUFFICES ASSUME NEW k \in DOMAIN entries["receiver"], NEW e, e = entries["receiver"][k]
               PROVE  OnDisk(e)'
    BY DEF Logged
  <2>1. e.file \in Files
    BY EntryIs DEF Sides
  <2>2. PICK n \in Nat : e.written <= n + 1 /\ Has(e.file, n)
    BY DEF Logged, OnDisk
  <2>3. PICK f \in Files : f = e.file
    BY <2>1
  <2>4. Has(f, n)'
    BY <2>2, <2>3 DEF Follows
  <2> QED
    BY <2>2, <2>3, <2>4 DEF OnDisk, Has
<1>3. Listed'
  <2> SUFFICES ASSUME Whole', rpc' \in {"header", "data", "write", "ok"}, NEW i \in 1 .. Through'
               PROVE  \E k \in DOMAIN entries["receiver"] :
                        entries["receiver"][k] = [file |-> i, written |-> Size(i)', finished |-> TRUE]
    BY DEF Listed, Through
  <2>1. Size(i)' = Size(i)
    BY DEF Follows, Size
  <2>2. Whole /\ rpc \in {"header", "data", "write", "ok"} /\ i \in 1 .. Through
    BY DEF Through, Follows
  <2> QED
    BY <2>1, <2>2 DEF Listed
<1> QED
  BY <1>1, <1>2, <1>3

(* One entry of the receiver's is new, or was open. *)
LEMMA ReceiverEntry ==
  ASSUME TypeOK, EntriesOK, Follows, Within("receiver"), Logged, Listed,
         NEW u \in Seq(Entries), entries'["receiver"] = u, NEW n \in DOMAIN u,
         \A k \in DOMAIN entries["receiver"] :
           \/ k \in DOMAIN u /\ u[k] = entries["receiver"][k]
           \/ k = n /\ ~entries["receiver"][k].finished,
         \A k \in DOMAIN u :
           k = n \/ (k \in DOMAIN entries["receiver"] /\ u[k] = entries["receiver"][k]),
         u[n].written <= Size(u[n].file),
         NEW f \in Files, NEW m \in Nat, u[n].file = f, u[n].written <= m + 1, Has(f, m)',
         Whole' /\ rpc' \in {"header", "data", "write", "ok"} =>
           \A i \in 1 .. Through' :
             \/ Whole /\ rpc \in {"header", "data", "write", "ok"} /\ i \in 1 .. Through
             \/ u[n] = [file |-> i, written |-> Size(i), finished |-> TRUE]
  PROVE  Logged' /\ Within("receiver")' /\ Listed'
<1>1. \A k \in DOMAIN u : u[k] \in Entries /\ u[k].file \in Files /\ u[k].written \in Nat
  <2>1. ASSUME NEW k \in DOMAIN u
        PROVE  u[k] \in Entries
    OBVIOUS
  <2> QED
    BY <2>1 DEF Entries
<1>2. Within("receiver")'
  BY DEF Within, Follows, Size
<1>3. Logged'
  <2> SUFFICES ASSUME NEW k \in DOMAIN u, NEW e, e = u[k]
               PROVE  OnDisk(e)'
    BY DEF Logged
  <2>1. CASE k = n
    BY <2>1 DEF OnDisk, Has
  <2>2. CASE k # n
    <3>1. k \in DOMAIN entries["receiver"] /\ u[k] = entries["receiver"][k]
      BY <2>2
    <3>2. PICK j \in Nat : e.written <= j + 1 /\ Has(e.file, j)
      BY <3>1 DEF Logged, OnDisk
    <3>3. PICK g \in Files : g = e.file
      BY <1>1
    <3>4. Has(g, j)'
      BY <3>2, <3>3 DEF Follows
    <3> QED
      BY <3>2, <3>3, <3>4 DEF OnDisk, Has
  <2> QED
    BY <2>1, <2>2
<1>4. Listed'
  <2> SUFFICES ASSUME Whole', rpc' \in {"header", "data", "write", "ok"}, NEW i \in 1 .. Through'
               PROVE  \E k \in DOMAIN u :
                        u[k] = [file |-> i, written |-> Size(i)', finished |-> TRUE]
    BY DEF Listed
  <2>1. Size(i)' = Size(i)
    BY DEF Follows, Size
  <2>2. CASE u[n] = [file |-> i, written |-> Size(i), finished |-> TRUE]
    BY <2>1, <2>2
  <2>3. CASE Whole /\ rpc \in {"header", "data", "write", "ok"} /\ i \in 1 .. Through
    <3>1. PICK k \in DOMAIN entries["receiver"] :
            entries["receiver"][k] = [file |-> i, written |-> Size(i), finished |-> TRUE]
      BY <2>3 DEF Listed
    <3>2. entries["receiver"][k].finished
      BY <3>1
    <3>3. k \in DOMAIN u /\ u[k] = entries["receiver"][k]
      BY <3>2
    <3> QED
      BY <2>1, <3>1, <3>3
  <2> QED
    BY <2>2, <2>3
<1> QED
  BY <1>2, <1>3, <1>4

(* The place of the receiver's open entry. *)
LEMMA Receiving ==
  ASSUME PInv, rpc \in {"data", "write"}
  PROVE  /\ TypeOK /\ rfile \in Files /\ rfile \in Nat /\ rfile >= 1 /\ rpos \in Nat
         /\ rpos + 1 <= Size(rfile) /\ Size(rfile) \in Nat /\ Has(rfile, rpos)
         /\ "receiver" \in current /\ entries["receiver"] \in Seq(Entries)
         /\ entries["receiver"] # <<>>
<1>1. TypeOK /\ rfile \in Files /\ rpos < Size(rfile) /\ Agree(rfile, rpos)
  BY DEF PInv, IInv, ReceiverPlace
<1>2. rpos \in Nat /\ rfile \in Nat /\ rfile >= 1 /\ Size(rfile) \in Nat
  BY <1>1, DestIs, TransferAssumption DEF TypeOK, Files
<1>3. rpos + 1 <= Size(rfile)
  BY <1>1, <1>2
<1>4. Has(rfile, rpos)
  BY <1>1 DEF Agree, Has, Whole
<1>5. "receiver" \in current /\ entries["receiver"] \in Seq(Entries) /\ entries["receiver"] # <<>>
  BY DEF PInv, ReceiverBar, EntriesOK, Sides
<1> QED
  BY <1>1, <1>2, <1>3, <1>4, <1>5

(* An Add to the receiver's open entry, or its Finish. *)
LEMMA ReceiverLast ==
  ASSUME PInv, Follows, rpc \in {"data", "write"}, NEW n \in Nat, NEW fin \in BOOLEAN,
         Bar("receiver", Updated("receiver", n, fin), ~fin),
         outcome' \in [Sides -> {"none", "result", "error", "panic"}],
         NEW total \in Nat, total = (IF rpc = "write" THEN rpos + 1 ELSE rpos) + n,
         total <= rpos + 1,
         rpc' \in {"data", "write"} <=> ~fin,
         ~fin => rfile' = rfile /\ total = IF rpc' = "write" THEN rpos' + 1 ELSE rpos',
         Whole' /\ rpc' \in {"header", "ok"} => fin /\ rfile' = rfile /\ total = Size(rfile)
  PROVE  /\ EntriesOK' /\ ReceiverBar' /\ Logged' /\ Within("receiver")' /\ Listed'
         /\ entries'["sender"] = entries["sender"]
         /\ "sender" \in current' <=> "sender" \in current
         /\ entries'["receiver"] # <<>>
         /\ Last(entries'["receiver"]) = [file |-> rfile, written |-> total, finished |-> fin]
<1>1. /\ TypeOK /\ rfile \in Files /\ rfile \in Nat /\ rfile >= 1 /\ rpos \in Nat
      /\ rpos + 1 <= Size(rfile) /\ Size(rfile) \in Nat /\ Has(rfile, rpos)
      /\ "receiver" \in current
  BY Receiving
<1>2. PICK e \in Seq(Entries) : e = entries["receiver"] /\ e # <<>>
  BY Receiving
<1>3. /\ Last(e).file = rfile /\ ~Last(e).finished
      /\ Last(e).written = IF rpc = "write" THEN rpos + 1 ELSE rpos
  BY <1>2 DEF PInv, ReceiverBar
<1>4. Last(e).written + n = total
  BY <1>3
<1>5. PICK u : u = [e EXCEPT ![Len(e)] = [file |-> Last(e).file, written |-> Last(e).written + n,
                                         finished |-> fin]]
  OBVIOUS
<1>6. /\ u \in Seq(Entries) /\ u # <<>> /\ Len(u) = Len(e) /\ Len(e) \in Nat /\ Len(e) > 0
      /\ Last(e) = e[Len(e)] /\ Last(u) = u[Len(e)]
      /\ u[Len(e)] = [file |-> e[Len(e)].file, written |-> e[Len(e)].written + n,
                      finished |-> fin]
      /\ \A k \in 1 .. Len(e) : k # Len(e) => u[k] = e[k]
  BY <1>2, <1>5, LastUpdated
<1>7. u[Len(e)] = [file |-> rfile, written |-> total, finished |-> fin]
  BY <1>3, <1>4, <1>6
<1>8. Bar("receiver", u, ~fin)
  BY <1>2, <1>5 DEF Updated
<1>9. /\ EntriesOK' /\ entries'["receiver"] = u /\ ("receiver" \in current' <=> ~fin)
      /\ entries'["sender"] = entries["sender"]
      /\ "sender" \in current' <=> "sender" \in current
  <2>1. PICK open \in BOOLEAN : open = ~fin
    OBVIOUS
  <2>2. EntriesOK /\ Bar("receiver", u, open)
    BY <1>8, <2>1 DEF PInv
  <2>3. /\ EntriesOK' /\ entries'["receiver"] = u /\ ("receiver" \in current' <=> open)
        /\ entries'["sender"] = entries["sender"]
        /\ "sender" \in current' <=> "sender" \in current
    BY <1>6, <2>2, BarOfOne DEF Sides
  <2> QED
    BY <2>1, <2>3
<1>10. ReceiverBar'
  BY <1>6, <1>7, <1>9 DEF ReceiverBar
<1>11. Logged' /\ Within("receiver")' /\ Listed'
  <2>1. PICK l : l = Len(e)
    OBVIOUS
  <2>2. /\ l \in DOMAIN u /\ u[l] = [file |-> rfile, written |-> total, finished |-> fin]
        /\ u[l].file = rfile /\ u[l].written <= rpos + 1
    BY <1>6, <1>7, <2>1
  <2>3. ASSUME NEW k \in DOMAIN e
        PROVE  (k \in DOMAIN u /\ u[k] = e[k]) \/ (k = l /\ ~e[k].finished)
    <3>1. k \in 1 .. Len(e) /\ k \in DOMAIN u
      BY <1>2, <1>6
    <3> QED
      BY <1>3, <1>6, <2>1, <3>1
  <2>4. \A k \in DOMAIN u : k = l \/ (k \in DOMAIN e /\ u[k] = e[k])
    BY <1>6, <2>1
  <2>5. u[l].written <= Size(u[l].file)
    BY <1>1, <2>2
  <2>6. PICK f \in Files, m \in Nat : f = rfile /\ m = rpos
    BY <1>1
  <2>7. u[l].file = f /\ u[l].written <= m + 1 /\ Has(f, m)'
    BY <1>1, <2>2, <2>6 DEF Follows
  <2>8. ASSUME Whole', rpc' \in {"header", "data", "write", "ok"}, NEW i \in 1 .. Through'
        PROVE  \/ Whole /\ rpc \in {"header", "data", "write", "ok"} /\ i \in 1 .. Through
               \/ u[l] = [file |-> i, written |-> Size(i), finished |-> TRUE]
    <3>1. Whole
      BY <2>8 DEF Follows
    <3>2. CASE i \in 1 .. rfile - 1
      BY <3>1, <3>2 DEF Through
    <3>3. CASE i \notin 1 .. rfile - 1
      <4>1. rfile' = rfile /\ (rpc' \in {"data", "write"} => Through' = rfile - 1)
        BY <2>8 DEF Through
      <4>2. rpc' \in {"header", "ok"} /\ Through' = rfile
        BY <2>8, <3>3, <4>1 DEF Through
      <4>3. i = rfile
        BY <1>1, <3>3, <4>2
      <4> QED
        BY <2>2, <2>8, <4>2, <4>3
    <3> QED
      BY <3>2, <3>3
  <2>9. /\ TypeOK /\ EntriesOK /\ Follows /\ Within("receiver") /\ Logged /\ Listed
        /\ entries'["receiver"] = u
    BY <1>1, <1>9 DEF PInv, WithinSize, Within, Sides
  <2> HIDE DEF PInv
  <2> QED
    BY <1>2, <1>6, <2>2, <2>3, <2>4, <2>5, <2>8, <2>9, <2>7, ReceiverEntry
<1> QED
  BY <1>6, <1>7, <1>9, <1>10, <1>11

-----------------------------------------------------------------------------
(* The steps. *)

LEMMA HasSteps ==
  ASSUME IInv, [Next]_vars
  PROVE  Follows
<1>1. CASE Redial
  <2>1. UNCHANGED <<source, path, dest, lost>> /\ rpc' = "meta"
    BY <1>1 DEF Redial
  <2> QED
    BY <2>1 DEF Follows, Has, Sole
<1>2. CASE ~Redial
  <2>1. Kept /\ UNCHANGED attempt /\ lost \subseteq lost'
    BY <1>2, DestKept, AttemptSteps DEF IInv
  <2>2. UNCHANGED <<source, path>> /\ (Whole' => Whole)
    BY <2>1 DEF Kept
  <2>3. ASSUME NEW i \in Files, NEW n \in Nat, Has(i, n), lost' = {}, Sole(i)
        PROVE  /\ dest'[path[i]] # None /\ n <= Len(dest'[path[i]])
               /\ \A k \in 1 .. n : dest'[path[i]][k] = source[i][k]
    <3>1. lost = {} /\ Whole'
      BY <2>1, <2>3 DEF Whole
    <3>2. Agree(i, n)
      BY <2>3, <3>1 DEF Has, Agree
    <3>3. Agree(i, n)'
      BY <2>1, <3>2 DEF Kept
    <3> QED
      BY <2>2, <2>3, <3>1, <3>3 DEF Agree, Sole
  <2> QED
    BY <2>2, <2>3 DEF Follows, Has, Sole
<1> QED
  BY <1>1, <1>2

LEMMA ServiceKeeps ==
  ASSUME IInv, [ProgressNext]_progressVars
  PROVE  IInv' /\ Follows
BY ServiceSteps, StepKeeps, HasSteps

LEMMA SendHeaderBarKeeps ==
  ASSUME PInv, SendHeaderBar, UNCHANGED outcome, IInv', Follows
  PROVE  PInv'
<1> USE DEF PInv
<1>1. UNCHANGED <<rpc, rfile, rpos, source>> /\ spc = "header"
  BY DEF SendHeaderBar, SendHeader, receiverVars
<1>2. TypeOK /\ Within("sender") /\ Within("receiver")
  BY DEF IInv, WithinSize, Within, Sides
<1>3. PICK pos : pos = ResumeAt(sfile, answers[sfile])
  OBVIOUS
<1>4. sfile \in Files /\ pos \in Nat
  <2>1. sfile \in Files /\ answers \in Answers
    BY <1>1, TransferAssumption DEF SendHeaderBar, SendHeader, IInv, TypeOK, SenderPlace, Files
  <2>2. answers[sfile].pos \in Nat
    BY <2>1, TransferAssumption DEF Answers
  <2> QED
    BY <1>3, <2>1, <2>2 DEF ResumeAt
<1>5. Size(sfile) \in Nat
  BY <1>2, <1>4, DestIs
<1>6. CASE pos < Size(sfile)
  <2>1. Bar("sender", Started("sender", sfile, pos, FALSE), TRUE)
    BY <1>3, <1>6 DEF SendHeaderBar
  <2>2. spc' = "data" /\ spos' = pos /\ sfile' = sfile
    BY <1>3, <1>4, <1>5, <1>6 DEF SendHeaderBar, SendHeader
  <2>3. PICK e \in Seq(Entries), x \in Entries :
          e = entries["sender"] /\ x = [file |-> sfile, written |-> pos, finished |-> FALSE]
    BY <1>4 DEF EntriesOK, Entries, Sides
  <2>4. PICK u : u = Append(e, x)
    OBVIOUS
  <2>5. u \in Seq(Entries) /\ Len(e) \in Nat /\ Len(u) = Len(e) + 1 /\ u # <<>>
    BY <2>4
  <2>6. Last(u) = x /\ u[Len(e) + 1] = x
    BY <2>4 DEF Last
  <2>7. \A k \in 1 .. Len(e) : u[k] = e[k]
    BY <2>4
  <2>8. Bar("sender", u, TRUE)
    BY <2>1, <2>3, <2>4 DEF Started
  <2>9. /\ EntriesOK' /\ entries'["sender"] = u /\ "sender" \in current'
        /\ entries'["receiver"] = entries["receiver"]
        /\ "receiver" \in current' <=> "receiver" \in current
    BY <2>5, <2>8, BarOfOne DEF EntriesOK, Sides
  <2>10. SenderBar'
    BY <2>2, <2>3, <2>6, <2>9 DEF SenderBar
  <2>11. ReceiverBar' /\ Logged' /\ Listed'
    BY <1>1, <1>2, <2>9, ReceiverBarStill
  <2>12. Within("sender")'
    <3>1. ASSUME NEW k \in DOMAIN u
          PROVE  u[k].written <= Size(u[k].file)
      <4>1. CASE k = Len(e) + 1
        BY <1>4, <1>5, <1>6, <2>3, <2>6, <4>1
      <4>2. CASE k # Len(e) + 1
        <5>1. k \in 1 .. Len(e) /\ k \in DOMAIN e
          BY <2>5, <4>2
        <5> QED
          BY <1>2, <2>3, <2>7, <5>1 DEF Within
      <4> QED
        BY <4>1, <4>2
    <3> QED
      BY <1>1, <2>9, <3>1 DEF Within, Size
  <2>13. Within("receiver")'
    BY <1>1, <1>2, <2>9, WithinStill DEF Sides
  <2>14. WithinSize'
    BY <2>12, <2>13 DEF Within, WithinSize, Sides
  <2> QED
    BY <1>1, <2>9, <2>10, <2>11, <2>14 DEF Answered
<1>7. CASE ~(pos < Size(sfile))
  <2>1. UNCHANGED barVars
    BY <1>3, <1>7 DEF SendHeaderBar
  <2>2. spc' = "header"
    BY <1>1, <1>3, <1>4, <1>5, <1>7 DEF SendHeaderBar, SendHeader
  <2>3. EntriesOK' /\ SenderBar' /\ WithinSize' /\ Answered'
    BY <1>1, <2>1, <2>2 DEF EntriesOK, SenderBar, WithinSize, Answered, barVars, Size
  <2>4. ReceiverBar' /\ Logged' /\ Listed'
    BY <1>1, <1>2, <2>1, ReceiverBarStill DEF barVars
  <2> QED
    BY <2>3, <2>4
<1> QED
  BY <1>6, <1>7

LEMMA SendDataBarKeeps ==
  ASSUME PInv, SendDataBar, UNCHANGED outcome, IInv', Follows
  PROVE  PInv'
<1> USE DEF PInv
<1>1. UNCHANGED <<rpc, rfile, rpos, source>> /\ spc = "data" /\ spos' = spos + 1
  BY DEF SendDataBar, SendData, receiverVars
<1>2. TypeOK /\ Within("sender") /\ Within("receiver")
  BY DEF IInv, WithinSize, Within, Sides
<1>3. sfile \in Files /\ spos \in Nat /\ spos < Size(sfile) /\ Size(sfile) \in Nat
  <2>1. sfile \in Files /\ spos < Size(sfile)
    BY <1>1 DEF IInv, SenderPlace
  <2>2. spos \in Nat
    BY TransferAssumption DEF IInv, TypeOK
  <2> QED
    BY <1>2, <2>1, <2>2, DestIs
<1>4. PICK last \in BOOLEAN : last <=> spos + 1 = Size(sfile)
  OBVIOUS
<1>5. Bar("sender", Updated("sender", 1, last), ~last)
  BY <1>4 DEF SendDataBar
<1>6. /\ last => spc' = "header"
      /\ ~last => spc' = "data" /\ sfile' = sfile
  BY <1>1, <1>4 DEF SendDataBar, SendData
<1> DEFINE e == entries["sender"]
           u == [e EXCEPT ![Len(e)] = [file |-> Last(e).file, written |-> Last(e).written + 1,
                                       finished |-> last]]
<1>7. /\ e \in Seq(Entries) /\ e # <<>>
      /\ Last(e) = [file |-> sfile, written |-> spos, finished |-> FALSE]
  BY <1>1 DEF EntriesOK, SenderBar, Sides
<1>8. /\ u \in Seq(Entries) /\ u # <<>> /\ Len(u) = Len(e) /\ Len(e) \in Nat /\ Len(e) > 0
      /\ Last(e) = e[Len(e)] /\ Last(u) = u[Len(e)]
      /\ u[Len(e)] = [file |-> e[Len(e)].file, written |-> e[Len(e)].written + 1,
                      finished |-> last]
      /\ \A k \in 1 .. Len(e) : k # Len(e) => u[k] = e[k]
  BY <1>7, LastUpdated
<1>9. Bar("sender", u, ~last)
  BY <1>5 DEF Updated
<1> HIDE DEF u
<1>10. Last(u) = [file |-> sfile, written |-> spos + 1, finished |-> last]
  BY <1>7, <1>8
<1>11. /\ EntriesOK' /\ entries'["sender"] = u /\ ("sender" \in current' <=> ~last)
       /\ entries'["receiver"] = entries["receiver"]
       /\ "receiver" \in current' <=> "receiver" \in current
  BY <1>8, <1>9, BarOfOne DEF EntriesOK, Sides
<1>12. SenderBar'
  BY <1>1, <1>6, <1>10, <1>11 DEF SenderBar
<1>13. ReceiverBar' /\ Logged' /\ Listed'
  BY <1>1, <1>2, <1>11, ReceiverBarStill
<1>14. Within("sender")'
  <2>1. ASSUME NEW k \in DOMAIN u
        PROVE  u[k].written <= Size(u[k].file)
    <3>1. CASE k = Len(e)
      BY <1>3, <1>8, <1>10, <3>1
    <3>2. CASE k # Len(e)
      BY <1>2, <1>7, <1>8, <3>2 DEF Within
    <3> QED
      BY <3>1, <3>2
  <2> QED
    BY <1>1, <1>11, <2>1 DEF Within, Size
<1>15. Within("receiver")'
  BY <1>1, <1>2, <1>11, WithinStill DEF Sides
<1>16. WithinSize'
  BY <1>14, <1>15 DEF Within, WithinSize, Sides
<1> QED
  BY <1>1, <1>11, <1>12, <1>13, <1>16 DEF Answered

LEMMA RecvHeaderBarKeeps ==
  ASSUME PInv, RecvHeaderBar, UNCHANGED outcome, IInv', Follows
  PROVE  PInv'
<1> USE DEF PInv
<1>1. UNCHANGED <<spc, sfile, spos, source>> /\ rpc = "header"
  BY DEF RecvHeaderBar, RecvHeader, senderVars
<1>2. TypeOK /\ Within("sender") /\ Within("receiver")
  BY DEF IInv, WithinSize, Within, Sides
<1>3. PICK f, pos : f = Head(wire).file /\ pos = Head(wire).pos
  OBVIOUS
<1>4. /\ f \in Files /\ pos \in Nat /\ pos <= Size(f) /\ Size(f) \in Nat /\ rfile \in Nat
      /\ Whole => f = rfile + 1
  <2>1. f \in Files /\ pos \in 0 .. MaxLen /\ pos <= Size(f) /\ (Whole => f = rfile + 1)
    BY <1>1, <1>3, HeadOfHeader DEF RecvHeaderBar, RecvHeader, Reads, IInv, Begun
  <2>2. rfile \in Nat
    BY <1>2 DEF TypeOK
  <2> QED
    BY <1>2, <2>1, <2>2, DestIs, TransferAssumption
<1>5. PICK complete \in BOOLEAN : complete <=> pos >= Size(f)
  OBVIOUS
<1>6. /\ rfile' = f /\ rpos' = pos /\ UNCHANGED <<path, attempt, lost>>
      /\ ~complete => rpc' = "data"
      /\ complete => rpc' = "header" /\ pos = Size(f)
  BY <1>3, <1>4, <1>5 DEF RecvHeaderBar, RecvHeader
<1>7. Bar("receiver", Started("receiver", f, pos, complete), ~complete)
  BY <1>3, <1>5 DEF RecvHeaderBar
<1>8. PICK e \in Seq(Entries), x \in Entries :
        e = entries["receiver"] /\ x = [file |-> f, written |-> pos, finished |-> complete]
  BY <1>4 DEF EntriesOK, Entries, Sides
<1>9. PICK u : u = Append(e, x)
  OBVIOUS
<1>10. u \in Seq(Entries) /\ Len(e) \in Nat /\ Len(u) = Len(e) + 1 /\ u # <<>>
  BY <1>9
<1>11. Last(u) = x /\ u[Len(e) + 1] = x
  BY <1>9 DEF Last
<1>12. \A k \in 1 .. Len(e) : u[k] = e[k]
  BY <1>9
<1>13. Bar("receiver", u, ~complete)
  BY <1>7, <1>8, <1>9 DEF Started
<1>14. /\ EntriesOK' /\ entries'["receiver"] = u /\ ("receiver" \in current' <=> ~complete)
       /\ entries'["sender"] = entries["sender"]
       /\ "sender" \in current' <=> "sender" \in current
  BY <1>10, <1>13, BarOfOne DEF EntriesOK, Sides
<1>15. SenderBar'
  BY <1>1, <1>14, SenderBarStill
<1>16. ReceiverBar'
  BY <1>6, <1>8, <1>11, <1>14 DEF ReceiverBar
<1>17. Logged' /\ Within("receiver")' /\ Listed'
  <2>1. PICK n : n = Len(e) + 1
    OBVIOUS
  <2>2. n \in DOMAIN u /\ u[n] = x
    BY <1>10, <1>11, <2>1
  <2>3. \A k \in DOMAIN e : k \in DOMAIN u /\ u[k] = e[k]
    BY <1>10, <1>12
  <2>4. \A k \in DOMAIN u : k = n \/ (k \in DOMAIN e /\ u[k] = e[k])
    BY <1>10, <1>12, <2>1
  <2>5. u[n].written <= Size(u[n].file)
    BY <1>4, <1>8, <2>2
  <2>6. u[n].file = f /\ u[n].written <= pos + 1 /\ Has(f, pos)'
    <3>1. ASSUME lost' = {}
          PROVE  Agree(f, pos)'
      <4>1. Whole'
        BY <3>1 DEF Whole
      <4>2. CASE ~complete
        BY <1>6, <4>2 DEF IInv, ReceiverPlace, Agree
      <4>3. CASE complete
        <5>1. f \in 1 .. rfile' /\ rpc' = "header"
          BY <1>4, <1>6, <4>3 DEF Files
        <5>2. Agree(f, Size(f))'
          BY <4>1, <5>1 DEF IInv, Finished
        <5> QED
          BY <1>1, <1>6, <4>3, <5>2 DEF Agree, Size
      <4> QED
        BY <4>2, <4>3
    <3>2. Has(f, pos)'
      BY <3>1 DEF Agree, Has, Whole
    <3> QED
      BY <1>4, <1>8, <2>2, <3>2
  <2>7. ASSUME Whole', rpc' \in {"header", "data", "write", "ok"}, NEW i \in 1 .. Through'
        PROVE  \/ Whole /\ rpc \in {"header", "data", "write", "ok"} /\ i \in 1 .. Through
               \/ u[n] = [file |-> i, written |-> Size(i), finished |-> TRUE]
    <3>1. Whole /\ f = rfile + 1
      BY <1>4, <1>6, <2>7 DEF Whole
    <3>2. CASE i \in 1 .. rfile
      BY <1>1, <3>2, <3>1 DEF Through
    <3>3. CASE i \notin 1 .. rfile
      <4>1. i = f /\ complete
        BY <1>4, <1>6, <3>3, <3>1 DEF Through
      <4> QED
        BY <1>6, <1>8, <2>2, <4>1
    <3> QED
      BY <3>2, <3>3
  <2> QED
    <3>1. /\ TypeOK /\ EntriesOK /\ Follows /\ Within("receiver") /\ Logged /\ Listed
          /\ u \in Seq(Entries) /\ entries'["receiver"] = u /\ n \in DOMAIN u
      BY <1>2, <1>10, <1>14, <2>2
    <3>2. \A k \in DOMAIN entries["receiver"] : k \in DOMAIN u /\ u[k] = entries["receiver"][k]
      BY <1>8, <2>3
    <3>3. \A k \in DOMAIN u :
            k = n \/ (k \in DOMAIN entries["receiver"] /\ u[k] = entries["receiver"][k])
      BY <1>8, <2>4
    <3> HIDE DEF PInv
    <3> QED
      BY <1>4, <2>5, <2>6, <2>7, <3>1, <3>2, <3>3, ReceiverEntry
<1>18. WithinSize'
  BY <1>1, <1>2, <1>14, <1>17, WithinStill DEF Within, WithinSize, Sides
<1>19. Answered'
  BY <1>1 DEF Answered
<1> QED
  BY <1>14, <1>15, <1>16, <1>17, <1>18, <1>19

(* Steps of the receiver's copy: what they do to the open entry is enough. *)
LEMMA CopyKeeps ==
  ASSUME PInv, IInv', Follows, UNCHANGED <<spc, sfile, spos, source, outcome>>,
         rpc \in {"data", "write"},
         EntriesOK', ReceiverBar', Logged', Within("receiver")', Listed',
         entries'["sender"] = entries["sender"], "sender" \in current' <=> "sender" \in current
  PROVE  PInv'
<1>1. Within("sender")
  BY DEF PInv, WithinSize, Within, Sides
<1>2. SenderBar'
  BY SenderBarStill DEF PInv
<1>3. Within("sender")'
  BY <1>1, WithinStill DEF Sides
<1>4. WithinSize'
  BY <1>3 DEF Within, WithinSize, Sides
<1>5. Answered'
  BY DEF PInv, Answered
<1> QED
  BY <1>2, <1>4, <1>5 DEF PInv

LEMMA RecvDataBarKeeps ==
  ASSUME PInv, RecvDataBar, UNCHANGED outcome, IInv', Follows
  PROVE  PInv'
<1>1. /\ UNCHANGED <<spc, sfile, spos, source, rfile, rpos>> /\ rpc = "data" /\ rpc' = "write"
      /\ Bar("receiver", Updated("receiver", 1, FALSE), TRUE)
  BY DEF RecvDataBar, RecvData, senderVars
<1>2. rpos \in Nat /\ outcome' \in [Sides -> {"none", "result", "error", "panic"}]
  BY <1>1, Receiving DEF PInv, EntriesOK
<1>3. PICK one \in Nat, total \in Nat : one = 1 /\ total = rpos + 1
  BY <1>2
<1>4. PICK no \in BOOLEAN : no = FALSE
  OBVIOUS
<1>5. Bar("receiver", Updated("receiver", one, no), ~no)
  <2>1. (~no) = TRUE
    BY <1>4
  <2> QED
    BY <1>1, <1>3, <1>4, <2>1
<1>6. /\ total = (IF rpc = "write" THEN rpos + 1 ELSE rpos) + one /\ total <= rpos + 1
      /\ rpc' \in {"data", "write"} <=> ~no
      /\ ~no => rfile' = rfile /\ total = IF rpc' = "write" THEN rpos' + 1 ELSE rpos'
      /\ Whole' /\ rpc' \in {"header", "ok"} => no /\ rfile' = rfile /\ total = Size(rfile)
  BY <1>1, <1>2, <1>3, <1>4
<1>7. /\ EntriesOK' /\ ReceiverBar' /\ Logged' /\ Within("receiver")' /\ Listed'
      /\ entries'["sender"] = entries["sender"]
      /\ "sender" \in current' <=> "sender" \in current
  BY <1>1, <1>2, <1>6, <1>5, ReceiverLast
<1> QED
  BY <1>1, <1>7, CopyKeeps

LEMMA WriteDataBarKeeps ==
  ASSUME PInv, WriteDataBar, UNCHANGED outcome, IInv', Follows
  PROVE  PInv'
<1>1. /\ UNCHANGED <<spc, sfile, spos, source, rfile>> /\ rpc = "write" /\ rpos' = rpos + 1
      /\ rpc' = IF rpos + 1 = Size(rfile) THEN "header" ELSE "data"
  BY DEF WriteDataBar, WriteData, senderVars
<1>2. /\ rpos \in Nat /\ outcome' \in [Sides -> {"none", "result", "error", "panic"}]
      /\ "receiver" \in current
  BY <1>1, Receiving DEF PInv, EntriesOK
<1>3. CASE rpos + 1 = Size(rfile)
  <2>1. PICK total \in Nat : total = rpos + 1
    BY <1>2
  <2>2. PICK zero \in Nat, yes \in BOOLEAN : zero = 0 /\ yes = TRUE
    OBVIOUS
  <2>3. Bar("receiver", Updated("receiver", zero, yes), ~yes)
    BY <1>2, <1>3, <2>2 DEF WriteDataBar, Closed
  <2>4. /\ total = (IF rpc = "write" THEN rpos + 1 ELSE rpos) + zero /\ total <= rpos + 1
        /\ rpc' \in {"data", "write"} <=> ~yes
        /\ ~yes => rfile' = rfile /\ total = IF rpc' = "write" THEN rpos' + 1 ELSE rpos'
        /\ Whole' /\ rpc' \in {"header", "ok"} => yes /\ rfile' = rfile /\ total = Size(rfile)
    BY <1>1, <1>2, <1>3, <2>2, <2>1
  <2>5. /\ EntriesOK' /\ ReceiverBar' /\ Logged' /\ Within("receiver")' /\ Listed'
        /\ entries'["sender"] = entries["sender"]
        /\ "sender" \in current' <=> "sender" \in current
    BY <1>1, <1>2, <2>3, <2>4, ReceiverLast
  <2> QED
    BY <1>1, <2>5, CopyKeeps
<1>4. CASE rpos + 1 # Size(rfile)
  <2>1. UNCHANGED <<entries, current, lagging>> /\ rpc' = "data"
    BY <1>1, <1>4 DEF WriteDataBar, barVars
  <2>2. EntriesOK'
    BY <1>2, <2>1 DEF PInv, EntriesOK
  <2>3. ReceiverBar'
    BY <1>1, <2>1 DEF PInv, ReceiverBar
  <2>4. Logged' /\ Within("receiver")'
    <3>1. TypeOK /\ EntriesOK /\ Within("receiver")
      BY DEF PInv, IInv, WithinSize, Within, Sides
    <3>2. Within("receiver")'
      BY <1>1, <2>1, <3>1, WithinStill DEF Sides
    <3>3. ASSUME NEW k \in DOMAIN entries["receiver"], NEW e, e = entries["receiver"][k]
          PROVE  OnDisk(e)'
      <4>1. PICK n \in Nat : e.written <= n + 1 /\ Has(e.file, n)
        BY <3>3 DEF PInv, Logged, OnDisk
      <4>2. PICK f \in Files : f = e.file
        BY <3>1, <3>3, EntryIs DEF Sides
      <4>3. Has(f, n)'
        BY <4>1, <4>2 DEF Follows
      <4> QED
        BY <4>1, <4>2, <4>3 DEF OnDisk, Has
    <3> QED
      BY <2>1, <3>2, <3>3 DEF Logged
  <2>5. Listed'
    <3>1. Through' = Through /\ (Whole' => Whole)
      BY <1>1, <2>1 DEF Through, Follows
    <3>2. \A i : Size(i)' = Size(i)
      BY <1>1 DEF Size
    <3> QED
      BY <1>1, <2>1, <3>1, <3>2 DEF PInv, Listed
  <2> QED
    BY <1>1, <2>1, <2>2, <2>3, <2>4, <2>5, CopyKeeps
<1> QED
  BY <1>3, <1>4

LEMMA ReadLosesBarKeeps ==
  ASSUME PInv, ReadLosesBar, UNCHANGED outcome, IInv', Follows
  PROVE  PInv'
<1>1. /\ UNCHANGED <<spc, sfile, spos, source, rpc, rfile, rpos>> /\ rpc = "data"
      /\ Bar("receiver", Updated("receiver", 0, FALSE), TRUE)
  BY DEF ReadLosesBar, ReadLoses, senderVars, receiverVars
<1>2. rpos \in Nat /\ outcome' \in [Sides -> {"none", "result", "error", "panic"}]
  BY <1>1, Receiving DEF PInv, EntriesOK
<1>3. PICK zero \in Nat, total \in Nat : zero = 0 /\ total = rpos
  BY <1>2
<1>4. PICK no \in BOOLEAN : no = FALSE
  OBVIOUS
<1>5. Bar("receiver", Updated("receiver", zero, no), ~no)
  <2>1. (~no) = TRUE
    BY <1>4
  <2> QED
    BY <1>1, <1>3, <1>4, <2>1
<1>6. /\ total = (IF rpc = "write" THEN rpos + 1 ELSE rpos) + zero /\ total <= rpos + 1
      /\ rpc' \in {"data", "write"} <=> ~no
      /\ ~no => rfile' = rfile /\ total = IF rpc' = "write" THEN rpos' + 1 ELSE rpos'
      /\ Whole' /\ rpc' \in {"header", "ok"} => no /\ rfile' = rfile /\ total = Size(rfile)
  BY <1>1, <1>2, <1>3, <1>4
<1>7. /\ EntriesOK' /\ ReceiverBar' /\ Logged' /\ Within("receiver")' /\ Listed'
      /\ entries'["sender"] = entries["sender"]
      /\ "sender" \in current' <=> "sender" \in current
  BY <1>1, <1>2, <1>6, <1>5, ReceiverLast
<1> QED
  BY <1>1, <1>7, CopyKeeps

(* The deferred Finish of a copy that failed, at the sender. *)
LEMMA SenderCopyEnds ==
  ASSUME PInv, "sender" \in current, Closed("sender"), spc' # "data", source' = source,
         outcome' \in [Sides -> {"none", "result", "error", "panic"}]
  PROVE  /\ EntriesOK' /\ SenderBar' /\ Within("sender")'
         /\ entries'["receiver"] = entries["receiver"]
         /\ "receiver" \in current' <=> "receiver" \in current
<1> USE DEF PInv
<1>1. TypeOK /\ Within("sender") /\ spc = "data"
  BY DEF IInv, WithinSize, Within, Sides, SenderBar
<1>2. sfile \in Files /\ spos \in Nat /\ spos < Size(sfile) /\ Size(sfile) \in Nat
  <2>1. sfile \in Files /\ spos < Size(sfile)
    BY <1>1 DEF IInv, SenderPlace
  <2>2. spos \in Nat
    BY <1>1, TransferAssumption DEF TypeOK
  <2> QED
    BY <1>1, <2>1, <2>2, DestIs
<1>3. PICK zero \in Nat, yes \in BOOLEAN : zero = 0 /\ yes = TRUE
  OBVIOUS
<1> DEFINE e == entries["sender"]
           u == [e EXCEPT ![Len(e)] = [file |-> Last(e).file, written |-> Last(e).written + zero,
                                       finished |-> yes]]
<1>4. /\ e \in Seq(Entries) /\ e # <<>>
      /\ Last(e) = [file |-> sfile, written |-> spos, finished |-> FALSE]
  BY <1>1 DEF EntriesOK, SenderBar, Sides
<1>5. /\ u \in Seq(Entries) /\ u # <<>> /\ Len(u) = Len(e) /\ Len(e) \in Nat /\ Len(e) > 0
      /\ Last(e) = e[Len(e)] /\ Last(u) = u[Len(e)]
      /\ u[Len(e)] = [file |-> e[Len(e)].file, written |-> e[Len(e)].written + zero,
                      finished |-> yes]
      /\ \A k \in 1 .. Len(e) : k # Len(e) => u[k] = e[k]
  BY <1>4, LastUpdated
<1>6. Bar("sender", u, FALSE)
  BY <1>3 DEF Closed, Updated
<1> HIDE DEF u
<1>7. Last(u) = [file |-> sfile, written |-> spos + zero, finished |-> yes]
  BY <1>4, <1>5
<1>8. Last(u) = [file |-> sfile, written |-> spos, finished |-> yes]
  <2>1. spos + zero = spos
    BY <1>2, <1>3
  <2> QED
    BY <1>7, <2>1
<1>9. /\ EntriesOK' /\ entries'["sender"] = u /\ "sender" \notin current'
      /\ entries'["receiver"] = entries["receiver"]
      /\ "receiver" \in current' <=> "receiver" \in current
  BY <1>5, <1>6, BarOfOne DEF EntriesOK, Sides
<1>10. SenderBar'
  BY <1>9 DEF SenderBar
<1>11. Within("sender")'
  <2>1. ASSUME NEW k \in DOMAIN u
        PROVE  u[k].written <= Size(u[k].file)
    <3>1. CASE k = Len(e)
      BY <1>2, <1>5, <1>8, <3>1
    <3>2. CASE k # Len(e)
      BY <1>1, <1>4, <1>5, <3>2 DEF Within
    <3> QED
      BY <3>1, <3>2
  <2> QED
    BY <1>9, <2>1 DEF Within, Size
<1> QED
  BY <1>9, <1>10, <1>11

(* And at the receiver: the entry is finished, wherever the copy stopped. *)
LEMMA ReceiverCopyEnds ==
  ASSUME PInv, Follows, "receiver" \in current, Closed("receiver"), rpc' = "failed",
         outcome' \in [Sides -> {"none", "result", "error", "panic"}]
  PROVE  /\ EntriesOK' /\ ReceiverBar' /\ Logged' /\ Within("receiver")' /\ Listed'
         /\ entries'["sender"] = entries["sender"]
         /\ "sender" \in current' <=> "sender" \in current
         /\ entries'["receiver"] # <<>>
         /\ Last(entries'["receiver"]) =
              [file |-> rfile, written |-> IF rpc = "write" THEN rpos + 1 ELSE rpos,
               finished |-> TRUE]
<1>1. rpc \in {"data", "write"}
  BY DEF PInv, ReceiverBar
<1>2. rpos \in Nat
  BY <1>1, Receiving
<1>3. PICK total \in Nat : total = IF rpc = "write" THEN rpos + 1 ELSE rpos
  BY <1>2
<1>4. PICK zero \in Nat, yes \in BOOLEAN : zero = 0 /\ yes = TRUE
  OBVIOUS
<1>5. Bar("receiver", Updated("receiver", zero, yes), ~yes)
  BY <1>4 DEF Closed
<1>6. /\ total = (IF rpc = "write" THEN rpos + 1 ELSE rpos) + zero /\ total <= rpos + 1
      /\ rpc' \in {"data", "write"} <=> ~yes
      /\ ~yes => rfile' = rfile /\ total = IF rpc' = "write" THEN rpos' + 1 ELSE rpos'
      /\ Whole' /\ rpc' \in {"header", "ok"} => yes /\ rfile' = rfile /\ total = Size(rfile)
  BY <1>2, <1>4, <1>3
<1> QED
  BY <1>1, <1>4, <1>5, <1>6, <1>3, ReceiverLast

LEMMA SenderFailsBarKeeps ==
  ASSUME PInv, SenderFailsBar, IInv', Follows
  PROVE  PInv'
<1> USE DEF PInv
<1>1. UNCHANGED <<rpc, rfile, rpos, source, outcome>> /\ spc' = "failed"
  BY DEF SenderFailsBar, SenderFails, receiverVars
<1>2. TypeOK /\ Within("sender") /\ Within("receiver") /\ EntriesOK
  BY DEF IInv, WithinSize, Within, Sides
<1>3. CASE "sender" \in current
  <2>1. /\ EntriesOK' /\ SenderBar' /\ Within("sender")'
        /\ entries'["receiver"] = entries["receiver"]
        /\ "receiver" \in current' <=> "receiver" \in current
    BY <1>1, <1>3, SenderCopyEnds DEF SenderFailsBar, EntriesOK
  <2>2. ReceiverBar' /\ Logged' /\ Listed'
    BY <1>1, <1>2, <2>1, ReceiverBarStill
  <2>3. Within("receiver")'
    BY <1>1, <1>2, <2>1, WithinStill DEF Sides
  <2>4. WithinSize' /\ Answered'
    BY <1>1, <2>1, <2>3 DEF Within, WithinSize, Sides, Answered
  <2> QED
    BY <2>1, <2>2, <2>4
<1>4. CASE "sender" \notin current
  <2>1. UNCHANGED barVars
    BY <1>4 DEF SenderFailsBar, Closed
  <2>2. ReceiverBar' /\ Logged' /\ Listed'
    BY <1>1, <1>2, <2>1, ReceiverBarStill DEF barVars
  <2>3. EntriesOK' /\ SenderBar' /\ WithinSize' /\ Answered'
    BY <1>1, <1>4, <2>1 DEF EntriesOK, SenderBar, WithinSize, Answered, barVars, Size
  <2> QED
    BY <2>2, <2>3
<1> QED
  BY <1>3, <1>4

(* Both ways in which the receiver's copy ends early. *)
LEMMA ReceiverEndsKeeps ==
  ASSUME PInv, IInv', Follows, Closed("receiver"), UNCHANGED <<spc, sfile, spos, source, rfile>>,
         rpc' = "failed" \/ (rpc = "header" /\ rpc' = "ok"),
         outcome' \in [Sides -> {"none", "result", "error", "panic"}],
         outcome'["receiver"] # "result"
  PROVE  PInv'
<1> USE DEF PInv
<1>1. TypeOK /\ Within("sender") /\ Within("receiver")
  BY DEF IInv, WithinSize, Within, Sides
<1>2. Answered'
  BY DEF Answered
<1>3. CASE "receiver" \in current
  <2>1. rpc' = "failed"
    BY <1>3 DEF ReceiverBar
  <2>2. /\ EntriesOK' /\ ReceiverBar' /\ Logged' /\ Within("receiver")' /\ Listed'
        /\ entries'["sender"] = entries["sender"]
        /\ "sender" \in current' <=> "sender" \in current
    BY <1>3, <2>1, ReceiverCopyEnds
  <2>3. SenderBar'
    BY <2>2, SenderBarStill
  <2>4. Within("sender")'
    BY <1>1, <2>2, WithinStill DEF Sides
  <2>5. WithinSize'
    BY <2>2, <2>4 DEF Within, WithinSize, Sides
  <2> QED
    BY <1>2, <2>2, <2>3, <2>5
<1>4. CASE "receiver" \notin current
  <2>1. UNCHANGED barVars /\ rpc \notin {"data", "write"}
    BY <1>4 DEF Closed, ReceiverBar
  <2>2. ReceiverBar' /\ Logged' /\ Listed'
    BY <1>1, <2>1, ReceiverBarStill DEF barVars
  <2>3. EntriesOK' /\ SenderBar' /\ WithinSize'
    BY <2>1 DEF EntriesOK, SenderBar, WithinSize, barVars, Size
  <2> QED
    BY <1>2, <2>2, <2>3
<1> QED
  BY <1>3, <1>4

LEMMA RecvEndBarKeeps ==
  ASSUME PInv, RecvEndBar, IInv', Follows
  PROVE  PInv'
<1>1. UNCHANGED <<spc, sfile, spos, source, rfile>> /\ rpc \in {"meta", "header", "data"}
  BY DEF RecvEndBar, RecvEnd, senderVars
<1>2. rpc' = "failed" \/ (rpc = "header" /\ rpc' = "ok")
  BY DEF RecvEndBar, RecvEnd
<1>3. outcome["receiver"] # "result" /\ outcome \in [Sides -> {"none", "result", "error", "panic"}]
  BY <1>1 DEF PInv, Answered, EntriesOK
<1>4. /\ outcome' \in [Sides -> {"none", "result", "error", "panic"}]
      /\ outcome'["receiver"] # "result"
  BY <1>3 DEF RecvEndBar, Sides
<1> QED
  BY <1>1, <1>2, <1>4, ReceiverEndsKeeps DEF RecvEndBar

LEMMA ReceiverFailsBarKeeps ==
  ASSUME PInv, ReceiverFailsBar, IInv', Follows
  PROVE  PInv'
<1>1. /\ UNCHANGED <<spc, sfile, spos, source, rfile, outcome>> /\ rpc # "ok"
      /\ rpc' = "failed"
  BY DEF ReceiverFailsBar, ReceiverFails, senderVars
<1>2. outcome["receiver"] # "result" /\ outcome \in [Sides -> {"none", "result", "error", "panic"}]
  BY <1>1 DEF PInv, Answered, EntriesOK
<1> QED
  BY <1>1, <1>2, ReceiverEndsKeeps DEF ReceiverFailsBar

(* The steps that leave the bars alone. *)
LEMMA BarsStill ==
  ASSUME PInv, IInv', Follows, UNCHANGED barVars,
         outcome' \in [Sides -> {"none", "result", "error", "panic"}], Answered',
         spc' = "data" <=> spc = "data", spc = "data" => UNCHANGED <<sfile, spos>>,
         rpc' \in {"data", "write"} <=> rpc \in {"data", "write"},
         rpc \in {"data", "write"} => UNCHANGED <<rpc, rfile, rpos>>,
         Whole' /\ rpc' \in {"header", "ok"} =>
           rfile' = 0 \/ (rpc \in {"header", "ok"} /\ rfile' = rfile)
  PROVE  PInv'
<1>1. UNCHANGED <<entries, current, lagging, source>> /\ TypeOK
  BY DEF barVars, PInv, IInv, Follows
<1>2. EntriesOK' /\ WithinSize'
  BY <1>1 DEF PInv, EntriesOK, WithinSize, Size
<1>3. SenderBar'
  BY <1>1, SenderBarStill DEF PInv
<1>4. ReceiverBar' /\ Logged' /\ Listed'
  BY <1>1, ReceiverBarStill DEF PInv
<1> QED
  BY <1>2, <1>3, <1>4 DEF PInv

LEMMA QuietKeeps ==
  ASSUME PInv, Quiet, IInv', Follows
  PROVE  PInv'
<1>1. UNCHANGED <<barVars, outcome>> /\ Silent
  BY DEF Quiet
<1>2. outcome' \in [Sides -> {"none", "result", "error", "panic"}]
  BY <1>1 DEF PInv, EntriesOK
<1>3. CASE RecvMeta
  <2>1. /\ rpc = "meta" /\ rpc' = "header" /\ UNCHANGED <<spc, sfile, spos, rfile>>
        /\ wire # <<>> /\ Head(wire).type = "meta"
    BY <1>3 DEF RecvMeta, Reads, senderVars
  <2>2. Whole' => rfile' = 0
    BY <1>3, <2>1, HeadOfMeta DEF PInv, IInv, RecvMeta, Whole
  <2>3. Answered'
    BY <1>1, <2>1 DEF PInv, Answered
  <2> QED
    BY <1>1, <1>2, <2>1, <2>2, <2>3, BarsStill
<1>4. CASE SendMeta \/ RecvRsp \/ SendDone \/ SenderCloses \/ Break
  <2>1. /\ UNCHANGED <<rpc, rfile, rpos>>
        /\ spc' = "data" <=> spc = "data"
        /\ spc = "data" => UNCHANGED <<sfile, spos>>
    BY <1>4 DEF SendMeta, RecvRsp, SendDone, SenderCloses, Break, senderVars, receiverVars
  <2>2. Answered'
    BY <1>1, <2>1 DEF PInv, Answered
  <2> QED
    BY <1>1, <1>2, <2>1, <2>2, BarsStill
<1> QED
  BY <1>1, <1>3, <1>4 DEF Silent

LEMMA ReturnKeeps ==
  ASSUME PInv, Return, IInv', Follows
  PROVE  PInv'
<1>1. PICK s \in Sides : Returns(s, IF s = "sender" THEN spc ELSE rpc)
  BY DEF Return, Sides
<1>2. UNCHANGED <<spc, sfile, spos, rpc, rfile, rpos, barVars>>
  BY <1>1 DEF Returns, vars, senderVars, receiverVars
<1>3. PICK at : at = IF s = "sender" THEN spc ELSE rpc
  OBVIOUS
<1>4. outcome' = [outcome EXCEPT ![s] = IF at = "ok" THEN "result" ELSE "error"]
  BY <1>1, <1>3 DEF Returns
<1>5. outcome \in [Sides -> {"none", "result", "error", "panic"}]
  BY DEF PInv, EntriesOK
<1>6. outcome' \in [Sides -> {"none", "result", "error", "panic"}]
  BY <1>4, <1>5
<1>7. Answered'
  BY <1>2, <1>3, <1>4, <1>5 DEF PInv, Answered, Sides
<1> QED
  BY <1>2, <1>6, <1>7, BarsStill

LEMMA RedialServiceKeeps ==
  ASSUME PInv, RedialService, IInv', Follows
  PROVE  PInv'
<1>1. /\ spc = "failed" /\ spc' = "meta" /\ rpc = "failed" /\ rpc' = "meta"
      /\ UNCHANGED <<barVars, outcome>> /\ outcome["receiver"] = "none"
  BY DEF RedialService, Redial, Ended, Sides
<1>2. Answered' /\ outcome' \in [Sides -> {"none", "result", "error", "panic"}]
  BY <1>1 DEF PInv, EntriesOK, Answered
<1> QED
  BY <1>1, <1>2, BarsStill

-----------------------------------------------------------------------------
(* The panic.  Nothing changes any more of what it found: a call that has ended
   dials no more. *)

Panicked ==
  /\ outcome["sender"] # "panic"
  /\ outcome["receiver"] = "panic" =>
       /\ rpc = "failed" /\ faults
       /\ LET e == entries["receiver"] IN
          e # <<>> /\ Last(e).finished /\ Last(e).written < Size(Last(e).file)

(* A step of the other side, after the panic. *)
LEMMA PanickedStill ==
  ASSUME Panicked, UNCHANGED outcome,
         outcome["receiver"] = "panic" =>
           /\ UNCHANGED <<rpc, source>> /\ faults'
           /\ entries'["receiver"] = entries["receiver"]
  PROVE  Panicked'
BY DEF Panicked, Size

LEMMA SenderBarsApart ==
  ASSUME EntriesOK, SendHeaderBar \/ SendDataBar \/ SenderFailsBar
  PROVE  entries'["receiver"] = entries["receiver"]
BY DEF SendHeaderBar, SendDataBar, SenderFailsBar, Closed, Bar, barVars, EntriesOK, Sides

(* The bar is closed under the copy that the end of the channel cuts short. *)
LEMMA PanicFound ==
  ASSUME PInv, Follows, IInv', RecvEndBar, rpc = "data"
  PROVE  /\ rpc' = "failed" /\ faults' /\ UNCHANGED source
         /\ LET e == entries'["receiver"] IN
            e # <<>> /\ Last(e).finished /\ Last(e).written < Size(Last(e).file)
<1>1. RecvEnd /\ Closed("receiver") /\ rpc' = "failed" /\ UNCHANGED source
  BY DEF RecvEndBar, RecvEnd
<1>2. faults'
  BY <1>1 DEF IInv, Orderly
<1>3. "receiver" \in current /\ rpos \in Nat /\ rpos + 1 <= Size(rfile) /\ Size(rfile) \in Nat
  BY Receiving
<1>4. outcome' \in [Sides -> {"none", "result", "error", "panic"}]
  BY DEF RecvEndBar, PInv, EntriesOK, Sides
<1>5. /\ entries'["receiver"] # <<>>
      /\ Last(entries'["receiver"]) = [file |-> rfile, written |-> rpos, finished |-> TRUE]
  BY <1>1, <1>3, <1>4, ReceiverCopyEnds
<1>6. rpos < Size(rfile)
  BY <1>3
<1> QED
  BY <1>1, <1>2, <1>5, <1>6

LEMMA PanickedInit == ProgressInit => Panicked
BY DEF ProgressInit, Panicked, Sides

LEMMA PanickedStep ==
  ASSUME PInv, Panicked, [ProgressNext]_progressVars
  PROVE  Panicked'
<1>1. Follows /\ IInv' /\ IInv /\ EntriesOK
  BY ServiceKeeps DEF PInv
<1>2. outcome \in [Sides -> {"none", "result", "error", "panic"}]
  BY <1>1 DEF EntriesOK
<1>3. CASE Quiet
  <2>1. UNCHANGED <<outcome, entries, current, lagging>> /\ Silent
    BY <1>3 DEF Quiet, barVars
  <2>2. CASE SendMeta \/ RecvRsp \/ SendDone \/ SenderCloses
    <3>1. UNCHANGED <<rpc, source>> /\ (faults => faults')
      BY <2>2 DEF SendMeta, RecvRsp, SendDone, SenderCloses, receiverVars
    <3> QED
      BY <2>1, <3>1, PanickedStill DEF Panicked
  <2>3. CASE RecvMeta \/ Break
    <3>1. rpc = "meta" \/ (UNCHANGED <<rpc, source>> /\ faults')
      BY <2>3 DEF RecvMeta, Break, receiverVars
    <3> QED
      BY <2>1, <3>1, PanickedStill DEF Panicked
  <2> QED
    BY <2>1, <2>2, <2>3 DEF Silent
<1>4. CASE Bars
  <2>1. UNCHANGED outcome
    BY <1>4 DEF Bars
  <2>2. CASE SendHeaderBar \/ SendDataBar
    <3>1. entries'["receiver"] = entries["receiver"]
      BY <1>1, <2>2, SenderBarsApart
    <3>2. UNCHANGED <<rpc, source, faults>>
      BY <2>2 DEF SendHeaderBar, SendDataBar, SendHeader, SendData, receiverVars
    <3> QED
      BY <2>1, <3>1, <3>2, PanickedStill DEF Panicked
  <2>3. CASE RecvHeaderBar \/ RecvDataBar \/ WriteDataBar \/ ReadLosesBar
    <3>1. rpc \in {"header", "data", "write"}
      BY <2>3 DEF RecvHeaderBar, RecvDataBar, WriteDataBar, ReadLosesBar, RecvHeader, RecvData,
         WriteData, ReadLoses
    <3> QED
      BY <2>1, <3>1, PanickedStill DEF Panicked
  <2> QED
    BY <1>4, <2>2, <2>3 DEF Bars
<1>5. CASE RecvEndBar
  <2>1. rpc \in {"meta", "header", "data"}
    BY <1>5 DEF RecvEndBar, RecvEnd
  <2>2. outcome["receiver"] # "panic"
    BY <2>1 DEF Panicked
  <2>3. CASE rpc = "data" /\ Head(wire).type = "eof"
    <3>1. outcome'["sender"] = outcome["sender"]
      BY <1>2, <1>5 DEF RecvEndBar, Sides
    <3>2. /\ rpc' = "failed" /\ faults' /\ UNCHANGED source
          /\ LET e == entries'["receiver"] IN
             e # <<>> /\ Last(e).finished /\ Last(e).written < Size(Last(e).file)
      BY <1>1, <1>5, <2>3, PanicFound
    <3> QED
      BY <2>3, <3>1, <3>2 DEF Panicked, Size
  <2>4. CASE ~(rpc = "data" /\ Head(wire).type = "eof")
    <3>1. UNCHANGED outcome
      BY <1>5, <2>4 DEF RecvEndBar, FinishesItself
    <3> QED
      BY <2>2, <3>1 DEF Panicked
  <2> QED
    BY <2>3, <2>4
<1>6. CASE SenderFailsBar
  <2>1. entries'["receiver"] = entries["receiver"] /\ UNCHANGED outcome
    BY <1>1, <1>6, SenderBarsApart DEF SenderFailsBar
  <2>2. UNCHANGED <<rpc, source>> /\ faults'
    BY <1>6 DEF SenderFailsBar, SenderFails, receiverVars
  <2> QED
    BY <2>1, <2>2, PanickedStill DEF Panicked
<1>7. CASE ReceiverFailsBar
  <2>1. rpc # "failed" /\ UNCHANGED outcome
    BY <1>7 DEF ReceiverFailsBar, ReceiverFails
  <2> QED
    BY <2>1, PanickedStill DEF Panicked
<1>8. CASE Return
  <2>1. PICK s \in Sides : Returns(s, IF s = "sender" THEN spc ELSE rpc)
    BY <1>8 DEF Return, Sides
  <2>2. /\ UNCHANGED <<rpc, source, faults, entries>>
        /\ outcome[s] = "none"
        /\ \E o \in {"result", "error"} : outcome' = [outcome EXCEPT ![s] = o]
    BY <2>1 DEF Returns, Ended, vars, barVars, senderVars, receiverVars
  <2>3. /\ \A t \in Sides : outcome'[t] = "panic" => outcome[t] = "panic"
    BY <1>2, <2>2
  <2> QED
    BY <2>2, <2>3 DEF Panicked, Sides, Size
<1>9. CASE RedialService
  <2>1. outcome["receiver"] = "none" /\ UNCHANGED outcome
    BY <1>9 DEF RedialService, Ended, Sides
  <2> QED
    BY <2>1, PanickedStill
<1>10. CASE UNCHANGED progressVars
  <2>1. UNCHANGED <<rpc, source, faults, entries, outcome>>
    BY <1>10 DEF progressVars, vars, barVars, senderVars, receiverVars
  <2> QED
    BY <2>1, PanickedStill DEF Panicked
<1> QED
  BY <1>3, <1>4, <1>5, <1>6, <1>7, <1>8, <1>9, <1>10 DEF ProgressNext

-----------------------------------------------------------------------------
(* The theorems. *)

LEMMA ServiceInit == ProgressInit => PInv
<1> SUFFICES ASSUME ProgressInit PROVE PInv
  OBVIOUS
<1>1. IInv /\ spc = "meta" /\ rpc = "meta"
  BY InitHolds DEF ProgressInit, Init, Connected
<1>2. \A s \in Sides : entries[s] = <<>>
  BY DEF ProgressInit
<1>3. EntriesOK
  BY DEF ProgressInit, EntriesOK
<1>4. \A s \in Sides : DOMAIN entries[s] = {}
  BY <1>2
<1>5. WithinSize /\ Logged /\ Listed /\ Answered /\ SenderBar /\ ReceiverBar
  BY <1>1, <1>4 DEF ProgressInit, WithinSize, Logged, Listed, Answered, SenderBar, ReceiverBar, Sides
<1> QED
  BY <1>1, <1>3, <1>5 DEF PInv

LEMMA ServiceStep == PInv /\ [ProgressNext]_progressVars => PInv'
<1> SUFFICES ASSUME PInv, [ProgressNext]_progressVars PROVE PInv'
  OBVIOUS
<1>1. IInv' /\ Follows
  BY ServiceKeeps DEF PInv
<1>2. CASE Quiet
  BY <1>1, <1>2, QuietKeeps
<1>3. CASE Bars
  BY <1>1, <1>3, SendHeaderBarKeeps, SendDataBarKeeps, RecvHeaderBarKeeps, RecvDataBarKeeps,
     WriteDataBarKeeps, ReadLosesBarKeeps DEF Bars
<1>4. CASE RecvEndBar
  BY <1>1, <1>4, RecvEndBarKeeps
<1>5. CASE SenderFailsBar
  BY <1>1, <1>5, SenderFailsBarKeeps
<1>6. CASE ReceiverFailsBar
  BY <1>1, <1>6, ReceiverFailsBarKeeps
<1>7. CASE Return
  BY <1>1, <1>7, ReturnKeeps
<1>8. CASE RedialService
  BY <1>1, <1>8, RedialServiceKeeps
<1>9. CASE UNCHANGED progressVars
  <2>1. UNCHANGED <<spc, sfile, spos, rpc, rfile, rpos, barVars, outcome>>
    BY <1>9 DEF progressVars, vars, senderVars, receiverVars
  <2>2. Answered' /\ outcome' \in [Sides -> {"none", "result", "error", "panic"}]
    BY <2>1 DEF PInv, EntriesOK, Answered
  <2> QED
    BY <1>1, <2>1, <2>2, BarsStill
<1> QED
  BY <1>2, <1>3, <1>4, <1>5, <1>6, <1>7, <1>8, <1>9 DEF ProgressNext

(* The entries of http.go follow the transfer in every attempt. *)
THEOREM ServiceInvariance == ProgressSpec => []PInv
BY ServiceInit, ServiceStep, PTL DEF ProgressSpec

(* The bar's pointer is nil or the last entry of FilesResult, and every entry
   is one of a file that was sent. *)
THEOREM ProgressTyped == ProgressSpec => []ProgressTypeOK
<1>1. PInv => ProgressTypeOK
  BY DEF PInv, IInv, EntriesOK, ProgressTypeOK
<1> QED
  BY <1>1, ServiceInvariance, PTL

(* No Add of the wrappers in pb.go takes an entry past the size of its file,
   however often the file is resumed. *)
THEOREM WithinSizeHolds == ProgressSpec => []WithinSize
<1>1. PInv => WithinSize
  BY DEF PInv
<1> QED
  BY <1>1, ServiceInvariance, PTL

(* What recvFiles of http.go reports as written is on the receiver's disk but
   for the chunk under way, whichever attempt read it, as long as no Read has
   lost a message. *)
THEOREM WrittenOnDiskHolds == ProgressSpec => []WrittenOnDisk
<1>1. PInv => WrittenOnDisk
  <2> SUFFICES ASSUME PInv PROVE WrittenOnDisk
    OBVIOUS
  <2>1. "receiver" \in current =>
          /\ Last(entries["receiver"]).file = rfile
          /\ Last(entries["receiver"]).written = IF rpc = "write" THEN rpos + 1 ELSE rpos
    BY DEF PInv, ReceiverBar
  <2>2. ASSUME NEW k \in DOMAIN entries["receiver"], NEW i, NEW n, lost = {},
               i = entries["receiver"][k].file, n = entries["receiver"][k].written - 1,
               Sole(i), n >= 0
        PROVE  IsPrefix(SubSeq(source[i], 1, n), dest[path[i]])
    <3>1. TypeOK /\ i \in Files /\ entries["receiver"][k].written \in Nat
      BY <2>2, EntryIs DEF PInv, IInv, Sides
    <3>2. n \in Nat /\ n + 1 = entries["receiver"][k].written
      BY <2>2, <3>1
    <3>3. n + 1 <= Size(i)
      BY <2>2, <3>2 DEF PInv, WithinSize, Sides
    <3>4. PICK m \in Nat : n + 1 <= m + 1 /\ Has(i, m)
      BY <2>2, <3>2 DEF PInv, Logged, OnDisk
    <3>5. PICK f, g : f = source[i] /\ g = dest[path[i]]
      OBVIOUS
    <3>6. path[i] \in Files
      BY <3>1 DEF TypeOK
    <3>7. /\ g # None /\ m <= Len(g) /\ \A j \in 1 .. m : g[j] = f[j]
      BY <2>2, <3>4, <3>5 DEF Has
    <3>8. /\ f \in Seq(Chunks) /\ Len(f) \in Nat /\ g \in Seq(Chunks) /\ Len(g) \in Nat
          /\ n <= Len(f) /\ n <= m
      BY <3>1, <3>2, <3>3, <3>4, <3>5, <3>6, <3>7, DestIs
    <3>9. PICK h : h = SubSeq(f, 1, n)
      OBVIOUS
    <3>10. h \in Seq(Chunks) /\ Len(h) = n /\ \A j \in 1 .. n : h[j] = f[j]
      BY <3>2, <3>8, <3>9
    <3>11. Len(h) <= Len(g) /\ \A j \in 1 .. Len(h) : h[j] = g[j]
      BY <3>2, <3>7, <3>8, <3>10
    <3>12. IsPrefix(h, g)
      BY <3>8, <3>10, <3>11, PrefixAgrees
    <3> QED
      BY <3>5, <3>9, <3>12
  <2> QED
    BY <2>1, <2>2 DEF WrittenOnDisk
<1> QED
  BY <1>1, ServiceInvariance, PTL

(* sendFiles never panics.  recvFiles does when the wrapper of pb.go meets the
   io.EOF of a channel that ends in the middle of a file: the sender gave up,
   or the connection broke.  The Finish that receiving deferred then finds no
   current entry; the last one is called finished, and is short of its file. *)
PanicsAfterFault ==
  \A s \in Sides : outcome[s] = "panic" =>
    /\ s = "receiver" /\ rpc = "failed" /\ faults
    /\ LET e == entries[s] IN
       e # <<>> /\ Last(e).finished /\ Last(e).written < Size(Last(e).file)

(* A panic of the service is the one that PanicsAfterFault describes. *)
THEOREM PanicsAfterFaultHolds == ProgressSpec => []PanicsAfterFault
<1>1. PInv /\ Panicked /\ [ProgressNext]_progressVars => Panicked'
  BY PanickedStep
<1>2. Panicked => PanicsAfterFault
  BY DEF Panicked, PanicsAfterFault, Sides
<1> QED
  BY <1>1, <1>2, PanickedInit, ServiceInvariance, PTL DEF ProgressSpec

(* A receiver that answers with a result for all files lists each in full, and so
   does the result file it has written, if no Read lost a message in its last
   attempt. *)
THEOREM ReportsCompleteHolds == ProgressSpec => []ReportsComplete
<1>1. PInv => ReportsComplete
  <2> SUFFICES ASSUME PInv, outcome["receiver"] = "result", rfile = NFiles, Whole
               PROVE  /\ \A i \in Files : \E k \in DOMAIN entries["receiver"] :
                           entries["receiver"][k] = [file |-> i, written |-> Size(i), finished |-> TRUE]
                      /\ "receiver" \notin lagging
    BY DEF ReportsComplete
  <2>1. rpc = "ok"
    BY DEF PInv, Answered
  <2>2. "receiver" \notin lagging
    BY <2>1 DEF PInv, ReceiverBar, EntriesOK
  <2> QED
    BY <2>1, <2>2 DEF PInv, Listed, Through, Files
<1> QED
  BY <1>1, ServiceInvariance, PTL

=============================================================================
