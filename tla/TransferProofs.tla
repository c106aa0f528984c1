---------------------------- MODULE TransferProofs ----------------------------
(***************************************************************************)
(* The safety of Transfer, for any files, window and number of attempts.   *)
(*                                                                         *)
(* Nothing on the wire says what it is, so the invariant labels it: a      *)
(* chain of places leads from where the receiver is, message by message,   *)
(* to where the sender is, in an attempt in which no message was lost.     *)
(***************************************************************************)
EXTENDS Transfer, TLAPS

-----------------------------------------------------------------------------
(* Chains. *)

(* A place in the stream of an attempt: before the metadata, before the header
   after that of file, or inside a file before the chunk at pos + 1. *)
Places == [pc : {"meta", "header", "data"}, file : 0 .. NFiles, pos : Nat]
Place(pc, file, pos) == [pc |-> pc, file |-> file, pos |-> pos]

Ends == {"eof", "err"}

(* Message m leads from place s to place t, when the files are src. *)
Leads(src, s, m, t) ==
  \/ m.type = "meta" /\ s.pc = "meta" /\ t.pc = "header" /\ t.file = 0 /\ s.file = 0
  \/ /\ m.type = "header" /\ s.pc = "header"
     /\ m.file = s.file + 1 /\ t.file = m.file /\ t.pos = m.pos
     /\ m.pos <= Len(src[m.file])
     /\ t.pc = IF m.pos = Len(src[m.file]) THEN "header" ELSE "data"
  \/ /\ m.type = "data" /\ s.pc = "data"
     /\ s.file \in Files /\ s.pos < Len(src[s.file]) /\ m.chunk = src[s.file][s.pos + 1]
     /\ t.file = s.file /\ t.pos = s.pos + 1
     /\ t.pc = IF t.pos = Len(src[s.file]) THEN "header" ELSE "data"
  \/ m.type \in Ends /\ t = s

Chain(src, lab, w) ==
  /\ lab \in [1 .. Len(w) + 1 -> Places]
  /\ \A k \in 1 .. Len(w) : Leads(src, lab[k], w[k], lab[k + 1])

(* A message that is written makes the chain longer. *)
LEMMA ChainAppend ==
  ASSUME NEW src, NEW lab, NEW w \in Seq(Messages), Chain(src, lab, w),
         NEW m \in Messages, NEW t \in Places,
         Leads(src, lab[Len(w) + 1], m, t)
  PROVE  \E lab2 : /\ Chain(src, lab2, Append(w, m))
                   /\ lab2[1] = lab[1] /\ lab2[Len(w) + 2] = t
<1> DEFINE v == Append(w, m)
           lab2 == [k \in 1 .. Len(w) + 2 |-> IF k <= Len(w) + 1 THEN lab[k] ELSE t]
<1>1. Len(w) \in Nat /\ Len(v) = Len(w) + 1
  OBVIOUS
<1>2. \A k \in 1 .. Len(w) : v[k] = w[k]
  OBVIOUS
<1>3. v[Len(w) + 1] = m
  OBVIOUS
<1> HIDE DEF v
<1>4. lab2 \in [1 .. Len(v) + 1 -> Places]
  BY <1>1 DEF Chain
<1>5. ASSUME NEW k \in 1 .. Len(v)
      PROVE  Leads(src, lab2[k], v[k], lab2[k + 1])
  <2>1. CASE k <= Len(w)
    <3>1. lab2[k] = lab[k] /\ lab2[k + 1] = lab[k + 1] /\ v[k] = w[k] /\ k \in 1 .. Len(w)
      BY <1>1, <1>2, <2>1
    <3> QED
      BY <3>1 DEF Chain
  <2>2. CASE k = Len(w) + 1
    BY <1>1, <1>3, <2>2
  <2> QED
    BY <1>1, <2>1, <2>2
<1>6. Chain(src, lab2, v)
  BY <1>4, <1>5 DEF Chain
<1>7. lab2[1] = lab[1] /\ lab2[Len(w) + 2] = t
  BY <1>1
<1> QED
  BY <1>6, <1>7 DEF v

(* A message that is read makes it shorter. *)
LEMMA ChainTail ==
  ASSUME NEW src, NEW lab, NEW w \in Seq(Messages), w # <<>>, Chain(src, lab, w)
  PROVE  \E lab2 : /\ Chain(src, lab2, Tail(w))
                   /\ lab2[1] = lab[2] /\ lab2[Len(Tail(w)) + 1] = lab[Len(w) + 1]
<1> DEFINE v == Tail(w)
           lab2 == [k \in 1 .. Len(w) |-> lab[k + 1]]
<1>1. Len(w) \in Nat /\ Len(w) > 0 /\ Len(v) = Len(w) - 1
  OBVIOUS
<1>2. \A k \in 1 .. Len(v) : v[k] = w[k + 1]
  OBVIOUS
<1> HIDE DEF v
<1>3. lab2 \in [1 .. Len(v) + 1 -> Places]
  BY <1>1 DEF Chain
<1>4. \A k \in 1 .. Len(v) : Leads(src, lab2[k], v[k], lab2[k + 1])
  BY <1>1, <1>2 DEF Chain
<1>5. Chain(src, lab2, v)
  BY <1>3, <1>4 DEF Chain
<1> QED
  BY <1>1, <1>5 DEF v

(* Of a channel that goes a beginning is left, and how it ended. *)
LEMMA ChainCut ==
  ASSUME NEW src, NEW lab, NEW w \in Seq(Messages), Chain(src, lab, w),
         NEW n \in 0 .. Len(w)
  PROVE  \E lab2 : Chain(src, lab2, SubSeq(w, 1, n)) /\ lab2[1] = lab[1]
<1> DEFINE v == SubSeq(w, 1, n)
           lab2 == [k \in 1 .. n + 1 |-> lab[k]]
<1>1. Len(w) \in Nat /\ n \in Nat /\ n <= Len(w) /\ Len(v) = n
  OBVIOUS
<1>2. \A k \in 1 .. n : v[k] = w[k]
  OBVIOUS
<1> HIDE DEF v
<1>3. lab2 \in [1 .. Len(v) + 1 -> Places]
  BY <1>1 DEF Chain
<1>4. \A k \in 1 .. Len(v) : Leads(src, lab2[k], v[k], lab2[k + 1])
  BY <1>1, <1>2 DEF Chain
<1>5. Chain(src, lab2, v)
  BY <1>3, <1>4 DEF Chain
<1> QED
  BY <1>1, <1>5 DEF v

(* The same with the message that says so. *)
LEMMA ChainEnds ==
  ASSUME NEW src, NEW lab, NEW w \in Seq(Messages), Chain(src, lab, w),
         NEW n \in 0 .. Len(w), NEW e \in Messages, e.type \in Ends
  PROVE  \E lab2 : Chain(src, lab2, Append(SubSeq(w, 1, n), e)) /\ lab2[1] = lab[1]
<1> DEFINE v == SubSeq(w, 1, n)
<1>1. v \in Seq(Messages) /\ Len(v) = n
  OBVIOUS
<1>2. PICK lab1 : Chain(src, lab1, v) /\ lab1[1] = lab[1]
  BY ChainCut
<1> HIDE DEF v
<1>3. lab1[Len(v) + 1] \in Places
  BY <1>1, <1>2 DEF Chain
<1>4. Leads(src, lab1[Len(v) + 1], e, lab1[Len(v) + 1])
  BY DEF Leads
<1>5. \E lab2 : /\ Chain(src, lab2, Append(v, e))
                /\ lab2[1] = lab1[1] /\ lab2[Len(v) + 2] = lab1[Len(v) + 1]
  BY <1>1, <1>2, <1>3, <1>4, ChainAppend
<1> QED
  BY <1>2, <1>5 DEF v

-----------------------------------------------------------------------------
(* Beginnings of files. *)

LEMMA ContentsAre ==
  ASSUME NEW s
  PROVE  s \in Contents <=> s \in Seq(Chunks) /\ Len(s) <= MaxLen
<1>1. MaxLen \in Nat
  BY TransferAssumption
<1>2. ASSUME s \in Contents
      PROVE  s \in Seq(Chunks) /\ Len(s) <= MaxLen
  <2>1. PICK m \in 0 .. MaxLen : s \in [1 .. m -> Chunks]
    BY <1>2 DEF Contents, SeqOf
  <2> QED
    BY <1>1, <2>1
<1>3. ASSUME s \in Seq(Chunks), Len(s) <= MaxLen
      PROVE  s \in Contents
  <2>1. Len(s) \in 0 .. MaxLen /\ s \in [1 .. Len(s) -> Chunks]
    BY <1>1, <1>3
  <2> QED
    BY <2>1 DEF Contents, SeqOf
<1> QED
  BY <1>2, <1>3

LEMMA NoneIsNoFile == None \notin Contents
  BY TransferAssumption, ContentsAre

LEMMA PrefixAgrees ==
  ASSUME NEW s \in Seq(Chunks), NEW t \in Seq(Chunks)
  PROVE  IsPrefix(s, t) <=> Len(s) <= Len(t) /\ \A k \in 1 .. Len(s) : s[k] = t[k]
<1>1. Len(s) \in Nat /\ Len(t) \in Nat /\ SubSeq(s, 1, Len(s)) = s
  OBVIOUS
<1>2. ASSUME Len(s) <= Len(t)
      PROVE  /\ SubSeq(t, 1, Len(s)) \in Seq(Chunks) /\ Len(SubSeq(t, 1, Len(s))) = Len(s)
             /\ \A k \in 1 .. Len(s) : SubSeq(t, 1, Len(s))[k] = t[k]
  BY <1>2
<1>3. ASSUME NEW u \in Seq(Chunks), Len(u) = Len(s), \A k \in 1 .. Len(s) : u[k] = s[k]
      PROVE  u = s
  BY <1>3
<1> QED
  BY <1>1, <1>2, <1>3 DEF IsPrefix

(* The receiver has n chunks in the place of file i; where nothing was lost and
   no other file is received there, they are the sender's. *)
Agree(i, n) ==
  LET has == dest[path[i]] IN
  /\ has # None /\ n <= Len(has)
  /\ Whole /\ Sole(i) => \A k \in 1 .. n : has[k] = source[i][k]

(* A transfer of file i may start at n. *)
Begun(i, n) == n <= Size(i) /\ (n > 0 => Agree(i, n))

(* Every answer makes the sender resume where it may. *)
Promises(a) == \A i \in Files : Begun(i, ResumeAt(i, a[i]))

(* The comparison of sendFile, when the answer is what LookupFilePos found. *)
LEMMA ResumeIsSafe ==
  ASSUME source \in [Files -> Contents], path \in [Files -> Files],
         dest \in [Files -> Contents \cup {None}],
         NEW i \in Files, NEW a,
         a = [pos |-> IF dest[path[i]] = None THEN 0 ELSE Len(dest[path[i]]), hash |-> dest[path[i]]]
  PROVE  Begun(i, ResumeAt(i, a))
<1>1. source[i] \in Seq(Chunks) /\ Len(source[i]) \in Nat
  BY ContentsAre
<1>2. PICK had \in Contents \cup {None} : had = dest[path[i]]
  <2>1. path[i] \in Files
    OBVIOUS
  <2> QED
    BY <2>1
<1>3. a.pos = (IF had = None THEN 0 ELSE Len(had)) /\ a.hash = had
  BY <1>2
<1>4. CASE had = None
  BY <1>1, <1>3, <1>4 DEF Begun, ResumeAt, Size
<1>5. CASE had # None
  <2>1. had \in Seq(Chunks) /\ Len(had) \in Nat
    BY <1>2, <1>5, ContentsAre
  <2>2. CASE ResumeAt(i, a) = 0
    BY <1>1, <2>2 DEF Begun, Size
  <2>3. CASE ResumeAt(i, a) # 0
    <3>1. a.pos # 0 /\ ResumeAt(i, a) = a.pos /\ LocalHash(i, a.pos) = had
      BY <1>3, <1>5, <2>3 DEF ResumeAt
    <3>2. a.pos <= Size(i) /\ SubSeq(source[i], 1, a.pos) = had
      BY <1>1, <1>3, <1>5, <2>1, <3>1 DEF LocalHash, Size
    <3>3. \A k \in 1 .. a.pos : had[k] = source[i][k]
      BY <1>1, <1>3, <1>5, <2>1, <3>2 DEF Size
    <3> QED
      BY <1>2, <1>3, <1>5, <2>1, <3>1, <3>2, <3>3 DEF Begun, Agree
  <2> QED
    BY <2>2, <2>3
<1> QED
  BY <1>4, <1>5

-----------------------------------------------------------------------------
(* The inductive invariant, in named parts. *)

Live == rpc \in {"meta", "header", "data", "write"}

(* A sender that is through with its files closes the channel, and is then
   done; until something fails nothing else takes it down. *)
AtSender(t) ==
  /\ spc = "meta" => t.pc = "meta" /\ t.file = 0
  /\ spc = "rsp" => t.pc = "header" /\ t.file = 0
  /\ spc = "header" => t.pc = "header" /\ t.file = sfile - 1
  /\ spc = "data" => t.pc = "data" /\ t.file = sfile /\ t.pos = spos
  /\ spc \in {"close", "ok"} => t.pc = "header" /\ t.file = NFiles

(* The receiver, when the chunk in its hand is written. *)
AtReceiver(s) ==
  /\ s.file = rfile
  /\ rpc # "write" => s.pc = rpc
  /\ rpc = "data" => s.pos = rpos
  /\ rpc = "write" => /\ s.pos = rpos + 1
                      /\ s.pc = IF rpos + 1 = Size(rfile) THEN "header" ELSE "data"

(* Everything the sender wrote is on the wire, or has been read. *)
Joined == link = "up" \/ ~faults

(* The wire leads from where the receiver is to where the sender is. *)
Labelled ==
  Live /\ Whole =>
    \E lab : /\ Chain(source, lab, wire)
             /\ AtReceiver(lab[1])
             /\ Joined => AtSender(lab[Len(wire) + 1])

SenderPlace ==
  /\ spc \in {"meta", "rsp"} => sfile = 1
  /\ spc \in {"header", "data"} => answers \in Answers
  /\ spc = "data" => sfile \in Files /\ spos < Size(sfile)

ReceiverPlace ==
  rpc \in {"data", "write"} => rfile \in Files /\ rpos < Size(rfile) /\ Agree(rfile, rpos)

InHand ==
  rpc = "write" => inhand \in Chunks /\ (Whole => inhand = source[rfile][rpos + 1])

(* A header on its way, an answer on its way, and the answers the sender has
   start no transfer where the receiver has something else. *)
Headers == \A k \in 1 .. Len(wire) :
             wire[k].type = "header" => Begun(wire[k].file, wire[k].pos)
Promised ==
  /\ reply # None => Promises(reply)
  /\ spc \in {"header", "data"} => Promises(answers)

Finished ==
  Whole /\ rpc \in {"header", "data", "write", "ok"} =>
    \A i \in 1 .. (IF rpc \in {"data", "write"} THEN rfile - 1 ELSE rfile) : Agree(i, Size(i))

(* The end of the channel is the last message of one that is down, and without
   a fault it is the sender's, which has sent everything. *)
Orderly ==
  /\ \A k \in 1 .. Len(wire) : wire[k].type \in Ends => k = Len(wire) /\ link = "down"
  /\ ~faults => /\ spc # "failed" /\ rpc # "failed" /\ lost = {}
                /\ link = "down" <=> spc = "ok"
                /\ rpc = "ok" => rfile = NFiles
                /\ \A k \in 1 .. Len(wire) : wire[k].type # "err"

IInv == /\ TypeOK /\ Labelled /\ SenderPlace /\ ReceiverPlace /\ InHand
        /\ Headers /\ Promised /\ Finished /\ Orderly

-----------------------------------------------------------------------------
(* The steps, by what they do to the wire. *)

(* Of what agreed nothing stops to, while this attempt goes on. *)
Kept == /\ UNCHANGED <<source, path>>
        /\ Whole' => Whole
        /\ \A i \in Files, n \in Nat : Agree(i, n) => Agree(i, n)'

LEMMA BegunKept ==
  ASSUME source \in [Files -> Contents], Kept, NEW i \in Files, NEW n \in Nat, Begun(i, n)
  PROVE  Begun(i, n)'
BY DEF Kept, Begun, Size

LEMMA PromisesKept ==
  ASSUME TypeOK, Kept, NEW a \in Answers, Promises(a)
  PROVE  Promises(a)'
<1> SUFFICES ASSUME NEW i \in Files
             PROVE  Begun(i, ResumeAt(i, a[i]))'
  BY DEF Promises
<1>1. source \in [Files -> Contents] /\ source' = source
  BY DEF TypeOK, Kept
<1>2. ResumeAt(i, a[i])' = ResumeAt(i, a[i])
  BY <1>1 DEF ResumeAt, LocalHash, Size
<1>3. MaxLen \in Nat /\ a[i].pos \in 0 .. MaxLen
  BY TransferAssumption DEF Answers
<1>4. ResumeAt(i, a[i]) \in Nat
  BY <1>3 DEF ResumeAt
<1>5. PICK n \in Nat : n = ResumeAt(i, a[i])
  BY <1>4
<1>6. Begun(i, n)'
  <2>1. Begun(i, n)
    BY <1>5 DEF Promises
  <2> QED
    BY <1>1, <2>1, BegunKept
<1>7. n = ResumeAt(i, a[i])'
  BY <1>2, <1>5
<1> QED
  BY <1>6, <1>7 DEF Begun

LEMMA HeadersCome ==
  ASSUME TypeOK, Kept, NEW w \in Seq(Messages), wire' = w,
         \A k \in 1 .. Len(w) : w[k].type = "header" => Begun(w[k].file, w[k].pos)
  PROVE  Headers'
<1> SUFFICES ASSUME NEW k \in 1 .. Len(w), w[k].type = "header"
             PROVE  Begun(w[k].file, w[k].pos)'
  BY DEF Headers
<1>1. w[k] \in Messages /\ MaxLen \in Nat /\ source \in [Files -> Contents]
  BY TransferAssumption DEF TypeOK
<1>2. w[k].file \in Files /\ w[k].pos \in Nat
  BY <1>1 DEF Messages
<1> QED
  BY <1>1, <1>2, BegunKept

(* The sender writes, or nothing gets through any more. *)
LEMMA Written ==
  ASSUME TypeOK, Kept, Labelled, Headers, Orderly, UNCHANGED <<rpc, rfile, rpos, link, lost, faults>>,
         spc \notin {"ok", "failed"}, spc' \notin {"ok", "failed"},
         NEW m \in Messages, m.type \notin Ends, Writes(m),
         link = "up" /\ m.type = "header" => Begun(m.file, m.pos),
         \A s \in Places : link = "up" /\ AtSender(s) =>
           \E t \in Places : Leads(source, s, m, t) /\ AtSender(t)'
  PROVE  Labelled' /\ Headers' /\ Orderly' /\ wire' \in Seq(Messages)
<1>1. CASE link = "down" /\ UNCHANGED wire
  <2>1. Labelled'
    <3>1. ~Joined'
      BY <1>1 DEF Joined, Orderly
    <3> QED
      BY <1>1, <3>1 DEF Labelled, Live, AtReceiver, Kept, Size
  <2>2. Orderly'
    BY <1>1 DEF Orderly
  <2>3. Headers'
    <3>1. PICK w \in Seq(Messages) : w = wire
      BY DEF TypeOK
    <3> QED
      BY <1>1, <3>1, HeadersCome DEF Headers
  <2> QED
    BY <1>1, <2>1, <2>3, <2>2 DEF TypeOK
<1>2. CASE link = "up" /\ wire' = Append(wire, m)
  <2>1. wire \in Seq(Messages) /\ Len(wire) \in Nat
    BY DEF TypeOK
  <2>2. wire' \in Seq(Messages) /\ Len(wire') = Len(wire) + 1
    BY <1>2, <2>1
  <2>3. wire'[Len(wire) + 1] = m /\ \A k \in 1 .. Len(wire) : wire'[k] = wire[k]
    BY <1>2, <2>1
  <2>4. Labelled'
    <3> SUFFICES ASSUME Live, Whole
                 PROVE  Labelled'
      BY DEF Labelled, Live, Kept
    <3>1. PICK lab : /\ Chain(source, lab, wire)
                     /\ AtReceiver(lab[1]) /\ AtSender(lab[Len(wire) + 1])
      BY <1>2 DEF Labelled, Joined
    <3>2. lab[Len(wire) + 1] \in Places
      BY <2>1, <3>1 DEF Chain
    <3>3. PICK t \in Places : Leads(source, lab[Len(wire) + 1], m, t) /\ AtSender(t)'
      BY <1>2, <3>1, <3>2
    <3>4. PICK lab2 : /\ Chain(source, lab2, Append(wire, m))
                      /\ lab2[1] = lab[1] /\ lab2[Len(wire) + 2] = t
      BY <2>1, <3>1, <3>3, ChainAppend
    <3>5. Chain(source', lab2, wire')
      BY <1>2, <3>4 DEF Kept
    <3>6. AtReceiver(lab2[1])'
      BY <3>1, <3>4 DEF AtReceiver, Size, Kept
    <3>7. lab2[Len(wire') + 1] = t
      BY <2>1, <2>2, <3>4
    <3> QED
      BY <3>3, <3>5, <3>6, <3>7 DEF Labelled
  <2>5. Headers'
    <3>1. PICK w \in Seq(Messages) : w = wire'
      BY <2>2
    <3>2. Len(w) = Len(wire) + 1 /\ w[Len(wire) + 1] = m
      BY <2>2, <2>3, <3>1
    <3>3. \A k \in 1 .. Len(wire) : w[k] = wire[k]
      BY <2>3, <3>1
    <3>4. \A k \in 1 .. Len(w) : w[k].type = "header" => Begun(w[k].file, w[k].pos)
      BY <1>2, <2>1, <3>2, <3>3 DEF Headers
    <3> QED
      BY <3>1, <3>4, HeadersCome
  <2>6. Orderly'
    <3>1. \A k \in 1 .. Len(wire) : wire[k].type \notin Ends
      BY <1>2 DEF Orderly
    <3>2. \A k \in 1 .. Len(wire') : wire'[k].type \notin Ends
      BY <2>1, <2>2, <2>3, <3>1
    <3> QED
      BY <1>2, <3>2 DEF Orderly, Ends
  <2> QED
    BY <2>2, <2>4, <2>5, <2>6
<1> QED
  BY <1>1, <1>2 DEF Writes

(* A message is taken off the wire. *)
LEMMA Taken ==
  ASSUME TypeOK, Kept, Headers, Orderly, UNCHANGED link, wire # <<>>, wire' = Tail(wire)
  PROVE  /\ Headers' /\ wire' \in Seq(Messages)
         /\ \A k \in 1 .. Len(wire') : /\ wire'[k].type \in Ends => k = Len(wire') /\ link' = "down"
                                      /\ ~faults => wire'[k].type # "err"
<1>1. wire \in Seq(Messages) /\ Len(wire) \in Nat /\ Len(wire) > 0
  BY DEF TypeOK
<1>2. /\ wire' \in Seq(Messages) /\ Len(wire') = Len(wire) - 1
      /\ \A k \in 1 .. Len(wire') : wire'[k] = wire[k + 1]
  BY <1>1
<1>3. Headers'
  <2>1. PICK w \in Seq(Messages) : w = wire'
    BY <1>2
  <2>2. Len(w) = Len(wire) - 1 /\ \A k \in 1 .. Len(w) : w[k] = wire[k + 1]
    BY <1>2, <2>1
  <2>3. PICK n \in Nat : n = Len(wire) /\ Len(w) = n - 1
    BY <1>1, <2>2
  <2>4. ASSUME NEW k \in 1 .. Len(w), w[k].type = "header" PROVE Begun(w[k].file, w[k].pos)
    <3>1. k + 1 \in 1 .. n
      BY <2>3
    <3>2. w[k] = wire[k + 1] /\ k + 1 \in 1 .. Len(wire)
      BY <2>2, <2>3, <3>1
    <3> QED
      BY <2>4, <3>2 DEF Headers
  <2> QED
    BY <2>1, <2>4, HeadersCome
<1>4. \A k \in 1 .. Len(wire') : k + 1 \in 1 .. Len(wire) /\ wire'[k] = wire[k + 1]
  BY <1>1, <1>2
<1>5. ASSUME NEW k \in 1 .. Len(wire')
      PROVE  /\ wire'[k].type \in Ends => k = Len(wire') /\ link' = "down"
             /\ ~faults => wire'[k].type # "err"
  <2>1. /\ wire[k + 1].type \in Ends => k + 1 = Len(wire) /\ link = "down"
        /\ ~faults => wire[k + 1].type # "err"
    BY <1>4 DEF Orderly
  <2>2. ASSUME k + 1 = Len(wire)
        PROVE  k = Len(wire')
    <3>1. PICK n \in Nat : n = Len(wire) /\ n > 0
      BY <1>1
    <3>2. PICK m \in Nat : m = Len(wire') /\ m = n - 1
      <4>1. n - 1 \in Nat
        BY <3>1
      <4>2. Len(wire') = n - 1
        BY <1>2, <3>1
      <4> QED
        BY <4>1, <4>2
    <3>3. PICK j \in 1 .. m : j = k
      BY <3>2
    <3>4. j + 1 = n
      BY <2>2, <3>1, <3>3
    <3>5. j = m
      BY <3>2, <3>4
    <3> QED
      BY <3>2, <3>3, <3>5
  <2> QED
    BY <1>4, <2>1, <2>2
<1> QED
  BY <1>2, <1>3, <1>5

(* The receiver reads. *)
LEMMA Read ==
  ASSUME TypeOK, Kept, Labelled, Headers, Orderly, Live, Live',
         UNCHANGED <<link, spc, sfile, spos, lost, faults>>,
         wire # <<>>, wire' = Tail(wire),
         Whole => \A s, t \in Places :
                    AtReceiver(s) /\ Leads(source, s, Head(wire), t) => AtReceiver(t)'
  PROVE  Labelled' /\ Headers' /\ Orderly' /\ wire' \in Seq(Messages)
<1>1. /\ Headers' /\ wire' \in Seq(Messages)
      /\ \A k \in 1 .. Len(wire') : /\ wire'[k].type \in Ends => k = Len(wire') /\ link' = "down"
                                   /\ ~faults => wire'[k].type # "err"
  BY Taken
<1>2. Orderly'
  BY <1>1 DEF Orderly, Live
<1>3. Labelled'
  <2> SUFFICES ASSUME Whole
               PROVE  Labelled'
    BY DEF Labelled, Kept
  <2>1. wire \in Seq(Messages) /\ Len(wire) \in Nat /\ Len(wire) > 0 /\ Head(wire) = wire[1]
    BY DEF TypeOK
  <2>2. PICK lab : /\ Chain(source, lab, wire)
                   /\ AtReceiver(lab[1]) /\ (Joined => AtSender(lab[Len(wire) + 1]))
    BY DEF Labelled
  <2>3. lab[1] \in Places /\ lab[2] \in Places /\ Leads(source, lab[1], Head(wire), lab[2])
    <3>1. 1 \in 1 .. Len(wire) /\ 1 \in 1 .. Len(wire) + 1 /\ 2 \in 1 .. Len(wire) + 1 /\ 1 + 1 = 2
      BY <2>1
    <3> QED
      BY <2>1, <2>2, <3>1 DEF Chain
  <2>4. AtReceiver(lab[2])'
    BY <2>2, <2>3
  <2>5. PICK lab2 : /\ Chain(source, lab2, Tail(wire))
                    /\ lab2[1] = lab[2] /\ lab2[Len(Tail(wire)) + 1] = lab[Len(wire) + 1]
    BY <2>1, <2>2, ChainTail
  <2>6. Chain(source', lab2, wire') /\ AtReceiver(lab2[1])'
    BY <2>4, <2>5 DEF Kept, AtReceiver
  <2>7. PICK t : t = lab[Len(wire) + 1]
    OBVIOUS
  <2>8. Joined' => AtSender(t)'
    BY <2>2, <2>7 DEF AtSender, Joined
  <2>9. lab2[Len(wire') + 1] = t
    BY <2>5, <2>7
  <2> QED
    BY <2>6, <2>8, <2>9 DEF Labelled
<1> QED
  BY <1>1, <1>2, <1>3

(* The channel goes, with some of what was on it. *)
LEMMA Cut ==
  ASSUME TypeOK, Kept, Labelled, Headers, Orderly, link = "up",
         UNCHANGED <<rpc, rfile, rpos, lost>>, link' = "down",
         NEW got \in Delivered, NEW e \in Messages, e.type \in Ends, wire' = Append(got, e),
         ~faults' => /\ ~faults /\ got = wire /\ e.type = "eof"
                     /\ spc = "close" /\ spc' = "ok"
  PROVE  Labelled' /\ Headers' /\ Orderly' /\ wire' \in Seq(Messages)
<1>1. wire \in Seq(Messages) /\ Len(wire) \in Nat
  BY DEF TypeOK
<1>2. PICK n \in 0 .. Len(wire) : got = SubSeq(wire, 1, n)
  BY DEF Delivered
<1>3. got \in Seq(Messages) /\ Len(got) = n /\ \A k \in 1 .. n : got[k] = wire[k]
  BY <1>1, <1>2
<1>4. wire' \in Seq(Messages) /\ Len(wire') = n + 1
  BY <1>3
<1>5. wire'[n + 1] = e /\ \A k \in 1 .. n : wire'[k] = wire[k]
  BY <1>3
<1>6. Labelled'
  <2> SUFFICES ASSUME Live, Whole
               PROVE  Labelled'
    BY DEF Labelled, Live, Kept
  <2>1. PICK lab : /\ Chain(source, lab, wire)
                   /\ AtReceiver(lab[1]) /\ AtSender(lab[Len(wire) + 1])
    BY DEF Labelled, Joined
  <2>2. CASE faults'
    <3>1. PICK lab2 : Chain(source, lab2, Append(SubSeq(wire, 1, n), e)) /\ lab2[1] = lab[1]
      BY <1>1, <2>1, ChainEnds
    <3>2. Chain(source', lab2, wire') /\ AtReceiver(lab2[1])'
      BY <1>2, <2>1, <3>1 DEF Kept, AtReceiver, Size
    <3> QED
      BY <2>2, <3>2 DEF Labelled, Joined
  <2>3. CASE ~faults'
    <3>1. PICK t \in Places : t = lab[Len(wire) + 1]
      BY <1>1, <2>1 DEF Chain
    <3>2. Leads(source, lab[Len(wire) + 1], e, t)
      BY <3>1 DEF Leads
    <3>3. PICK lab2 : /\ Chain(source, lab2, Append(wire, e))
                      /\ lab2[1] = lab[1] /\ lab2[Len(wire) + 2] = t
      BY <1>1, <2>1, <3>2, ChainAppend
    <3>4. wire' = Append(wire, e) /\ Len(wire') + 1 = Len(wire) + 2
      BY <1>1, <1>4, <2>3, <1>3
    <3>5. Chain(source', lab2, wire') /\ AtReceiver(lab2[1])'
      BY <2>1, <3>3, <3>4 DEF Kept, AtReceiver, Size
    <3>6. AtSender(t)'
      BY <2>1, <2>3, <3>1 DEF AtSender
    <3> QED
      BY <3>3, <3>4, <3>5, <3>6 DEF Labelled
  <2> QED
    BY <2>2, <2>3
<1>7. Headers'
  <2>1. PICK w \in Seq(Messages) : w = wire'
    BY <1>4
  <2>2. Len(w) = n + 1 /\ w[n + 1] = e
    BY <1>4, <1>5, <2>1
  <2>3. \A k \in 1 .. n : w[k] = wire[k]
    BY <1>5, <2>1
  <2>4. \A k \in 1 .. Len(w) : w[k].type = "header" => Begun(w[k].file, w[k].pos)
    BY <1>1, <2>2, <2>3 DEF Headers, Ends
  <2> QED
    BY <2>1, <2>4, HeadersCome
<1>8. Orderly'
  <2>1. \A k \in 1 .. n : wire'[k].type \notin Ends
    BY <1>1, <1>5 DEF Orderly
  <2>2. \A k \in 1 .. Len(wire') : k = n + 1 \/ k \in 1 .. n
    BY <1>4
  <2>3. \A k \in 1 .. Len(wire') : wire'[k].type \in Ends => k = Len(wire') /\ link' = "down"
    BY <1>4, <2>1, <2>2
  <2>4. ~faults' => /\ spc' # "failed" /\ rpc' # "failed" /\ lost' = {}
                    /\ link' = "down" <=> spc' = "ok"
                    /\ rpc' = "ok" => rfile' = NFiles
                    /\ \A k \in 1 .. Len(wire') : wire'[k].type # "err"
    BY <1>5, <2>1, <2>2 DEF Orderly, Ends
  <2> QED
    BY <2>3, <2>4 DEF Orderly
<1> QED
  BY <1>4, <1>6, <1>7, <1>8

-----------------------------------------------------------------------------
(* What a step leaves alone. *)

LEMMA StaysKept ==
  ASSUME UNCHANGED <<source, path, dest, attempt>>, lost \subseteq lost'
  PROVE  Kept
BY DEF Kept, Agree, Whole, Sole

LEMMA ReceiverStill ==
  ASSUME ReceiverPlace, InHand, Finished, UNCHANGED <<source, path, receiverVars, attempt, lost>>
  PROVE  ReceiverPlace' /\ InHand' /\ Finished'
BY DEF ReceiverPlace, InHand, Finished, receiverVars, Agree, Size, Whole, Sole

LEMMA SenderStill ==
  ASSUME SenderPlace, UNCHANGED <<source, senderVars>>
  PROVE  SenderPlace'
BY DEF SenderPlace, senderVars, Size

LEMMA PromisedKept ==
  ASSUME TypeOK, SenderPlace, Promised, Kept,
         reply' \in {reply, None}, answers' = answers,
         spc' \in {"header", "data"} => spc \in {"header", "data"}
  PROVE  Promised'
<1>1. ASSUME reply' # None
      PROVE  Promises(reply)'
  <2>1. PICK a \in Answers : a = reply /\ a = reply'
    BY <1>1 DEF TypeOK
  <2>2. Promises(a)
    BY <1>1, <2>1 DEF Promised
  <2>3. Promises(a)'
    BY <2>2, PromisesKept
  <2> QED
    BY <2>1, <2>3 DEF Promises
<1>2. ASSUME spc' \in {"header", "data"}
      PROVE  Promises(answers)'
  <2>1. PICK a \in Answers : a = answers /\ a = answers'
    BY <1>2 DEF SenderPlace
  <2>2. Promises(a)
    BY <1>2, <2>1 DEF Promised
  <2>3. Promises(a)'
    BY <2>2, PromisesKept
  <2> QED
    BY <2>1, <2>3 DEF Promises
<1> QED
  BY <1>1, <1>2 DEF Promised

LEMMA LabelledStill ==
  ASSUME Labelled, UNCHANGED <<source, wire, rpc, rfile, rpos, attempt, lost>>,
         Joined' => Joined /\ \A t \in Places : AtSender(t) => AtSender(t)',
         wire \in Seq(Messages)
  PROVE  Labelled'
<1> SUFFICES ASSUME Live, Whole
             PROVE  Labelled'
  BY DEF Labelled, Live, Whole
<1>1. PICK lab : /\ Chain(source, lab, wire)
                 /\ AtReceiver(lab[1]) /\ (Joined => AtSender(lab[Len(wire) + 1]))
  BY DEF Labelled
<1>2. PICK t \in Places : t = lab[Len(wire) + 1]
  BY <1>1 DEF Chain
<1>3. Joined' => AtSender(t)'
  BY <1>1, <1>2
<1>4. Chain(source', lab, wire') /\ AtReceiver(lab[1])' /\ lab[Len(wire') + 1] = t
  BY <1>1, <1>2 DEF AtReceiver, Size
<1> QED
  BY <1>3, <1>4 DEF Labelled

LEMMA OrderlyStill ==
  ASSUME Orderly, UNCHANGED <<wire, rpc, rfile, link, lost, faults>>,
         spc \notin {"ok", "failed"}, spc' \notin {"ok", "failed"}
  PROVE  Orderly'
BY DEF Orderly

(* What the receiver is about to read is what it is about to read for. *)
LEMMA HeadLeads ==
  ASSUME TypeOK, Labelled, Live, Whole, wire # <<>>
  PROVE  \E s, t \in Places : AtReceiver(s) /\ Leads(source, s, Head(wire), t)
<1>1. wire \in Seq(Messages) /\ Len(wire) \in Nat /\ Len(wire) > 0 /\ Head(wire) = wire[1]
  BY DEF TypeOK
<1>2. PICK lab : Chain(source, lab, wire) /\ AtReceiver(lab[1])
  BY DEF Labelled
<1>3. 1 \in 1 .. Len(wire) /\ 1 \in 1 .. Len(wire) + 1 /\ 2 \in 1 .. Len(wire) + 1 /\ 1 + 1 = 2
  BY <1>1
<1>4. lab[1] \in Places /\ lab[2] \in Places /\ Leads(source, lab[1], Head(wire), lab[2])
  BY <1>1, <1>2, <1>3 DEF Chain
<1> QED
  BY <1>2, <1>4

LEMMA HeadIsMessage ==
  ASSUME TypeOK, wire # <<>>
  PROVE  Head(wire) \in Messages /\ 1 \in 1 .. Len(wire) /\ Head(wire) = wire[1]
BY DEF TypeOK

LEMMA HeadOfMeta ==
  ASSUME TypeOK, Labelled, Whole, rpc = "meta", wire # <<>>, Head(wire).type = "meta"
  PROVE  rfile = 0
BY HeadLeads DEF Leads, AtReceiver, Ends, Live

LEMMA HeadOfHeader ==
  ASSUME TypeOK, Labelled, Headers, wire # <<>>, Head(wire).type = "header"
  PROVE  /\ Head(wire).file \in Files /\ Head(wire).pos \in 0 .. MaxLen
         /\ Begun(Head(wire).file, Head(wire).pos)
         /\ Whole /\ rpc = "header" => Head(wire).file = rfile + 1
         /\ Whole => rpc # "data"
<1>1. Head(wire).file \in Files /\ Head(wire).pos \in 0 .. MaxLen
  BY HeadIsMessage DEF Messages
<1>2. Begun(Head(wire).file, Head(wire).pos)
  BY HeadIsMessage DEF Headers
<1>3. ASSUME Whole, rpc \in {"header", "data"}
      PROVE  Head(wire).file = rfile + 1 /\ rpc # "data"
  BY <1>3, HeadLeads DEF Leads, AtReceiver, Ends, Live
<1> QED
  BY <1>1, <1>2, <1>3

LEMMA HeadOfData ==
  ASSUME TypeOK, Labelled, Whole, rpc = "data", wire # <<>>, Head(wire).type = "data"
  PROVE  Head(wire).chunk = source[rfile][rpos + 1]
BY HeadLeads DEF Leads, AtReceiver, Ends, Live

-----------------------------------------------------------------------------
(* What the receiver writes. *)

LEMMA DestIs ==
  ASSUME TypeOK, NEW i \in Files
  PROVE  /\ source[i] \in Seq(Chunks) /\ Len(source[i]) \in Nat /\ Size(i) = Len(source[i])
         /\ Len(source[i]) <= MaxLen /\ MaxLen \in Nat
         /\ dest[i] # None => dest[i] \in Seq(Chunks) /\ Len(dest[i]) \in Nat /\ Len(dest[i]) <= MaxLen
<1>1. source[i] \in Contents /\ (dest[i] # None => dest[i] \in Contents)
  BY DEF TypeOK
<1> QED
  BY <1>1, ContentsAre, TransferAssumption DEF Size

(* The chunk that was read is the one that is due. *)
LEMMA DataTaken ==
  ASSUME TypeOK, Labelled, Headers, RecvData
  PROVE  /\ inhand' \in Chunks
         /\ Whole => inhand' = source[rfile][rpos + 1] /\ Head(wire).type = "data"
<1>1. CASE Head(wire).type = "data"
  <2>1. Head(wire) \in Messages /\ inhand' = Head(wire).chunk /\ rpc = "data" /\ wire # <<>>
    BY <1>1, HeadIsMessage DEF RecvData, Reads
  <2>2. Head(wire).chunk \in Chunks
    BY <1>1, <2>1 DEF Messages
  <2> QED
    BY <1>1, <2>1, <2>2, HeadOfData
<1>2. CASE Head(wire).type = "header"
  <2>1. inhand' \in Chunks /\ rpc = "data" /\ wire # <<>>
    BY <1>2 DEF RecvData, Reads
  <2> QED
    BY <1>2, <2>1, HeadOfHeader
<1> QED
  BY <1>1, <1>2 DEF RecvData, Reads

(* A chunk goes where it was read, and everything else stays. *)
LEMMA DataWritten ==
  ASSUME TypeOK, ReceiverPlace, InHand, WriteData
  PROVE  LET f == dest[path[rfile]]
             g == dest'[path[rfile]]
         IN  /\ rfile \in Files /\ rpos \in Nat /\ rpos < Size(rfile)
             /\ path[rfile] \in Files /\ f # None /\ rpos <= Len(f)
             /\ Whole /\ Sole(rfile) => \A k \in 1 .. rpos : f[k] = source[rfile][k]
             /\ g \in Contents /\ g # None
             /\ Len(g) = IF rpos < Len(f) THEN Len(f) ELSE rpos + 1
             /\ Whole => g[rpos + 1] = source[rfile][rpos + 1]
             /\ \A k \in 1 .. Len(f) : k # rpos + 1 => g[k] = f[k]
             /\ \A j \in Files : j # path[rfile] => dest'[j] = dest[j]
<1> DEFINE f == dest[path[rfile]]
           n == IF rpos < Len(f) THEN Len(f) ELSE rpos + 1
           g == [k \in 1 .. n |-> IF k = rpos + 1 THEN inhand ELSE f[k]]
<1>1. /\ rfile \in Files /\ rpos < Size(rfile) /\ inhand \in Chunks
      /\ Whole => inhand = source[rfile][rpos + 1]
  BY DEF WriteData, ReceiverPlace, InHand
<1>2. /\ f # None /\ rpos <= Len(f)
      /\ Whole /\ Sole(rfile) => \A k \in 1 .. rpos : f[k] = source[rfile][k]
  BY DEF WriteData, ReceiverPlace, Agree
<1>3. rpos \in Nat /\ MaxLen \in Nat /\ path[rfile] \in Files
  BY <1>1, TransferAssumption DEF TypeOK
<1>4. /\ source[rfile] \in Seq(Chunks) /\ Len(source[rfile]) \in Nat
      /\ Size(rfile) = Len(source[rfile]) /\ Len(source[rfile]) <= MaxLen
      /\ f \in Seq(Chunks) /\ Len(f) \in Nat /\ Len(f) <= MaxLen
  BY <1>1, <1>2, <1>3, DestIs
<1>5. dest' = [dest EXCEPT ![path[rfile]] = g]
  BY DEF WriteData
<1>6. dest'[path[rfile]] = g /\ \A j \in Files : j # path[rfile] => dest'[j] = dest[j]
  BY <1>3, <1>5 DEF TypeOK
<1>7. n \in Nat /\ n <= MaxLen /\ Len(f) <= n /\ rpos + 1 <= n
  BY <1>1, <1>2, <1>3, <1>4
<1>8. \A k \in 1 .. n : k # rpos + 1 => k \in 1 .. Len(f)
  BY <1>2, <1>3, <1>4
<1>9. \A k \in 1 .. Len(f) : f[k] \in Chunks
  BY <1>4
<1> HIDE DEF n, f
<1>10. \A k \in 1 .. n : g[k] \in Chunks
  BY <1>1, <1>8, <1>9
<1>11. g \in [1 .. n -> Chunks]
  BY <1>10
<1>12. g \in Seq(Chunks) /\ Len(g) = n
  BY <1>7, <1>11
<1>13. g \in Contents
  BY <1>7, <1>12, ContentsAre
<1>14. g[rpos + 1] = inhand
  BY <1>3, <1>7
<1>15. \A k \in 1 .. Len(f) : k # rpos + 1 => g[k] = f[k]
  BY <1>4, <1>7
<1>16. g # None
  BY <1>13, NoneIsNoFile
<1> HIDE DEF g
<1> QED
  BY <1>1, <1>2, <1>3, <1>6, <1>12, <1>13, <1>14, <1>15, <1>16 DEF n, f

(* RecvHeader creates a file, and otherwise leaves them alone. *)
LEMMA FileOpened ==
  ASSUME TypeOK, RecvHeader
  PROVE  \A j \in Files : /\ dest[j] # None => dest'[j] = dest[j]
                          /\ dest[j] = None => dest'[j] \in {None, <<>>}
<1>1. Head(wire).file \in Files
  BY HeadIsMessage DEF RecvHeader, Reads, Messages
<1>2. path[Head(wire).file] \in Files
  BY <1>1 DEF TypeOK
<1> QED
  BY <1>2 DEF RecvHeader, TypeOK

(* Only these two touch the directory, and no step what the sender has. *)
LEMMA DestSteps ==
  ASSUME [Next]_vars, ~RecvHeader, ~WriteData
  PROVE  UNCHANGED <<source, path, dest>>
BY DEF Next, vars, Sender, Receiver, senderVars, receiverVars, SendMeta, RecvRsp, SendHeader,
   SendData, SendDone, SenderCloses, SenderFails, RecvMeta, RecvData, RecvEnd, ReadLoses,
   ReceiverFails, Break, Redial

(* An attempt ends with a Redial, and what was lost stays lost. *)
LEMMA AttemptSteps ==
  ASSUME [Next]_vars, ~Redial
  PROVE  UNCHANGED attempt /\ lost \subseteq lost'
BY DEF Next, vars, Sender, Receiver, senderVars, receiverVars, SendMeta, RecvRsp, SendHeader,
   SendData, SendDone, SenderCloses, SenderFails, RecvMeta, RecvHeader, RecvData, WriteData,
   RecvEnd, ReadLoses, ReceiverFails, Break

LEMMA DestKept ==
  ASSUME TypeOK, ReceiverPlace, InHand, [Next]_vars, ~Redial
  PROVE  Kept
<1> USE DEF Whole, Sole
<1>1. UNCHANGED attempt /\ lost \subseteq lost'
  BY AttemptSteps
<1>2. CASE RecvHeader
  <2>1. UNCHANGED <<source, path>>
    BY <1>2 DEF RecvHeader
  <2>2. ASSUME NEW i \in Files, NEW n \in Nat, Agree(i, n)
        PROVE  Agree(i, n)'
    <3>1. path[i] \in Files /\ dest[path[i]] # None
      BY <2>2 DEF TypeOK, Agree
    <3>2. dest'[path[i]] = dest[path[i]]
      BY <1>2, <3>1, FileOpened
    <3> QED
      BY <1>1, <2>1, <2>2, <3>2 DEF Agree
  <2> QED
    BY <1>1, <2>1, <2>2 DEF Kept
<1>3. CASE WriteData
  <2>1. UNCHANGED <<source, path>>
    BY <1>3 DEF WriteData
  <2>2. ASSUME NEW i \in Files, NEW n \in Nat, Agree(i, n)
        PROVE  Agree(i, n)'
    <3>1. path[i] \in Files
      BY DEF TypeOK
    <3>2. CASE path[i] # path[rfile]
      <4>1. dest'[path[i]] = dest[path[i]]
        BY <1>3, <3>1, <3>2, DataWritten
      <4> QED
        BY <1>1, <2>1, <2>2, <4>1 DEF Agree
    <3>3. CASE path[i] = path[rfile]
      <4> DEFINE f == dest[path[i]]
                 g == dest'[path[i]]
      <4>1. /\ g # None /\ rpos \in Nat
            /\ Len(g) = IF rpos < Len(f) THEN Len(f) ELSE rpos + 1
            /\ Whole => g[rpos + 1] = source[rfile][rpos + 1]
            /\ \A k \in 1 .. Len(f) : k # rpos + 1 => g[k] = f[k]
        BY <1>3, <3>3, DataWritten
      <4>2. /\ f # None /\ Len(f) \in Nat /\ n <= Len(f)
            /\ Whole /\ Sole(i) => \A k \in 1 .. n : f[k] = source[i][k]
        BY <2>2, <3>1, DestIs DEF Agree
      <4>3. ASSUME Whole, Sole(i)
            PROVE  \A k \in 1 .. n : g[k] = source[i][k]
        <5>1. i = rfile
          BY <1>3, <3>3, <4>3, DataWritten
        <5> HIDE DEF f, g
        <5>2. /\ g[rpos + 1] = source[i][rpos + 1]
              /\ \A k \in 1 .. n : f[k] = source[i][k]
          BY <4>1, <4>2, <4>3, <5>1
        <5> QED
          BY <4>1, <4>2, <5>2
      <4>4. n <= Len(g)
        BY <4>1, <4>2
      <4> QED
        BY <1>1, <2>1, <4>1, <4>3, <4>4 DEF Agree
    <3> QED
      BY <3>2, <3>3
  <2> QED
    BY <1>1, <2>1, <2>2 DEF Kept
<1>4. CASE ~RecvHeader /\ ~WriteData
  BY <1>1, <1>4, DestSteps, StaysKept
<1> QED
  BY <1>2, <1>3, <1>4

-----------------------------------------------------------------------------
(* The steps of the sender. *)

LEMMA SendMetaKeeps ==
  ASSUME IInv, SendMeta
  PROVE  IInv'
<1> USE DEF IInv
<1>1. Kept
  BY StaysKept DEF SendMeta, receiverVars
<1>2. Labelled' /\ Headers' /\ Orderly' /\ wire' \in Seq(Messages)
  <2>1. /\ [type |-> "meta"] \in Messages /\ Writes([type |-> "meta"])
        /\ [type |-> "meta"].type \notin Ends
    BY DEF SendMeta, Messages, Ends
  <2>2. ASSUME NEW s \in Places, AtSender(s)
        PROVE  \E t \in Places : Leads(source, s, [type |-> "meta"], t) /\ AtSender(t)'
    <3>1. Place("header", 0, 0) \in Places
      BY TransferAssumption DEF Place, Places
    <3>2. s.pc = "meta" /\ s.file = 0
      BY <2>2 DEF AtSender, SendMeta
    <3>3. Leads(source, s, [type |-> "meta"], Place("header", 0, 0))
      BY <3>2 DEF Leads, Place
    <3>4. AtSender(Place("header", 0, 0))'
      BY DEF AtSender, SendMeta, Place
    <3> QED
      BY <3>1, <3>3, <3>4
  <2>3. /\ UNCHANGED <<rpc, rfile, rpos, link, lost, faults>>
        /\ spc \notin {"ok", "failed"} /\ spc' \notin {"ok", "failed"}
    BY DEF SendMeta, receiverVars
  <2> QED
    BY <1>1, <2>1, <2>2, <2>3, Written
<1>3. TypeOK'
  BY <1>2 DEF TypeOK, SendMeta, receiverVars
<1>4. SenderPlace'
  BY DEF SenderPlace, SendMeta
<1>5. ReceiverPlace' /\ InHand' /\ Finished'
  BY ReceiverStill DEF SendMeta
<1>6. Promised'
  BY <1>1, PromisedKept DEF SendMeta
<1> QED
  BY <1>2, <1>3, <1>4, <1>5, <1>6

LEMMA RecvRspKeeps ==
  ASSUME IInv, RecvRsp
  PROVE  IInv'
<1> USE DEF IInv
<1>1. Kept
  BY StaysKept DEF RecvRsp, receiverVars
<1>2. sfile = 1 /\ reply \in Answers
  BY DEF RecvRsp, SenderPlace, TypeOK
<1>3. TypeOK'
  BY <1>2 DEF TypeOK, RecvRsp, receiverVars
<1>4. Labelled'
  <2>1. \A t \in Places : AtSender(t) => AtSender(t)'
    BY <1>2 DEF AtSender, RecvRsp
  <2> QED
    BY <2>1, LabelledStill DEF RecvRsp, receiverVars, TypeOK, Joined
<1>5. Headers'
  <2>1. PICK w \in Seq(Messages) : w = wire
    BY DEF TypeOK
  <2> QED
    BY <1>1, <2>1, HeadersCome DEF Headers, RecvRsp
<1>6. SenderPlace'
  BY <1>2 DEF SenderPlace, RecvRsp
<1>7. ReceiverPlace' /\ InHand' /\ Finished'
  BY ReceiverStill DEF RecvRsp
<1>8. Promised'
  <2>1. PICK a \in Answers : a = reply
    BY <1>2
  <2>2. Promises(a)'
    <3>1. Promises(a)
      BY <2>1, TransferAssumption DEF RecvRsp, Promised
    <3> QED
      BY <1>1, <3>1, PromisesKept
  <2> QED
    BY <2>1, <2>2 DEF Promised, Promises, RecvRsp
<1>9. Orderly'
  BY OrderlyStill DEF RecvRsp, receiverVars
<1> QED
  BY <1>3, <1>4, <1>5, <1>6, <1>7, <1>8, <1>9

LEMMA SendHeaderKeeps ==
  ASSUME IInv, SendHeader
  PROVE  IInv'
<1> USE DEF IInv
<1>1. Kept
  BY StaysKept DEF SendHeader, receiverVars
<1>2. sfile \in Files /\ NFiles \in Nat
  BY TransferAssumption DEF SendHeader, TypeOK, Files
<1>3. PICK pos : pos = ResumeAt(sfile, answers[sfile])
  OBVIOUS
<1>4. answers \in Answers
  BY DEF SendHeader, SenderPlace
<1>5. pos \in 0 .. MaxLen
  <2>1. answers[sfile].pos \in 0 .. MaxLen
    BY <1>2, <1>4 DEF Answers
  <2> QED
    BY <1>3, <2>1, TransferAssumption DEF ResumeAt
<1>6. Begun(sfile, pos)
  BY <1>2, <1>3 DEF Promised, Promises, SendHeader
<1>7. pos <= Size(sfile) /\ Size(sfile) \in Nat /\ pos \in Nat
  BY <1>2, <1>5, <1>6, DestIs, TransferAssumption DEF Begun
<1>8. /\ Writes([type |-> "header", file |-> sfile, pos |-> pos])
      /\ \/ pos >= Size(sfile) /\ sfile' = sfile + 1 /\ UNCHANGED <<spc, spos>>
         \/ ~(pos >= Size(sfile)) /\ spc' = "data" /\ spos' = pos /\ UNCHANGED sfile
  BY <1>3 DEF SendHeader
<1>9. Labelled' /\ Headers' /\ Orderly' /\ wire' \in Seq(Messages)
  <2> DEFINE m == [type |-> "header", file |-> sfile, pos |-> pos]
             t == Place(IF pos = Size(sfile) THEN "header" ELSE "data", sfile, pos)
  <2>1. m \in Messages /\ Writes(m) /\ Begun(m.file, m.pos) /\ m.type \notin Ends
    BY <1>2, <1>5, <1>6, <1>8 DEF Messages, Ends
  <2>2. t \in Places
    BY <1>2, <1>5, <1>7 DEF Place, Places, Files
  <2>3. ASSUME NEW s \in Places, AtSender(s)
        PROVE  \E u \in Places : Leads(source, s, m, u) /\ AtSender(u)'
    <3>1. s.pc = "header" /\ s.file = sfile - 1
      BY <2>3 DEF AtSender, SendHeader
    <3>2. sfile = s.file + 1
      BY <1>2, <3>1 DEF Files
    <3>3. Leads(source, s, m, t)
      BY <1>7, <3>1, <3>2 DEF Leads, Place, Size
    <3>4. \E u \in Places : u = t /\ AtSender(u)'
      <4>1. PICK u \in Places : u = t
        BY <2>2
      <4>2. u.pc = (IF pos = Size(sfile) THEN "header" ELSE "data") /\ u.file = sfile /\ u.pos = pos
        BY <4>1 DEF Place
      <4>3. CASE pos = Size(sfile)
        <5>1. spc' = "header" /\ sfile' = sfile + 1
          BY <1>7, <1>8, <4>3 DEF SendHeader
        <5> QED
          BY <1>2, <4>1, <4>2, <4>3, <5>1 DEF AtSender, Files
      <4>4. CASE pos # Size(sfile)
        <5>1. spc' = "data" /\ spos' = pos /\ sfile' = sfile
          BY <1>7, <1>8, <4>4
        <5> QED
          BY <4>1, <4>2, <4>4, <5>1 DEF AtSender
      <4> QED
        BY <4>3, <4>4
    <3> QED
      BY <3>3, <3>4
  <2>4. /\ UNCHANGED <<rpc, rfile, rpos, link, lost, faults>>
        /\ spc \notin {"ok", "failed"} /\ spc' \notin {"ok", "failed"}
    BY <1>8 DEF SendHeader, receiverVars
  <2> HIDE DEF m
  <2> QED
    BY <1>1, <2>1, <2>3, <2>4, Written
<1>10. TypeOK'
  <2>1. sfile \in 1 .. NFiles + 1 /\ sfile + 1 \in 1 .. NFiles + 1
    BY <1>2, TransferAssumption DEF Files
  <2>2. spos \in 0 .. MaxLen /\ spc = "header"
    BY DEF TypeOK, SendHeader
  <2>3. sfile' \in 1 .. NFiles + 1 /\ spos' \in 0 .. MaxLen /\ spc' \in {"header", "data"}
    <3>1. CASE pos >= Size(sfile) /\ sfile' = sfile + 1 /\ UNCHANGED <<spc, spos>>
      BY <2>1, <2>2, <3>1
    <3>2. CASE spc' = "data" /\ spos' = pos /\ UNCHANGED sfile
      BY <1>5, <2>1, <3>2
    <3> QED
      BY <1>8, <3>1, <3>2
  <2> QED
    BY <1>9, <2>3 DEF TypeOK, SendHeader, receiverVars
<1>11. SenderPlace'
  BY <1>2, <1>4, <1>7, <1>8 DEF SenderPlace, SendHeader, Size
<1>12. ReceiverPlace' /\ InHand' /\ Finished'
  BY ReceiverStill DEF SendHeader
<1>13. Promised'
  BY <1>1, PromisedKept DEF SendHeader
<1> QED
  BY <1>9, <1>10, <1>11, <1>12, <1>13

LEMMA SendDataKeeps ==
  ASSUME IInv, SendData
  PROVE  IInv'
<1> USE DEF IInv
<1>1. Kept
  BY StaysKept DEF SendData, receiverVars
<1>2. sfile \in Files /\ spos < Size(sfile) /\ answers \in Answers
  BY DEF SendData, SenderPlace
<1>3. /\ source[sfile] \in Seq(Chunks) /\ Len(source[sfile]) \in Nat
      /\ Size(sfile) = Len(source[sfile]) /\ Len(source[sfile]) <= MaxLen /\ MaxLen \in Nat
  BY <1>2, DestIs
<1>4. spos \in Nat /\ spos + 1 \in 1 .. Len(source[sfile])
  BY <1>2, <1>3 DEF TypeOK
<1>5. PICK c \in Chunks : c = source[sfile][spos + 1]
  BY <1>3, <1>4
<1>6. sfile \in Nat /\ sfile <= NFiles /\ NFiles \in Nat
  BY <1>2, TransferAssumption DEF Files
<1>7. Labelled' /\ Headers' /\ Orderly' /\ wire' \in Seq(Messages)
  <2> DEFINE m == [type |-> "data", chunk |-> c]
  <2>1. m \in Messages /\ Writes(m) /\ m.type # "header" /\ m.type \notin Ends
    BY <1>5 DEF Messages, SendData, Ends
  <2>2. ASSUME NEW s \in Places, AtSender(s)
        PROVE  \E u \in Places : Leads(source, s, m, u) /\ AtSender(u)'
    <3> DEFINE t == Place(IF spos + 1 = Size(sfile) THEN "header" ELSE "data", sfile, spos + 1)
    <3>1. s.pc = "data" /\ s.file = sfile /\ s.pos = spos
      BY <2>2 DEF AtSender, SendData
    <3>2. t \in Places
      BY <1>4, <1>6 DEF Place, Places
    <3>3. PICK u \in Places : u = t
      BY <3>2
    <3>4. /\ u.pc = IF spos + 1 = Size(sfile) THEN "header" ELSE "data"
          /\ u.file = sfile /\ u.pos = spos + 1
      BY <3>3 DEF Place
    <3>5. Leads(source, s, m, u)
      BY <1>2, <1>3, <1>5, <3>1, <3>4 DEF Leads
    <3>6. AtSender(u)'
      <4>1. CASE spos + 1 = Size(sfile)
        BY <1>6, <3>4, <4>1 DEF AtSender, SendData
      <4>2. CASE spos + 1 # Size(sfile)
        BY <3>4, <4>2 DEF AtSender, SendData
      <4> QED
        BY <4>1, <4>2
    <3> QED
      BY <3>5, <3>6
  <2>3. /\ UNCHANGED <<rpc, rfile, rpos, link, lost, faults>>
        /\ spc \notin {"ok", "failed"} /\ spc' \notin {"ok", "failed"}
    BY DEF SendData, receiverVars
  <2> HIDE DEF m
  <2> QED
    BY <1>1, <2>1, <2>2, <2>3, Written
<1>8. TypeOK'
  <2>1. sfile' \in 1 .. NFiles + 1 /\ spos' \in 0 .. MaxLen
    BY <1>3, <1>4, <1>6 DEF SendData, TypeOK
  <2> QED
    BY <1>7, <2>1 DEF TypeOK, SendData, receiverVars
<1>9. SenderPlace'
  BY <1>2, <1>3, <1>4 DEF SenderPlace, SendData, Size
<1>10. ReceiverPlace' /\ InHand' /\ Finished'
  BY ReceiverStill DEF SendData
<1>11. Promised'
  BY <1>1, PromisedKept DEF SendData
<1> QED
  BY <1>7, <1>8, <1>9, <1>10, <1>11

LEMMA SendDoneKeeps ==
  ASSUME IInv, SendDone
  PROVE  IInv'
<1> USE DEF IInv
<1>1. Kept
  BY StaysKept DEF SendDone, receiverVars
<1>2. TypeOK'
  BY DEF TypeOK, SendDone, receiverVars
<1>3. Labelled'
  <2>1. sfile - 1 = NFiles
    BY TransferAssumption DEF SendDone, TypeOK
  <2>2. \A t \in Places : AtSender(t) => AtSender(t)'
    BY <2>1 DEF AtSender, SendDone
  <2> QED
    BY <2>2, LabelledStill DEF SendDone, receiverVars, TypeOK, Joined
<1>4. Headers'
  <2>1. PICK w \in Seq(Messages) : w = wire
    BY DEF TypeOK
  <2> QED
    BY <1>1, <2>1, HeadersCome DEF Headers, SendDone
<1>5. SenderPlace'
  BY DEF SenderPlace, SendDone
<1>6. ReceiverPlace' /\ InHand' /\ Finished'
  BY ReceiverStill DEF SendDone
<1>7. Promised'
  BY <1>1, PromisedKept DEF SendDone
<1>8. Orderly'
  BY OrderlyStill DEF SendDone, receiverVars
<1> QED
  BY <1>2, <1>3, <1>4, <1>5, <1>6, <1>7, <1>8

(* A step that takes the channel down, or finds it down. *)
LEMMA GoesDown ==
  ASSUME IInv, UNCHANGED <<source, path, dest, rpc, rfile, rpos, inhand, answers, attempt, lost>>,
         link' = "down", reply' \in {reply, None},
         \/ link = "down" /\ UNCHANGED wire /\ faults'
         \/ /\ link = "up"
            /\ \E got \in Delivered, e \in Messages :
                 /\ e.type \in Ends /\ wire' = Append(got, e)
                 /\ ~faults' => /\ ~faults /\ got = wire /\ e.type = "eof"
                                /\ spc = "close" /\ spc' = "ok",
         spc' \in {"ok", "failed"} \/ UNCHANGED <<spc, sfile, spos>>
  PROVE  /\ Labelled' /\ Headers' /\ Orderly' /\ wire' \in Seq(Messages)
         /\ SenderPlace' /\ ReceiverPlace' /\ InHand' /\ Finished' /\ Promised'
<1> USE DEF IInv
<1>1. Kept
  BY StaysKept
<1>2. Labelled' /\ Headers' /\ Orderly' /\ wire' \in Seq(Messages)
  <2>1. CASE link = "down" /\ UNCHANGED wire /\ faults'
    <3>1. PICK w \in Seq(Messages) : w = wire
      BY DEF TypeOK
    <3>2. Headers'
      BY <1>1, <2>1, <3>1, HeadersCome DEF Headers
    <3>3. Labelled'
      BY <2>1, LabelledStill DEF TypeOK, Joined
    <3>4. Orderly'
      BY <2>1 DEF Orderly
    <3> QED
      BY <2>1, <3>2, <3>3, <3>4 DEF TypeOK
  <2>2. CASE /\ link = "up"
             /\ \E got \in Delivered, e \in Messages :
                  /\ e.type \in Ends /\ wire' = Append(got, e)
                  /\ ~faults' => /\ ~faults /\ got = wire /\ e.type = "eof"
                                 /\ spc = "close" /\ spc' = "ok"
    BY <1>1, <2>2, Cut
  <2> QED
    BY <2>1, <2>2
<1>3. SenderPlace'
  BY DEF SenderPlace, Size
<1>4. ReceiverPlace' /\ InHand' /\ Finished'
  BY ReceiverStill DEF receiverVars
<1>5. Promised'
  BY <1>1, PromisedKept
<1> QED
  BY <1>2, <1>3, <1>4, <1>5

LEMMA SenderClosesKeeps ==
  ASSUME IInv, SenderCloses
  PROVE  IInv'
<1>1. [type |-> "eof"] \in Messages /\ [type |-> "eof"].type \in Ends
  BY DEF Messages, Ends
<1>2. \/ link = "down" /\ UNCHANGED wire /\ faults'
      \/ /\ link = "up"
         /\ \E got \in Delivered, e \in Messages :
              /\ e.type \in Ends /\ wire' = Append(got, e)
              /\ ~faults' => /\ ~faults /\ got = wire /\ e.type = "eof"
                             /\ spc = "close" /\ spc' = "ok"
  BY <1>1 DEF SenderCloses, IInv, TypeOK, Orderly
<1>3. /\ Labelled' /\ Headers' /\ Orderly' /\ wire' \in Seq(Messages)
      /\ SenderPlace' /\ ReceiverPlace' /\ InHand' /\ Finished' /\ Promised'
  BY <1>2, GoesDown DEF SenderCloses, receiverVars
<1>4. TypeOK'
  <2>1. faults' \in BOOLEAN
    BY DEF SenderCloses, IInv, TypeOK
  <2> QED
    BY <1>3, <2>1 DEF SenderCloses, receiverVars, IInv, TypeOK
<1> QED
  BY <1>3, <1>4 DEF IInv

LEMMA SenderFailsKeeps ==
  ASSUME IInv, SenderFails
  PROVE  IInv'
<1>1. [type |-> "eof"] \in Messages /\ [type |-> "eof"].type \in Ends
  BY DEF Messages, Ends
<1>2. \/ link = "down" /\ UNCHANGED wire /\ faults'
      \/ /\ link = "up"
         /\ \E got \in Delivered, e \in Messages :
              /\ e.type \in Ends /\ wire' = Append(got, e)
              /\ ~faults' => /\ ~faults /\ got = wire /\ e.type = "eof"
                             /\ spc = "close" /\ spc' = "ok"
  BY <1>1 DEF SenderFails, IInv, TypeOK
<1>3. /\ Labelled' /\ Headers' /\ Orderly' /\ wire' \in Seq(Messages)
      /\ SenderPlace' /\ ReceiverPlace' /\ InHand' /\ Finished' /\ Promised'
  BY <1>2, GoesDown DEF SenderFails, receiverVars
<1>4. TypeOK'
  BY <1>3 DEF SenderFails, receiverVars, IInv, TypeOK
<1> QED
  BY <1>3, <1>4 DEF IInv

LEMMA BreakKeeps ==
  ASSUME IInv, Break
  PROVE  IInv'
<1>1. \A type \in {"eof", "err"} : [type |-> type] \in Messages /\ [type |-> type].type \in Ends
  BY DEF Messages, Ends
<1>2. /\ link = "up" /\ faults'
      /\ \E got \in Delivered, e \in Messages : e.type \in Ends /\ wire' = Append(got, e)
  BY <1>1 DEF Break
<1>3. /\ Labelled' /\ Headers' /\ Orderly' /\ wire' \in Seq(Messages)
      /\ SenderPlace' /\ ReceiverPlace' /\ InHand' /\ Finished' /\ Promised'
  BY <1>2, GoesDown DEF Break, receiverVars, senderVars
<1>4. TypeOK'
  BY <1>3 DEF Break, receiverVars, senderVars, IInv, TypeOK
<1> QED
  BY <1>3, <1>4 DEF IInv

-----------------------------------------------------------------------------
(* The steps of the receiver, and Redial. *)

LEMMA RecvMetaKeeps ==
  ASSUME IInv, RecvMeta
  PROVE  IInv'
<1> USE DEF IInv
<1>1. Kept
  BY StaysKept DEF RecvMeta
<1>2. /\ rpc = "meta" /\ Live /\ wire # <<>> /\ Head(wire).type = "meta" /\ wire' = Tail(wire)
      /\ Whole => rfile = 0
  BY HeadOfMeta DEF RecvMeta, Reads, Live
<1>3. Labelled' /\ Headers' /\ Orderly' /\ wire' \in Seq(Messages)
  <2>1. ASSUME Whole, NEW s \in Places, NEW t \in Places, AtReceiver(s), Leads(source, s, Head(wire), t)
        PROVE  AtReceiver(t)'
    BY <1>2, <2>1 DEF AtReceiver, Leads, RecvMeta, Ends
  <2>2. UNCHANGED <<link, spc, sfile, spos, lost, faults>> /\ Live'
    BY DEF RecvMeta, senderVars, Live
  <2> QED
    BY <1>1, <1>2, <2>1, <2>2, Read
<1>4. reply' \in Answers \cup {None}
  <2>1. ASSUME NEW i \in Files
        PROVE  /\ (IF dest[path[i]] = None THEN 0 ELSE Len(dest[path[i]])) \in 0 .. MaxLen
               /\ dest[path[i]] \in Contents \cup {None}
    <3>1. path[i] \in Files
      BY DEF TypeOK
    <3> QED
      BY <3>1, DestIs, TransferAssumption DEF TypeOK
  <2> QED
    BY <2>1 DEF RecvMeta, Answers
<1>5. TypeOK'
  BY <1>3, <1>4 DEF TypeOK, RecvMeta, senderVars
<1>6. SenderPlace'
  BY SenderStill DEF RecvMeta
<1>7. ReceiverPlace' /\ InHand'
  BY DEF ReceiverPlace, InHand, RecvMeta
<1>8. Finished'
  BY <1>1, <1>2 DEF Finished, RecvMeta, Kept
<1>9. Promised'
  <2>1. ASSUME reply' # None
        PROVE  Promises(reply)'
    <3>1. PICK a \in Answers : a = reply'
      BY <1>4, <2>1
    <3>2. \A i \in Files :
            a[i] = [pos |-> IF dest[path[i]] = None THEN 0 ELSE Len(dest[path[i]]),
                    hash |-> dest[path[i]]]
      BY <2>1, <3>1 DEF RecvMeta
    <3>3. Promises(a)
      BY <3>2, ResumeIsSafe DEF Promises, TypeOK
    <3>4. Promises(a)'
      BY <1>1, <3>3, PromisesKept
    <3> QED
      BY <3>1, <3>4 DEF Promises
  <2>2. ASSUME spc' \in {"header", "data"}
        PROVE  Promises(answers)'
    <3>1. spc \in {"header", "data"} /\ answers' = answers
      BY <2>2 DEF RecvMeta, senderVars
    <3>2. PICK a \in Answers : a = answers
      BY <3>1 DEF SenderPlace
    <3>3. Promises(a)'
      BY <1>1, <3>1, <3>2, PromisesKept DEF Promised
    <3> QED
      BY <3>1, <3>2, <3>3 DEF Promises
  <2> QED
    BY <2>1, <2>2 DEF Promised
<1> QED
  BY <1>3, <1>5, <1>6, <1>7, <1>8, <1>9

LEMMA RecvHeaderKeeps ==
  ASSUME IInv, RecvHeader
  PROVE  IInv'
<1> USE DEF IInv
<1>1. ~Redial
  BY DEF RecvHeader, Redial
<1>2. Kept
  BY <1>1, DestKept DEF Next, Receiver
<1>3. rpc = "header" /\ Live /\ wire # <<>> /\ Head(wire).type = "header" /\ wire' = Tail(wire)
  BY DEF RecvHeader, Reads, Live
<1>4. PICK f, pos : f = Head(wire).file /\ pos = Head(wire).pos
  OBVIOUS
<1>5. /\ f \in Files /\ pos \in 0 .. MaxLen /\ Begun(f, pos)
      /\ Whole => f = rfile + 1
  BY <1>3, <1>4, HeadOfHeader
<1>6. /\ dest' = [dest EXCEPT ![path[f]] = IF @ = None THEN <<>> ELSE @]
      /\ rfile' = f /\ rpos' = pos /\ UNCHANGED <<source, path, attempt, lost>>
      /\ rpc' = IF pos >= Size(f) THEN "header" ELSE "data"
  BY <1>4 DEF RecvHeader
<1>7. Size(f) \in Nat /\ pos \in Nat /\ pos <= Size(f) /\ path[f] \in Files
  BY <1>5, DestIs, TransferAssumption DEF Begun, TypeOK
<1>8. dest'[path[f]] # None
  <2>1. <<>> # None
    <3>1. <<>> \in Seq(Chunks)
      OBVIOUS
    <3> QED
      BY <3>1, TransferAssumption
  <2> QED
    BY <1>6, <1>7, <2>1 DEF TypeOK
<1>9. Agree(f, pos)'
  <2>1. CASE pos = 0
    <3>1. Len(dest'[path[f]]) \in Nat
      <4>1. dest'[path[f]] = <<>> \/ (dest[path[f]] # None /\ dest'[path[f]] = dest[path[f]])
        BY <1>6, <1>7 DEF TypeOK
      <4> QED
        BY <1>7, <4>1, DestIs
    <3> QED
      BY <1>6, <1>8, <2>1, <3>1 DEF Agree
  <2>2. CASE pos > 0
    BY <1>2, <1>5, <1>7, <2>2 DEF Begun, Kept
  <2> QED
    BY <1>7, <2>1, <2>2
<1>10. Labelled' /\ Headers' /\ Orderly' /\ wire' \in Seq(Messages)
  <2>1. ASSUME Whole, NEW s \in Places, NEW t \in Places, AtReceiver(s), Leads(source, s, Head(wire), t)
        PROVE  AtReceiver(t)'
    BY <1>3, <1>4, <1>5, <1>6, <1>7, <2>1 DEF AtReceiver, Leads, Size, Ends
  <2>2. UNCHANGED <<link, spc, sfile, spos, lost, faults>> /\ Live'
    BY DEF RecvHeader, senderVars, Live
  <2> QED
    BY <1>2, <1>3, <2>1, <2>2, Read
<1>11. TypeOK'
  <2>1. <<>> \in Contents
    <3>1. <<>> \in Seq(Chunks) /\ Len(<<>>) <= MaxLen
      BY TransferAssumption
    <3> QED
      BY <3>1, ContentsAre
  <2>2. dest' \in [Files -> Contents \cup {None}]
    BY <1>6, <2>1 DEF TypeOK
  <2>3. rfile' \in 0 .. NFiles /\ rpos' \in 0 .. MaxLen
    BY <1>5, <1>6, TransferAssumption DEF Files
  <2> QED
    BY <1>6, <1>10, <2>2, <2>3 DEF TypeOK, RecvHeader, senderVars
<1>12. SenderPlace'
  BY SenderStill DEF RecvHeader
<1>13. ReceiverPlace' /\ InHand'
  BY <1>5, <1>6, <1>7, <1>9 DEF ReceiverPlace, InHand, Agree, Size
<1>14. Finished'
  <2> SUFFICES ASSUME Whole
               PROVE  Finished'
    BY <1>2 DEF Finished, Kept
  <2>1. ASSUME NEW i \in 1 .. rfile
        PROVE  i \in Files /\ Agree(i, Size(i))'
    <3>1. i \in Files /\ Agree(i, Size(i))
      <4>1. rfile \in Nat /\ rfile <= NFiles /\ NFiles \in Nat
        BY TransferAssumption DEF TypeOK
      <4>2. i \in Files
        BY <4>1 DEF Files
      <4>3. Agree(i, Size(i))
        BY <1>3 DEF Finished
      <4> QED
        BY <4>2, <4>3
    <3>2. PICK n \in Nat : n = Size(i) /\ n = Size(i)'
      BY <1>6, <3>1, DestIs DEF Size
    <3>3. Agree(i, n)'
      BY <1>2, <3>1, <3>2 DEF Kept
    <3> QED
      BY <3>1, <3>2, <3>3 DEF Agree
  <2>2. pos = Size(f) => Agree(f, Size(f))'
    BY <1>6, <1>9 DEF Agree, Size
  <2>3. rfile \in Nat
    BY DEF TypeOK
  <2>4. ASSUME NEW i \in 1 .. (IF rpc' \in {"data", "write"} THEN rfile' - 1 ELSE rfile')
        PROVE  Agree(i, Size(i))'
    <3>1. CASE i \in 1 .. rfile
      BY <2>1, <3>1
    <3>2. CASE i \notin 1 .. rfile
      <4>1. i = f /\ rpc' = "header"
        BY <1>5, <1>6, <2>3, <3>2
      <4>2. pos = Size(f)
        BY <1>5, <1>6, <1>7, <4>1
      <4> QED
        BY <2>2, <4>1, <4>2
    <3> QED
      BY <3>1, <3>2
  <2> QED
    BY <2>4 DEF Finished
<1>15. Promised'
  BY <1>2, PromisedKept DEF RecvHeader, senderVars
<1> QED
  BY <1>10, <1>11, <1>12, <1>13, <1>14, <1>15

LEMMA RecvDataKeeps ==
  ASSUME IInv, RecvData
  PROVE  IInv'
<1> USE DEF IInv
<1>1. Kept
  BY StaysKept DEF RecvData
<1>2. /\ rpc = "data" /\ Live /\ wire # <<>> /\ wire' = Tail(wire) /\ rpc' = "write"
      /\ UNCHANGED <<source, path, dest, rfile, rpos, attempt, lost>>
  BY DEF RecvData, Reads, Live
<1>3. inhand' \in Chunks /\ (Whole => inhand' = source[rfile][rpos + 1] /\ Head(wire).type = "data")
  BY DataTaken
<1>4. Labelled' /\ Headers' /\ Orderly' /\ wire' \in Seq(Messages)
  <2>1. ASSUME Whole, NEW s \in Places, NEW t \in Places, AtReceiver(s), Leads(source, s, Head(wire), t)
        PROVE  AtReceiver(t)'
    BY <1>2, <1>3, <2>1 DEF AtReceiver, Leads, Ends, Size
  <2>2. UNCHANGED <<link, spc, sfile, spos, lost, faults>> /\ Live'
    BY DEF RecvData, senderVars, Live
  <2> QED
    BY <1>1, <1>2, <2>1, <2>2, Read
<1>5. TypeOK'
  BY <1>3, <1>4 DEF TypeOK, RecvData, senderVars
<1>6. SenderPlace'
  BY SenderStill DEF RecvData
<1>7. ReceiverPlace'
  BY <1>2 DEF ReceiverPlace, Agree, Size, Whole, Sole
<1>8. InHand'
  BY <1>1, <1>2, <1>3 DEF InHand, Kept
<1>9. Finished'
  BY <1>2 DEF Finished, Agree, Size, Whole, Sole
<1>10. Promised'
  BY <1>1, PromisedKept DEF RecvData, senderVars
<1> QED
  BY <1>4, <1>5, <1>6, <1>7, <1>8, <1>9, <1>10

LEMMA WriteDataKeeps ==
  ASSUME IInv, WriteData
  PROVE  IInv'
<1> USE DEF IInv
<1>1. ~Redial
  BY DEF WriteData, Redial
<1>2. Kept
  BY <1>1, DestKept DEF Next, Receiver
<1>3. /\ rpc = "write" /\ rfile' = rfile /\ rpos' = rpos + 1
      /\ UNCHANGED <<source, path, senderVars, wire, reply, link, attempt, lost, faults>>
      /\ rpc' = IF rpos + 1 = Size(rfile) THEN "header" ELSE "data"
  BY DEF WriteData
<1>4. /\ rfile \in Files /\ rpos \in Nat /\ rpos < Size(rfile)
      /\ source[rfile] \in Seq(Chunks) /\ Len(source[rfile]) \in Nat
      /\ Size(rfile) = Len(source[rfile]) /\ Len(source[rfile]) <= MaxLen /\ MaxLen \in Nat
  BY DataWritten, DestIs
<1>5. Agree(rfile, rpos)'
  <2> DEFINE f == dest[path[rfile]]
             g == dest'[path[rfile]]
  <2>1. /\ g # None /\ g \in Contents /\ path[rfile] \in Files
        /\ Len(g) = IF rpos < Len(f) THEN Len(f) ELSE rpos + 1
        /\ Whole => g[rpos + 1] = source[rfile][rpos + 1]
        /\ \A k \in 1 .. Len(f) : k # rpos + 1 => g[k] = f[k]
        /\ f # None /\ rpos <= Len(f)
        /\ Whole /\ Sole(rfile) => \A k \in 1 .. rpos : f[k] = source[rfile][k]
    BY DataWritten
  <2>2. Len(f) \in Nat
    BY <2>1, DestIs
  <2> HIDE DEF f, g
  <2>3. ASSUME Whole, Sole(rfile)
        PROVE  \A k \in 1 .. rpos + 1 : g[k] = source[rfile][k]
    <3>1. ASSUME NEW k \in 1 .. rpos + 1, k # rpos + 1
          PROVE  g[k] = source[rfile][k]
      <4>1. k \in 1 .. rpos /\ k \in 1 .. Len(f)
        BY <1>4, <2>1, <2>2, <3>1
      <4> QED
        BY <2>1, <2>3, <3>1, <4>1
    <3>2. g[rpos + 1] = source[rfile][rpos + 1]
      BY <2>1, <2>3
    <3> QED
      BY <3>1, <3>2
  <2>4. rpos + 1 <= Len(g)
    BY <1>4, <2>1, <2>2
  <2> QED
    BY <1>3, <2>1, <2>3, <2>4 DEF Agree, g, Whole, Sole
<1>6. Labelled'
  <2> SUFFICES ASSUME Whole
               PROVE  Labelled'
    BY <1>2 DEF Labelled, Kept
  <2>1. PICK lab : /\ Chain(source, lab, wire)
                   /\ AtReceiver(lab[1]) /\ (Joined => AtSender(lab[Len(wire) + 1]))
    BY <1>3 DEF Labelled, Live
  <2>2. Chain(source', lab, wire')
    BY <1>3, <2>1
  <2>3. AtReceiver(lab[1])'
    BY <1>3, <2>1 DEF AtReceiver
  <2>4. PICK t : t = lab[Len(wire) + 1] /\ t = lab[Len(wire') + 1]
    BY <1>3
  <2>5. Joined' => AtSender(t)'
    BY <1>3, <2>1, <2>4 DEF AtSender, Joined, senderVars
  <2> QED
    BY <2>2, <2>3, <2>4, <2>5 DEF Labelled
<1>7. Headers'
  <2>1. PICK w \in Seq(Messages) : w = wire
    BY DEF TypeOK
  <2> QED
    BY <1>2, <1>3, <2>1, HeadersCome DEF Headers
<1>8. TypeOK'
  <2>1. dest' \in [Files -> Contents \cup {None}]
    <3>1. dest'[path[rfile]] \in Contents /\ path[rfile] \in Files
      BY DataWritten
    <3>2. dest' = [dest EXCEPT ![path[rfile]] = dest'[path[rfile]]]
      BY <3>1 DEF WriteData, TypeOK
    <3> QED
      BY <3>1, <3>2 DEF TypeOK
  <2>2. rpos' \in 0 .. MaxLen
    BY <1>3, <1>4
  <2> QED
    BY <1>3, <2>1, <2>2 DEF TypeOK, WriteData, senderVars
<1>9. SenderPlace'
  BY SenderStill DEF WriteData
<1>10. ReceiverPlace' /\ InHand'
  BY <1>3, <1>4, <1>5 DEF ReceiverPlace, InHand, Agree, Size
<1>11. Finished'
  <2> SUFFICES ASSUME Whole
               PROVE  Finished'
    BY <1>2 DEF Finished, Kept
  <2>1. ASSUME NEW i \in 1 .. rfile - 1
        PROVE  Agree(i, Size(i))'
    <3>1. i \in Files
      BY <1>4, TransferAssumption DEF Files
    <3>2. Agree(i, Size(i))
      BY <1>3 DEF Finished
    <3>3. PICK n \in Nat : n = Size(i) /\ n = Size(i)'
      BY <1>3, <3>1, DestIs DEF Size
    <3>4. Agree(i, n)'
      BY <1>2, <3>1, <3>2, <3>3 DEF Kept
    <3> QED
      BY <3>3, <3>4 DEF Agree
  <2>2. rpos + 1 = Size(rfile) => Agree(rfile, Size(rfile))'
    BY <1>3, <1>5 DEF Agree, Size
  <2>3. rfile \in Nat
    BY DEF TypeOK
  <2>4. ASSUME NEW i \in 1 .. (IF rpc' \in {"data", "write"} THEN rfile' - 1 ELSE rfile')
        PROVE  Agree(i, Size(i))'
    <3>1. CASE i \in 1 .. rfile - 1
      BY <2>1, <3>1
    <3>2. CASE i \notin 1 .. rfile - 1
      <4>1. i = rfile /\ rpos + 1 = Size(rfile)
        BY <1>3, <2>3, <3>2
      <4> QED
        BY <1>3, <2>2, <4>1
    <3> QED
      BY <3>1, <3>2
  <2> QED
    BY <2>4 DEF Finished
<1>12. Promised'
  BY <1>2, PromisedKept DEF WriteData, senderVars
<1>13. Orderly'
  BY <1>3 DEF Orderly, senderVars
<1> QED
  BY <1>6, <1>7, <1>8, <1>9, <1>10, <1>11, <1>12, <1>13

(* A message is lost, and with it every claim on this attempt. *)
LEMMA ReadLosesKeeps ==
  ASSUME IInv, ReadLoses
  PROVE  IInv'
<1> USE DEF IInv
<1>1. Kept
  BY StaysKept DEF ReadLoses, receiverVars
<1>2. /\ rpc = "data" /\ wire # <<>> /\ wire' = Tail(wire) /\ ~Whole' /\ faults'
      /\ UNCHANGED <<source, path, senderVars, receiverVars, reply, link, attempt>>
  BY DEF ReadLoses, Reads, Whole
<1>3. /\ Headers' /\ wire' \in Seq(Messages)
      /\ \A k \in 1 .. Len(wire') : /\ wire'[k].type \in Ends => k = Len(wire') /\ link' = "down"
                                   /\ ~faults => wire'[k].type # "err"
  BY <1>1, <1>2, Taken
<1>4. Labelled' /\ Finished'
  BY <1>2 DEF Labelled, Finished
<1>5. Orderly'
  BY <1>2, <1>3 DEF Orderly
<1>6. TypeOK'
  <2>1. attempt \in 1 .. attempt
    BY TransferAssumption DEF TypeOK
  <2>2. lost' \subseteq 1 .. attempt'
    BY <2>1 DEF ReadLoses, TypeOK
  <2> QED
    BY <1>3, <2>2 DEF TypeOK, ReadLoses, senderVars, receiverVars
<1>7. SenderPlace'
  BY SenderStill DEF ReadLoses
<1>8. ReceiverPlace'
  <2>1. rfile \in Files /\ rpos < Size(rfile) /\ Agree(rfile, rpos)
    BY <1>2 DEF ReceiverPlace
  <2> QED
    BY <1>2, <2>1 DEF ReceiverPlace, receiverVars, Agree, Size
<1>9. InHand'
  BY <1>2 DEF InHand, receiverVars
<1>10. Promised'
  BY <1>1, PromisedKept DEF ReadLoses, senderVars
<1> QED
  BY <1>3, <1>4, <1>5, <1>6, <1>7, <1>8, <1>9, <1>10

LEMMA RecvEndKeeps ==
  ASSUME IInv, RecvEnd
  PROVE  IInv'
<1> USE DEF IInv
<1>1. Kept
  BY StaysKept DEF RecvEnd
<1>2. rpc' \in {"ok", "failed"} /\ (rpc' = "ok" => rpc = "header")
  BY DEF RecvEnd
<1>3. TypeOK'
  BY <1>2 DEF TypeOK, RecvEnd, senderVars
<1>4. Labelled'
  BY <1>2 DEF Labelled, Live
<1>5. Headers'
  <2>1. PICK w \in Seq(Messages) : w = wire
    BY DEF TypeOK
  <2> QED
    BY <1>1, <2>1, HeadersCome DEF Headers, RecvEnd
<1>6. SenderPlace'
  BY SenderStill DEF RecvEnd
<1>7. ReceiverPlace' /\ InHand' /\ Finished'
  BY <1>2 DEF ReceiverPlace, InHand, Finished, RecvEnd, Agree, Size, Whole, Sole
<1>8. Promised'
  BY <1>1, PromisedKept DEF RecvEnd, senderVars
<1>9. Orderly'
  <2>1. ASSUME ~faults
        PROVE  rpc' = "ok" /\ rfile = NFiles
    <3>1. /\ wire \in Seq(Messages) /\ wire # <<>> /\ Len(wire) \in Nat /\ 1 \in 1 .. Len(wire)
          /\ Head(wire) = wire[1] /\ wire[1].type \in Ends
      BY DEF RecvEnd, TypeOK, Ends
    <3>2. Len(wire) = 1 /\ link = "down" /\ spc = "ok" /\ wire[1].type = "eof"
      BY <2>1, <3>1 DEF Orderly, Ends
    <3>3. PICK lab : Chain(source, lab, wire) /\ AtReceiver(lab[1]) /\ AtSender(lab[2])
      BY <2>1, <3>2 DEF Labelled, Live, RecvEnd, Joined, Orderly, Whole
    <3>4. Leads(source, lab[1], wire[1], lab[2])
      <4>1. 1 + 1 = 2
        OBVIOUS
      <4> QED
        BY <3>1, <3>3, <4>1 DEF Chain
    <3>5. lab[2] = lab[1]
      BY <3>2, <3>4 DEF Leads
    <3>6. rpc = "header" /\ rfile = NFiles
      BY <3>2, <3>3, <3>5 DEF AtReceiver, AtSender, RecvEnd
    <3> QED
      BY <3>1, <3>2, <3>6 DEF RecvEnd
  <2> QED
    BY <2>1 DEF Orderly, RecvEnd, senderVars
<1> QED
  BY <1>3, <1>4, <1>5, <1>6, <1>7, <1>8, <1>9

LEMMA ReceiverFailsKeeps ==
  ASSUME IInv, ReceiverFails
  PROVE  IInv'
<1> USE DEF IInv
<1>1. Kept
  BY StaysKept DEF ReceiverFails
<1>2. TypeOK'
  BY DEF TypeOK, ReceiverFails, senderVars
<1>3. Labelled' /\ Headers'
  BY DEF Labelled, Live, Headers, ReceiverFails
<1>4. SenderPlace'
  BY SenderStill DEF ReceiverFails
<1>5. ReceiverPlace' /\ InHand' /\ Finished'
  BY DEF ReceiverPlace, InHand, Finished, ReceiverFails
<1>6. Promised'
  BY <1>1, PromisedKept DEF ReceiverFails, senderVars
<1>7. Orderly'
  BY DEF Orderly, ReceiverFails
<1> QED
  BY <1>2, <1>3, <1>4, <1>5, <1>6, <1>7

(* A connection that has just been made: nothing is on its way. *)
Excused == faults \/ lost = {}

LEMMA ConnectedHolds ==
  ASSUME Connected, Excused
  PROVE  Labelled /\ SenderPlace /\ ReceiverPlace /\ InHand /\ Headers /\ Promised /\ Finished /\ Orderly
<1>1. Labelled
  <2> DEFINE lab == [k \in 1 .. 1 |-> Place("meta", 0, 0)]
  <2>1. Place("meta", 0, 0) \in Places
    BY TransferAssumption DEF Place, Places
  <2>2. wire = <<>> /\ Len(wire) = 0
    BY DEF Connected
  <2>3. Chain(source, lab, wire)
    BY <2>1, <2>2 DEF Chain
  <2>4. lab[1] = Place("meta", 0, 0) /\ lab[Len(wire) + 1] = Place("meta", 0, 0)
    BY <2>2
  <2>5. AtReceiver(lab[1]) /\ AtSender(lab[Len(wire) + 1])
    BY <2>4 DEF AtReceiver, AtSender, Connected, Place
  <2> QED
    BY <2>3, <2>5 DEF Labelled
<1>2. SenderPlace /\ ReceiverPlace /\ InHand /\ Promised /\ Finished
  BY DEF SenderPlace, ReceiverPlace, InHand, Promised, Finished, Connected
<1>3. Headers /\ Orderly
  BY DEF Headers, Orderly, Connected, Excused
<1> QED
  BY <1>1, <1>2, <1>3

LEMMA RedialKeeps ==
  ASSUME IInv, Redial
  PROVE  IInv'
<1>1. Connected' /\ Excused'
  BY DEF Redial, Connected, Excused, IInv, Orderly
<1>2. (Labelled /\ SenderPlace /\ ReceiverPlace /\ InHand /\ Headers /\ Promised /\ Finished /\ Orderly)'
  BY <1>1, ConnectedHolds, PTL
<1>3. TypeOK'
  <2>1. 1 \in 1 .. NFiles + 1 /\ 0 \in 0 .. MaxLen /\ 0 \in 0 .. NFiles /\ <<>> \in Seq(Messages)
    BY TransferAssumption
  <2>2. attempt' \in 1 .. RetryTimes /\ lost' \subseteq 1 .. attempt'
    BY TransferAssumption DEF Redial, IInv, TypeOK
  <2> QED
    BY <2>1, <2>2 DEF Redial, IInv, TypeOK
<1> QED
  BY <1>2, <1>3 DEF IInv

-----------------------------------------------------------------------------
(* The theorems. *)

LEMMA InitHolds == Init => IInv
<1> SUFFICES ASSUME Init PROVE IInv
  OBVIOUS
<1>1. Labelled /\ SenderPlace /\ ReceiverPlace /\ InHand /\ Headers /\ Promised /\ Finished /\ Orderly
  BY ConnectedHolds DEF Init, Excused
<1>2. TypeOK
  <2>1. /\ 1 \in 1 .. NFiles + 1 /\ 0 \in 0 .. MaxLen /\ 0 \in 0 .. NFiles
        /\ <<>> \in Seq(Messages) /\ 1 \in 1 .. RetryTimes
    BY TransferAssumption
  <2> QED
    BY <2>1 DEF Init, Connected, TypeOK
<1> QED
  BY <1>1, <1>2 DEF IInv

LEMMA StutterKeeps ==
  ASSUME IInv, UNCHANGED vars
  PROVE  IInv'
<1>1. UNCHANGED <<source, path, dest, spc, sfile, spos, answers, rpc, rfile, rpos, inhand, wire,
                  reply, link, attempt, lost, faults>>
  BY DEF vars, senderVars, receiverVars
<1>2. TypeOK'
  BY DEF IInv, TypeOK, vars, senderVars, receiverVars
<1>3. Labelled'
  BY <1>1, LabelledStill DEF IInv, TypeOK, AtSender, Joined
<1>4. Headers'
  <2>1. PICK w \in Seq(Messages) : w = wire
    BY DEF IInv, TypeOK
  <2> QED
    BY <1>1, <2>1, StaysKept, HeadersCome DEF IInv, Headers
<1>5. ReceiverPlace' /\ InHand' /\ Finished' /\ SenderPlace'
  BY <1>1, ReceiverStill, SenderStill DEF IInv, senderVars, receiverVars
<1>6. Promised'
  BY <1>1, StaysKept, PromisedKept DEF IInv
<1>7. Orderly'
  BY <1>1 DEF IInv, Orderly
<1> QED
  BY <1>2, <1>3, <1>4, <1>5, <1>6, <1>7 DEF IInv

LEMMA StepKeeps == IInv /\ [Next]_vars => IInv'
<1> SUFFICES ASSUME IInv, [Next]_vars PROVE IInv'
  OBVIOUS
<1>1. CASE Sender
  BY <1>1, SendMetaKeeps, RecvRspKeeps, SendHeaderKeeps, SendDataKeeps, SendDoneKeeps,
     SenderClosesKeeps DEF Sender
<1>2. CASE Receiver
  BY <1>2, RecvMetaKeeps, RecvHeaderKeeps, RecvDataKeeps, WriteDataKeeps, RecvEndKeeps DEF Receiver
<1>3. CASE SenderFails
  BY <1>3, SenderFailsKeeps
<1>4. CASE ReadLoses
  BY <1>4, ReadLosesKeeps
<1>5. CASE ReceiverFails
  BY <1>5, ReceiverFailsKeeps
<1>6. CASE Break
  BY <1>6, BreakKeeps
<1>7. CASE Redial
  BY <1>7, RedialKeeps
<1>8. CASE UNCHANGED vars
  BY <1>8, StutterKeeps
<1> QED
  BY <1>1, <1>2, <1>3, <1>4, <1>5, <1>6, <1>7, <1>8 DEF Next

(* The inductive invariant holds of every attempt, whatever was lost before. *)
THEOREM Invariance == Spec => []IInv
BY InitHolds, StepKeeps, PTL DEF Spec

(* No write goes outside what the code declares: positions stay within the
   files, and the directory holds files throughout. *)
THEOREM TypeCorrect == Spec => []TypeOK
<1>1. IInv => TypeOK
  BY DEF IInv
<1> QED
  BY <1>1, Invariance, PTL

(* The receiver of recv.go never takes a header for data or data for a header,
   though nothing on the channel tells them apart, in an attempt in which no
   Read has lost a message. *)
THEOREM FramingHolds == Spec => []Framing
<1>1. IInv => Framing
  <2> SUFFICES ASSUME IInv, Whole, rpc \in {"meta", "header", "data"}, wire # <<>>
               PROVE  Head(wire).type \in {rpc, "eof", "err"}
    BY DEF Framing
  <2>1. PICK s \in Places, t \in Places : AtReceiver(s) /\ Leads(source, s, Head(wire), t)
    BY HeadLeads DEF IInv, Live
  <2> QED
    BY <2>1 DEF Leads, AtReceiver, Ends
<1> QED
  BY <1>1, Invariance, PTL

(* What receiveByWormhole has written of a file is the beginning of the sender's
   file, and all of it once the file is finished, when no Read has lost a message
   in this attempt and no other file is received in the same place. *)
THEOREM ReceivedIsSentHolds == Spec => []ReceivedIsSent
<1>1. IInv => ReceivedIsSent
  <2> DEFINE copying == rpc \in {"data", "write"}
  <2> SUFFICES ASSUME IInv, Whole, copying \/ rpc \in {"header", "ok"}
               PROVE  /\ copying /\ Sole(rfile) =>
                           SubSeq(dest[path[rfile]], 1, rpos) = SubSeq(source[rfile], 1, rpos)
                      /\ \A i \in 1 .. (IF copying THEN rfile - 1 ELSE rfile) :
                           Sole(i) => IsPrefix(source[i], dest[path[i]])
    BY DEF ReceivedIsSent
  <2>1. ASSUME copying, Sole(rfile)
        PROVE  SubSeq(dest[path[rfile]], 1, rpos) = SubSeq(source[rfile], 1, rpos)
    <3>1. rfile \in Files /\ rpos < Size(rfile) /\ Agree(rfile, rpos)
      BY <2>1 DEF IInv, ReceiverPlace
    <3>2. rpos \in Nat /\ path[rfile] \in Files
      BY <3>1, TransferAssumption DEF IInv, TypeOK
    <3>3. PICK s, t : s = source[rfile] /\ t = dest[path[rfile]]
      OBVIOUS
    <3>4. s \in Seq(Chunks) /\ t \in Seq(Chunks) /\ rpos <= Len(s) /\ rpos <= Len(t)
      BY <3>1, <3>2, <3>3, DestIs DEF IInv, Agree
    <3>5. \A k \in 1 .. rpos : t[k] = s[k]
      BY <2>1, <3>1, <3>3 DEF Agree
    <3> QED
      BY <3>2, <3>3, <3>4, <3>5
  <2>2. ASSUME NEW i \in 1 .. (IF copying THEN rfile - 1 ELSE rfile), Sole(i)
        PROVE  IsPrefix(source[i], dest[path[i]])
    <3>1. i \in Files
      BY TransferAssumption DEF IInv, TypeOK, Files
    <3>2. Agree(i, Size(i)) /\ path[i] \in Files
      BY <3>1 DEF IInv, Finished, TypeOK
    <3> QED
      BY <2>2, <3>1, <3>2, DestIs, PrefixAgrees DEF IInv, Agree
  <2> QED
    BY <2>1, <2>2
<1> QED
  BY <1>1, Invariance, PTL

(* Without a fault no call of send.go or recv.go fails, and receiveByWormhole
   takes no end of the channel for success before it has every file. *)
THEOREM CompleteUnlessFaultHolds == Spec => []CompleteUnlessFault
<1>1. IInv => CompleteUnlessFault
  BY DEF IInv, Orderly, CompleteUnlessFault
<1> QED
  BY <1>1, Invariance, PTL

(* A beginning of a file, once on the receiver's disk, is never lost to a
   retry: it stays a beginning and only grows, as long as the attempt loses no
   message and no other file is received in its place. *)
THEOREM ProgressKeptHolds == Spec => ProgressKept
<1>1. ASSUME IInv, [Next]_vars, NEW i \in Files, Whole, Sole(i),
             dest[path[i]] # None, IsPrefix(dest[path[i]], source[i])
      PROVE  IsPrefix(dest[path[i]], dest'[path[i]]) /\ IsPrefix(dest'[path[i]], source[i])
  <2>1. path[i] \in Files
    BY <1>1 DEF IInv, TypeOK
  <2>2. /\ dest[path[i]] \in Seq(Chunks) /\ Len(dest[path[i]]) \in Nat
        /\ source[i] \in Seq(Chunks) /\ Len(source[i]) \in Nat /\ Size(i) = Len(source[i])
    BY <1>1, <2>1, DestIs DEF IInv
  <2>3. /\ Len(dest[path[i]]) <= Len(source[i])
        /\ \A k \in 1 .. Len(dest[path[i]]) : dest[path[i]][k] = source[i][k]
    BY <1>1, <2>2, PrefixAgrees
  <2>4. CASE dest'[path[i]] = dest[path[i]]
    BY <1>1, <2>2, <2>4, PrefixAgrees
  <2>5. CASE dest'[path[i]] # dest[path[i]]
    <3>1. WriteData
      BY <1>1, <2>1, <2>5, FileOpened, DestSteps DEF IInv
    <3>2. i = rfile
      <4>1. rfile \in Files /\ path[i] = path[rfile]
        BY <1>1, <2>1, <2>5, <3>1, DataWritten DEF IInv
      <4> QED
        BY <1>1, <4>1 DEF Sole
    <3>3. PICK f, g, s : f = dest[path[i]] /\ g = dest'[path[i]] /\ s = source[i]
      OBVIOUS
    <3>4. /\ rpos \in Nat /\ rpos < Len(s) /\ rpos <= Len(f)
          /\ g \in Contents
          /\ Len(g) = IF rpos < Len(f) THEN Len(f) ELSE rpos + 1
          /\ g[rpos + 1] = s[rpos + 1]
          /\ \A k \in 1 .. Len(f) : k # rpos + 1 => g[k] = f[k]
      BY <1>1, <2>2, <3>1, <3>2, <3>3, DataWritten DEF IInv
    <3>5. g \in Seq(Chunks) /\ Len(f) \in Nat /\ Len(s) \in Nat
      BY <2>2, <3>3, <3>4, ContentsAre
    <3>6. Len(f) <= Len(s) /\ \A k \in 1 .. Len(f) : f[k] = s[k]
      BY <2>3, <3>3
    <3>7. Len(f) <= Len(g) /\ Len(g) <= Len(s)
      BY <3>4, <3>5, <3>6
    <3>8. ASSUME NEW k \in 1 .. Len(f)
          PROVE  f[k] = g[k]
      BY <3>4, <3>6
    <3>9. ASSUME NEW k \in 1 .. Len(g)
          PROVE  g[k] = s[k]
      <4>1. CASE k = rpos + 1
        BY <3>4, <4>1
      <4>2. CASE k # rpos + 1
        <5>1. k \in 1 .. Len(f)
          BY <3>4, <3>5, <4>2
        <5> QED
          BY <3>4, <3>6, <4>2, <5>1
      <4> QED
        BY <4>1, <4>2
    <3> QED
      BY <2>2, <3>3, <3>5, <3>7, <3>8, <3>9, PrefixAgrees
  <2> QED
    BY <2>4, <2>5
<1>2. IInv /\ [Next]_vars =>
        [\A i \in Files :
           Whole /\ Sole(i) /\ dest[path[i]] # None /\ IsPrefix(dest[path[i]], source[i])
             => /\ IsPrefix(dest[path[i]], dest'[path[i]])
                /\ IsPrefix(dest'[path[i]], source[i])]_vars
  BY <1>1
<1> QED
  BY <1>2, Invariance, PTL DEF Spec, ProgressKept

=============================================================================
