----------------------------- MODULE CodesProofs -----------------------------
(***************************************************************************)
(* Proofs about Codes, for every list of 512 different words, every slot   *)
(* the server hands out and every password.                                *)
(***************************************************************************)
EXTENDS Codes, TLAPS

Distinct(list) == \A j, k \in 0 .. 511 : list[j] = list[k] => j = k

(* A word is found where it is in the list. *)
LEMMA WordIndex ==
  ASSUME NEW list, Distinct(list), NEW j \in 0 .. 511
  PROVE  IndexOf(list, list[j]) = j
BY DEF IndexOf, Distinct

(* The word of a byte fits its position and leads back to the byte. *)
LEMMA WordOfByte ==
  ASSUME NEW list, Distinct(list), NEW b \in Byte, NEW i \in Nat
  PROVE  /\ Fits(list, WordAt(list, b, i), i)
         /\ IndexOf(list, WordAt(list, b, i)) \div 2 = b
<1>1. PICK r \in {0, 1} : r = i % 2
  OBVIOUS
<1>2. 2 * b + r \in 0 .. 511
  BY DEF Byte
<1>3. IndexOf(list, WordAt(list, b, i)) = 2 * b + r
  BY <1>1, <1>2, WordIndex DEF WordAt
<1>4. (2 * b + r) % 2 = r /\ (2 * b + r) \div 2 = b
  BY DEF Byte
<1> QED
  BY <1>1, <1>2, <1>3, <1>4 DEF Fits, Byte

(* A quotient is what its multiple leaves a small rest. *)
LEMMA DivOfSum ==
  ASSUME NEW d \in Nat, NEW r \in Nat, r < 128 * 128, NEW s, s = r + 128 * 128 * d
  PROVE  s \div (128 * 128) = d
OBVIOUS

(* A slot in bytes: where it ends and what it is, whatever comes after it. *)
LEMMA Uvarint ==
  ASSUME NEW slot \in Nat, slot < SlotBound, NEW pass \in Seq(Byte)
  PROVE  \E n \in 1 .. 3 :
           /\ PutUvarint(slot) \in Seq(Byte) /\ Len(PutUvarint(slot)) = n
           /\ EndsAt(PutUvarint(slot) \o pass, n)
           /\ UvarintValue(PutUvarint(slot) \o pass, n) = slot
<1>0. slot \in Nat /\ slot < 128 * (128 * 128)
  BY SMT DEF SlotBound
<1>1. CASE slot < 128
  <2> DEFINE buf == <<slot>> \o pass
  <2>1. PutUvarint(slot) = <<slot>>
    BY <1>1 DEF PutUvarint
  <2>2. <<slot>> \in Seq(Byte) /\ Len(<<slot>>) = 1 /\ Len(buf) >= 1 /\ buf[1] = slot
    BY <1>1 DEF Byte
  <2>3. EndsAt(buf, 1) /\ UvarintValue(buf, 1) = slot
    BY <1>1, <2>2 DEF EndsAt, UvarintValue
  <2> QED
    BY <2>1, <2>2, <2>3
<1>2. CASE slot >= 128 /\ slot < 128 * 128
  <2> DEFINE low == slot % 128
             high == slot \div 128
             buf == <<128 + low, high>> \o pass
  <2>1. PutUvarint(slot) = <<128 + low, high>>
    BY <1>2 DEF PutUvarint
  <2>2. low \in 0 .. 127 /\ high \in 1 .. 127 /\ slot = low + 128 * high
    BY <1>2
  <2>3. <<128 + low, high>> \in Seq(Byte) /\ Len(<<128 + low, high>>) = 2
    BY <2>2 DEF Byte
  <2>4. Len(buf) >= 2 /\ buf[1] = 128 + low /\ buf[2] = high
    BY <2>2
  <2> HIDE DEF low, high, buf
  <2>5. EndsAt(buf, 2) /\ UvarintValue(buf, 2) = slot
    BY <2>2, <2>4 DEF EndsAt, UvarintValue
  <2> QED
    BY <2>1, <2>3, <2>5 DEF buf
<1>3. CASE slot >= 128 * 128
  <2> DEFINE low == slot % 128
             middle == (slot \div 128) % 128
             high == slot \div (128 * 128)
             buf == <<128 + low, 128 + middle, high>> \o pass
  <2>1. PutUvarint(slot) = <<128 + low, 128 + middle, high>>
    BY <1>3 DEF PutUvarint
  <2>2. /\ low \in 0 .. 127 /\ middle \in 0 .. 127 /\ high \in 1 .. 127
        /\ slot = low + 128 * middle + 128 * 128 * high
    <3> DEFINE q == slot \div 128
    <3>1. q \in Nat /\ q >= 128 /\ q < 128 * 128 /\ low \in 0 .. 127 /\ slot = low + 128 * q
      BY <1>0, <1>3
    <3>2. q % 128 \in 0 .. 127 /\ q \div 128 \in 1 .. 127 /\ q = (q % 128) + 128 * (q \div 128)
      <4> HIDE DEF q
      <4> QED
        BY <3>1
    <3>3. slot \div (128 * 128) = q \div 128
      <4> HIDE DEF q, low
      <4>1. slot = (low + 128 * (q % 128)) + 128 * 128 * (q \div 128)
        BY <3>1, <3>2
      <4>2. low + 128 * (q % 128) \in Nat /\ low + 128 * (q % 128) < 128 * 128
        BY <3>1, <3>2
      <4>3. q \div 128 \in Nat
        BY <3>1, <3>2
      <4> QED
        BY <4>1, <4>2, <4>3, DivOfSum
    <3> QED
      BY <3>1, <3>2, <3>3
  <2>3. /\ <<128 + low, 128 + middle, high>> \in Seq(Byte)
        /\ Len(<<128 + low, 128 + middle, high>>) = 3
    BY <2>2 DEF Byte
  <2>4. Len(buf) >= 3 /\ buf[1] = 128 + low /\ buf[2] = 128 + middle /\ buf[3] = high
    BY <2>2
  <2> HIDE DEF low, middle, high, buf
  <2>5. EndsAt(buf, 3) /\ UvarintValue(buf, 3) = slot
    BY <2>2, <2>4 DEF EndsAt, UvarintValue
  <2> QED
    BY <2>1, <2>3, <2>5 DEF buf
<1>4. slot < 128 \/ (slot >= 128 /\ slot < 128 * 128) \/ slot >= 128 * 128
  BY <1>0
<1> QED
  BY <1>1, <1>2, <1>3, <1>4, Zenon

(* Bytes become words that all fit and lead back to the bytes. *)
LEMMA WordsOfBytes ==
  ASSUME NEW list, Distinct(list), NEW bytes \in Seq(Byte),
         NEW code, code = [i \in 1 .. Len(bytes) |-> WordAt(list, bytes[i], i - 1)]
  PROVE  /\ Len(code) = Len(bytes)
         /\ \A i \in 1 .. Len(code) : Fits(list, code[i], i - 1)
         /\ Bytes(list, code, 0) = bytes
<1>1. Len(code) = Len(bytes) /\ Len(code) \in Nat
  OBVIOUS
<1>2. ASSUME NEW i \in 1 .. Len(bytes)
      PROVE  Fits(list, code[i], i - 1) /\ IndexOf(list, code[i]) \div 2 = bytes[i]
  <2>1. bytes[i] \in Byte /\ i - 1 \in Nat /\ code[i] = WordAt(list, bytes[i], i - 1)
    OBVIOUS
  <2> QED
    BY <2>1, WordOfByte
<1>3. Bytes(list, code, 0) = [k \in 1 .. Len(bytes) |-> bytes[k]]
  BY <1>1, <1>2 DEF Bytes
<1> QED
  BY <1>1, <1>2, <1>3

(* A number in bytes ends at one place only. *)
LEMMA OneEnd ==
  ASSUME NEW buf \in Seq(Byte), NEW m \in 1 .. Len(buf), NEW n \in 1 .. Len(buf),
         EndsAt(buf, m), EndsAt(buf, n)
  PROVE  m = n
<1>1. buf[m] \in Nat /\ buf[n] \in Nat
  <2>1. buf[m] \in Byte /\ buf[n] \in Byte
    OBVIOUS
  <2>2. \A b \in Byte : b \in Nat
    BY DEF Byte
  <2> QED
    BY <2>1, <2>2, Zenon
<1>2. ~(m < n) /\ ~(n < m)
  BY <1>1 DEF EndsAt
<1> QED
  BY <1>2

(* The words of bytes are decoded to the number in front and the bytes after it. *)
LEMMA DecodeBytes ==
  ASSUME NEW list, Distinct(list), NEW buf \in Seq(Byte),
         NEW n \in 1 .. Len(buf), EndsAt(buf, n),
         NEW code, code = [i \in 1 .. Len(buf) |-> WordAt(list, buf[i], i - 1)]
  PROVE  VarintDecode(list, code)
           = Valid(UvarintValue(buf, n), SubSeq(buf, n + 1, Len(buf)))
<1>1. /\ Bytes(list, code, 0) = buf
      /\ \A i \in 1 .. Len(code) : Fits(list, code[i], i - 1)
  BY WordsOfBytes
<1>2. (CHOOSE m \in 1 .. Len(buf) : EndsAt(buf, m)) = n
  <2>1. ASSUME NEW m \in 1 .. Len(buf), EndsAt(buf, m)
        PROVE  m = n
    BY <2>1, OneEnd
  <2> QED
    BY <2>1
<1>3. ~\E i \in 1 .. Len(code) : ~Fits(list, code[i], i - 1)
  BY <1>1
<1>4. \E m \in 1 .. Len(buf) : EndsAt(buf, m)
  OBVIOUS
<1> QED
  BY <1>1, <1>2, <1>3, <1>4, Zenon DEF VarintDecode

(* A code that Encode made for a slot of the server is decoded to that slot
   and that password: also at the slots where the encoding grows by a byte. *)
THEOREM RoundTrip ==
  ASSUME NEW list, Distinct(list),
         NEW slot \in Nat, slot < SlotBound, NEW pass \in Seq(Byte), pass # <<>>
  PROVE  VarintDecode(list, VarintEncode(list, slot, pass)) = Valid(slot, pass)
<1> DEFINE buf == PutUvarint(slot) \o pass
           code == VarintEncode(list, slot, pass)
<1>1. PICK n \in 1 .. 3 :
        /\ PutUvarint(slot) \in Seq(Byte) /\ Len(PutUvarint(slot)) = n
        /\ EndsAt(buf, n) /\ UvarintValue(buf, n) = slot
  BY Uvarint
<1>2. code = [i \in 1 .. Len(buf) |-> WordAt(list, buf[i], i - 1)]
  BY DEF VarintEncode
<1>3. buf \in Seq(Byte) /\ SubSeq(buf, n + 1, Len(buf)) = pass
  BY <1>1
<1> HIDE DEF buf, code
<1>4. n \in 1 .. Len(buf)
  BY <1>1 DEF EndsAt
<1>5. VarintDecode(list, code) = Valid(UvarintValue(buf, n), SubSeq(buf, n + 1, Len(buf)))
  <2>1. EndsAt(buf, n)
    BY <1>1
  <2> QED
    BY <2>1, <1>2, <1>3, <1>4, DecodeBytes, Zenon
<1>6. VarintDecode(list, code) = Valid(slot, pass)
  BY <1>1, <1>3, <1>5
<1> QED
  BY <1>6 DEF code

(* Whoever is given an encoded code dials with its slot and its password. *)
LEMMA Dialled ==
  ASSUME NEW en, NEW pgp, Distinct(en), NEW random,
         NEW slot \in Nat, slot < SlotBound, NEW pass \in Seq(Byte), pass # <<>>
  PROVE  NewConn(en, pgp, Encode(en, slot, pass), random) = Valid(slot, pass)
<1> DEFINE code == VarintEncode(en, slot, pass)
           bytes == PutUvarint(slot) \o pass
<1>1. bytes \in Seq(Byte) /\ Len(bytes) > 0
  BY Uvarint
<1>2. code = [i \in 1 .. Len(bytes) |-> WordAt(en, bytes[i], i - 1)]
  BY DEF VarintEncode
<1>3. VarintDecode(en, code) = Valid(slot, pass)
  BY RoundTrip
<1> HIDE DEF bytes, code
<1>4. code # <<>>
  <2>1. Len(code) = Len(bytes)
    BY <1>1, <1>2
  <2> QED
    BY <1>1, <2>1
<1>5. Decode(en, pgp, code) = Valid(slot, pass)
  BY <1>3 DEF Decode, Valid
<1>6. NewConn(en, pgp, code, random) = Valid(slot, pass)
  BY <1>4, <1>5 DEF NewConn
<1> QED
  BY <1>6 DEF code, Encode

(* The code that a client shows leads its peer to the slot the server gave  *)
(* it, with its password.                                                    *)
THEOREM CodeOfConnection ==
  ASSUME NEW en, NEW pgp, Distinct(en), NEW random,
         NEW slot \in Nat, slot < SlotBound, NEW pass \in Seq(Byte), pass # <<>>
  PROVE  NewConn(en, pgp, ConnCode(en, slot, pass), random) = Valid(slot, pass)
BY Dialled DEF ConnCode

(* The code that createCode returns without an error leads to the reserved   *)
(* slot; or to slot 0, which nobody reserved, for an answer without a key.   *)
THEOREM CodeOfReservation ==
  ASSUME NEW en, NEW pgp, Distinct(en), NEW random,
         NEW reply \in Int, reply < SlotBound, NEW pass \in Seq(Byte), pass # <<>>,
         ~CreateCode(en, reply, pass).err
  PROVE  /\ reply \in Nat =>
              NewConn(en, pgp, CreateCode(en, reply, pass).code, random) = Valid(reply, pass)
         /\ reply = Keyless =>
              NewConn(en, pgp, CreateCode(en, reply, pass).code, random) = Valid(0, pass)
<1>1. CreateCode(en, reply, pass).code = Encode(en, Reserved(reply), pass)
  BY DEF CreateCode, RequestCode
<1>2. /\ reply \in Nat => Reserved(reply) = reply
      /\ reply = Keyless => Reserved(reply) = 0
  BY DEF Reserved, Keyless
<1>3. 0 \in Nat /\ 0 < SlotBound
  BY SMT DEF SlotBound
<1>4. ASSUME reply \in Nat
      PROVE  NewConn(en, pgp, Encode(en, reply, pass), random) = Valid(reply, pass)
  BY <1>4, Dialled
<1>5. NewConn(en, pgp, Encode(en, 0, pass), random) = Valid(0, pass)
  BY <1>3, Dialled
<1> QED
  BY <1>1, <1>2, <1>4, <1>5

(* A word has one side only, the one of its place. *)
LEMMA OneSide ==
  ASSUME NEW list, NEW word, NEW i \in Nat, Fits(list, word, i)
  PROVE  ~Fits(list, word, i + 1)
<1>1. IndexOf(list, word) \in Nat
  <2>1. CASE \E j \in 0 .. 511 : list[j] = word
    <3>1. PICK j \in 0 .. 511 : IndexOf(list, word) = j
      BY <2>1, Zenon DEF IndexOf
    <3> QED
      BY <3>1
  <2>2. CASE ~\E j \in 0 .. 511 : list[j] = word
    <3>1. IndexOf(list, word) = -1
      BY <2>2, Zenon DEF IndexOf
    <3> QED
      BY <3>1 DEF Fits
  <2> QED
    BY <2>1, <2>2
<1> QED
  BY <1>1 DEF Fits

(* Two lists of words are there to notice a word that was left out, unless   *)
(* it is the last one: every word after it is on the wrong side.             *)
THEOREM WordLeftOut ==
  ASSUME NEW list, Distinct(list), NEW bytes \in Seq(Byte),
         NEW code, code = [i \in 1 .. Len(bytes) |-> WordAt(list, bytes[i], i - 1)],
         NEW k \in 1 .. Len(bytes) - 1,
         NEW heard, heard = [i \in 1 .. Len(bytes) - 1 |-> IF i < k THEN code[i] ELSE code[i + 1]]
  PROVE  VarintDecode(list, heard) = Invalid
<1>1. Len(heard) = Len(bytes) - 1 /\ heard[k] = code[k + 1] /\ Len(heard) \in Nat
  OBVIOUS
<1>2. Fits(list, code[k + 1], k)
  <2>1. Len(code) = Len(bytes) /\ \A i \in 1 .. Len(code) : Fits(list, code[i], i - 1)
    BY WordsOfBytes
  <2>2. k + 1 \in 1 .. Len(code) /\ (k + 1) - 1 = k
    BY <2>1
  <2> QED
    BY <2>1, <2>2
<1>3. ~Fits(list, code[k + 1], k - 1)
  <2>1. k - 1 \in Nat /\ (k - 1) + 1 = k
    OBVIOUS
  <2> QED
    BY <1>2, <2>1, OneSide
<1>4. \E i \in 1 .. Len(heard) : ~Fits(list, heard[i], i - 1)
  BY <1>1, <1>3
<1> QED
  BY <1>4, Zenon DEF VarintDecode

(* The words of the slot alone are a code: its pass is empty but not nil.    *)
(* newConn, which only asks for nil, dials with the empty password; the      *)
(* browser asks for the length and refuses.                                  *)
THEOREM SlotAlone ==
  ASSUME NEW en, NEW pgp, Distinct(en), NEW random,
         NEW slot \in Nat, slot < SlotBound, NEW code,
         code = [i \in 1 .. Len(PutUvarint(slot)) |-> WordAt(en, PutUvarint(slot)[i], i - 1)]
  PROVE  /\ NewConn(en, pgp, code, random) = Valid(slot, <<>>)
         /\ WebCode(en, pgp, code) = Invalid
<1> DEFINE buf == PutUvarint(slot)
<1>1. PICK n \in 1 .. 3 : buf \in Seq(Byte) /\ Len(buf) = n /\ EndsAt(buf, n) /\ UvarintValue(buf, n) = slot
  <2>1. PutUvarint(slot) \o <<>> = PutUvarint(slot) /\ <<>> \in Seq(Byte)
    BY Uvarint
  <2> QED
    BY <2>1, Uvarint
<1>2. code = [i \in 1 .. Len(buf) |-> WordAt(en, buf[i], i - 1)]
  OBVIOUS
<1> HIDE DEF buf
<1>3. SubSeq(buf, n + 1, Len(buf)) = <<>>
  BY <1>1
<1>4. VarintDecode(en, code) = Valid(UvarintValue(buf, n), SubSeq(buf, n + 1, Len(buf)))
  BY <1>1, <1>2, DecodeBytes
<1>5. Decode(en, pgp, code) = Valid(slot, <<>>)
  <2>1. VarintDecode(en, code) = Valid(slot, <<>>)
    BY <1>1, <1>3, <1>4
  <2> QED
    BY <2>1 DEF Decode, Valid
<1>6. code # <<>>
  <2>1. Len(code) = Len(buf)
    BY <1>1, <1>2
  <2> QED
    BY <1>1, <2>1
<1> QED
  BY <1>5, <1>6 DEF NewConn, WebCode, Valid
==============================================================================
