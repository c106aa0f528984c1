-------------------------------- MODULE Codes --------------------------------
(***************************************************************************)
(* Wormhole codes: wordlist/wordlist.go, and newConn and requestCode, which *)
(* take them apart and make them.                                          *)
(*                                                                         *)
(* A code is the sequence of its parts, as Fields leaves them after white  *)
(* space, "-" and "+" were made the same.  A part is a word, told by its   *)
(* spelling without regard to case, or a number in digits.  A list has two *)
(* words for every byte, one for the even and one for the odd positions:   *)
(* it is a function from 0 .. 511 to words.  The octal encoding, which has *)
(* digits only, is left out.                                               *)
(***************************************************************************)
EXTENDS Integers, Sequences

Byte == 0 .. 255
SlotBound == 128 * 128 * 128   \* 2^21: the server hands out smaller slots

(* What Decode returns: ok says that the pass is not nil (it may be empty). *)
Invalid == [ok |-> FALSE, slot |-> 0, pass |-> <<>>]
Valid(slot, pass) == [ok |-> TRUE, slot |-> slot, pass |-> pass]

(* The word for byte b at position i, counted from 0. *)
WordAt(list, b, i) == list[2 * b + (i % 2)]

IndexOf(list, word) ==
  IF \E j \in 0 .. 511 : list[j] = word THEN CHOOSE j \in 0 .. 511 : list[j] = word ELSE -1

(* A part that is a word of the list, on the right side for its position. *)
Fits(list, part, i) == IndexOf(list, part) >= 0 /\ IndexOf(list, part) % 2 = i % 2

(* The bytes behind the parts from position first on, when all of them fit. *)
Bytes(list, code, first) ==
  [k \in 1 .. Len(code) - first |-> IndexOf(list, code[first + k]) \div 2]

-----------------------------------------------------------------------------
(* binary.PutUvarint and binary.Uvarint, for slots below SlotBound. *)

PutUvarint(slot) ==
  IF slot < 128 THEN <<slot>>
  ELSE IF slot < 128 * 128 THEN <<128 + (slot % 128), slot \div 128>>
  ELSE <<128 + (slot % 128), 128 + ((slot \div 128) % 128), slot \div (128 * 128)>>

(* The first byte without its high bit ends the number, which has 64 bits. *)
EndsAt(buf, n) ==
  /\ n \in 1 .. Len(buf) /\ buf[n] < 128
  /\ \A m \in 1 .. n - 1 : buf[m] >= 128
  /\ n < 10 \/ (n = 10 /\ buf[n] <= 1)

Foreign == -1   \* a slot of more than three bytes: none that was handed out
AnySlot == -2   \* no slot: the server is to choose one

UvarintValue(buf, n) ==
  IF n = 1 THEN buf[1]
  ELSE IF n = 2 THEN buf[1] - 128 + 128 * buf[2]
  ELSE IF n = 3 THEN buf[1] - 128 + 128 * (buf[2] - 128) + 128 * 128 * buf[3]
  ELSE Foreign

-----------------------------------------------------------------------------
(* The encodings. *)

VarintEncode(list, slot, pass) ==
  IF pass = <<>> THEN <<>>
  ELSE LET bytes == PutUvarint(slot) \o pass IN
       [i \in 1 .. Len(bytes) |-> WordAt(list, bytes[i], i - 1)]

VarintDecode(list, code) ==
  LET buf == Bytes(list, code, 0) IN
  IF \E i \in 1 .. Len(code) : ~Fits(list, code[i], i - 1) THEN Invalid
  ELSE IF ~\E n \in 1 .. Len(buf) : EndsAt(buf, n) THEN Invalid
  ELSE LET n == CHOOSE m \in 1 .. Len(buf) : EndsAt(buf, m) IN
       Valid(UvarintValue(buf, n), SubSeq(buf, n + 1, Len(buf)))

(* A number is told from a word by its form. *)
Number(n) == [number |-> n]
IsNumber(part) == "number" \in DOMAIN part

MagicEncode(list, slot, pass) ==
  IF pass = <<>> THEN <<>>
  ELSE [i \in 1 .. 1 + Len(pass) |->
          IF i = 1 THEN Number(slot) ELSE WordAt(list, pass[i - 1], i)]

MagicDecode(list, code) ==
  IF Len(code) < 2 THEN Invalid
  ELSE IF ~IsNumber(code[1]) THEN Invalid
  ELSE IF \E i \in 2 .. Len(code) : ~Fits(list, code[i], i) THEN Invalid
  ELSE Valid(code[1].number, Bytes(list, code, 1))

Encode(en, slot, pass) == VarintEncode(en, slot, pass)

(* The first encoding that finds a pass. *)
Decode(en, pgp, code) ==
  LET varint == VarintDecode(en, code)
      magic == MagicDecode(en, code) IN
  IF varint.ok THEN varint
  ELSE IF magic.ok THEN magic
  ELSE MagicDecode(pgp, code)

-----------------------------------------------------------------------------
(* Their uses. *)

(* newConn: what it dials with.  Without a code the server chooses the slot,
   and the pass is a new one; without a pass it is an error. *)
NewConn(en, pgp, code, random) ==
  IF code = <<>> THEN Valid(AnySlot, random) ELSE Decode(en, pgp, code)

(* The browser's Wormhole refuses an empty pass, too. *)
WebCode(en, pgp, code) ==
  IF Decode(en, pgp, code).pass = <<>> THEN Invalid ELSE Decode(en, pgp, code)

(* initPeerConnection: the code of a connection, for the slot in the InitMsg. *)
ConnCode(en, assigned, pass) == Encode(en, assigned, pass)

(* requestCode: an answer of the server without a key gives slot 0. *)
Unreachable == -1
Keyless == -2

Reserved(reply) == IF reply \in Nat THEN reply ELSE 0

RequestCode(en, reply, pass) == Encode(en, Reserved(reply), pass)

(* createCode: an error is only that the server was not reached. *)
CreateCode(en, reply, pass) ==
  [err |-> reply = Unreachable,
   code |-> IF reply = Unreachable THEN <<>> ELSE RequestCode(en, reply, pass)]
=============================================================================
