-------------------------------- MODULE Crc32 --------------------------------
(***************************************************************************)
(* The checksum sendJPEG puts in front of every JPEG (crc32.cpp), and the  *)
(* client that computes it again over what it received.                    *)
(*                                                                         *)
(* A machine word is the set of the positions of its bits that are 1, so   *)
(* that exclusive or is symmetric difference.                              *)
(***************************************************************************)
EXTENDS Integers, Sequences

Word == SUBSET (0 .. 31)
Byte == SUBSET (0 .. 7)

CONSTANTS
    Messages,      \* the buffers a checksum is computed of
    Errors         \* what can happen to one byte of a buffer under way

ASSUME CrcAssumption ==
    /\ Messages \subseteq Seq(Byte)
    /\ Errors \subseteq Byte \ {{}}

VARIABLES
    pc,            \* "idle", "update", "done"
    buf, i,        \* the arguments and the counter of crc32_update
    value,         \* the field of crc32_t
    received,      \* buf as the client received it
    check,         \* the client's value
    register       \* what the value is to be: see Shift below

vars == <<pc, buf, i, value, received, check, register>>

-----------------------------------------------------------------------------
(* Words                                                                   *)

Xor(v, w) == (v \ w) \cup (w \ v)

(* Variant: the wrong direction.                                           *)
ShiftLeft(v, n) == {j + n : j \in v}

ShiftRight(v, n) == {j \in 0 .. 31 : j + n \in v}

AllOnes == 0 .. 31

(* 0xedb88320                                                              *)
CRC32_INITIAL == {5, 8, 9, 15, 19, 20, 21, 23, 24, 26, 27, 29, 30, 31}

-----------------------------------------------------------------------------
(* crc32.cpp                                                               *)

Round(v) ==
    IF 0 \in v THEN Xor(CRC32_INITIAL, ShiftRight(v, 1)) ELSE ShiftRight(v, 1)

EightRounds(v) ==
    Round(Round(Round(Round(Round(Round(Round(Round(v))))))))

(* crc32_init                                                              *)
Table == [b \in Byte |-> EightRounds(b)]

LowByte(v) == v \cap (0 .. 7)

(* Variant: shifts before it looks the byte up.                            *)
UpdateShiftedFirst(v, b) ==
    Xor(Table[LowByte(Xor(ShiftRight(v, 8), b))], ShiftRight(v, 8))

Update(v, b) == Xor(Table[LowByte(Xor(v, b))], ShiftRight(v, 8))

(* Variant: the value is not inverted.                                     *)
Crc32FinalizePlain(v) == v

Crc32Finalize(v) == Xor(v, AllOnes)

-----------------------------------------------------------------------------
(* The reference: the division of the message by the polynomial in a shift *)
(* register, one bit at a time, the lowest bit of each byte first.         *)

Shift(v, bit) ==
    LET shifted == ShiftRight(v, 1) IN
    IF (0 \in v) # bit THEN Xor(CRC32_INITIAL, shifted) ELSE shifted

ShiftByte(v, b) ==
    Shift(Shift(Shift(Shift(Shift(Shift(Shift(Shift(v,
        0 \in b), 1 \in b), 2 \in b), 3 \in b), 4 \in b), 5 \in b), 6 \in b), 7 \in b)

-----------------------------------------------------------------------------

(* What can arrive of a message: the message itself, or one byte of it     *)
(* changed.                                                                *)
Copies(message) ==
    {message}
      \cup {[message EXCEPT ![k] = Xor(@, e)] : k \in 1 .. Len(message), e \in Errors}

Init ==
    /\ pc = "idle"
    /\ buf = <<>> /\ received = <<>> /\ i = 0
    /\ value = {} /\ check = {} /\ register = {}

Crc32Start ==
    /\ value' = AllOnes
    /\ check' = AllOnes
    /\ register' = AllOnes

(* crc32_crc is called for the next JPEG.                                  *)
Crc32Crc(message, copy) ==
    /\ pc \in {"idle", "done"}
    /\ pc' = "update"
    /\ buf' = message
    /\ received' = copy
    /\ i' = 0
    /\ Crc32Start

(* Variant: leaves the last byte out.                                      *)
BytesLeftButOne == i + 1 < Len(buf)

BytesLeft == i < Len(buf)

Crc32Update ==
    /\ pc = "update"
    /\ BytesLeft
    /\ i' = i + 1
    /\ value' = Update(value, buf[i + 1])
    /\ check' = Update(check, received[i + 1])
    /\ register' = ShiftByte(register, buf[i + 1])
    /\ UNCHANGED <<pc, buf, received>>

Crc32Return ==
    /\ pc = "update"
    /\ ~BytesLeft
    /\ pc' = "done"
    /\ UNCHANGED <<buf, i, value, received, check, register>>

Next ==
    \/ \E message \in Messages :
         \E copy \in Copies(message) : Crc32Crc(message, copy)
    \/ Crc32Update
    \/ Crc32Return

Spec == Init /\ [][Next]_vars

-----------------------------------------------------------------------------

(* The values of all variables.                                            *)
TypeOK ==
    /\ pc \in {"idle", "update", "done"}
    /\ buf \in Seq(Byte) /\ received \in Seq(Byte)
    /\ Len(received) = Len(buf)
    /\ i \in 0 .. Len(buf)
    /\ value \in Word /\ check \in Word /\ register \in Word

(* The table makes one step of eight of the shift register: after every    *)
(* byte the value is what the bit by bit division has got                  *)
(* (crc32.cpp: 9-16, 21).                                                  *)
AgreesWithShiftRegister == value = register

(* The client takes a JPEG that arrived unchanged, and no JPEG of which    *)
(* one byte has changed, whatever the change, wherever the byte and        *)
(* however long the JPEG.                                                  *)
DamageDetected ==
    pc = "done"
      => (Crc32Finalize(check) = Crc32Finalize(value) <=> received = buf)

(* CRC-32 of the nine digits "123456789" is 0xcbf43926, as everywhere.     *)
Digits ==
    <<{0, 4, 5}, {1, 4, 5}, {0, 1, 4, 5}, {2, 4, 5}, {0, 2, 4, 5}, {1, 2, 4, 5},
      {0, 1, 2, 4, 5}, {3, 4, 5}, {0, 3, 4, 5}>>

KnownAnswer ==
    pc = "done" /\ buf = Digits
      => Crc32Finalize(value)
           = {1, 2, 5, 8, 11, 12, 13, 18, 20, 21, 22, 23, 24, 25, 27, 30, 31}

=============================================================================
