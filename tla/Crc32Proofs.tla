----------------------------- MODULE Crc32Proofs -----------------------------
(***************************************************************************)
(* The checksum is what it is to be, for messages of any length and any    *)
(* bytes.                                                                  *)
(***************************************************************************)
EXTENDS Crc32, TLAPS

-----------------------------------------------------------------------------
(* Shifts and exclusive or                                                 *)

(* Both yield words.                                                       *)
LEMMA XorWord == ASSUME NEW v \in Word, NEW w \in Word PROVE Xor(v, w) \in Word
BY DEF Xor, Word

LEMMA ShiftWord ==
    ASSUME NEW v \in Word, NEW n \in Nat PROVE ShiftRight(v, n) \in Word
BY DEF ShiftRight, Word

(* Exclusive or can be undone.                                             *)
LEMMA XorCancels == ASSUME NEW u, NEW v, NEW w, Xor(u, w) = Xor(v, w) PROVE u = v
<1>1. \A j : j \in u <=> j \in v
  BY DEF Xor
<1> QED
  BY <1>1

LEMMA XorAssociative ==
    ASSUME NEW u, NEW v, NEW w PROVE Xor(Xor(u, v), w) = Xor(u, Xor(v, w))
BY DEF Xor

(* A shift moves the bits of both words alike.                             *)
LEMMA ShiftXor ==
    ASSUME NEW v \in Word, NEW w \in Word, NEW n \in Nat
    PROVE  ShiftRight(Xor(v, w), n) = Xor(ShiftRight(v, n), ShiftRight(w, n))
BY DEF Xor, ShiftRight, Word

LEMMA ShiftNothing == ASSUME NEW v \in Word PROVE ShiftRight(v, 0) = v
<1>1. \A j \in 0 .. 31 : j + 0 = j
  OBVIOUS
<1>2. \A j : j \in v => j \in 0 .. 31
  BY DEF Word
<1>3. \A j : j \in ShiftRight(v, 0) <=> j \in v
  BY <1>1, <1>2 DEF ShiftRight
<1> QED
  BY <1>3

LEMMA ShiftShift ==
    ASSUME NEW v \in Word, NEW n \in Nat
    PROVE  ShiftRight(ShiftRight(v, n), 1) = ShiftRight(v, n + 1)
<1>1. \A j \in 0 .. 31 : j + 1 \in ShiftRight(v, n) <=> j + (n + 1) \in v
  BY DEF ShiftRight, Word
<1> QED
  BY <1>1 DEF ShiftRight

-----------------------------------------------------------------------------
(* One round                                                               *)

LEMMA PolynomialWord == CRC32_INITIAL \in Word /\ 31 \in CRC32_INITIAL
BY DEF CRC32_INITIAL, Word

LEMMA RoundWord == ASSUME NEW v \in Word PROVE Round(v) \in Word
BY XorWord, ShiftWord, PolynomialWord DEF Round

(* The highest bit of a round's result tells the lowest of its argument,   *)
(* since the polynomial has the highest bit: no two words have the same    *)
(* result.                                                                 *)
LEMMA RoundInjective ==
    ASSUME NEW v \in Word, NEW w \in Word, Round(v) = Round(w) PROVE v = w
<1>1. 31 \notin ShiftRight(v, 1) /\ 31 \notin ShiftRight(w, 1)
  BY DEF ShiftRight, Word
<1>2. 0 \in v <=> 0 \in w
  BY <1>1, PolynomialWord DEF Round, Xor
<1>3. ShiftRight(v, 1) = ShiftRight(w, 1)
  <2>1. CASE 0 \in v
    <3>1. Xor(ShiftRight(v, 1), CRC32_INITIAL) = Xor(ShiftRight(w, 1), CRC32_INITIAL)
      BY <1>2, <2>1 DEF Round, Xor
    <3> QED
      BY <3>1, XorCancels
  <2>2. CASE 0 \notin v
    BY <1>2, <2>2 DEF Round
  <2> QED
    BY <2>1, <2>2
<1>4. \A j \in 1 .. 31 : j \in v <=> j \in w
  <2> TAKE j \in 1 .. 31
  <2>1. j - 1 \in 0 .. 31 /\ (j - 1) + 1 = j
    OBVIOUS
  <2> QED
    BY <1>3, <2>1 DEF ShiftRight
<1>5. \A j \in 0 .. 31 : j = 0 \/ j \in 1 .. 31
  OBVIOUS
<1>6. \A j : j \in v <=> j \in w
  BY <1>2, <1>4, <1>5 DEF Word
<1> QED
  BY <1>6

(* What is not in the lowest bit only moves.                               *)
LEMMA RoundXor ==
    ASSUME NEW v \in Word, NEW w \in Word, 0 \notin w
    PROVE  Round(Xor(v, w)) = Xor(Round(v), ShiftRight(w, 1))
<1>1. 0 \in Xor(v, w) <=> 0 \in v
  BY DEF Xor
<1>2. ShiftRight(Xor(v, w), 1) = Xor(ShiftRight(v, 1), ShiftRight(w, 1))
  BY ShiftXor
<1> QED
  BY <1>1, <1>2, XorAssociative DEF Round

(* A step of the shift register is a round, with the message's bit added   *)
(* to the lowest bit first.                                                *)
LEMMA ShiftIsRound ==
    ASSUME NEW v \in Word, NEW b \in Byte, NEW n \in 0 .. 7
    PROVE  Round(Xor(v, ShiftRight(b, n)))
             = Xor(Shift(v, n \in b), ShiftRight(b, n + 1))
<1>1. b \in Word /\ ShiftRight(b, n) \in Word
  BY ShiftWord DEF Word, Byte
<1>2. 0 \in ShiftRight(b, n) <=> n \in b
  BY DEF ShiftRight, Byte
<1>3. 0 \in Xor(v, ShiftRight(b, n)) <=> ((0 \in v) # (n \in b))
  BY <1>2 DEF Xor
<1>4. ShiftRight(Xor(v, ShiftRight(b, n)), 1)
        = Xor(ShiftRight(v, 1), ShiftRight(b, n + 1))
  BY <1>1, ShiftXor, ShiftShift
<1> QED
  BY <1>3, <1>4, XorAssociative DEF Round, Shift

LEMMA ShiftIsWord ==
    ASSUME NEW v \in Word, NEW b, NEW n PROVE Shift(v, n \in b) \in Word
BY XorWord, ShiftWord, PolynomialWord DEF Shift

-----------------------------------------------------------------------------
(* Eight rounds                                                            *)

LEMMA EightRoundsWord == ASSUME NEW v \in Word PROVE EightRounds(v) \in Word
BY RoundWord DEF EightRounds

LEMMA EightRoundsInjective ==
    ASSUME NEW v \in Word, NEW w \in Word, EightRounds(v) = EightRounds(w)
    PROVE  v = w
BY RoundWord, RoundInjective DEF EightRounds

(* A byte of the message is used up after eight of them.                   *)
LEMMA EightRoundsShift ==
    ASSUME NEW v \in Word, NEW b \in Byte
    PROVE  EightRounds(Xor(v, b)) = ShiftByte(v, b) /\ ShiftByte(v, b) \in Word
<1> DEFINE s0 == v
           s1 == Shift(s0, 0 \in b)
           s2 == Shift(s1, 1 \in b)
           s3 == Shift(s2, 2 \in b)
           s4 == Shift(s3, 3 \in b)
           s5 == Shift(s4, 4 \in b)
           s6 == Shift(s5, 5 \in b)
           s7 == Shift(s6, 6 \in b)
           s8 == Shift(s7, 7 \in b)
           w(s, n) == Xor(s, ShiftRight(b, n))
<1>1. ShiftByte(v, b) = s8
  BY DEF ShiftByte
<1>2. s1 \in Word
  BY ShiftIsWord
<1> HIDE DEF s1
<1>3. s2 \in Word
  BY <1>2, ShiftIsWord
<1> HIDE DEF s2
<1>4. s3 \in Word
  BY <1>3, ShiftIsWord
<1> HIDE DEF s3
<1>5. s4 \in Word
  BY <1>4, ShiftIsWord
<1> HIDE DEF s4
<1>6. s5 \in Word
  BY <1>5, ShiftIsWord
<1> HIDE DEF s5
<1>7. s6 \in Word
  BY <1>6, ShiftIsWord
<1> HIDE DEF s6
<1>8. s7 \in Word
  BY <1>7, ShiftIsWord
<1> HIDE DEF s7
<1>9. s8 \in Word
  BY <1>8, ShiftIsWord
<1> HIDE DEF s8, w
<1>10. /\ Round(w(s0, 0)) = w(s1, 1) /\ Round(w(s1, 1)) = w(s2, 2)
       /\ Round(w(s2, 2)) = w(s3, 3) /\ Round(w(s3, 3)) = w(s4, 4)
       /\ Round(w(s4, 4)) = w(s5, 5) /\ Round(w(s5, 5)) = w(s6, 6)
       /\ Round(w(s6, 6)) = w(s7, 7) /\ Round(w(s7, 7)) = w(s8, 8)
  <2> USE <1>2, <1>3, <1>4, <1>5, <1>6, <1>7, <1>8
  <2>1. Round(w(s0, 0)) = w(s1, 1)
    BY ShiftIsRound DEF w, s1
  <2>2. Round(w(s1, 1)) = w(s2, 2)
    BY ShiftIsRound DEF w, s2
  <2>3. Round(w(s2, 2)) = w(s3, 3)
    BY ShiftIsRound DEF w, s3
  <2>4. Round(w(s3, 3)) = w(s4, 4)
    BY ShiftIsRound DEF w, s4
  <2>5. Round(w(s4, 4)) = w(s5, 5)
    BY ShiftIsRound DEF w, s5
  <2>6. Round(w(s5, 5)) = w(s6, 6)
    BY ShiftIsRound DEF w, s6
  <2>7. Round(w(s6, 6)) = w(s7, 7)
    BY ShiftIsRound DEF w, s7
  <2>8. Round(w(s7, 7)) = w(s8, 8)
    BY ShiftIsRound DEF w, s8
  <2> QED
    BY <2>1, <2>2, <2>3, <2>4, <2>5, <2>6, <2>7, <2>8
<1>11. EightRounds(w(s0, 0)) = w(s8, 8)
  BY <1>10 DEF EightRounds
<1>12. w(s0, 0) = Xor(v, b)
  <2>1. ShiftRight(b, 0) = b
    BY ShiftNothing DEF Byte, Word
  <2> QED
    BY <2>1 DEF w
<1>13. w(s8, 8) = s8
  <2>1. ShiftRight(b, 8) = {}
    BY DEF ShiftRight, Byte
  <2> QED
    BY <2>1 DEF w, Xor
<1> QED
  BY <1>1, <1>9, <1>11, <1>12, <1>13

(* Eight rounds of a word are those of its low byte, with the rest of the  *)
(* word shifted.                                                           *)
LEMMA EightRoundsXor ==
    ASSUME NEW v \in Word, NEW w \in Word, \A j \in 0 .. 7 : j \notin w
    PROVE  EightRounds(Xor(v, w)) = Xor(EightRounds(v), ShiftRight(w, 8))
<1> DEFINE r(n) == ShiftRight(w, n)
<1>1. \A n \in 0 .. 7 : r(n) \in Word /\ 0 \notin r(n) /\ ShiftRight(r(n), 1) = r(n + 1)
  <2> TAKE n \in 0 .. 7
  <2>1. r(n) \in Word
    BY ShiftWord
  <2>2. 0 \notin r(n)
    BY DEF ShiftRight
  <2> QED
    BY <2>1, <2>2, ShiftShift
<1>2. \A n \in 0 .. 7 : \A u \in Word : Round(Xor(u, r(n))) = Xor(Round(u), r(n + 1))
  BY <1>1, RoundXor
<1>3. r(0) = w
  BY ShiftNothing
<1> DEFINE u1 == Round(v)
           u2 == Round(u1)
           u3 == Round(u2)
           u4 == Round(u3)
           u5 == Round(u4)
           u6 == Round(u5)
           u7 == Round(u6)
           u8 == Round(u7)
<1>4. /\ u1 \in Word /\ u2 \in Word /\ u3 \in Word /\ u4 \in Word
      /\ u5 \in Word /\ u6 \in Word /\ u7 \in Word
  BY RoundWord
<1>5. EightRounds(v) = u8
  BY DEF EightRounds
<1> HIDE DEF r
<1>6. /\ Round(Xor(v, r(0))) = Xor(u1, r(1)) /\ Round(Xor(u1, r(1))) = Xor(u2, r(2))
      /\ Round(Xor(u2, r(2))) = Xor(u3, r(3)) /\ Round(Xor(u3, r(3))) = Xor(u4, r(4))
      /\ Round(Xor(u4, r(4))) = Xor(u5, r(5)) /\ Round(Xor(u5, r(5))) = Xor(u6, r(6))
      /\ Round(Xor(u6, r(6))) = Xor(u7, r(7)) /\ Round(Xor(u7, r(7))) = Xor(u8, r(8))
  BY <1>2, <1>4
<1>7. EightRounds(Xor(v, w)) = Xor(u8, r(8))
  BY <1>3, <1>6 DEF EightRounds
<1> QED
  BY <1>5, <1>7 DEF r

-----------------------------------------------------------------------------
(* One byte: the table against the shift register                          *)

LEMMA UpdateIsEightRounds ==
    ASSUME NEW v \in Word, NEW b \in Byte
    PROVE  Update(v, b) = EightRounds(Xor(v, b))
<1> DEFINE x == Xor(v, b)
           high == x \ (0 .. 7)
<1>1. b \in Word /\ x \in Word /\ LowByte(x) \in Byte /\ LowByte(x) \in Word
  BY DEF Word, Byte, Xor, LowByte
<1>2. high \in Word /\ (\A j \in 0 .. 7 : j \notin high) /\ Xor(LowByte(x), high) = x
  BY <1>1 DEF Word, Xor, LowByte
<1>3. EightRounds(x) = Xor(EightRounds(LowByte(x)), ShiftRight(high, 8))
  BY <1>1, <1>2, EightRoundsXor
<1>4. ShiftRight(high, 8) = ShiftRight(v, 8)
  <2>1. \A j \in 0 .. 31 : j + 8 \in high <=> j + 8 \in v
    BY DEF Xor, Byte
  <2> QED
    BY <2>1 DEF ShiftRight
<1>5. Table[LowByte(x)] = EightRounds(LowByte(x))
  BY <1>1 DEF Table
<1> QED
  BY <1>3, <1>4, <1>5 DEF Update

(* The table makes one step of eight of the shift register.                *)
LEMMA UpdateIsShiftByte ==
    ASSUME NEW v \in Word, NEW b \in Byte
    PROVE  Update(v, b) = ShiftByte(v, b) /\ Update(v, b) \in Word
BY UpdateIsEightRounds, EightRoundsShift

(* Different values stay different under the same byte, and equal values   *)
(* become different under different bytes.                                 *)
LEMMA UpdateInjective ==
    ASSUME NEW v \in Word, NEW w \in Word, NEW a \in Byte, NEW b \in Byte,
           v = w \/ a = b, Update(v, a) = Update(w, b)
    PROVE  v = w /\ a = b
<1>1. a \in Word /\ b \in Word /\ Xor(v, a) \in Word /\ Xor(w, b) \in Word
  BY DEF Word, Byte, Xor
<1>2. Xor(v, a) = Xor(w, b)
  BY <1>1, UpdateIsEightRounds, EightRoundsInjective
<1>3. CASE a = b
  BY <1>2, <1>3, XorCancels
<1>4. CASE v = w
  <2>1. Xor(a, v) = Xor(b, v)
    BY <1>2, <1>4 DEF Xor
  <2> QED
    BY <1>4, <2>1, XorCancels
<1> QED
  BY <1>3, <1>4

-----------------------------------------------------------------------------
(* Whole messages                                                          *)

(* How the two buffers compare: they differ in one byte at most, and the   *)
(* two values differ once that byte has gone through.                      *)
CrcInv ==
    /\ TypeOK
    /\ value = register
    /\ \E k \in 1 .. Len(buf) \cup {0} :
         /\ \A j \in 1 .. Len(buf) : j # k => received[j] = buf[j]
         /\ k # 0 => received[k] # buf[k]
         /\ check = value <=> k = 0 \/ k > i
    /\ pc = "done" => i = Len(buf)

LEMMA CopyOfMessage ==
    ASSUME NEW message \in Messages, NEW copy \in Copies(message)
    PROVE  /\ message \in Seq(Byte) /\ copy \in Seq(Byte)
           /\ Len(copy) = Len(message)
           /\ \E k \in 1 .. Len(message) \cup {0} :
                /\ \A j \in 1 .. Len(message) : j # k => copy[j] = message[j]
                /\ k # 0 => copy[k] # message[k]
<1>1. message \in Seq(Byte) /\ Errors \subseteq Byte \ {{}}
  BY CrcAssumption
<1>2. CASE copy = message
  <2>1. \E k \in 1 .. Len(message) \cup {0} : k = 0
    OBVIOUS
  <2> QED
    BY <1>1, <1>2, <2>1
<1>3. CASE copy # message
  <2>1. PICK k \in 1 .. Len(message), e \in Errors :
             copy = [message EXCEPT ![k] = Xor(@, e)]
    BY <1>3 DEF Copies
  <2>2. message[k] \in Byte /\ e \in Byte /\ e # {}
    BY <1>1
  <2>3. Xor(message[k], e) \in Byte /\ Xor(message[k], e) # message[k]
    BY <2>2 DEF Xor, Byte
  <2>4. copy \in Seq(Byte) /\ Len(copy) = Len(message)
    BY <1>1, <2>1, <2>3
  <2>5. copy[k] # message[k] /\ \A j \in 1 .. Len(message) : j # k => copy[j] = message[j]
    BY <1>1, <2>1, <2>3
  <2> QED
    BY <1>1, <2>4, <2>5
<1> QED
  BY <1>2, <1>3

LEMMA CrcInvInit == Init => CrcInv
<1> SUFFICES ASSUME Init PROVE CrcInv
  OBVIOUS
<1>1. <<>> \in Seq(Byte) /\ Len(<<>>) = 0 /\ {} \in Word
  BY DEF Word
<1> QED
  BY <1>1 DEF Init, CrcInv, TypeOK

LEMMA CrcInvStep == CrcInv /\ [Next]_vars => CrcInv'
<1> SUFFICES ASSUME CrcInv, [Next]_vars PROVE CrcInv'
  OBVIOUS
<1>1. ASSUME NEW message \in Messages, NEW copy \in Copies(message),
             Crc32Crc(message, copy)
      PROVE  CrcInv'
  <2>1. AllOnes \in Word
    BY DEF AllOnes, Word
  <2>2. /\ buf' = message /\ received' = copy /\ i' = 0 /\ pc' = "update"
        /\ value' = AllOnes /\ check' = AllOnes /\ register' = AllOnes
    BY <1>1 DEF Crc32Crc, Crc32Start
  <2>3. TypeOK'
    BY <2>1, <2>2, CopyOfMessage DEF TypeOK
  <2>4. PICK k \in 1 .. Len(message) \cup {0} :
             /\ \A j \in 1 .. Len(message) : j # k => copy[j] = message[j]
             /\ k # 0 => copy[k] # message[k]
    BY CopyOfMessage
  <2>5. k = 0 \/ k > 0
    BY CopyOfMessage
  <2> QED
    BY <2>2, <2>3, <2>4, <2>5 DEF CrcInv
<1>2. CASE Crc32Update
  <2>1. /\ buf \in Seq(Byte) /\ received \in Seq(Byte) /\ Len(received) = Len(buf)
        /\ i \in 0 .. Len(buf) /\ value \in Word /\ check \in Word /\ register = value
        /\ Len(buf) \in Nat
    BY DEF CrcInv, TypeOK
  <2>2. /\ i < Len(buf) /\ i' = i + 1 /\ pc = "update"
        /\ value' = Update(value, buf[i + 1])
        /\ check' = Update(check, received[i + 1])
        /\ register' = ShiftByte(register, buf[i + 1])
        /\ UNCHANGED <<pc, buf, received>>
    BY <1>2 DEF Crc32Update, BytesLeft
  <2>3. buf[i + 1] \in Byte /\ received[i + 1] \in Byte /\ i + 1 \in 1 .. Len(buf)
    BY <2>1, <2>2
  <2>4. value' = register' /\ value' \in Word /\ check' \in Word
    BY <2>1, <2>2, <2>3, UpdateIsShiftByte
  <2>5. TypeOK'
    BY <2>1, <2>2, <2>4 DEF CrcInv, TypeOK
  <2>6. PICK k \in 1 .. Len(buf) \cup {0} :
             /\ \A j \in 1 .. Len(buf) : j # k => received[j] = buf[j]
             /\ k # 0 => received[k] # buf[k]
             /\ check = value <=> k = 0 \/ k > i
    BY DEF CrcInv
  <2>7. check' = value' <=> k = 0 \/ k > i'
    <3>1. CASE k = i + 1
      <4>1. check = value /\ received[i + 1] # buf[i + 1] /\ ~(k > i') /\ k # 0
        BY <2>1, <2>2, <2>3, <2>6, <3>1
      <4>2. check' # value'
        BY <2>1, <2>2, <2>3, <4>1, UpdateInjective
      <4> QED
        BY <4>1, <4>2
    <3>2. CASE k # i + 1
      <4>1. received[i + 1] = buf[i + 1] /\ (k > i' <=> k > i)
        BY <2>1, <2>2, <2>3, <2>6, <3>2
      <4>2. check' = value' <=> check = value
        BY <2>1, <2>2, <2>3, <4>1, UpdateInjective
      <4> QED
        BY <2>6, <4>1, <4>2
    <3> QED
      BY <3>1, <3>2
  <2> QED
    BY <2>2, <2>4, <2>5, <2>6, <2>7 DEF CrcInv
<1>3. CASE Crc32Return
  <2>1. i = Len(buf)
    BY <1>3 DEF Crc32Return, BytesLeft, CrcInv, TypeOK
  <2>2. pc' = "done" /\ UNCHANGED <<buf, i, value, received, check, register>>
    BY <1>3 DEF Crc32Return
  <2> QED
    BY <2>1, <2>2 DEF CrcInv, TypeOK
<1>4. CASE UNCHANGED vars
  BY <1>4 DEF vars, CrcInv, TypeOK
<1> QED
  BY <1>1, <1>2, <1>3, <1>4 DEF Next

LEMMA CrcInvariant == Spec => []CrcInv
BY CrcInvInit, CrcInvStep, PTL DEF Spec

(* Every variable keeps its type.                                          *)
THEOREM CrcTypeCorrect == Spec => []TypeOK
<1>1. CrcInv => TypeOK
  BY DEF CrcInv
<1> QED
  BY <1>1, CrcInvariant, PTL

(* crc32_update computes what the shift register does, for every message.  *)
THEOREM TableCorrect == Spec => []AgreesWithShiftRegister
<1>1. CrcInv => AgreesWithShiftRegister
  BY DEF CrcInv, AgreesWithShiftRegister
<1> QED
  BY <1>1, CrcInvariant, PTL

(* No change of one byte goes unnoticed, in a JPEG of any length.          *)
THEOREM OneByteDetected == Spec => []DamageDetected
<1>1. ASSUME CrcInv PROVE DamageDetected
  <2> SUFFICES ASSUME pc = "done"
               PROVE  Crc32Finalize(check) = Crc32Finalize(value) <=> received = buf
    BY DEF DamageDetected
  <2>1. PICK k \in 1 .. Len(buf) \cup {0} :
             /\ \A j \in 1 .. Len(buf) : j # k => received[j] = buf[j]
             /\ k # 0 => received[k] # buf[k]
             /\ check = value <=> k = 0 \/ k > i
    BY <1>1 DEF CrcInv
  <2>2. /\ i = Len(buf) /\ buf \in Seq(Byte) /\ received \in Seq(Byte)
        /\ Len(received) = Len(buf) /\ Len(buf) \in Nat
    BY <1>1 DEF CrcInv, TypeOK
  <2>3. check = value <=> k = 0
    BY <2>1, <2>2
  <2>4. received = buf <=> k = 0
    <3>1. CASE k = 0
      <4>1. \A j \in 1 .. Len(buf) : received[j] = buf[j]
        BY <2>1, <3>1
      <4> QED
        BY <2>2, <3>1, <4>1
    <3>2. CASE k # 0
      BY <2>1, <3>2
    <3> QED
      BY <3>1, <3>2
  <2>5. Crc32Finalize(check) = Crc32Finalize(value) <=> check = value
    BY XorCancels DEF Crc32Finalize
  <2> QED
    BY <2>3, <2>4, <2>5
<1> QED
  BY <1>1, CrcInvariant, PTL

-----------------------------------------------------------------------------
(* The check value                                                         *)

(* Rounds are linear: what the table holds for a byte is the sum of what   *)
(* it holds for the byte's bits.                                           *)
LEMMA RoundSum ==
    ASSUME NEW v \in Word, NEW w \in Word
    PROVE  Round(Xor(v, w)) = Xor(Round(v), Round(w))
<1>1. ShiftRight(Xor(v, w), 1) = Xor(ShiftRight(v, 1), ShiftRight(w, 1))
  BY ShiftXor
<1>2. 0 \in Xor(v, w) <=> ((0 \in v) # (0 \in w))
  BY DEF Xor
<1> QED
  BY <1>1, <1>2 DEF Round, Xor

LEMMA EightRoundsSum ==
    ASSUME NEW v \in Word, NEW w \in Word
    PROVE  EightRounds(Xor(v, w)) = Xor(EightRounds(v), EightRounds(w))
BY RoundWord, RoundSum DEF EightRounds

LEMMA EightRoundsOfNothing == EightRounds({}) = {}
<1>1. Round({}) = {}
  BY DEF Round, ShiftRight
<1> QED
  BY <1>1 DEF EightRounds

Entry(k, x) == IF k \in x THEN EightRounds({k}) ELSE {}

SumOfEntries(x) ==
    Xor(Entry(0, x), Xor(Entry(1, x), Xor(Entry(2, x), Xor(Entry(3, x),
        Xor(Entry(4, x), Xor(Entry(5, x), Xor(Entry(6, x), Entry(7, x))))))))

LEMMA TableBySum == ASSUME NEW x \in Byte PROVE Table[x] = SumOfEntries(x)
<1> DEFINE bit(k) == x \cap {k}
           from7 == bit(7)
           from6 == Xor(bit(6), from7)
           from5 == Xor(bit(5), from6)
           from4 == Xor(bit(4), from5)
           from3 == Xor(bit(3), from4)
           from2 == Xor(bit(2), from3)
           from1 == Xor(bit(1), from2)
           from0 == Xor(bit(0), from1)
<1>1. \A k \in 0 .. 7 : bit(k) \in Word
  BY DEF Byte, Word
<1>2. \A k \in 0 .. 7 : EightRounds(bit(k)) = Entry(k, x)
  <2> TAKE k \in 0 .. 7
  <2>1. CASE k \in x
    <3>1. bit(k) = {k}
      BY <2>1
    <3> QED
      BY <2>1, <3>1 DEF Entry
  <2>2. CASE k \notin x
    <3>1. bit(k) = {}
      BY <2>2
    <3> QED
      BY <2>2, <3>1, EightRoundsOfNothing DEF Entry
  <2> QED
    BY <2>1, <2>2
<1>3. from0 = x
  <2>1. \A j : j \in x => j \in 0 .. 7
    BY DEF Byte
  <2>2. \A j \in 0 .. 7 : j \in {0, 1, 2, 3, 4, 5, 6, 7}
    OBVIOUS
  <2>3. \A j : j \in from0 <=> j \in x
    BY <2>1, <2>2 DEF Xor
  <2> QED
    BY <2>3
<1> HIDE DEF bit
<1>4. from6 \in Word /\ EightRounds(from6) = Xor(Entry(6, x), EightRounds(from7))
  BY <1>1, <1>2, EightRoundsSum, XorWord
<1>5. from5 \in Word /\ EightRounds(from5) = Xor(Entry(5, x), EightRounds(from6))
  BY <1>1, <1>2, <1>4, EightRoundsSum, XorWord
<1>6. from4 \in Word /\ EightRounds(from4) = Xor(Entry(4, x), EightRounds(from5))
  BY <1>1, <1>2, <1>5, EightRoundsSum, XorWord
<1>7. from3 \in Word /\ EightRounds(from3) = Xor(Entry(3, x), EightRounds(from4))
  BY <1>1, <1>2, <1>6, EightRoundsSum, XorWord
<1>8. from2 \in Word /\ EightRounds(from2) = Xor(Entry(2, x), EightRounds(from3))
  BY <1>1, <1>2, <1>7, EightRoundsSum, XorWord
<1>9. from1 \in Word /\ EightRounds(from1) = Xor(Entry(1, x), EightRounds(from2))
  BY <1>1, <1>2, <1>8, EightRoundsSum, XorWord
<1>10. from0 \in Word /\ EightRounds(from0) = Xor(Entry(0, x), EightRounds(from1))
  BY <1>1, <1>2, <1>9, EightRoundsSum, XorWord
<1>11. EightRounds(from0) = SumOfEntries(x)
  BY <1>2, <1>4, <1>5, <1>6, <1>7, <1>8, <1>9, <1>10 DEF SumOfEntries
<1> QED
  BY <1>3, <1>11 DEF Table

(* What the table holds for single bits, each entry from the one before.   *)
LEMMA RoundOfBit == \A k \in 1 .. 7 : Round({k}) = {k - 1}
<1> TAKE k \in 1 .. 7
<1>1. ShiftRight({k}, 1) = {k - 1} /\ 0 \notin {k}
  BY DEF ShiftRight
<1> QED
  BY <1>1 DEF Round

LEMMA RoundOfLowestBit == Round({0}) = CRC32_INITIAL
<1>1. ShiftRight({0}, 1) = {}
  BY DEF ShiftRight
<1> QED
  BY <1>1 DEF Round, Xor

LEMMA EightRoundsOfBit ==
    /\ EightRounds({7}) = CRC32_INITIAL
    /\ EightRounds({6}) = Round(EightRounds({7}))
    /\ EightRounds({5}) = Round(EightRounds({6}))
    /\ EightRounds({4}) = Round(EightRounds({5}))
    /\ EightRounds({3}) = Round(EightRounds({4}))
    /\ EightRounds({2}) = Round(EightRounds({3}))
    /\ EightRounds({1}) = Round(EightRounds({2}))
    /\ EightRounds({0}) = Round(EightRounds({1}))
<1>1. /\ Round({7}) = {6} /\ Round({6}) = {5} /\ Round({5}) = {4} /\ Round({4}) = {3}
      /\ Round({3}) = {2} /\ Round({2}) = {1} /\ Round({1}) = {0}
  BY RoundOfBit
<1> QED
  BY <1>1, RoundOfLowestBit DEF EightRounds

LEMMA Bit7 ==
    EightRounds({7}) = {5, 8, 9, 15, 19, 20, 21, 23, 24, 26, 27, 29, 30, 31}
BY EightRoundsOfBit DEF CRC32_INITIAL

LEMMA Bit6 ==
    EightRounds({6}) = {4, 7, 8, 14, 18, 19, 20, 22, 23, 25, 26, 28, 29, 30}
<1>1. EightRounds({6}) = Round(EightRounds({7}))
  BY EightRoundsOfBit
<1> QED
  BY <1>1, Bit7 DEF Round, ShiftRight, Xor, CRC32_INITIAL

LEMMA Bit5 ==
    EightRounds({5}) = {3, 6, 7, 13, 17, 18, 19, 21, 22, 24, 25, 27, 28, 29}
<1>1. EightRounds({5}) = Round(EightRounds({6}))
  BY EightRoundsOfBit
<1> QED
  BY <1>1, Bit6 DEF Round, ShiftRight, Xor, CRC32_INITIAL

LEMMA Bit4 ==
    EightRounds({4}) = {2, 5, 6, 12, 16, 17, 18, 20, 21, 23, 24, 26, 27, 28}
<1>1. EightRounds({4}) = Round(EightRounds({5}))
  BY EightRoundsOfBit
<1> QED
  BY <1>1, Bit5 DEF Round, ShiftRight, Xor, CRC32_INITIAL

LEMMA Bit3 ==
    EightRounds({3}) = {1, 4, 5, 11, 15, 16, 17, 19, 20, 22, 23, 25, 26, 27}
<1>1. EightRounds({3}) = Round(EightRounds({4}))
  BY EightRoundsOfBit
<1> QED
  BY <1>1, Bit4 DEF Round, ShiftRight, Xor, CRC32_INITIAL

LEMMA Bit2 ==
    EightRounds({2}) = {0, 3, 4, 10, 14, 15, 16, 18, 19, 21, 22, 24, 25, 26}
<1>1. EightRounds({2}) = Round(EightRounds({3}))
  BY EightRoundsOfBit
<1> QED
  BY <1>1, Bit3 DEF Round, ShiftRight, Xor, CRC32_INITIAL

LEMMA Bit1 ==
    EightRounds({1}) = {2, 3, 5, 8, 13, 14, 17, 18, 19, 25, 26, 27, 29, 30,
      31}
<1>1. EightRounds({1}) = Round(EightRounds({2}))
  BY EightRoundsOfBit
<1> QED
  BY <1>1, Bit2 DEF Round, ShiftRight, Xor, CRC32_INITIAL

LEMMA Bit0 ==
    EightRounds({0}) = {1, 2, 4, 7, 12, 13, 16, 17, 18, 24, 25, 26, 28, 29,
      30}
<1>1. EightRounds({0}) = Round(EightRounds({1}))
  BY EightRoundsOfBit
<1> QED
  BY <1>1, Bit1 DEF Round, ShiftRight, Xor, CRC32_INITIAL

(* The value after each of the nine digits.                                *)
Value(n) ==
    CASE n = 0 -> AllOnes
      [] n = 1 -> {3, 6, 12, 16, 17, 21, 26, 27, 28, 29, 30}
      [] n = 2 -> {1, 4, 5, 8, 9, 11, 12, 13, 15, 18, 19, 21, 23, 28, 29, 31}
      [] n = 3 -> {0, 2, 3, 5, 10, 11, 12, 15, 16, 17, 18, 20, 21, 23, 24, 25,
               26, 28, 29, 30}
      [] n = 4 -> {2, 3, 4, 6, 8, 9, 10, 11, 12, 18, 19, 20, 26, 29, 30}
      [] n = 5 -> {0, 1, 5, 6, 7, 8, 10, 14, 15, 17, 19, 26, 28, 29}
      [] n = 6 -> {1, 2, 3, 4, 7, 10, 11, 13, 16, 18, 19, 23, 25, 26, 28, 29,
               30, 31}
      [] n = 7 -> {5, 6, 9, 10, 12, 15, 18, 19, 20, 21, 22, 23, 24, 25, 26,
               27, 29, 31}
      [] n = 8 -> {4, 6, 8, 10, 13, 16, 17, 18, 19, 20, 24, 26, 29, 30}
      [] n = 9 -> {0, 3, 4, 6, 7, 9, 10, 14, 15, 16, 17, 19, 26, 28, 29}

LEMMA Digit1 == Update(Value(0), {0, 4, 5}) = Value(1)
<1>1. LowByte(Xor(Value(0), {0, 4, 5})) = {1, 2, 3, 6, 7}
  BY DEF LowByte, Xor, Value, AllOnes
<1>2. Table[{1, 2, 3, 6, 7}] = SumOfEntries({1, 2, 3, 6, 7})
  BY TableBySum DEF Byte
<1>3. SumOfEntries({1, 2, 3, 6, 7}) = {0, 1, 2, 4, 5, 7, 8, 9, 10, 11, 13, 14,
      15, 18, 19, 20, 22, 23, 26, 27, 28, 29, 30}
  BY Bit1, Bit2, Bit3, Bit6, Bit7 DEF SumOfEntries, Entry, Xor
<1> QED
  BY <1>1, <1>2, <1>3 DEF Update, Xor, ShiftRight, Value, AllOnes

LEMMA Digit2 == Update(Value(1), {1, 4, 5}) = Value(2)
<1>1. LowByte(Xor(Value(1), {1, 4, 5})) = {1, 3, 4, 5, 6}
  BY DEF LowByte, Xor, Value, AllOnes
<1>2. Table[{1, 3, 4, 5, 6}] = SumOfEntries({1, 3, 4, 5, 6})
  BY TableBySum DEF Byte
<1>3. SumOfEntries({1, 3, 4, 5, 6}) = {1, 5, 11, 12, 15, 20, 22, 23, 28, 29,
      31}
  BY Bit1, Bit3, Bit4, Bit5, Bit6 DEF SumOfEntries, Entry, Xor
<1> QED
  BY <1>1, <1>2, <1>3 DEF Update, Xor, ShiftRight, Value, AllOnes

LEMMA Digit3 == Update(Value(2), {0, 1, 4, 5}) = Value(3)
<1>1. LowByte(Xor(Value(2), {0, 1, 4, 5})) = {0}
  BY DEF LowByte, Xor, Value, AllOnes
<1>2. Table[{0}] = SumOfEntries({0})
  BY TableBySum DEF Byte
<1>3. SumOfEntries({0}) = {1, 2, 4, 7, 12, 13, 16, 17, 18, 24, 25, 26, 28, 29,
      30}
  BY Bit0 DEF SumOfEntries, Entry, Xor
<1> QED
  BY <1>1, <1>2, <1>3 DEF Update, Xor, ShiftRight, Value, AllOnes

LEMMA Digit4 == Update(Value(3), {2, 4, 5}) = Value(4)
<1>1. LowByte(Xor(Value(3), {2, 4, 5})) = {0, 3, 4}
  BY DEF LowByte, Xor, Value, AllOnes
<1>2. Table[{0, 3, 4}] = SumOfEntries({0, 3, 4})
  BY TableBySum DEF Byte
<1>3. SumOfEntries({0, 3, 4}) = {6, 7, 11, 13, 15, 16, 17, 19, 21, 22, 26, 29,
      30}
  BY Bit0, Bit3, Bit4 DEF SumOfEntries, Entry, Xor
<1> QED
  BY <1>1, <1>2, <1>3 DEF Update, Xor, ShiftRight, Value, AllOnes

LEMMA Digit5 == Update(Value(4), {0, 2, 4, 5}) = Value(5)
<1>1. LowByte(Xor(Value(4), {0, 2, 4, 5})) = {0, 3, 5, 6}
  BY DEF LowByte, Xor, Value, AllOnes
<1>2. Table[{0, 3, 5, 6}] = SumOfEntries({0, 3, 5, 6})
  BY TableBySum DEF Byte
<1>3. SumOfEntries({0, 3, 5, 6}) = {2, 3, 4, 5, 6, 7, 8, 11, 12, 14, 15, 17,
      18, 19, 21, 22, 26, 28, 29}
  BY Bit0, Bit3, Bit5, Bit6 DEF SumOfEntries, Entry, Xor
<1> QED
  BY <1>1, <1>2, <1>3 DEF Update, Xor, ShiftRight, Value, AllOnes

LEMMA Digit6 == Update(Value(5), {1, 2, 4, 5}) = Value(6)
<1>1. LowByte(Xor(Value(5), {1, 2, 4, 5})) = {0, 2, 4, 6, 7}
  BY DEF LowByte, Xor, Value, AllOnes
<1>2. Table[{0, 2, 4, 6, 7}] = SumOfEntries({0, 2, 4, 6, 7})
  BY TableBySum DEF Byte
<1>3. SumOfEntries({0, 2, 4, 6, 7}) = {0, 1, 3, 4, 6, 9, 10, 13, 16, 19, 20,
      21, 23, 25, 26, 28, 29, 30, 31}
  BY Bit0, Bit2, Bit4, Bit6, Bit7 DEF SumOfEntries, Entry, Xor
<1> QED
  BY <1>1, <1>2, <1>3 DEF Update, Xor, ShiftRight, Value, AllOnes

LEMMA Digit7 == Update(Value(6), {0, 1, 2, 4, 5}) = Value(7)
<1>1. LowByte(Xor(Value(6), {0, 1, 2, 4, 5})) = {0, 3, 5, 7}
  BY DEF LowByte, Xor, Value, AllOnes
<1>2. Table[{0, 3, 5, 7}] = SumOfEntries({0, 3, 5, 7})
  BY TableBySum DEF Byte
<1>3. SumOfEntries({0, 3, 5, 7}) = {2, 3, 6, 8, 9, 11, 12, 17, 19, 24, 25, 26,
      27, 29, 31}
  BY Bit0, Bit3, Bit5, Bit7 DEF SumOfEntries, Entry, Xor
<1> QED
  BY <1>1, <1>2, <1>3 DEF Update, Xor, ShiftRight, Value, AllOnes

LEMMA Digit8 == Update(Value(7), {3, 4, 5}) = Value(8)
<1>1. LowByte(Xor(Value(7), {3, 4, 5})) = {3, 4, 6}
  BY DEF LowByte, Xor, Value, AllOnes
<1>2. Table[{3, 4, 6}] = SumOfEntries({3, 4, 6})
  BY TableBySum DEF Byte
<1>3. SumOfEntries({3, 4, 6}) = {1, 2, 6, 7, 8, 11, 12, 14, 15, 20, 21, 23,
      24, 26, 29, 30}
  BY Bit3, Bit4, Bit6 DEF SumOfEntries, Entry, Xor
<1> QED
  BY <1>1, <1>2, <1>3 DEF Update, Xor, ShiftRight, Value, AllOnes

LEMMA Digit9 == Update(Value(8), {0, 3, 4, 5}) = Value(9)
<1>1. LowByte(Xor(Value(8), {0, 3, 4, 5})) = {0, 3, 5, 6}
  BY DEF LowByte, Xor, Value, AllOnes
<1>2. Table[{0, 3, 5, 6}] = SumOfEntries({0, 3, 5, 6})
  BY TableBySum DEF Byte
<1>3. SumOfEntries({0, 3, 5, 6}) = {2, 3, 4, 5, 6, 7, 8, 11, 12, 14, 15, 17,
      18, 19, 21, 22, 26, 28, 29}
  BY Bit0, Bit3, Bit5, Bit6 DEF SumOfEntries, Entry, Xor
<1> QED
  BY <1>1, <1>2, <1>3 DEF Update, Xor, ShiftRight, Value, AllOnes

-----------------------------------------------------------------------------

(* What the value is while the nine digits are under way.                  *)
AnswerInv == CrcInv /\ (pc # "idle" /\ buf = Digits => value = Value(i))

LEMMA DigitsAre ==
    /\ Len(Digits) = 9
    /\ Update(Value(0), Digits[1]) = Value(1)
    /\ Update(Value(1), Digits[2]) = Value(2)
    /\ Update(Value(2), Digits[3]) = Value(3)
    /\ Update(Value(3), Digits[4]) = Value(4)
    /\ Update(Value(4), Digits[5]) = Value(5)
    /\ Update(Value(5), Digits[6]) = Value(6)
    /\ Update(Value(6), Digits[7]) = Value(7)
    /\ Update(Value(7), Digits[8]) = Value(8)
    /\ Update(Value(8), Digits[9]) = Value(9)
<1>1. /\ Len(Digits) = 9
      /\ Digits[1] = {0, 4, 5} /\ Digits[2] = {1, 4, 5} /\ Digits[3] = {0, 1, 4, 5}
      /\ Digits[4] = {2, 4, 5} /\ Digits[5] = {0, 2, 4, 5} /\ Digits[6] = {1, 2, 4, 5}
      /\ Digits[7] = {0, 1, 2, 4, 5} /\ Digits[8] = {3, 4, 5} /\ Digits[9] = {0, 3, 4, 5}
  BY DEF Digits
<1> QED
  BY <1>1, Digit1, Digit2, Digit3, Digit4, Digit5, Digit6, Digit7, Digit8, Digit9

LEMMA AnswerInvInit == Init => AnswerInv
BY CrcInvInit DEF AnswerInv, Init

LEMMA AnswerInvStep == AnswerInv /\ [Next]_vars => AnswerInv'
<1> SUFFICES ASSUME AnswerInv, [Next]_vars PROVE AnswerInv'
  OBVIOUS
<1>1. CrcInv'
  BY CrcInvStep DEF AnswerInv
<1>2. ASSUME NEW message \in Messages, NEW copy \in Copies(message),
             Crc32Crc(message, copy)
      PROVE  AnswerInv'
  <2>1. value' = Value(i')
    BY <1>2 DEF Crc32Crc, Crc32Start, Value
  <2> QED
    BY <1>1, <2>1 DEF AnswerInv
<1>3. CASE Crc32Update
  <2>1. /\ i < Len(buf) /\ i' = i + 1 /\ i \in 0 .. Len(buf) /\ pc = "update"
        /\ value' = Update(value, buf[i + 1]) /\ buf' = buf
    BY <1>3 DEF Crc32Update, BytesLeft, AnswerInv, CrcInv, TypeOK
  <2>2. ASSUME buf = Digits PROVE value' = Value(i')
    <3>1. value = Value(i) /\ value' = Update(Value(i), Digits[i + 1])
      BY <2>1, <2>2 DEF AnswerInv
    <3>2. i \in {0, 1, 2, 3, 4, 5, 6, 7, 8}
      BY <2>1, <2>2, DigitsAre
    <3>3. Update(Value(i), Digits[i + 1]) = Value(i + 1)
      BY <3>2, DigitsAre
    <3> QED
      BY <2>1, <3>1, <3>3
  <2> QED
    BY <1>1, <2>1, <2>2 DEF AnswerInv
<1>4. CASE Crc32Return
  BY <1>1, <1>4 DEF AnswerInv, Crc32Return
<1>5. CASE UNCHANGED vars
  BY <1>1, <1>5 DEF AnswerInv, vars
<1> QED
  BY <1>2, <1>3, <1>4, <1>5 DEF Next

(* The checksum of the nine digits is the one everybody has for them.      *)
THEOREM KnownAnswerCorrect == Spec => []KnownAnswer
<1>1. ASSUME AnswerInv PROVE KnownAnswer
  <2> SUFFICES ASSUME pc = "done", buf = Digits
               PROVE  Crc32Finalize(value)
                        = {1, 2, 5, 8, 11, 12, 13, 18, 20, 21, 22, 23, 24, 25, 27, 30, 31}
    BY DEF KnownAnswer
  <2>1. i = 9 /\ value = Value(9)
    BY <1>1, DigitsAre DEF AnswerInv, CrcInv
  <2> QED
    BY <2>1 DEF Crc32Finalize, Xor, AllOnes, Value
<1> QED
  BY <1>1, AnswerInvInit, AnswerInvStep, PTL DEF Spec

=============================================================================
