--------------------- MODULE MJPEGStreamServerUDPProofs ---------------------
(***************************************************************************)
(* How streamJPEG puts JPEGs of any size on the wire, for every datagram   *)
(* size and whatever send() calls fail.                                    *)
(***************************************************************************)
EXTENDS MJPEGStreamServerUDP, TLAPS

(* Where sendData is in the field it sends.                                *)
Position ==
    /\ field # "idle" =>
         /\ frame > 0 /\ size > 0
         /\ len + data = FieldSize(field)
    /\ size > 0 \/ frame = 0

(* What is on the wire lies behind that position.                          *)
Behind(d) ==
    /\ d.frame <= frame
    /\ d.frame = frame /\ field # "idle" =>
         \/ Rank(d.field) < Rank(field)
         \/ d.field = field /\ d.offset + d.length <= data

WireBehind == \A i \in 1 .. Len(wire) : Behind(wire[i])

(* The last datagram is where the next one will continue.                  *)
LastTouches ==
    wire # <<>> /\ field # "idle" =>
        LET d == wire[Len(wire)] IN
        d.frame = frame /\ d.field = field => d.offset + d.length = data

(* Which fields of this frame are complete on the wire.                    *)
Complete(f) ==
    \E i \in 1 .. Len(wire) :
        /\ wire[i].frame = frame /\ wire[i].field = f
        /\ wire[i].offset + wire[i].length = FieldSize(f)

Over(f) == frame > 0 /\ (field = "idle" \/ Rank(f) < Rank(field))

FieldsAccountedFor ==
    /\ \A f \in Fields : Over(f) => (f \notin failed <=> Complete(f))
    /\ \A f \in Fields : ~Over(f) => f \notin failed
    /\ field # "idle" /\ len = 0 => Complete(field)

UDPInv ==
    /\ TypeOK /\ Position /\ WireBehind /\ LastTouches /\ FieldsAccountedFor
    /\ WireInOrder /\ WellCut

(* Sizes and ranks of the fields.                                          *)
LEMMA FieldFacts ==
    /\ \A f \in Fields : Rank(f) \in 1 .. 3
    /\ \A f, g \in Fields : Rank(f) = Rank(g) => f = g
    /\ TypeOK => /\ \A f \in Fields : FieldSize(f) \in Nat
                 /\ size > 0 => \A f \in Fields : FieldSize(f) > 0
<1>1. Fields = {"crc", "size", "data"}
  BY DEF Fields
<1>2. Rank("crc") = 1 /\ Rank("size") = 2 /\ Rank("data") = 3
  BY DEF Rank
<1>3. FieldSize("crc") = 4 /\ FieldSize("size") = 8 /\ FieldSize("data") = size
  BY DEF FieldSize
<1>4. TypeOK => size \in Nat
  BY UDPAssumption DEF TypeOK
<1> QED
  BY <1>1, <1>2, <1>3, <1>4

(* What is on the wire are datagrams.                                      *)
LEMMA WireFacts ==
    ASSUME TypeOK, NEW i \in 1 .. Len(wire)
    PROVE  /\ wire[i] \in Datagram
           /\ wire[i].frame \in Nat /\ wire[i].field \in Fields
           /\ wire[i].offset \in Nat /\ wire[i].length \in Nat
<1>1. wire[i] \in Datagram
  BY DEF TypeOK
<1> QED
  BY <1>1 DEF Datagram

(* Leaving a field leads to the beginning of the next one, or to the end.  *)
LEMMA NextFieldFacts ==
    ASSUME field \in Fields, NextField
    PROVE  /\ field' \in Fields \cup {"idle"}
           /\ field' = "idle" => len' = 0 /\ data' = 0 /\ field = "data"
           /\ field' # "idle" => /\ len' = FieldSize(field') /\ data' = 0
                                /\ Rank(field') = Rank(field) + 1
           /\ field = "data" => field' = "idle"
<1>1. field = "crc" \/ field = "size" \/ field = "data"
  BY DEF Fields
<1>2. CASE field = "crc"
  BY <1>2 DEF NextField, SendData, Fields, Rank, FieldSize
<1>3. CASE field = "size"
  BY <1>3 DEF NextField, SendData, Fields, Rank, FieldSize
<1>4. CASE field = "data"
  BY <1>4 DEF NextField, SendData, Fields, Rank, FieldSize
<1> QED
  BY <1>1, <1>2, <1>3, <1>4

(* A new server has sent nothing.                                          *)
LEMMA UDPInvInit == Init => UDPInv
<1> SUFFICES ASSUME Init PROVE UDPInv
  OBVIOUS
<1>1. TypeOK
  BY UDPAssumption DEF Init, TypeOK
<1> QED
  BY <1>1, FieldFacts
     DEF Init, UDPInv, Position, WireBehind, LastTouches, FieldsAccountedFor, Over,
         WireInOrder, WellCut

(* A new JPEG starts where every older datagram belongs to older frames.   *)
LEMMA StreamJPEGKeepsInv ==
    ASSUME UDPInv, NEW jpegSize \in JpegSizes, StreamJPEG(jpegSize)
    PROVE  UDPInv'
<1>1. /\ field = "idle" /\ field' = "crc" /\ len' = 4 /\ data' = 0
      /\ frame' = frame + 1 /\ frame < MaxFrames /\ size' = jpegSize
      /\ failed' = {} /\ UNCHANGED <<sockfd, wire>>
  BY DEF StreamJPEG, SendData, FieldSize
<1>2. TypeOK /\ jpegSize \in Nat \ {0} /\ frame \in Nat
  BY UDPAssumption DEF UDPInv, TypeOK
<1>3. TypeOK'
  BY <1>1, <1>2, UDPAssumption DEF TypeOK, Fields
<1>4. Position' /\ WireInOrder'
  BY <1>1, <1>2 DEF Position, FieldSize, UDPInv, WireInOrder, Precedes
<1>5. \A i \in 1 .. Len(wire) : wire[i] \in Datagram /\ wire[i].frame < frame'
  BY <1>1, <1>2, WireFacts DEF UDPInv, WireBehind, Behind
<1>6. WireBehind' /\ LastTouches' /\ WellCut'
  BY <1>1, <1>5 DEF WireBehind, Behind, LastTouches, WellCut, UDPInv, TypeOK, Datagram
<1>7. FieldsAccountedFor'
  BY <1>1, <1>2, FieldFacts DEF FieldsAccountedFor, Over, Rank, Fields
<1> QED
  BY <1>3, <1>4, <1>6, <1>7 DEF UDPInv

(* A block goes where the last one ended, and is full unless it is the     *)
(* last one of its field.                                                  *)
LEMMA SendBlockKeepsInv == UDPInv /\ SendBlock => UDPInv'
<1> SUFFICES ASSUME UDPInv, SendBlock PROVE UDPInv'
  OBVIOUS
<1> DEFINE n == Len(wire)
           d == [frame |-> frame, field |-> field, offset |-> data, length |-> Block]
<1>1. /\ field # "idle" /\ len > 0
      /\ wire' = Append(wire, d)
      /\ len' = len - Block /\ data' = data + Block
      /\ UNCHANGED <<sockfd, frame, size, field, failed>>
  BY DEF SendBlock
<1>2. /\ field \in Fields /\ len \in Nat /\ data \in Nat /\ wire \in Seq(Datagram)
      /\ frame \in 1 .. MaxFrames /\ size > 0 /\ len + data = FieldSize(field)
      /\ TypeOK
  BY <1>1, UDPAssumption DEF UDPInv, TypeOK, Position
<1>3. Block \in 1 .. MAX_UDP_SIZE /\ Block <= len /\ (Block = MAX_UDP_SIZE \/ Block = len)
  BY <1>1, <1>2, UDPAssumption DEF Block
<1>4. d \in Datagram
  BY <1>2, <1>3, UDPAssumption DEF Datagram
<1>5. /\ wire' \in Seq(Datagram) /\ n \in Nat /\ Len(wire') = n + 1
      /\ \A i \in 1 .. n : wire'[i] = wire[i]
      /\ wire'[n + 1] = d
  BY <1>1, <1>2, <1>4
<1>6. \A i \in 1 .. n + 1 : i \in 1 .. n \/ i = n + 1
  BY <1>5
<1>7. TypeOK' /\ Position'
  <2>1. TypeOK'
    BY <1>1, <1>2, <1>3, <1>5 DEF TypeOK
  <2>2. FieldSize(field)' = FieldSize(field)
    BY <1>1 DEF FieldSize
  <2>3. Position'
    BY <1>1, <1>2, <1>3, <2>2 DEF Position
  <2> QED
    BY <2>1, <2>3
<1>8. WireBehind'
  <2>1. ASSUME NEW i \in 1 .. n PROVE Behind(wire[i])'
    <3>1. Behind(wire[i])
      BY <2>1 DEF UDPInv, WireBehind
    <3> QED
      BY <1>1, <1>2, <1>3, <1>5, <2>1, <3>1, WireFacts DEF Behind
  <2>2. ASSUME NEW i \in Nat, i = n + 1 PROVE Behind(wire[i])'
    <3>1. wire'[i] = d
      BY <1>5, <2>2
    <3>2. /\ wire'[i].frame = frame /\ wire'[i].field = field
          /\ wire'[i].offset = data /\ wire'[i].length = Block
      BY <3>1
    <3>3. frame' = frame /\ field' = field
      BY <1>1
    <3>4. frame <= frame
      BY <1>2, UDPAssumption
    <3>5. data + Block <= data'
      BY <1>1, <1>2, <1>3
    <3> HIDE DEF d
    <3> QED
      BY <3>2, <3>3, <3>4, <3>5 DEF Behind
  <2> QED
    BY <1>5, <1>6, <2>1, <2>2 DEF WireBehind
<1>9. LastTouches'
  BY <1>1, <1>2, <1>3, <1>5 DEF LastTouches
<1>10. WireInOrder'
  <2>1. n > 0 => Precedes(wire[n], d)
    BY <1>1, <1>2, <1>5, WireFacts DEF UDPInv, WireBehind, Behind, LastTouches, Precedes
  <2>2. ASSUME NEW i \in 2 .. n + 1 PROVE Precedes(wire'[i - 1], wire'[i])
    <3>1. CASE i = n + 1
      BY <1>5, <2>1, <3>1
    <3>2. CASE i \in 2 .. n
      BY <1>5, <3>2 DEF UDPInv, WireInOrder
    <3> QED
      BY <1>5, <3>1, <3>2
  <2> QED
    BY <1>5, <2>2 DEF WireInOrder, Precedes
<1>11. WellCut'
  <2>1. \A f : FieldSize(f)' = FieldSize(f)
    BY <1>1 DEF FieldSize
  <2> DEFINE Good(e) == /\ e.length \in 1 .. MAX_UDP_SIZE
                        /\ e.frame = frame =>
                             /\ e.offset + e.length <= FieldSize(e.field)
                             /\ \/ e.length = MAX_UDP_SIZE
                                \/ e.offset + e.length = FieldSize(e.field)
  <2>2. \A i \in 1 .. n : Good(wire[i])
    BY DEF UDPInv, WellCut
  <2>3. Good(d)
    BY <1>2, <1>3
  <2>4. \A i \in 1 .. n + 1 : Good(wire'[i])
    BY <1>5, <1>6, <2>2, <2>3
  <2> QED
    BY <1>1, <1>5, <2>1, <2>4 DEF WellCut
<1>12. FieldsAccountedFor'
  <2>1. \A f : FieldSize(f)' = FieldSize(f)
    BY <1>1 DEF FieldSize
  <2>2. ASSUME NEW f \in Fields, f # field
        PROVE  Complete(f)' <=> Complete(f)
    BY <1>1, <1>5, <1>6, <2>1, <2>2 DEF Complete
  <2>3. len' = 0 => Complete(field)'
    BY <1>1, <1>2, <1>3, <1>5, <2>1 DEF Complete
  <2>4. ~Over(field)
    BY <1>1, <1>2, FieldFacts DEF Over
  <2> QED
    BY <1>1, <2>2, <2>3, <2>4 DEF UDPInv, FieldsAccountedFor, Over
<1> QED
  BY <1>7, <1>8, <1>9, <1>10, <1>11, <1>12 DEF UDPInv

(* A field ends: complete if every send succeeded, cut short if one failed. *)
LEMMA EndOfFieldKeepsInv == UDPInv /\ (SendFails \/ FieldSent) => UDPInv'
<1> SUFFICES ASSUME UDPInv, SendFails \/ FieldSent PROVE UDPInv'
  OBVIOUS
<1>1. /\ field # "idle" /\ NextField /\ UNCHANGED <<sockfd, frame, size, wire>>
      /\ \/ len > 0 /\ failed' = failed \cup {field}
         \/ len <= 0 /\ failed' = failed
  BY DEF SendFails, FieldSent
<1>2. /\ field \in Fields /\ len \in Nat /\ data \in Nat
      /\ frame \in 1 .. MaxFrames /\ size > 0 /\ len + data = FieldSize(field)
      /\ TypeOK
  BY <1>1, UDPAssumption DEF UDPInv, TypeOK, Position
<1>3. /\ field' \in Fields \cup {"idle"}
      /\ field' = "idle" => len' = 0 /\ data' = 0 /\ field = "data"
      /\ field' # "idle" => /\ len' = FieldSize(field') /\ data' = 0
                           /\ Rank(field') = Rank(field) + 1
  BY <1>1, <1>2, NextFieldFacts
<1>4. \A f : FieldSize(f)' = FieldSize(f)
  BY <1>1 DEF FieldSize
<1>5. field' # "idle" => len' \in Nat \ {0}
  BY <1>2, <1>3, FieldFacts
<1>6. TypeOK' /\ Position'
  <2>1. FieldSize(field)' = FieldSize(field')
    BY <1>1 DEF FieldSize
  <2>2. TypeOK'
    BY <1>1, <1>2, <1>3, <1>5 DEF TypeOK
  <2>3. Position'
    BY <1>1, <1>2, <1>3, <1>5, <2>1 DEF Position
  <2> QED
    BY <2>2, <2>3
<1>7. WireBehind' /\ LastTouches'
  <2>1. ASSUME NEW i \in 1 .. Len(wire) PROVE Behind(wire[i])'
    <3>1. Behind(wire[i])
      BY DEF UDPInv, WireBehind
    <3>2. wire[i].field \in Fields /\ wire[i].frame \in Nat
      BY <1>2, WireFacts
    <3>3. field' # "idle" => Rank(field)' = Rank(field) + 1
      BY <1>3 DEF Rank
    <3> QED
      BY <1>1, <1>2, <1>3, <3>1, <3>2, <3>3, FieldFacts DEF Behind
  <2>2. field' # "idle" => \A i \in 1 .. Len(wire) :
           wire[i].frame = frame => wire[i].field # field'
    <3> SUFFICES ASSUME field' # "idle", NEW i \in 1 .. Len(wire),
                        wire[i].frame = frame, wire[i].field = field'
                 PROVE  FALSE
      OBVIOUS
    <3>1. Behind(wire[i])
      BY DEF UDPInv, WireBehind
    <3>2. Rank(wire[i].field) < Rank(field) \/ wire[i].field = field
      BY <1>1, <3>1 DEF Behind
    <3>3. Rank(field) \in Int /\ Rank(field') = Rank(field) + 1
      BY <1>2, <1>3, FieldFacts
    <3> QED
      BY <3>2, <3>3
  <2>3. wire # <<>> => Len(wire) \in 1 .. Len(wire)
    BY <1>2 DEF TypeOK
  <2> QED
    BY <1>1, <2>1, <2>2, <2>3 DEF WireBehind, LastTouches
<1>8. WireInOrder' /\ WellCut'
  BY <1>1, <1>4 DEF UDPInv, WireInOrder, WellCut
<1>9. FieldsAccountedFor'
  <2>1. \A f \in Fields : Complete(f)' <=> Complete(f)
    BY <1>1, <1>4 DEF Complete
  <2>2. Complete(field) <=> len = 0
    <3>1. len > 0 => ~Complete(field)
      <4> SUFFICES ASSUME len > 0, NEW i \in 1 .. Len(wire),
                          wire[i].frame = frame, wire[i].field = field,
                          wire[i].offset + wire[i].length = FieldSize(field)
                   PROVE  FALSE
        BY DEF Complete
      <4>1. Behind(wire[i])
        BY DEF UDPInv, WireBehind
      <4>2. wire[i].offset + wire[i].length <= data
        BY <1>1, <1>2, <4>1, FieldFacts DEF Behind
      <4> QED
        BY <1>2, <4>2
    <3> QED
      BY <1>1, <1>2, <3>1 DEF UDPInv, FieldsAccountedFor
  <2>3. \A f \in Fields : Over(f)' <=> Over(f) \/ f = field
    BY <1>1, <1>2, <1>3, FieldFacts DEF Over, Rank, Fields
  <2>4. ~Over(field)
    BY <1>1, <1>2, FieldFacts DEF Over
  <2> QED
    BY <1>1, <1>2, <1>5, <2>1, <2>2, <2>3, <2>4 DEF UDPInv, FieldsAccountedFor
<1> QED
  BY <1>6, <1>7, <1>8, <1>9 DEF UDPInv

(* The invariant is inductive.                                             *)
LEMMA UDPInvStep == UDPInv /\ [Next]_vars => UDPInv'
<1> SUFFICES ASSUME UDPInv, [Next]_vars PROVE UDPInv'
  OBVIOUS
<1>1. CASE UNCHANGED vars
  <2> USE <1>1 DEF vars, UDPInv
  <2>1. FieldSize(field)' = FieldSize(field) /\ \A f : FieldSize(f)' = FieldSize(f)
    BY DEF FieldSize
  <2>2. TypeOK' /\ Position'
    BY <2>1 DEF TypeOK, Position
  <2>3. WireBehind' /\ LastTouches'
    BY DEF WireBehind, Behind, LastTouches
  <2>4. FieldsAccountedFor'
    BY <2>1 DEF FieldsAccountedFor, Over, Complete
  <2>5. WireInOrder' /\ WellCut'
    BY <2>1 DEF WireInOrder, WellCut
  <2> QED
    BY <2>2, <2>3, <2>4, <2>5
<1> QED
  BY <1>1, StreamJPEGKeepsInv, SendBlockKeepsInv, EndOfFieldKeepsInv
     DEF Next, SendJPEG

(* So it holds always.                                                     *)
LEMMA UDPInvariant == Spec => []UDPInv
BY UDPInvInit, UDPInvStep, PTL DEF Spec

-----------------------------------------------------------------------------

(* Every variable keeps its type; in particular len never falls below 0.   *)
THEOREM UDPTypeCorrect == Spec => []TypeOK
<1>1. UDPInv => TypeOK
  BY DEF UDPInv
<1> QED
  BY <1>1, UDPInvariant, PTL

(* Datagrams leave in order, without a gap or a repetition in a field.     *)
THEOREM WireOrdered == Spec => []WireInOrder
<1>1. UDPInv => WireInOrder
  BY DEF UDPInv
<1> QED
  BY <1>1, UDPInvariant, PTL

(* Every field is cut into full datagrams and a rest.                      *)
THEOREM FieldsWellCut == Spec => []WellCut
<1>1. UDPInv => WellCut
  BY DEF UDPInv
<1> QED
  BY <1>1, UDPInvariant, PTL

(* When streamJPEG returns, exactly the fields without a failed send are   *)
(* complete.                                                               *)
THEOREM FieldsSentCompletely == Spec => []SentCompletely
<1>1. UDPInv => SentCompletely
  BY DEF UDPInv, FieldsAccountedFor, Over, Complete, SentCompletely
<1> QED
  BY <1>1, UDPInvariant, PTL

-----------------------------------------------------------------------------

(* What is left of a field, of the fields after it, and of the whole JPEG. *)
LEMMA TurnsLeftFacts ==
    ASSUME UDPInv
    PROVE  /\ len \in Nat /\ size \in Nat
           /\ field \in Fields => /\ TurnsLeft \in Nat
                                  /\ TurnsLeft > 0
BY UDPAssumption DEF UDPInv, TypeOK, TurnsLeft, Fields

(* However large the JPEG and whatever fails, streamJPEG comes nearer to   *)
(* its end with every step: the safety half of StreamJPEGReturns.          *)
THEOREM SendingEnds == Spec => SendingShortens
<1>1. ASSUME UDPInv, Next, field # "idle"
      PROVE  TurnsLeft' < TurnsLeft
  <2>1. /\ field \in Fields /\ TypeOK /\ len \in Nat /\ size \in Nat
    BY <1>1, TurnsLeftFacts DEF UDPInv, TypeOK
  <2>2. CASE SendBlock
    <3>1. Block \in Nat /\ Block > 0 /\ len' = len - Block /\ UNCHANGED <<field, size>>
      BY <2>1, <2>2, UDPAssumption DEF SendBlock, Block
    <3> QED
      BY <2>1, <3>1 DEF TurnsLeft, Fields
  <2>3. CASE SendFails \/ FieldSent
    <3>1. NextField /\ size' = size
      BY <2>3 DEF SendFails, FieldSent
    <3>2. CASE field = "crc"
      <4>1. field' = "size" /\ len' = 8
        BY <3>1, <3>2 DEF NextField, SendData, FieldSize
      <4> QED
        BY <2>1, <3>1, <3>2, <4>1 DEF TurnsLeft
    <3>3. CASE field = "size"
      <4>1. field' = "data" /\ len' = size
        BY <3>1, <3>3 DEF NextField, SendData, FieldSize
      <4> QED
        BY <2>1, <3>1, <3>3, <4>1 DEF TurnsLeft
    <3>4. CASE field = "data"
      <4>1. field' = "idle"
        BY <3>1, <3>4 DEF NextField, SendData
      <4> QED
        BY <2>1, <3>1, <3>4, <4>1 DEF TurnsLeft
    <3> QED
      BY <2>1, <3>2, <3>3, <3>4 DEF Fields
  <2> QED
    BY <1>1, <2>2, <2>3 DEF Next, SendJPEG, StreamJPEG
<1>2. UDPInv /\ [Next]_vars => [field # "idle" => TurnsLeft' < TurnsLeft]_vars
  BY <1>1
<1> QED
  BY <1>2, UDPInvariant, PTL DEF Spec, SendingShortens

=============================================================================
