------------------------ MODULE MJPEGStreamServerUDP ------------------------
(***************************************************************************)
(* One MJPEGStreamServerUDP object (MJPEGStreamServerUDP.cpp): it opens a  *)
(* UDP socket to the client, and streamJPEG sends each JPEG as three       *)
(* fields, the CRC, the size and the data, each cut into datagrams of at   *)
(* most MAX_UDP_SIZE bytes.                                                *)
(*                                                                         *)
(* wire is what left the console, oldest first.  A datagram is described   *)
(* by the frame and field its bytes come from, the offset of the first and *)
(* their number; the bytes themselves do not matter here.                  *)
(*                                                                         *)
(* send() on a datagram socket sends the whole block or fails.  A failure  *)
(* ends the field; nobody looks at the result of sendData, so the other    *)
(* fields are sent all the same.                                           *)
(***************************************************************************)
EXTENDS Integers, Sequences

CONSTANTS
    MAX_UDP_SIZE,
    JpegSizes,        \* sizes of the JPEGs that are streamed
    MaxFrames         \* bound of the model: JPEGs streamed in one run

ASSUME UDPAssumption ==
    /\ MAX_UDP_SIZE \in Nat \ {0}
    /\ JpegSizes \subseteq Nat \ {0}
    /\ MaxFrames \in Nat

VARIABLES
    sockfd,           \* -1, or 0 for a connected socket
    frame,            \* how many JPEGs streamJPEG was given
    size,             \* of the current one
    field,            \* the field sendData is sending, or "idle"
    len, data,        \* what is left of it, and where that begins
    wire,
    failed            \* the fields of the current frame whose sending failed

vars == <<sockfd, frame, size, field, len, data, wire, failed>>

Fields == {"crc", "size", "data"}

FieldSize(f) == CASE f = "crc" -> 4 [] f = "size" -> 8 [] f = "data" -> size

(* The constructor: socket() and connect() succeed, or one of them fails.  *)
Init ==
    /\ sockfd \in {-1, 0}
    /\ frame = 0 /\ size = 0
    /\ field = "idle"
    /\ len = 0 /\ data = 0
    /\ wire = <<>>
    /\ failed = {}

-----------------------------------------------------------------------------

SendData(f, length) ==
    /\ field' = f
    /\ len' = length
    /\ data' = 0

StreamJPEG(jpegSize) ==
    /\ field = "idle"
    /\ frame < MaxFrames
    /\ frame' = frame + 1
    /\ size' = jpegSize
    /\ failed' = {}
    /\ SendData("crc", FieldSize("crc"))
    /\ UNCHANGED <<sockfd, wire>>

(* sendData returned; its result is ignored.                               *)
NextField ==
    CASE field = "crc"  -> SendData("size", FieldSize("size"))
      [] field = "size" -> SendData("data", FieldSize("data"))
      [] field = "data" -> SendData("idle", 0)

(* Variant: the larger of the two.                                         *)
BlockTooLong == IF len > MAX_UDP_SIZE THEN len ELSE MAX_UDP_SIZE

Block == IF len < MAX_UDP_SIZE THEN len ELSE MAX_UDP_SIZE

(* Variant: the pointer is not advanced.                                   *)
SendBlockAgain ==
    /\ field # "idle"
    /\ len > 0
    /\ sockfd # -1
    /\ wire' = Append(wire, [frame  |-> frame, field |-> field,
                             offset |-> data, length |-> Block])
    /\ len' = len - Block
    /\ UNCHANGED <<sockfd, frame, size, field, data, failed>>

(* Variant: counts a full datagram whatever was sent.                      *)
SendBlockCountsFull ==
    /\ field # "idle"
    /\ len > 0
    /\ sockfd # -1
    /\ wire' = Append(wire, [frame  |-> frame, field |-> field,
                             offset |-> data, length |-> Block])
    /\ len' = len - MAX_UDP_SIZE
    /\ data' = data + MAX_UDP_SIZE
    /\ UNCHANGED <<sockfd, frame, size, field, failed>>

SendBlock ==
    /\ field # "idle"
    /\ len > 0
    /\ sockfd # -1
    /\ wire' = Append(wire, [frame  |-> frame, field |-> field,
                             offset |-> data, length |-> Block])
    /\ len' = len - Block
    /\ data' = data + Block
    /\ UNCHANGED <<sockfd, frame, size, field, failed>>

(* Variant: tries the same block again.                                    *)
SendFailsAgain ==
    /\ field # "idle"
    /\ len > 0
    /\ failed' = failed \cup {field}
    /\ UNCHANGED <<sockfd, frame, size, field, len, data, wire>>

SendFails ==
    /\ field # "idle"
    /\ len > 0
    /\ failed' = failed \cup {field}
    /\ NextField
    /\ UNCHANGED <<sockfd, frame, size, wire>>

(* Variant: stops before a last datagram that is not full.                 *)
FieldSentEarly ==
    /\ field # "idle"
    /\ len < MAX_UDP_SIZE
    /\ NextField
    /\ UNCHANGED <<sockfd, frame, size, wire, failed>>

FieldSent ==
    /\ field # "idle"
    /\ len <= 0
    /\ NextField
    /\ UNCHANGED <<sockfd, frame, size, wire, failed>>

SendJPEG == SendBlock \/ SendFails \/ FieldSent

Next ==
    \/ \E jpegSize \in JpegSizes : StreamJPEG(jpegSize)
    \/ SendJPEG

Spec == Init /\ [][Next]_vars

(* The encoder thread goes on sending until streamJPEG returns.            *)
FairSpec == Spec /\ WF_vars(SendJPEG)

-----------------------------------------------------------------------------

Datagram ==
    [frame : 1 .. MaxFrames, field : Fields, offset : Nat, length : Nat]

(* The values of all variables.                                            *)
TypeOK ==
    /\ sockfd \in {-1, 0}
    /\ frame \in 0 .. MaxFrames
    /\ size \in JpegSizes \cup {0}
    /\ field \in Fields \cup {"idle"}
    /\ len \in Nat /\ data \in Nat
    /\ wire \in Seq(Datagram)
    /\ failed \subseteq Fields

Rank(f) == CASE f = "crc" -> 1 [] f = "size" -> 2 [] f = "data" -> 3

Precedes(d, e) ==
    \/ d.frame < e.frame
    \/ d.frame = e.frame /\ Rank(d.field) < Rank(e.field)
    \/ d.frame = e.frame /\ d.field = e.field /\ d.offset + d.length = e.offset

(* Datagrams leave in order: frame after frame, CRC before size before     *)
(* data, and within a field each begins where the one before it ended.     *)
(* Nothing is sent twice and no byte of a field is skipped, even when the  *)
(* sending of an earlier field failed half way.                            *)
WireInOrder ==
    \A i \in 2 .. Len(wire) : Precedes(wire[i - 1], wire[i])

(* A field is cut so that the receiver can reassemble it by counting: all  *)
(* datagrams are full but the one that ends the field, none is empty, and  *)
(* none reaches beyond the end of the JPEG's memory.                       *)
WellCut ==
    \A i \in 1 .. Len(wire) :
        LET d == wire[i] IN
        /\ d.length \in 1 .. MAX_UDP_SIZE
        /\ d.frame = frame =>
             /\ d.offset + d.length <= FieldSize(d.field)
             /\ d.length = MAX_UDP_SIZE \/ d.offset + d.length = FieldSize(d.field)

(* When streamJPEG returns and no send failed, every field of the JPEG is  *)
(* completely on the wire; and of a field whose sending failed, not.       *)
SentCompletely ==
    field = "idle" /\ frame > 0 =>
        \A f \in Fields :
            f \notin failed <=>
              \E i \in 1 .. Len(wire) :
                 /\ wire[i].frame = frame /\ wire[i].field = f
                 /\ wire[i].offset + wire[i].length = FieldSize(f)

(* streamJPEG returns, whatever fails.                                     *)
StreamJPEGReturns == field # "idle" ~> field = "idle"

(* How many turns of the loops of sendData a call of streamJPEG has left,  *)
(* at most: one for each byte and one for the end of each field.           *)
TurnsLeft ==
    CASE field = "crc"  -> len + 8 + size + 3
      [] field = "size" -> len + size + 2
      [] field = "data" -> len + 1
      [] field = "idle" -> 0

(* Nothing that happens inside streamJPEG, neither a block that is sent    *)
(* nor a send that fails, leaves as much to do as there was before: so it  *)
(* returns after a bounded number of calls of send, whatever fails         *)
(* (MJPEGStreamServerUDP.cpp: 140-164).                                    *)
SendingShortens == [][field # "idle" => TurnsLeft' < TurnsLeft]_vars

=============================================================================
