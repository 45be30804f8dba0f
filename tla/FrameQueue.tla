----------------------------- MODULE FrameQueue -----------------------------
(***************************************************************************)
(* What the render thread and the encoder thread share: the heap blocks    *)
(* that hold captured frames, and the encodeQueue that hands them over.    *)
(*                                                                         *)
(* A frame is a GX2ColorBuffer (the header) with the pixels it points to   *)
(* (the image), allocated and freed separately.  A buffer is its address,  *)
(* so an address that was freed may be handed out again.                   *)
(*                                                                         *)
(* OSMessageQueue is a bounded FIFO of the operating system.  Both ends    *)
(* are used without blocking: a send fails on a full queue, a receive on   *)
(* an empty one.  A message carries nothing but the buffer's address.      *)
(***************************************************************************)
EXTENDS Naturals, Sequences, FiniteSets

CONSTANTS
    Buffers,                    \* addresses a GX2ColorBuffer can have
    NULL,
    ENCODE_QUEUE_MESSAGE_COUNT

ASSUME FrameQueueAssumption ==
    /\ IsFiniteSet(Buffers)
    /\ NULL \notin Buffers
    /\ ENCODE_QUEUE_MESSAGE_COUNT \in Nat \ {0}

VARIABLES
    heap,         \* what of each buffer is allocated
    encodeQueue

frameVars == <<heap, encodeQueue>>

BlockState == {"free", "header", "image"}

FrameInit ==
    /\ heap = [b \in Buffers |-> "free"]
    /\ encodeQueue = <<>>

Allocated == {b \in Buffers : heap[b] # "free"}

Queued == {encodeQueue[i] : i \in 1 .. Len(encodeQueue)}

-----------------------------------------------------------------------------

SetBlock(b, state) == heap' = [heap EXCEPT ![b] = state]

(* free(colorBuffer->surface.image) and free(colorBuffer).                 *)
FreeFrame(b) == SetBlock(b, "free")

(* Variant: one message too many.                                          *)
HasRoomOffByOne == Len(encodeQueue) <= ENCODE_QUEUE_MESSAGE_COUNT

HasRoom == Len(encodeQueue) < ENCODE_QUEUE_MESSAGE_COUNT

(* Variant: the argument of the message is never filled in.                *)
OSSendMessageUnfilled(b) == encodeQueue' = Append(encodeQueue, NULL)

OSSendMessage(b) == encodeQueue' = Append(encodeQueue, b)

OSReceiveMessage == encodeQueue' = Tail(encodeQueue)

(* (Re)initialising the queue forgets what was in it.                      *)
OSInitMessageQueue == encodeQueue' = <<>>

=============================================================================
