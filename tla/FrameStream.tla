----------------------------- MODULE FrameStream ----------------------------
(***************************************************************************)
(* What becomes of a captured frame, without threads, heap and restarts:   *)
(* the abstract specification FramePipeline implements.                    *)
(*                                                                         *)
(* A frame is captured into a buffer, then dropped or put at the end of a  *)
(* bounded line.  The first in line is taken out, encoded and given back.  *)
(* At any time the whole line may be lost; the buffers of lost frames are  *)
(* never used again.                                                       *)
(***************************************************************************)
EXTENDS Naturals, Sequences

CONSTANTS Buffers, Capacity

VARIABLES
    stage,       \* of each buffer
    waiting      \* the line

streamVars == <<stage, waiting>>

Stages == {"free", "captured", "queued", "encoding", "lost"}

Init ==
    /\ stage = [b \in Buffers |-> "free"]
    /\ waiting = <<>>

Move(b, from, to) ==
    /\ stage[b] = from
    /\ stage' = [stage EXCEPT ![b] = to]

(* The game shows one image at a time.                                     *)
Capture(b) ==
    /\ \A c \in Buffers : stage[c] # "captured"
    /\ Move(b, "free", "captured")
    /\ UNCHANGED waiting

Drop(b) == Move(b, "captured", "free") /\ UNCHANGED waiting

Enqueue(b) ==
    /\ Len(waiting) < Capacity
    /\ Move(b, "captured", "queued")
    /\ waiting' = Append(waiting, b)

Encode(b) ==
    /\ waiting # <<>> /\ b = Head(waiting)
    /\ Move(b, "queued", "encoding")
    /\ waiting' = Tail(waiting)

Release(b) == Move(b, "encoding", "free") /\ UNCHANGED waiting

Lose ==
    /\ stage' = [b \in Buffers |-> IF stage[b] = "queued" THEN "lost" ELSE stage[b]]
    /\ waiting' = <<>>

Advance(b) == Capture(b) \/ Drop(b) \/ Enqueue(b) \/ Encode(b) \/ Release(b)

Next == (\E b \in Buffers : Advance(b)) \/ Lose

Spec == Init /\ [][Next]_streamVars

=============================================================================
