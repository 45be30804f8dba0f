--------------------------- MODULE QualityControl ---------------------------
(***************************************************************************)
(* The self adjusting JPEG quality of src/src/stream_utils.cpp.            *)
(*                                                                         *)
(* The render thread counts the frames it captured and the frames it had   *)
(* to drop because the encoder queue was full.  Every Window frames it     *)
(* turns the two counters into a drop ratio, changes the global curQuality *)
(* by it, and starts counting again.                                       *)
(*                                                                         *)
(* curQuality is a plain global that the encoder thread reads whenever it  *)
(* compresses a frame, and the code changes it in place: first the         *)
(* correction, then the lower clamp, then the upper clamp.  Each of these  *)
(* assignments is a step of its own here, because another thread may read  *)
(* curQuality between any two of them.  (A build that keeps curQuality in  *)
(* a register until the end has a subset of these behaviours.)             *)
(*                                                                         *)
(* The ratio is computed in floating point in the code and then truncated; *)
(* for every pair of counters a window of 60 frames can end with the       *)
(* result is the integer quotient used below.                              *)
(***************************************************************************)
EXTENDS Integers

CONSTANTS
    Window,                \* frames per correction: the 60 of frame_counter % 60
    initialQuality,        \* the initialiser of curQuality
    minQuality,
    maxQuality,
    stepQuality,
    maxFrameDropsQuality,
    minFrameDropsQuality

ASSUME QualityAssumption ==
    /\ Window \in Nat \ {0}
    /\ initialQuality \in Int /\ minQuality \in Int /\ maxQuality \in Int
    /\ minQuality <= initialQuality /\ initialQuality <= maxQuality
    /\ stepQuality \in Nat
    /\ maxFrameDropsQuality \in 0 .. 100
    /\ minFrameDropsQuality \in Int

VARIABLES
    frame_counter,         \* frames captured in this window
    frame_counter_skipped, \* those of them that were dropped
    curQuality,            \* the quality the encoder thread reads
    phase                  \* where the render thread is in the correction

qualityVars == <<frame_counter, frame_counter_skipped, curQuality, phase>>

QualityInit ==
    /\ frame_counter = 0
    /\ frame_counter_skipped = 0
    /\ curQuality = initialQuality
    /\ phase = "frame"

-----------------------------------------------------------------------------

(* One frame went to the encoder queue, or was dropped for want of room.   *)
CountFrame(accepted) ==
    /\ phase = "frame"
    /\ frame_counter' = frame_counter + 1
    /\ frame_counter_skipped' =
         IF accepted THEN frame_counter_skipped ELSE frame_counter_skipped + 1
    /\ phase' = IF frame_counter' % Window = 0 THEN "adjust" ELSE "frame"
    /\ UNCHANGED curQuality

(* Variant: the share of the frames that were accepted.                    *)
CurRatioOfAccepted ==
    (100 * (frame_counter - frame_counter_skipped)) \div frame_counter

CurRatio == (100 * frame_counter_skipped) \div frame_counter

(* Variant: subtracts the ratio, not what exceeds the limit.               *)
CorrectionByRatio(ratio) ==
    IF ratio > maxFrameDropsQuality THEN -ratio
    ELSE IF ratio < minFrameDropsQuality THEN stepQuality
    ELSE 0

(* Variant: the second comparison the wrong way round.                     *)
CorrectionSwapped(ratio) ==
    IF ratio > maxFrameDropsQuality THEN maxFrameDropsQuality - ratio
    ELSE IF ratio > minFrameDropsQuality THEN stepQuality
    ELSE 0

(* What a drop ratio adds to the quality, before it is clamped.            *)
Correction(ratio) ==
    IF ratio > maxFrameDropsQuality THEN maxFrameDropsQuality - ratio
    ELSE IF ratio < minFrameDropsQuality THEN stepQuality
    ELSE 0

AdjustQuality ==
    /\ phase = "adjust"
    /\ curQuality' = curQuality + Correction(CurRatio)
    /\ phase' = "atLeast"
    /\ UNCHANGED <<frame_counter, frame_counter_skipped>>

(* Variant: clamps on the wrong side.                                      *)
AtLeastMinQualityReversed ==
    /\ phase = "atLeast"
    /\ curQuality' = IF curQuality > minQuality THEN minQuality ELSE curQuality
    /\ phase' = "atMost"
    /\ UNCHANGED <<frame_counter, frame_counter_skipped>>

AtLeastMinQuality ==
    /\ phase = "atLeast"
    /\ curQuality' = IF curQuality < minQuality THEN minQuality ELSE curQuality
    /\ phase' = "atMost"
    /\ UNCHANGED <<frame_counter, frame_counter_skipped>>

(* Variant: the dropped frames of the window are carried into the next.    *)
AtMostMaxQualityKeepsDrops ==
    /\ phase = "atMost"
    /\ curQuality' = IF curQuality >= maxQuality THEN maxQuality ELSE curQuality
    /\ frame_counter' = 0
    /\ phase' = "frame"
    /\ UNCHANGED frame_counter_skipped

(* Variant: neither counter starts again.                                  *)
AtMostMaxQualityKeepsCounters ==
    /\ phase = "atMost"
    /\ curQuality' = IF curQuality >= maxQuality THEN maxQuality ELSE curQuality
    /\ phase' = "frame"
    /\ UNCHANGED <<frame_counter, frame_counter_skipped>>

(* The upper clamp, and the end of the window: both counters start again.  *)
AtMostMaxQuality ==
    /\ phase = "atMost"
    /\ curQuality' = IF curQuality >= maxQuality THEN maxQuality ELSE curQuality
    /\ frame_counter' = 0
    /\ frame_counter_skipped' = 0
    /\ phase' = "frame"

Correct == AdjustQuality \/ AtLeastMinQuality \/ AtMostMaxQuality

-----------------------------------------------------------------------------
(* The controller on its own: every frame may be accepted or dropped.      *)

QualityNext ==
    \/ CountFrame(TRUE)
    \/ CountFrame(FALSE)
    \/ Correct

QualitySpec == QualityInit /\ [][QualityNext]_qualityVars

(* The render thread runs as long as the game draws frames.                *)
QualityFairSpec == QualitySpec /\ WF_qualityVars(QualityNext)

-----------------------------------------------------------------------------

(* The values of the controller's variables.                               *)
QualityTypeOK ==
    /\ frame_counter \in 0 .. Window
    /\ frame_counter_skipped \in 0 .. Window
    /\ curQuality \in Int
    /\ phase \in {"frame", "adjust", "atLeast", "atMost"}

(* The counters describe one window: never more drops than frames, a       *)
(* correction runs only on a full window, and a full window is never       *)
(* carried into the next frame (stream_utils.cpp: 163, 168, 182, 204).     *)
CountersOfOneWindow ==
    /\ frame_counter_skipped <= frame_counter
    /\ phase # "frame" <=> frame_counter = Window

(* Between two corrections the quality is within the configured range:     *)
(* what the two clamps of stream_utils.cpp: 193-200 are for.               *)
QualityAtRest ==
    phase = "frame" => curQuality \in minQuality .. maxQuality

(* How far curQuality leaves that range while it is being corrected: never *)
(* further than the largest correction in either direction.  The encoder   *)
(* thread may read any of these values (EncodingHelper.cpp: 117).          *)
QualityExcursion ==
    curQuality \in minQuality - (100 - maxFrameDropsQuality)
                   .. maxQuality + stepQuality

(* An encoder that keeps up ends at the best quality: once no frame is     *)
(* dropped any more, the quality climbs to maxQuality and stays there      *)
(* (stream_utils.cpp: 188-189).                                            *)
KeepingUpReachesMaxQuality ==
    <>[](frame_counter_skipped = 0)
        => <>[](phase = "frame" => curQuality = maxQuality)

(* An encoder that never keeps up ends at the lowest quality: once every   *)
(* frame is dropped, the quality falls to minQuality and stays there       *)
(* (stream_utils.cpp: 186-187).                                            *)
FallingBehindReachesMinQuality ==
    <>[](frame_counter_skipped = frame_counter)
        => <>[](phase = "frame" => curQuality = minQuality)

-----------------------------------------------------------------------------
(* How the quality gets there                                              *)

Gap(from, to) == IF from < to THEN to - from ELSE 0

(* How many steps the render thread is from the end of the window in which *)
(* the quality was last corrected.                                         *)
StepsOfWindow ==
    CASE phase = "frame"   -> Window - frame_counter + 3
      [] phase = "adjust"  -> 3
      [] phase = "atLeast" -> Window + 5
      [] phase = "atMost"  -> Window + 4

(* The same to the best and to the lowest quality, at most, if each window *)
(* brings one point.                                                       *)
StepsToMax == (Window + 3) * Gap(curQuality, maxQuality) + StepsOfWindow
StepsToMin == (Window + 3) * Gap(minQuality, curQuality) + StepsOfWindow

(* As long as no frame is dropped, every step brings the quality nearer to *)
(* maxQuality until it is there, and then it stays: no correction and no   *)
(* clamp undoes what was gained (stream_utils.cpp: 182-204).               *)
KeepingUpClimbs ==
    [][stepQuality > 0 /\ minFrameDropsQuality > 0 /\ frame_counter_skipped = 0 =>
         \/ curQuality >= maxQuality /\ curQuality' >= maxQuality
         \/ StepsToMax' < StepsToMax]_qualityVars

(* As long as every frame is dropped, every step brings it nearer to       *)
(* minQuality until it is there, and then it stays (stream_utils.cpp:      *)
(* 182-204).                                                               *)
FallingBehindFalls ==
    [][maxFrameDropsQuality < 100 /\ frame_counter_skipped = frame_counter =>
         \/ curQuality <= minQuality /\ curQuality' <= minQuality
         \/ StepsToMin' < StepsToMin]_qualityVars

=============================================================================
