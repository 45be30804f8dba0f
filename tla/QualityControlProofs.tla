------------------------- MODULE QualityControlProofs ------------------------
(***************************************************************************)
(* What the quality controller guarantees for every choice of its          *)
(* constants.                                                              *)
(*                                                                         *)
(* QualityAtRest and QualityExcursion are not inductive: what the upper    *)
(* clamp returns depends on what the lower clamp left behind.  Swing says  *)
(* where curQuality can be before each of the steps, and, with the         *)
(* counters, is the inductive invariant.                                   *)
(***************************************************************************)
EXTENDS QualityControl, TLAPS

(* The drop ratio of a window is a percentage.                             *)
LEMMA RatioIsPercentage ==
    ASSUME NEW n \in Nat \ {0}, NEW d \in 0 .. n
    PROVE  (100 * d) \div n \in 0 .. 100
<1>1. (100 * d) \div n \in Int
  OBVIOUS
<1>2. 100 * d <= 100 * n
  OBVIOUS
<1> QED
  BY <1>1, <1>2

(* A correction is bounded in both directions.                             *)
LEMMA CorrectionBounded ==
    ASSUME NEW ratio \in 0 .. 100
    PROVE  Correction(ratio) \in -(100 - maxFrameDropsQuality) .. stepQuality
BY QualityAssumption DEF Correction

(* A frame that fills the window, and only such a frame, starts a          *)
(* correction.                                                             *)
LEMMA WindowEnds ==
    ASSUME NEW n \in 1 .. Window
    PROVE  n % Window = 0 <=> n = Window
<1>1. CASE n = Window
  BY <1>1, QualityAssumption
<1>2. CASE n < Window
  <2>1. n % Window = n
    BY <1>2, QualityAssumption
  <2> QED
    BY <1>2, <2>1
<1> QED
  BY <1>1, <1>2, QualityAssumption

-----------------------------------------------------------------------------

(* Where the quality can be before each step of the correction.            *)
Swing ==
    /\ phase = "frame"   => curQuality \in minQuality .. maxQuality
    /\ phase = "adjust"  => curQuality \in minQuality .. maxQuality
    /\ phase = "atLeast" => curQuality \in minQuality - (100 - maxFrameDropsQuality)
                                           .. maxQuality + stepQuality
    /\ phase = "atMost"  => curQuality \in minQuality .. maxQuality + stepQuality

QualityInv == QualityTypeOK /\ CountersOfOneWindow /\ Swing

(* The first window starts within the limits.                              *)
LEMMA QualityInvInit == QualityInit => QualityInv
BY QualityAssumption
   DEF QualityInit, QualityInv, QualityTypeOK, CountersOfOneWindow, Swing

(* The invariant is inductive.                                             *)
LEMMA QualityInvStep == QualityInv /\ [QualityNext]_qualityVars => QualityInv'
<1> SUFFICES ASSUME QualityInv, [QualityNext]_qualityVars
             PROVE  QualityInv'
  OBVIOUS
<1> USE QualityAssumption
<1>1. ASSUME NEW accepted \in BOOLEAN, CountFrame(accepted)
      PROVE  QualityInv'
  <2>1. frame_counter < Window
    BY <1>1 DEF QualityInv, QualityTypeOK, CountersOfOneWindow, CountFrame
  <2>2. frame_counter' \in 1 .. Window
    BY <1>1, <2>1 DEF QualityInv, QualityTypeOK, CountFrame
  <2>3. phase' = IF frame_counter' = Window THEN "adjust" ELSE "frame"
    BY <1>1, <2>2, WindowEnds DEF CountFrame
  <2>4. frame_counter_skipped' \in 0 .. frame_counter'
    BY <1>1 DEF QualityInv, QualityTypeOK, CountersOfOneWindow, CountFrame
  <2>5. QualityTypeOK'
    BY <1>1, <2>2, <2>3, <2>4 DEF QualityInv, QualityTypeOK, CountFrame
  <2>6. CountersOfOneWindow'
    BY <2>2, <2>3, <2>4 DEF CountersOfOneWindow
  <2>7. Swing'
    BY <1>1, <2>3 DEF QualityInv, Swing, CountFrame
  <2> QED
    BY <2>5, <2>6, <2>7 DEF QualityInv
<1>2. CASE AdjustQuality
  <2>1. frame_counter \in Nat \ {0} /\ frame_counter_skipped \in 0 .. frame_counter
    BY <1>2 DEF AdjustQuality, QualityInv, QualityTypeOK, CountersOfOneWindow
  <2>2. CurRatio \in 0 .. 100
    BY <2>1, RatioIsPercentage DEF CurRatio
  <2>3. Correction(CurRatio) \in -(100 - maxFrameDropsQuality) .. stepQuality
    BY <2>2, CorrectionBounded
  <2>4. curQuality' \in minQuality - (100 - maxFrameDropsQuality)
                        .. maxQuality + stepQuality
    BY <1>2, <2>3 DEF AdjustQuality, QualityInv, Swing
  <2> QED
    BY <1>2, <2>4
       DEF AdjustQuality, QualityInv, QualityTypeOK, CountersOfOneWindow, Swing
<1>3. CASE AtLeastMinQuality
  BY <1>3 DEF AtLeastMinQuality, QualityInv, QualityTypeOK, CountersOfOneWindow,
              Swing
<1>4. CASE AtMostMaxQuality
  BY <1>4 DEF AtMostMaxQuality, QualityInv, QualityTypeOK, CountersOfOneWindow,
              Swing
<1>5. CASE UNCHANGED qualityVars
  BY <1>5 DEF qualityVars, QualityInv, QualityTypeOK, CountersOfOneWindow, Swing
<1> QED
  BY <1>1, <1>2, <1>3, <1>4, <1>5 DEF QualityNext, Correct

(* So it holds always.                                                     *)
LEMMA QualityInvariant == QualitySpec => []QualityInv
BY QualityInvInit, QualityInvStep, PTL DEF QualitySpec

(* What it says of every phase together.                                   *)
LEMMA QualityInvExcursion == QualityInv => QualityExcursion
BY QualityAssumption DEF QualityInv, QualityTypeOK, Swing, QualityExcursion

-----------------------------------------------------------------------------

(* The controller's variables keep their types.                            *)
THEOREM QualityTypeCorrect == QualitySpec => []QualityTypeOK
<1>1. QualityInv => QualityTypeOK
  BY DEF QualityInv
<1> QED
  BY <1>1, QualityInvariant, PTL

(* The two counters always describe one window of frames.                  *)
THEOREM CountersCorrect == QualitySpec => []CountersOfOneWindow
<1>1. QualityInv => CountersOfOneWindow
  BY DEF QualityInv
<1> QED
  BY <1>1, QualityInvariant, PTL

(* Between two corrections the quality is in the configured range, for     *)
(* every range, step and pair of limits.                                   *)
THEOREM QualityClamped == QualitySpec => []QualityAtRest
<1>1. QualityInv => QualityAtRest
  BY DEF QualityInv, Swing, QualityAtRest
<1> QED
  BY <1>1, QualityInvariant, PTL

(* During a correction it leaves the range by at most the largest          *)
(* correction in either direction.                                         *)
THEOREM QualityExcursionBounded == QualitySpec => []QualityExcursion
BY QualityInvExcursion, QualityInvariant, PTL

-----------------------------------------------------------------------------
(* How the quality gets to its limits                                      *)

(* A whole window less to go outweighs whatever a window costs.            *)
LEMMA OneWindowLess ==
    ASSUME NEW n \in Nat, NEW g \in Nat, NEW h \in Nat, h < g
    PROVE  n * h + n <= n * g
<1>1. g - h - 1 \in Nat
  OBVIOUS
<1>2. n * (g - h - 1) \in Nat
  BY <1>1
<1>3. n * (g - h - 1) = n * g - n * h - n
  OBVIOUS
<1>4. n * g \in Nat /\ n * h \in Nat
  OBVIOUS
<1> QED
  BY <1>2, <1>3, <1>4

LEMMA SameOrNearer ==
    ASSUME NEW n \in Nat, NEW g \in Nat, NEW h \in Nat, h <= g
    PROVE  n * h <= n * g
<1>1. CASE h = g
  BY <1>1
<1>2. CASE h < g
  <2>1. n * h + n <= n * g /\ n * h \in Nat /\ n * g \in Nat
    BY <1>2, OneWindowLess
  <2> QED
    BY <2>1
<1> QED
  BY <1>1, <1>2

LEMMA LessInTotal ==
    ASSUME NEW p \in Nat, NEW q \in Nat, NEW r \in Nat, NEW s \in Nat,
           p <= q, r < s
    PROVE  p + r < q + s
OBVIOUS

LEMMA GapNatural ==
    ASSUME NEW a \in Int, NEW b \in Int
    PROVE  Gap(a, b) \in Nat /\ (Gap(a, b) = 0 <=> a >= b)
BY DEF Gap

(* A step gets nearer if its gap does not grow, and, if it is the one that *)
(* starts the next window, if it shrinks.                                  *)
LEMMA StepShortens ==
    ASSUME QualityInv, QualityNext, NEW g \in Nat, NEW h \in Nat,
           phase = "adjust" => h < g,
           phase # "adjust" => h <= g
    PROVE  (Window + 3) * h + StepsOfWindow' < (Window + 3) * g + StepsOfWindow
<1> DEFINE n == Window + 3
<1>1. /\ Window \in Nat /\ n \in Nat /\ n * g \in Nat /\ n * h \in Nat
      /\ frame_counter \in 0 .. Window
      /\ phase # "frame" <=> frame_counter = Window
  BY QualityAssumption DEF QualityInv, QualityTypeOK, CountersOfOneWindow
<1>2. QualityInv'
  BY QualityInvStep
<1>3. /\ frame_counter' \in 0 .. Window
      /\ phase' # "frame" <=> frame_counter' = Window
  BY <1>2 DEF QualityInv, QualityTypeOK, CountersOfOneWindow
<1>4. CASE AdjustQuality
  <2>1. phase = "adjust" /\ phase' = "atLeast"
    BY <1>4 DEF AdjustQuality
  <2>2. n * h + n <= n * g
    BY <1>1, <2>1, OneWindowLess
  <2>3. StepsOfWindow = 3 /\ StepsOfWindow' = Window + 5
    BY <2>1 DEF StepsOfWindow
  <2> HIDE DEF n
  <2>4. n = Window + 3
    BY DEF n
  <2>5. n * h + StepsOfWindow' < n * g + StepsOfWindow
    BY <1>1, <2>2, <2>3, <2>4
  <2> QED
    BY <2>4, <2>5
<1>5. CASE ~AdjustQuality
  <2>1. phase # "adjust"
    BY <1>5 DEF QualityNext, Correct, CountFrame, AtLeastMinQuality, AtMostMaxQuality
  <2>2. n * h <= n * g
    BY <1>1, <2>1, SameOrNearer
  <2>3. StepsOfWindow \in Nat /\ StepsOfWindow' \in Nat /\ StepsOfWindow' < StepsOfWindow
    <3>2. CASE AtLeastMinQuality
      BY <1>1, <3>2 DEF AtLeastMinQuality, StepsOfWindow
    <3>3. CASE AtMostMaxQuality
      BY <1>1, <3>3 DEF AtMostMaxQuality, StepsOfWindow
    <3>4. CASE CountFrame(TRUE) \/ CountFrame(FALSE)
      <4>1. /\ phase = "frame" /\ (phase' = "frame" \/ phase' = "adjust")
            /\ frame_counter' = frame_counter + 1
        BY <3>4 DEF CountFrame
      <4>2. StepsOfWindow = Window - frame_counter + 3
        BY <4>1 DEF StepsOfWindow
      <4>3. phase' = "frame" => StepsOfWindow' = Window - frame_counter' + 3
        BY DEF StepsOfWindow
      <4>4. phase' = "adjust" => StepsOfWindow' = 3
        BY DEF StepsOfWindow
      <4> QED
        BY <1>1, <1>3, <4>1, <4>2, <4>3, <4>4
    <3> QED
      BY <1>5, <3>2, <3>3, <3>4 DEF QualityNext, Correct
  <2> HIDE DEF n
  <2>4. n * h + StepsOfWindow' < n * g + StepsOfWindow
    BY <1>1, <2>2, <2>3, LessInTotal
  <2> QED
    BY <2>4 DEF n
<1> QED
  BY <1>4, <1>5

(* Once no frame is dropped, nothing the controller does takes the quality *)
(* away from maxQuality: the safety half of KeepingUpReachesMaxQuality.    *)
THEOREM KeepingUpGains == QualitySpec => KeepingUpClimbs
<1>1. ASSUME QualityInv, QualityNext, stepQuality > 0, minFrameDropsQuality > 0,
             frame_counter_skipped = 0,
             ~(curQuality >= maxQuality /\ curQuality' >= maxQuality)
      PROVE  StepsToMax' < StepsToMax
  <2> DEFINE g == Gap(curQuality, maxQuality)
             h == Gap(curQuality', maxQuality)
  <2>1. /\ curQuality \in Int /\ curQuality' \in Int
        /\ maxQuality \in Int /\ minQuality \in Int /\ stepQuality \in Int
        /\ minQuality <= maxQuality
    BY <1>1, QualityInvStep, QualityAssumption DEF QualityInv, QualityTypeOK
  <2>2. g \in Nat /\ h \in Nat
    BY <2>1, GapNatural
  <2>3. CASE AdjustQuality
    <3>1. CurRatio = 0
      <4>1. frame_counter \in Nat \ {0}
        BY <1>1, <2>3, QualityAssumption
           DEF AdjustQuality, QualityInv, CountersOfOneWindow
      <4>2. (100 * 0) \div frame_counter = 0
        BY <4>1
      <4> QED
        BY <1>1, <4>2 DEF CurRatio
    <3>2. curQuality' = curQuality + stepQuality
      BY <1>1, <2>3, <3>1, QualityAssumption DEF AdjustQuality, Correction
    <3>3. phase = "adjust" /\ h < g
      BY <1>1, <2>1, <2>3, <3>2 DEF Gap, AdjustQuality
    <3> QED
      BY <1>1, <2>2, <3>3, StepShortens DEF StepsToMax
  <2>4. CASE ~AdjustQuality
    <3>1. phase # "adjust"
      BY <1>1, <2>4
         DEF QualityNext, Correct, CountFrame, AtLeastMinQuality, AtMostMaxQuality
    <3>2. curQuality' >= curQuality \/ curQuality' >= maxQuality
      BY <1>1, <2>1, <2>4
         DEF QualityNext, Correct, CountFrame, AtLeastMinQuality, AtMostMaxQuality
    <3>3. h <= g
      <4>1. \A a, b, c \in Int : b >= a \/ b >= c => Gap(b, c) <= Gap(a, c)
        BY DEF Gap
      <4> QED
        BY <2>1, <3>2, <4>1
    <3> QED
      BY <1>1, <2>2, <3>1, <3>3, StepShortens DEF StepsToMax
  <2> QED
    BY <2>3, <2>4
<1>2. QualityInv /\ [QualityNext]_qualityVars =>
        [stepQuality > 0 /\ minFrameDropsQuality > 0 /\ frame_counter_skipped = 0 =>
           \/ curQuality >= maxQuality /\ curQuality' >= maxQuality
           \/ StepsToMax' < StepsToMax]_qualityVars
  BY <1>1
<1> QED
  BY <1>2, QualityInvariant, PTL DEF QualitySpec, KeepingUpClimbs

(* The same when every frame is dropped: the safety half of                *)
(* FallingBehindReachesMinQuality.                                         *)
THEOREM FallingBehindLoses == QualitySpec => FallingBehindFalls
<1>1. ASSUME QualityInv, QualityNext, maxFrameDropsQuality < 100,
             frame_counter_skipped = frame_counter,
             ~(curQuality <= minQuality /\ curQuality' <= minQuality)
      PROVE  StepsToMin' < StepsToMin
  <2> DEFINE g == Gap(minQuality, curQuality)
             h == Gap(minQuality, curQuality')
  <2>1. /\ curQuality \in Int /\ curQuality' \in Int
        /\ maxQuality \in Int /\ minQuality \in Int /\ maxFrameDropsQuality \in Int
        /\ minQuality <= maxQuality
    BY <1>1, QualityInvStep, QualityAssumption DEF QualityInv, QualityTypeOK
  <2>2. g \in Nat /\ h \in Nat
    BY <2>1, GapNatural
  <2>3. CASE AdjustQuality
    <3>1. CurRatio = 100
      BY <1>1, <2>3, QualityAssumption
         DEF CurRatio, AdjustQuality, QualityInv, QualityTypeOK, CountersOfOneWindow
    <3>2. curQuality' = curQuality + (maxFrameDropsQuality - 100)
      BY <1>1, <2>1, <2>3, <3>1 DEF AdjustQuality, Correction
    <3>3. phase = "adjust" /\ h < g
      BY <1>1, <2>1, <2>3, <3>2 DEF Gap, AdjustQuality
    <3> QED
      BY <1>1, <2>2, <3>3, StepShortens DEF StepsToMin
  <2>4. CASE ~AdjustQuality
    <3>1. phase # "adjust"
      BY <1>1, <2>4
         DEF QualityNext, Correct, CountFrame, AtLeastMinQuality, AtMostMaxQuality
    <3>2. curQuality' <= curQuality \/ curQuality' <= minQuality
      BY <1>1, <2>1, <2>4
         DEF QualityNext, Correct, CountFrame, AtLeastMinQuality, AtMostMaxQuality
    <3>3. h <= g
      <4>1. \A a, b, c \in Int : b <= a \/ b <= c => Gap(c, b) <= Gap(c, a)
        BY DEF Gap
      <4> QED
        BY <2>1, <3>2, <4>1
    <3> QED
      BY <1>1, <2>2, <3>1, <3>3, StepShortens DEF StepsToMin
  <2> QED
    BY <2>3, <2>4
<1>2. QualityInv /\ [QualityNext]_qualityVars =>
        [maxFrameDropsQuality < 100 /\ frame_counter_skipped = frame_counter =>
           \/ curQuality <= minQuality /\ curQuality' <= minQuality
           \/ StepsToMin' < StepsToMin]_qualityVars
  BY <1>1
<1> QED
  BY <1>2, QualityInvariant, PTL DEF QualitySpec, FallingBehindFalls

=============================================================================
