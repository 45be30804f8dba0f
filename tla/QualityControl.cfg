\* The constants of src/src/stream_utils.cpp: 96-101 and 182.
SPECIFICATION QualityFairSpec
CONSTANTS
    Window = 60
    initialQuality = 50
    minQuality = 40
    maxQuality = 85
    stepQuality = 1
    maxFrameDropsQuality = 20
    minFrameDropsQuality = 95
INVARIANTS QualityTypeOK CountersOfOneWindow QualityAtRest QualityExcursion
PROPERTIES KeepingUpClimbs FallingBehindFalls KeepingUpReachesMaxQuality FallingBehindReachesMinQuality
