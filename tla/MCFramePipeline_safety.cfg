CHECK_DEADLOCK FALSE
SPECIFICATION Spec
CONSTANTS
    Buffers = {b1, b2}
    NULL = NULL
    TempSurface = TempSurface
    Helpers = {h1, h2}
    Servers = {s1}
    Loader = Loader
    Tcp = Tcp
    Threads <- MCThreads
    MenuResolutions = {"480P"}
    MenuScreens = {"TV"}
    ENCODE_QUEUE_MESSAGE_COUNT = 1
    Window = 1
    initialQuality = 41
    minQuality = 41
    maxQuality = 41
    stepQuality = 0
    maxFrameDropsQuality = 99
    minFrameDropsQuality = 0
SYMMETRY MCSymmetry
INVARIANTS TypeOK OneOwner LossBound GpuWorksOnCapturedFrame HandlesAccountedFor EncoderQualityExcursion
