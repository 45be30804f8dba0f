CHECK_DEADLOCK FALSE
SPECIFICATION Spec
CONSTANTS
    Buffers = {b1, b2}
    NULL = NULL
    TempSurface = TempSurface
    Helpers = {h1}
    Servers = {s1}
    Loader = Loader
    Tcp = Tcp
    Threads <- MCThreads
    MenuResolutions = {"240P"}
    MenuScreens = {"DRC"}
    ENCODE_QUEUE_MESSAGE_COUNT = 1
    Window = 1
    initialQuality = 50
    minQuality = 40
    maxQuality = 85
    stepQuality = 1
    maxFrameDropsQuality = 20
    minFrameDropsQuality = 95
INVARIANT EncoderSeesClampedQuality
