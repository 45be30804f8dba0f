CHECK_DEADLOCK FALSE
SPECIFICATION Spec
CONSTANTS
    Buffers = {b1, b2, b3}
    NULL = NULL
    TempSurface = TempSurface
    Helpers = {h1, h2}
    Servers = {}
    Loader = Loader
    Tcp = Tcp
    Threads <- MCThreads
    MenuResolutions = {"240P"}
    MenuScreens = {"DRC"}
    ENCODE_QUEUE_MESSAGE_COUNT = 2
    Window = 1
    initialQuality = 41
    minQuality = 41
    maxQuality = 41
    stepQuality = 0
    maxFrameDropsQuality = 100
    minFrameDropsQuality = 0
SYMMETRY MCSymmetry
PROPERTY StreamSpec
