CHECK_DEADLOCK FALSE
SPECIFICATION TimelyFairSpec
CONSTANTS
    Buffers = {b1}
    NULL = NULL
    TempSurface = TempSurface
    Helpers = {h1, h2}
    Servers = {s1, s2}
    Loader = Loader
    Tcp = Tcp
    Threads <- MCThreads
    MenuResolutions = {"240P"}
    MenuScreens = {"DRC"}
    ENCODE_QUEUE_MESSAGE_COUNT = 1
    Window = 1
    initialQuality = 41
    minQuality = 41
    maxQuality = 41
    stepQuality = 0
    maxFrameDropsQuality = 100
    minFrameDropsQuality = 0
INVARIANTS PluginTypeOK FieldOwnsServer AttachedWhenQuiet RenderWithinHeartBeat
PROPERTIES SendsBeginInLife CloseCompletes CloseShortens
