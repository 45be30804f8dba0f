\* JPEGs around the borders of one and two datagrams, with the size of the code.
CHECK_DEADLOCK FALSE
SPECIFICATION FairSpec
CONSTANTS
    MAX_UDP_SIZE = 1400
    JpegSizes = {600, 1399, 1400, 1401, 2800, 2801}
    MaxFrames = 2
INVARIANTS TypeOK WireInOrder WellCut SentCompletely
PROPERTIES StreamJPEGReturns SendingShortens
