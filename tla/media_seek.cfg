SPECIFICATION Spec
CONSTANTS
    Capacity = 25
    Threshold = 3
    Channels = 2
    FrameSizes <- MCFrameSizes
    OutLens = {4}
    Streams <- MCStreams
    Packets = 4
    FramesPer = {0, 1, 2}
    CodecRoom = 1
    Errors = FALSE
    MaxGen = 2
INVARIANT BufferFresh
CHECK_DEADLOCK FALSE
