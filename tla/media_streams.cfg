SPECIFICATION Spec
CONSTANTS
    Capacity = 25
    Threshold = 3
    Channels = 2
    FrameSizes <- MCFrameSizes
    OutLens = {4}
    Streams <- FilmStreams
    Packets = 4
    FramesPer = {0, 1, 2}
    CodecRoom = 1
    Errors = FALSE
    MaxGen = 2
INVARIANT ChosenOnly
CHECK_DEADLOCK FALSE
