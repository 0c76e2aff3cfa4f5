SPECIFICATION Spec
CONSTANTS
    Capacity = 25
    Threshold = 3
    Channels = 2
    FrameSizes <- MCFrameSizes
    OutLens = {4, 5}
    Streams <- MCStreams
    Packets = 4
    FramesPer = {0, 1, 2}
    CodecRoom = 1
    Errors = TRUE
    MaxGen = 2
INVARIANTS TypeOK NeverFull InSequence
PROPERTIES PlaysBack Aligned Plays TailMoved StopEnds
CHECK_DEADLOCK FALSE
