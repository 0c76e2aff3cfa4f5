SPECIFICATION Spec
CONSTANTS
    h1 = h1  h2 = h2  i1 = i1  i2 = i2
    Root = Root  NoHandle = NoHandle  NoId = NoId
    Handles <- TwoHandles
    Ids <- MCIds
    Capacity = 1
    MaxFlying = 3
    Buffer = 0
    Timeout = TRUE
    Parallel = TRUE
    FreshIds = TRUE
    MaxSent = 3
SYMMETRY IdSymmetry
INVARIANTS NoGap
PROPERTIES DefaultGetsUnclaimed Demultiplexes
CHECK_DEADLOCK FALSE
