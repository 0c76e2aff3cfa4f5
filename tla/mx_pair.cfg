SPECIFICATION Spec
CONSTANTS
    h1 = h1  h2 = h2  i1 = i1  i2 = i2
    Root = Root  NoHandle = NoHandle  NoId = NoId
    Handles <- MCHandles
    Ids <- MCIds
    Capacity = 3
    MaxFlying = 3
    Buffer = 0
    Timeout = FALSE
    Parallel = FALSE
    FreshIds = TRUE
    MaxSent = 2
SYMMETRY MCSymmetry
INVARIANTS TypeOK DeliveredOnce Ordered NoGap
PROPERTIES NotEvicted EndDrained Demultiplexes
CHECK_DEADLOCK FALSE
