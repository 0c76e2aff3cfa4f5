SPECIFICATION Spec
CONSTANTS
    h1 = h1  h2 = h2  i1 = i1  i2 = i2
    Root = Root  NoHandle = NoHandle  NoId = NoId
    Handles <- MCHandles
    Ids <- OneId
    Capacity = 3
    MaxFlying = 3
    Buffer = 0
    Timeout = FALSE
    Parallel = FALSE
    FreshIds = FALSE
    MaxSent = 1
PROPERTY NotEvicted
CHECK_DEADLOCK FALSE
