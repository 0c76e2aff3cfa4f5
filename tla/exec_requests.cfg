SPECIFICATION ExecSpec
CONSTANTS
    h1 = h1  h2 = h2  i1 = i1  i2 = i2  t1 = t1  t2 = t2
    Root = Root  NoHandle = NoHandle  NoId = NoId  NoTask = NoTask
    Handles <- MCHandles
    Ids <- MCIds
    Tasks <- MCTasks
    TaskOf <- Separate
    Capacity = 4
    MaxFlying = 4
    Buffer = 0
    Timeout = TRUE
    Parallel = FALSE
    FreshIds = TRUE
    Modes <- MCModes
    MaxSent = 2
INVARIANTS ExecTypeOK Reachable QueueWatched
PROPERTIES SingleReceived QueuedReceived TimeoutAtWake LeaveEndsAll
CHECK_DEADLOCK FALSE
