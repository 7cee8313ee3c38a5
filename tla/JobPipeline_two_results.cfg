SPECIFICATION Spec
CONSTANTS
    Workers = {w1, w2}
    NoWorker = NoWorker
    TotalChunks = 2
    Lanes <- OneLane
    StableIds = FALSE
    RegisterStatuses <- QueuedOnly
    Disturbances = {"crash", "expire"}
    MaxRestarts = 1
INVARIANT OneFinalResult
CHECK_DEADLOCK FALSE
