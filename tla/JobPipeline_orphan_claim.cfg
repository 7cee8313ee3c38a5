SPECIFICATION FairSpec
CONSTANTS
    Workers = {w1}
    NoWorker = NoWorker
    TotalChunks = 2
    Lanes <- OneLane
    StableIds = FALSE
    RegisterStatuses <- QueuedOnly
    Disturbances = {"crash", "expire"}
    MaxRestarts = 1
PROPERTY JobSettles
CHECK_DEADLOCK FALSE
