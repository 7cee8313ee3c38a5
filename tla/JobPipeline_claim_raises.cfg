SPECIFICATION FairSpec
CONSTANTS
    Workers = {w1}
    NoWorker = NoWorker
    TotalChunks = 1
    Lanes <- OneLane
    StableIds = TRUE
    RegisterStatuses <- QueuedOnly
    Disturbances = {"claim_error"}
    MaxRestarts = 0
PROPERTY JobSettles
CHECK_DEADLOCK FALSE
