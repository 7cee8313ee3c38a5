SPECIFICATION Spec
CONSTANTS
    Workers = {w1}
    NoWorker = NoWorker
    TotalChunks = 2
    Lanes <- OneLane
    StableIds = FALSE
    RegisterStatuses <- QueuedOnly
    Disturbances = {"cancel"}
    MaxRestarts = 1
PROPERTY CancelStands
CHECK_DEADLOCK FALSE
