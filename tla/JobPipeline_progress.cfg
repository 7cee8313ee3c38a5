SPECIFICATION FairSpec
CONSTANTS
    Workers = {w1}
    NoWorker = NoWorker
    TotalChunks = 2
    Lanes <- TwoLanes
    StableIds = TRUE
    RegisterStatuses <- QueuedOnly
    Disturbances <- SurvivableFaults
    MaxRestarts = 2
INVARIANTS
    OneFinalResult
PROPERTIES
    JobSettles
CHECK_DEADLOCK FALSE
