SPECIFICATION Spec
CONSTANTS
    Workers = {w1, w2}
    NoWorker = NoWorker
    TotalChunks = 2
    Lanes <- OneLane
    StableIds = FALSE
    RegisterStatuses <- QueuedAndLate
    Disturbances <- DeliveryFaults
    MaxRestarts = 1
INVARIANTS
    TypeOK
    ComparesWholeDocument
    ReadyNotUndone
    ReadyIsScheduled
SYMMETRY AnyWorker
CHECK_DEADLOCK FALSE
