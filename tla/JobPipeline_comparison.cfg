SPECIFICATION Spec
CONSTANTS
    Workers = {w1, w2}
    NoWorker = NoWorker
    TotalChunks = 1
    Lanes <- OneLane
    StableIds = FALSE
    RegisterStatuses <- QueuedAndLate
    Disturbances <- ComparisonFaults
    MaxRestarts = 1
INVARIANTS
    CompletedHasResult
    ClaimsNeedRestarts
PROPERTIES
    TerminalNeverReopened
    CancelPreventsComparison
SYMMETRY AnyWorker
CHECK_DEADLOCK FALSE
