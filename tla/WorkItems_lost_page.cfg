SPECIFICATION Spec
CONSTANTS
    Workers = {w1, w2}
    NoWorker = NoWorker
    FirstMember = w1
    Pages = 1
    MaxAttempts = 2
    Disturbances <- CrashOnly
    MaxFaults = 1
INVARIANTS
    SucceededIsStored
CHECK_DEADLOCK FALSE
