SPECIFICATION FairSpec
CONSTANTS
    Workers = {w1, w2}
    NoWorker = NoWorker
    FirstMember = w1
    Pages = 2
    MaxAttempts = 2
    Disturbances <- DispatchFaults
    MaxFaults = 2
INVARIANTS
    TypeOK
    OneHandlerPerPage
    SucceededHasPage
    ImagesOutliveOcr
    CompleteJobSubmitted
PROPERTIES
    RefinesLeaseQueue
    ItemsSettle
CHECK_DEADLOCK FALSE
