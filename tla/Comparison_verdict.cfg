SPECIFICATION Spec
CONSTANTS
    Documents <- MCDocuments
    MaxChars = 4
    HeadingChars = 3
    MaxEvidence = 6
    MaxContext = 3
    MaxBatch = 2
    MaxBatchChars = 20
    Overhead = 1
    ShortNumber = 1
    Reach = 1
    BatchLimit = 2
    Attempts = 2
    NoDecision = NoDecision
    NearStart = 1
    NearEnd = 1
    HeaderBlocks = 2
    HeaderChars = 2
    EdgeBlocks = 1
    MaxClassified = 3
INVARIANTS
    BlocksKeepText
    EveryBlockOnce
    ChangedRangeOptimal
    CandidatesExplainChange
    BatchesKeepOrder
    EveryCandidateVisible
    MisalignedIsSettled
    TechnicalIsProven
    RowsTellDecisions
    IdenticalMeansSame
    ContentEqualMeansTechnical
CHECK_DEADLOCK FALSE
