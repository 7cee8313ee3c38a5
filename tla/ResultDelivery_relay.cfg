SPECIFICATION FairSpec
CONSTANTS
    Replicas = {r1}
    NoReplica = NoReplica
    RowCount = 2
    BatchLimit = 2
    Sockets = {s1}
    Readers = {g1}
    Disturbances <- AllFaults
    MaxFaults = 1
INVARIANTS
    TypeOK
    OneAnswerPerLife
    NoSilentSocket
PROPERTIES
    RefinesAtLeastOnce
    StoredIsRelayed
    
CHECK_DEADLOCK FALSE
