SPECIFICATION FairSpec
CONSTANTS
    Threads = {t1, t2}
    MaxClients = 2
    MaxCalls = 4
    MaxTracks = 2
    MaxBatch = 2
    FlushCount = 2
    MaxBytes = 5
    EmptyBytes = 1
    ItemBytes <- MCItemBytes
    MaxQueue = 2
    MaxAttempts = 2
    RttMetric = TRUE
INVARIANTS
    TypeOK
    OnePlace
    NothingStranded
    CaptureOrder
    GateHolds
PROPERTIES
    FlushOkMeansSent
    ComesToRest
