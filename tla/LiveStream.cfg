CONSTANTS
    NoState = NoState
    BatchSizes = {1, 2}
    AuditEvery = 2
    LiveLoads = 1
    MaxRow = 5
SPECIFICATION FairSpec
INVARIANTS
    RestartSafe
PROPERTIES
    ImplementsAppendLog
    StreamEnds
