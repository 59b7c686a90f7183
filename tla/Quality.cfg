CONSTANTS
    None = None
    t1 = t1
    t2 = t2
    Threads = {t1, t2}
    MaxLots = 2
    MaxCalls = 4
    MaxRestarts = 1
SPECIFICATION FairQualitySpec
INVARIANT HeldIsOnFile
PROPERTY FailuresAreDecided
CHECK_DEADLOCK FALSE
