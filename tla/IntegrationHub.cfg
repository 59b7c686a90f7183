CONSTANTS
    t1 = t1
    t2 = t2
    k1 = k1
    k2 = k2
    NoCall = NoCall
    Threads = {t1, t2}
    Keys = {k1, k2}
    MaxRecords = 2
    MaxCalls = 4
SPECIFICATION HubSpec
INVARIANTS
    IgnoredIsLogged
    CommittedAsApproved
    CommitsAreWhole
    SwitchAgrees
PROPERTY
    ImplementsApplyOnce
SYMMETRY Alike
