CONSTANTS
    t1 = t1
    t2 = t2
    t3 = t3
    d1 = d1
    d2 = d2
    s1 = s1
    s2 = s2
    Threads = {t1, t2, t3}
    Devices = {d1, d2}
    Seeded = {d1}
    Sessions = {s1, s2}
SPECIFICATION FairDevicesSpec
INVARIANTS
    DisabledIsSignedOut
PROPERTY
    DisableTakesEffect
