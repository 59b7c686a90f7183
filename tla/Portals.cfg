CONSTANTS
    None = None
    t1 = t1
    t2 = t2
    a = a
    b = b
    Threads = {t1, t2}
    Emails = {a, b}
    Suppliers = {a, b}
    MaxCalls = 5
    MaxUsers = 3
SPECIFICATION PortalsSpec
INVARIANTS
    TrailIsComplete
    OwnOrders
    DisablingTakesHold
SYMMETRY Alike
CHECK_DEADLOCK FALSE
