CONSTANTS
    t1 = t1
    t2 = t2
    u1 = u1
    u2 = u2
    seed = seed
    p1 = p1
    p2 = p2
    p3 = p3
    p4 = p4
    l1 = l1
    l2 = l2
    NoLink = NoLink
    NoCall = NoCall
    Pending = Pending
    Threads = {t1, t2}
    Users = {u1, u2}
    Seeded = {u2}
    SeedHash = seed
    Passwords = {p1, p2, p3, p4}
    Links = {l1, l2}
    MaxPasswords <- Bounds
SPECIFICATION Spec
INVARIANTS
    NoRecentReuse
    LinksEnd
    TemporaryIsForced
PROPERTY
    OnlyAdminsEnable
SYMMETRY Symmetry
