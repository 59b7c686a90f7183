CONSTANTS
    t1 = t1
    t2 = t2
    po1 = po1
    po2 = po2
    steel = steel
    Threads = {t1, t2}
    Orders = {po1, po2}
    Materials = {steel}
    PerUnit <- OnePer
    Inventory <- Stock
    Incoming <- Ordered
    SeedTarget <- SeedOne
    Quantities = {2}
    ClientStatuses = {"Draft"}
    MaxDesk = 1
SPECIFICATION DeskSpec
SYMMETRY Alike
INVARIANTS
    ReservedIsOnFile
    CompletedIsCosted
