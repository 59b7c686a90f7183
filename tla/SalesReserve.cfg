CONSTANTS
    t1 = t1
    t2 = t2
    so2 = so2
    l2 = l2
    l3 = l3
    pump = pump
    valve = valve
    Items = {pump, valve}
    FinishedGoods <- SeedStock
    Contracted = {pump}
    HeldOrders = {}
    ClientStatuses = {"Draft"}
    Threads = {t1, t2}
    Orders = {so2}
    Lines = {l2, l3}
    LineOrder <- OneOrder
    LineItem <- OneOrderItem
    SeedOrdered <- OneOrderSeed
    Quantities = {400}
    MaxAllocations = 1
    NoCall = NoCall
    MaxDesk = 2
SPECIFICATION DeskSpec
INVARIANTS
    NeverOversold
    StatusTellsShortage
    RowsBackReservations
    FillRateIsAPercentage
SYMMETRY Alike
