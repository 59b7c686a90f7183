CONSTANTS
    t1 = t1
    t2 = t2
    wo = wo
    cutter = cutter
    filter = filter
    Threads = {t1, t2}
    WorkOrders = {wo}
    Machines = {cutter}
    Spares = {filter}
    SeedOrders = {}
    SeedSubject <- OnCutter
    SeedMachine <- CutterDown
    SeedStock <- ThreeLeft
    WorkStatuses = {"Open"}
    MachineStatuses = {"Active"}
    Portions = {0, 2}
    MaxRows = 2
    NoCall = NoCall
    MaxVisits = 2
SPECIFICATION MaintenanceSpec
SYMMETRY Alike
INVARIANTS
    SparesAccountedFor
    CostCoversSpares
    SettingsTakeHold
