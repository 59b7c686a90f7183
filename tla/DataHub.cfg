CONSTANTS
    None = None
    admin = admin
    super = super
    Threads = {admin, super}
    Actor <- TheActors
    Companies = {"a", "b"}
    Home = "a"
    Fields = {"item", "metric"}
    Required <- TheRequired
    Mappings = {{"item"}, {"metric"}}
    Areas = {"r1"}
    Values = {"v"}
    Seed = "seed"
    MaxItems = 2
    MaxCalls = 3
    MaxRestarts = 1
SPECIFICATION Spec
INVARIANTS
    MappingIsValidated
    TrailTellsConnections
    OverridesDoNotPileUp
PROPERTY
    AdminsStayHome
    ViewsDoNotInterfere
CHECK_DEADLOCK FALSE
