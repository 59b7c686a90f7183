CONSTANTS
    None = None
    api = api
    app = app
    Services = {api, app}
    Actors <- TheActors
    Home = "company-c"
    NewCompanies = {"company-n"}
    ModuleKeys = {"inventory"}
    Items = {"steel", "pump"}
    Statuses = {"ACTIVE", "CLOSED"}
    MaxCalls = 3
    MaxStarts = 2
SPECIFICATION Spec
INVARIANTS
    CompaniesAreComplete
    RecordsAreAudited
    KeptUnlessOverlapped
PROPERTY
    ScopedPagesDoNotInterfere
SYMMETRY Alike
CHECK_DEADLOCK FALSE
