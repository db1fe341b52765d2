SPECIFICATION Spec
CONSTANTS
    Slots = {s1, s2}
    Hosts = {"host"}
    RoleOf <- OneOfficer
    Paths <- EveryPath
    Development = TRUE
    Window = 2
    LoginLimit = 1
    GeneralLimit = 2
    BridgeTtl = 2
    AccessTtl = 3
    SummaryTtl = 2
    MaxTime = 3
    MaxRequests = 4
    MaxFaults = 1
SYMMETRY Interchangeable
INVARIANTS
    RateLimited
    OnlyVerifiedSessions
    SummaryAge
