SPECIFICATION FairSpec
CONSTANTS
    Handlers = {h1}
    Consumers = {c1}
    Alerts = {a1}
    NoAlert = NoAlert
    Analysts = {n1}
    NoAnalyst = NoAnalyst
    Severities = {2}
    AutoOpenMin = 2
    HttpOps = {"create", "status", "assign", "note"}
    MaxRequests = 2
    MaxMessages = 1
    MaxCrashes = 1
    MaxRebalances = 0
INVARIANTS
    
    DraftsMatchTimeline
    StampsMatchStatus
    OneIncidentPerAlert
    EventsAreFacts
    AuditRowsAnchored
PROPERTIES
    ImplementsRegister
    EverySessionEnds
