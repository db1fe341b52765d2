SPECIFICATION Spec
CONSTANTS
    Handlers = {h1}
    Consumers = {c1, c2}
    Alerts = {a1}
    NoAlert = NoAlert
    Analysts = {n1}
    NoAnalyst = NoAnalyst
    Severities = {2}
    AutoOpenMin = 2
    HttpOps = {"create"}
    MaxRequests = 2
    MaxMessages = 1
    MaxCrashes = 1
    MaxRebalances = 1
SYMMETRY Symmetry
INVARIANTS
    TypeOK
    ReferencesGapFree
    AuditChainVerifies
