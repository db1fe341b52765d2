SPECIFICATION Spec
CONSTANTS
    Handlers = {h1, h2}
    Consumers = {c1}
    Alerts = {a1}
    NoAlert = NoAlert
    Analysts = {n1}
    NoAnalyst = NoAnalyst
    Severities = {2}
    AutoOpenMin = 2
    HttpOps = {"note"}
    MaxRequests = 2
    MaxMessages = 1
    MaxCrashes = 0
    MaxRebalances = 0
INVARIANT AuditChainVerifies
