SPECIFICATION FairSpec
CONSTANTS
    Handlers = {h1}
    Consumers = {c1}
    Alerts = {a1, a2}
    NoAlert = NoAlert
    Analysts = {n1}
    NoAnalyst = NoAnalyst
    Severities = {1, 2}
    AutoOpenMin = 2
    HttpOps = {"status"}
    MaxRequests = 1
    MaxMessages = 3
    MaxCrashes = 0
    MaxRebalances = 0

    
PROPERTIES
    AlertsOpenIncidents
