SPECIFICATION FairSpec
CONSTANTS
    Sweepers = {w1}
    Consumers = {c1}
    Analysts = {h1}
    VendorList <- OneVendor
    Readings <- OneReading
    Inbound <- AllEvents
    AnalystOps = {"acknowledge", "resolve"}
    BrokerUp = TRUE
    PrimaryKey <- Ascending
    MaxSweeps = 1
    MaxEvents = 2
    MaxRequests = 1
    MaxCrashes = 0
PROPERTIES
    AlertsAnnounced
