SPECIFICATION Spec
CONSTANTS
    Sweepers = {w1}
    Consumers = {}
    Analysts = {h1}
    VendorList <- OneVendor
    Readings <- DriftingReadings
    Inbound <- NoEvents
    AnalystOps = {"acknowledge", "resolve"}
    BrokerUp = FALSE
    PrimaryKey <- Ascending
    MaxSweeps = 3
    MaxEvents = 0
    MaxRequests = 2
    MaxCrashes = 1
INVARIANTS
    TypeOK
    
    DriftIsDelta
    
    MessagesAreCommitted
    PublishedIsAnnounced
