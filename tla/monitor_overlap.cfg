SPECIFICATION FairSpec
CONSTANTS
    Sweepers = {w1, w2}
    Consumers = {}
    Analysts = {}
    VendorList <- TwoVendors
    Readings <- OneReading
    Inbound <- NoEvents
    AnalystOps = {}
    BrokerUp = FALSE
    PrimaryKey <- Descending
    MaxSweeps = 2
    MaxEvents = 0
    MaxRequests = 0
    MaxCrashes = 0
PROPERTIES
    EverySessionEnds
