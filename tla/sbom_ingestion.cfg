SPECIFICATION Spec
CONSTANTS
    Handlers = {h1, h2}
    Bills <- FiveBills
    NewTiers = {"Low", "High"}
    NvdDraws <- Draws
    KevDraws <- KevListed
    MaxRequests = 3
    MaxFaults = 1
    MaxRetiers = 1
SYMMETRY Interchangeable
INVARIANTS
    TypeOK
    
    OneDocumentPerFault
    AlertsMatchFindings
