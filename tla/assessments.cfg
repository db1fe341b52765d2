SPECIFICATION Spec
CONSTANTS
    Handlers = {h1}
    Patchers = {}
    Listers = {}
    NewDims <- AllLow
    Patches = {}
    AnswersGiven = {"YES"}
    NumDomains = 2
    PageSize = 1
    PortfolioLimit = 1
    MaxVendors = 1
    MaxRequests = 4
    ListingCost = 9
    MaxFailures = 0
    Scorers = {s1}
    Assessors = {a1}
    External <- OfTheVendors
    Components = {"log4j"}
    CvesOf <- OneExploited
    DocumentType <- AllCertificates
    PredictAnomalous <- AnyDrop
    Library <- TwoControls
    Baseline <- OneGap
    Overrides <- Reviewed
    MaxDisturbances = 1
INVARIANTS
    TypeOK
    OneLossPerFault
    FreshWhenDrained
    UpdatesAreRows
PROPERTIES
    ConsumersCatchUp
