SPECIFICATION FairSpec
CONSTANTS
    Handlers = {h1, h2}
    Patchers = {h1}
    Listers = {l1}
    NewDims <- AllLow
    Patches <- SomePatches
    AnswersGiven = {"YES"}
    NumDomains = 2
    PageSize = 1
    PortfolioLimit = 2
    MaxVendors = 2
    MaxRequests = 5
    ListingCost = 3
    MaxFailures = 1
INVARIANTS
    TypeOK
    CompletedIsAnswered
    DocumentsHaveFiles
    SkippedByCreation
PROPERTIES
    CompletionMovesVendor
    OnlyPatchesRetier
    ImplementsTopic
