SPECIFICATION Spec
CONSTANTS
    Handlers = {h1, h2}
    Patchers = {}
    Listers = {}
    NewDims <- AllLow
    Patches <- SomePatches
    AnswersGiven = {"YES"}
    NumDomains = 1
    PageSize = 1
    PortfolioLimit = 2
    MaxVendors = 1
    MaxRequests = 6
    ListingCost = 3
    MaxFailures = 0
PROPERTY TerminalIsFinal
