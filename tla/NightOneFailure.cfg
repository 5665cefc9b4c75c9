SPECIFICATION Spec
CONSTANTS
    Stocks <- FourStocks
    Listings <- ThreeListed
    Caches <- OneOfEachAge
    PageSize = 2
    Concurrency = 2
    MaxOutside = 1
    BatchSize = 2
    Passes = 2
    Permits = 1
INVARIANT FailureSparesTheOthers
CHECK_DEADLOCK FALSE
