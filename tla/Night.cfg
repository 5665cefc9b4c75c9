SPECIFICATION Spec
CONSTANTS
    Stocks <- FourStocks
    Listings <- ThreeListed
    Caches <- OneOfEachAge
    PageSize = 2
    Concurrency = 2
    MaxOutside = 2
    BatchSize = 2
    Passes = 2
    Permits = 1
INVARIANTS
    TypeOK
    NoStockSkipped
    CountIsTrue
    RefreshedIsTrue
    EveryTargetHadItsTurn
    OnlyFailuresLeaveOrphans
    NewStocksAreWarmed
PROPERTY NightEnds
CHECK_DEADLOCK FALSE
