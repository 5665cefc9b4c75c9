SPECIFICATION Spec
CONSTANTS
    s1 = s1
    s2 = s2
    s3 = s3
    s4 = s4
    Stocks = {s1, s2, s3, s4}
    TopK = 3
    RRFK = 60
    TopN = 2
    Samples <- EdgeSamples
    NoMetrics = NoMetrics
INVARIANTS
    TypeOK
    BothBeatOne
    BestHitsKept
    NoWorseNoLater
    LowScoresAreExplained
CHECK_DEADLOCK FALSE
