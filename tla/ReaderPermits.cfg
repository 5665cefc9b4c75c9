SPECIFICATION Spec
CONSTANTS
    r1 = r1
    r2 = r2
    r3 = r3
    s1 = s1
    s2 = s2
    s3 = s3
    Requests = {r1}
    Stocks = {s1, s2, s3}
    Observations <- OneObservation
    Unit = 10
    Limit = 100
    Concurrency = 1
    NoChild = NoChild
    MaxWarm = 0
INVARIANTS
    TypeOK
    NoChildOutlivesItsCall
PROPERTY EveryCallEnds
