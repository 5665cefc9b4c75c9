SPECIFICATION Spec
CONSTANTS
    r1 = r1
    r2 = r2
    r3 = r3
    u1 = u1
    u2 = u2
    Requests = {r1, r2, r3}
    Users = {u1, u2}
    UserOf <- TwoUsers
    Prices = {"known"}
    NoRequest = NoRequest
    TopN = 1
    MaxRetry = 1
    PoolSize = 2
INVARIANTS
    ProfileHasRows
    SavesAccounted
PROPERTY EveryHandlerEnds
CHECK_DEADLOCK FALSE
