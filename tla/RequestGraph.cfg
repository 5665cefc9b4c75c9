SPECIFICATION Spec
CONSTANTS
    r1 = r1
    r2 = r2
    r3 = r3
    u1 = u1
    u2 = u2
    Requests = {r1, r2}
    Users = {u1}
    UserOf <- OneUser
    Prices = {"known", "none"}
    NoRequest = NoRequest
    TopN = 2
    MaxRetry = 2
    PoolSize = 1
SYMMETRY RequestSymmetry
INVARIANTS
    TypeOK
    StoredIsOneValidRound
    StatusTellsWork
PROPERTY ImplementsContract
CHECK_DEADLOCK FALSE
