SPECIFICATION Spec
CONSTANTS
    c1 = c1
    Calls = {c1}
    Day = 4
    SyncTime = 2
    ShiftAt = 6
    Shift <- BackByOne
    Grace = 1
    Horizon = 8
INVARIANTS
    TypeOK
    PoolOutlivesItsUsers
    OneWarmingAtStartup
    NoRunSleptThrough
    NextRunIsLater
PROPERTIES
    LoopGoesOn
    SignalEndsService
CHECK_DEADLOCK FALSE
