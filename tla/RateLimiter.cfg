SPECIFICATION Spec
CONSTANTS
    Tasks = {t1, t2, t3}
    NoTask = NoTask
    Interval = 2
    MaxTime = 6
INVARIANTS
    TypeOK
    RateBound
    NoLostSlot
