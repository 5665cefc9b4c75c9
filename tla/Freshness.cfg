SPECIFICATION Spec
CONSTANTS
    Day = 8
    TTL = 12
    StaleAfter = 3
    Duration = 1
INVARIANTS
    TypeOK
    RenewedInTime
