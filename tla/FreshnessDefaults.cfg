SPECIFICATION Spec
CONSTANTS
    Day = 24
    TTL = 24
    StaleAfter = 12
    Duration = 1
INVARIANT
    RenewedInTime
