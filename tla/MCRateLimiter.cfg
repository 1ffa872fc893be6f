SPECIFICATION LimiterSpec
CONSTANTS
    Budget = {k}
    Limit = 3
    Window = 5
    Setting = {TRUE, FALSE}
    MaxBurst = 7
    MaxFailed = 1
INVARIANTS
    LimiterInv
    NoStarvation
PROPERTIES
    CleanupGrantsNothing
