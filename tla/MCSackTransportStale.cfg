CONSTANTS
    Total = 4
    InitThresh = 3
    BufSize = 2
    Spurious = TRUE
    MaxInFlight = 4
SPECIFICATION Spec
INVARIANTS FinMeansComplete
CHECK_DEADLOCK FALSE
