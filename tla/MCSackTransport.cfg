CONSTANTS
    Total = 11
    InitThresh = 4
    BufSize = 4
    Spurious = FALSE
    MaxInFlight = 20
SPECIFICATION FairSpec
INVARIANTS TypeOK NoPhantomAck BufferIsWindow NobodyCrashes FinMeansComplete
PROPERTIES Reliable Terminates
CHECK_DEADLOCK FALSE
