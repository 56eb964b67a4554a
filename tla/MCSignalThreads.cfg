CONSTANTS
    Order <- MCOrder
    Readers = {"max_subarray"}
    Args = {0, 1, 2}
    MaxLines = 2
SPECIFICATION FairSpec
INVARIANTS TypeOK NoThreadLost AlarmAlive
PROPERTIES TakesTurns ReaderGoesOn
CHECK_DEADLOCK FALSE
