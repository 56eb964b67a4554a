CONSTANTS
    p1 = p1
    p2 = p2
    p3 = p3
    b1 = b1
    b2 = b2
    b3 = b3
    d1 = d1
    d2 = d2
    Procs = {p1, p2, p3}
    Blocks = {b1, b2}
    Data = {d1}
    MaxOp = 1
    LogSize = 2
    NLog = 3
    Absent = Absent
SPECIFICATION FairSpec
PROPERTIES SleeperWoken
