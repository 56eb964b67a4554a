CONSTANTS
    p1 = p1
    p2 = p2
    p3 = p3
    b1 = b1
    b2 = b2
    b3 = b3
    d1 = d1
    d2 = d2
    Procs = {p1, p2}
    Blocks = {b1, b2, b3}
    Data = {d1, d2}
    MaxOp = 2
    LogSize = 4
    NLog = 4
    Absent = Absent
SPECIFICATION Spec
SYMMETRY Sym2
INVARIANTS TypeOK CommitAlone Reservation DirtyIsPinned NoStrandedSleeper QuietIsDurable
PROPERTIES Atomic
