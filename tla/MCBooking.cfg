CONSTANTS
    r1 = r1
    r2 = r2
    w1 = w1
    w2 = w2
    i1 = i1
    i2 = i2
    rc1 = rc1
    rc2 = rc2
    wc1 = wc1
    wc2 = wc2
    wc3 = wc3
    ReadServers = {r1, r2}
    WriteServers = {w1, w2}
    ReadConns = {rc1, rc2}
    WriteConns = {wc1, wc2}
    Ids = {i1, i2}
    MaxTotal = 1
    Amounts <- SmallAmounts
    IntHalf = 3
    HangUps = TRUE
    BadIds = TRUE
    MaxDebt = 1
    None = None
SPECIFICATION Spec
SYMMETRY Alike
CONSTRAINT Bounds
INVARIANTS TypeOK ExclusiveUnlessStray LocksMatchClients LimitedOrWrapped
