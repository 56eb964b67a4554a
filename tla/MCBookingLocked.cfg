CONSTANTS
    r1 = r1
    r2 = r2
    w1 = w1
    w2 = w2
    i1 = i1
    i2 = i2
    rc1 = rc1
    rc2 = rc2
    wc1 = wc1
    wc2 = wc2
    wc3 = wc3
    ReadServers = {r1}
    WriteServers = {w1}
    ReadConns = {rc1}
    WriteConns = {wc1, wc2, wc3}
    Ids = {i1, i2}
    MaxTotal = 2
    Amounts = {0}
    IntHalf = 16
    HangUps = FALSE
    BadIds = FALSE
    MaxDebt = 2
    None = None
SPECIFICATION Spec
INVARIANTS WriteExclusive
