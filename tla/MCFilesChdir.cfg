CONSTANTS
    p1 = p1
    p2 = p2
    Procs = {p1, p2}
    Names = {"a", "b"}
    NINODES = 3
    NINODE = 3
    Targets <- MCTargets
    Paths <- MCPaths
    Dir = "a"
    NOFILE = 1
    MaxDepth = 1
    MaxPath = 2
    MaxCalls = 3
SPECIFICATION Spec
SYMMETRY Sym
INVARIANTS RefsCounted
