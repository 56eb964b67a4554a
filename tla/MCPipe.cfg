SPECIFICATION Spec
CONSTANTS
    None = None
    init = init
    a = a
    b = b
    Procs = {init, a, b}
    initproc = init
    CPUs = {c1, c2}
    Byte = {0, 1, 2, 3}
    PIPESIZE = 2
    CounterRange = 4
    MaxWrite = 2
SYMMETRY Symmetry
CONSTRAINTS FewWaiting OneKilled Numbered
INVARIANTS TypeOK RunsAlone NoLostWakeup OpenWhileUsed HasParent
PROPERTY Fifo
CHECK_DEADLOCK FALSE
