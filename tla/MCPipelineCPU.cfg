CONSTANTS
    Regs = {0, 1, 2}
    Word <- Words
    ProgSize = 4
    Programs <- MCPrograms
    InitRegs <- MCRegs
    InitMem <- MCMem
    Alu <- ALU
SPECIFICATION FairSpec
INVARIANTS TypeOK NoRedirectLost
PROPERTIES Implements StallsOnce KeepsExecuting
