------------------------------ MODULE PipelineCPU ------------------------------
(***************************************************************************)
(* The five-stage RISC-V pipeline of Computer architecture/lab3/code/src:   *)
(* forwarding from MEM and WB to EX, a stall behind a load, a two-bit       *)
(* predictor whose guess redirects the PC from ID and whose mistakes are    *)
(* rolled back from EX.  One action is one rising edge of the clock; what   *)
(* the combinational modules put on the wires in between is an operator of  *)
(* the registers.  A word is a value of a small set, the ALU's function on  *)
(* words a parameter, an address a number of words.                         *)
(***************************************************************************)
EXTENDS RiscvCore

VARIABLES
    prog,           \* Instruction_Memory
    pc,             \* PC
    ifid, idex, exmem, memwb,   \* the pipeline registers
    branch_state,   \* the predictor's counter
    regs, mem       \* Registers, Data_Memory

vars == <<prog, pc, ifid, idex, exmem, memwb, branch_state, regs, mem>>

\* The zero word a flush leaves in IF/ID: no opcode, all fields 0.
NoInstr == [op |-> "none", rd |-> 0, rs1 |-> 0, rs2 |-> 0, imm |-> 0, disp |-> 0]

------------------------------------------------------------------------------
\* Mutants: a stall leaves Branch, or MemRead, as it is.
ControlBranchKept(op, noop) ==
    [RegWrite |-> ~noop /\ op \in RType \cup IType \cup {"lw"},
     MemtoReg |-> ~noop /\ op = "lw",
     MemRead  |-> ~noop /\ op = "lw",
     MemWrite |-> ~noop /\ op = "sw",
     Branch   |-> op = "beq",
     ALUSrc   |-> op \in IType \cup {"lw", "sw"}]
ControlMemReadKept(op, noop) ==
    [ControlBranchKept(op, noop) EXCEPT !.MemRead = (op = "lw")]

\* Control, by opcode; a stall (NoOp) clears all but ALUOp and ALUSrc.
ControlOf(op, noop) ==
    [RegWrite |-> ~noop /\ op \in RType \cup IType \cup {"lw"},
     MemtoReg |-> ~noop /\ op = "lw",
     MemRead  |-> ~noop /\ op = "lw",
     MemWrite |-> ~noop /\ op = "sw",
     Branch   |-> ~noop /\ op = "beq",
     ALUSrc   |-> op \in IType \cup {"lw", "sw"}]

\* ALU_Control: from ALUOp and the funct fields; what it does not know is a sub.
ALUControl(op) ==
    CASE op \in RType                       -> op
      [] op \in {"addi", "lw", "sw", "none"} -> "add"
      [] op = "srai"                        -> "srai"
      [] OTHER                              -> "sub"

------------------------------------------------------------------------------
\* WB: the value on its way to the register file, which a read in the same
\* cycle sees.
WbData == IF memwb.MemtoReg THEN memwb.data ELSE memwb.alu

ReadReg(r) == IF r = memwb.rd /\ memwb.RegWrite THEN WbData ELSE regs[r]

\* Forwarding_Unit and its multiplexers.
WritesTo(stage, r) == stage.RegWrite /\ stage.rd # 0 /\ stage.rd = r

\* Mutant: the older value goes first.
ForwardedOldest(r, read) ==
    IF WritesTo(memwb, r) THEN WbData
    ELSE IF WritesTo(exmem, r) THEN exmem.alu
    ELSE read

Forwarded(r, read) ==
    IF WritesTo(exmem, r) THEN exmem.alu
    ELSE IF WritesTo(memwb, r) THEN WbData
    ELSE read

\* EX.
ForwardB == Forwarded(idex.rs2, idex.data2)
OperandA == Forwarded(idex.rs1, idex.data1)
OperandB == IF idex.ALUSrc THEN idex.imm ELSE ForwardB
AluResult == Alu(ALUControl(idex.op), OperandA, OperandB)
Zero == ALUControl(idex.op) = "sub" /\ OperandA = OperandB

\* Mutant: behind any instruction, not only a load.
StallAlways == idex.rd # 0 /\ idex.rd \in {ifid.instr.rs1, ifid.instr.rs2}

\* Hazard_Detection_Unit: NoOp, not PCWrite and Stall are one signal.
Stall == /\ idex.MemRead /\ idex.rd # 0
         /\ idex.rd \in {ifid.instr.rs1, ifid.instr.rs2}

Control == ControlOf(ifid.instr.op, Stall)

\* branch_predictor, and Branch_Unit's redirection in ID.
Predict == branch_state >= 2
TakeBranch == Predict /\ Control.Branch

\* rollback: the branch in EX was guessed wrong.
Rollback == idex.Branch /\ idex.prediction # Zero
RollbackPc == Target(idex.pc, IF Zero THEN idex.disp ELSE 1)

NextPc ==
    IF Rollback THEN RollbackPc
    ELSE IF TakeBranch THEN Target(ifid.pc, ifid.instr.disp)
    ELSE Target(pc, 1)

------------------------------------------------------------------------------
\* What each register loads at the edge.

NextIfId ==
    IF TakeBranch \/ Rollback THEN [instr |-> NoInstr, pc |-> 0]
    ELSE IF Stall THEN ifid
    ELSE [instr |-> prog[pc], pc |-> pc]

EmptyIdEx(prediction) ==
    [RegWrite |-> FALSE, MemtoReg |-> FALSE, MemRead |-> FALSE,
     MemWrite |-> FALSE, Branch |-> FALSE, ALUSrc |-> FALSE,
     op |-> "none", data1 |-> 0, data2 |-> 0, imm |-> 0, disp |-> 0,
     rd |-> 0, rs1 |-> 0, rs2 |-> 0, pc |-> 0, prediction |-> prediction]

NextIdEx ==
    IF Rollback THEN EmptyIdEx(idex.prediction)
    ELSE LET i == ifid.instr
         IN  [RegWrite |-> Control.RegWrite, MemtoReg |-> Control.MemtoReg,
              MemRead |-> Control.MemRead, MemWrite |-> Control.MemWrite,
              Branch |-> Control.Branch, ALUSrc |-> Control.ALUSrc,
              op |-> i.op, data1 |-> ReadReg(i.rs1), data2 |-> ReadReg(i.rs2),
              imm |-> i.imm, disp |-> i.disp, rd |-> i.rd, rs1 |-> i.rs1, rs2 |-> i.rs2,
              pc |-> ifid.pc, prediction |-> Predict]

NextExMem ==
    [RegWrite |-> idex.RegWrite, MemtoReg |-> idex.MemtoReg,
     MemRead |-> idex.MemRead, MemWrite |-> idex.MemWrite,
     alu |-> AluResult, store |-> ForwardB, rd |-> idex.rd]

ReadMem == IF exmem.MemRead THEN mem[exmem.alu] ELSE 0

NextMemWb ==
    [RegWrite |-> exmem.RegWrite, MemtoReg |-> exmem.MemtoReg,
     alu |-> exmem.alu, data |-> ReadMem, rd |-> exmem.rd]

\* Mutant: the counter is not kept at 3.
NextStateOver ==
    IF ~idex.Branch THEN branch_state
    ELSE IF Zero THEN branch_state + 1
    ELSE (IF branch_state = 0 THEN 0 ELSE branch_state - 1)

NextState ==
    IF ~idex.Branch THEN branch_state
    ELSE IF Zero THEN (IF branch_state = 3 THEN 3 ELSE branch_state + 1)
    ELSE (IF branch_state = 0 THEN 0 ELSE branch_state - 1)

NextRegs ==
    IF memwb.RegWrite /\ memwb.rd # 0
    THEN [regs EXCEPT ![memwb.rd] = WbData] ELSE regs

NextMem ==
    IF exmem.MemWrite THEN [mem EXCEPT ![exmem.alu] = exmem.store] ELSE mem

\* After the reset pulse, and the test bench's writes to registers and memory;
\* the prediction register of ID/EX is not reset.
Init ==
    /\ prog \in Programs
    /\ pc = 0
    /\ ifid = [instr |-> NoInstr, pc |-> 0]
    /\ \E b \in BOOLEAN : idex = EmptyIdEx(b)
    /\ exmem = [RegWrite |-> FALSE, MemtoReg |-> FALSE, MemRead |-> FALSE,
                MemWrite |-> FALSE, alu |-> 0, store |-> 0, rd |-> 0]
    /\ memwb = [RegWrite |-> FALSE, MemtoReg |-> FALSE,
                alu |-> 0, data |-> 0, rd |-> 0]
    /\ branch_state = 3
    /\ regs = InitRegs
    /\ mem = InitMem

\* posedge clk_i.
Clock ==
    /\ pc' = IF Stall THEN pc ELSE NextPc
    /\ ifid' = NextIfId
    /\ idex' = NextIdEx
    /\ exmem' = NextExMem
    /\ memwb' = NextMemWb
    /\ branch_state' = NextState
    /\ regs' = NextRegs
    /\ mem' = NextMem
    /\ UNCHANGED prog

Spec == Init /\ [][Clock]_vars

\* The test bench keeps the clock running.
FairSpec == Spec /\ WF_vars(Clock)
================================================================================
