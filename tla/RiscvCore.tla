------------------------------- MODULE RiscvCore -------------------------------
(***************************************************************************)
(* The instructions of the RISC-V processor of Computer architecture/lab3.  *)
(* Words are members of a set, the ALU's function on them a parameter;      *)
(* instruction and data addresses count words.                              *)
(***************************************************************************)
EXTENDS Integers

CONSTANTS
    Regs,               \* register numbers
    Word,               \* values of a register, addresses of the data memory
    ProgSize,           \* words of the instruction memory, where the PC wraps
    Programs,           \* contents of the instruction memory
    InitRegs, InitMem,  \* what the test bench writes after the reset
    Alu(_, _, _)        \* result of an ALU operation on two words

RType == {"and", "xor", "sll", "add", "sub", "mul"}
IType == {"addi", "srai"}
ALUOps == RType \cup {"srai"}

\* An instruction word by its fields; imm is the sign-extended immediate, as a
\* word, and disp that of a branch, as a distance.
Ops == RType \cup IType \cup {"lw", "sw", "beq"}
Instr == [op : Ops,
          rd : Regs, rs1 : Regs, rs2 : Regs, imm : Word, disp : Int]

Nop == [op |-> "addi", rd |-> 0, rs1 |-> 0, rs2 |-> 0, imm |-> 0, disp |-> 0]

Target(pc, disp) == (pc + disp) % ProgSize

ASSUME WordAssumption ==
    /\ 0 \in Regs /\ 0 \in Word
    /\ \A op \in ALUOps : \A a, b \in Word : Alu(op, a, b) \in Word
    /\ Alu("add", 0, 0) = 0
ASSUME InitAssumption ==
    /\ InitRegs \in [Regs -> Word] /\ InitRegs[0] = 0
    /\ InitMem \in [Word -> Word]
\* Programs of these instructions that write x0 only in a nop.
ASSUME ProgramsAssumption ==
    /\ ProgSize \in Nat \ {0}
    /\ \A p \in Programs :
          /\ p \in [0..(ProgSize - 1) -> Instr]
          /\ \A a \in 0..(ProgSize - 1) :
                p[a].rd = 0 => p[a].op \in {"sw", "beq"} \/ p[a] = Nop
================================================================================
