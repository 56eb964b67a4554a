----------------------------- MODULE SequentialCPU -----------------------------
(***************************************************************************)
(* What the pipeline of Computer architecture/lab3 promises its programs:   *)
(* one instruction after the other, each on the registers and the memory    *)
(* the one before it left.                                                  *)
(***************************************************************************)
EXTENDS RiscvCore

VARIABLES prog, pc, regs, mem
vars == <<prog, pc, regs, mem>>

Init ==
    /\ prog \in Programs
    /\ pc = 0
    /\ regs = InitRegs
    /\ mem = InitMem

SetReg(r, v) == IF r = 0 THEN regs ELSE [regs EXCEPT ![r] = v]

Compute(i) ==
    /\ i.op \in RType \cup IType
    /\ regs' = SetReg(i.rd,
                 IF i.op \in RType THEN Alu(i.op, regs[i.rs1], regs[i.rs2])
                 ELSE Alu(IF i.op = "addi" THEN "add" ELSE "srai", regs[i.rs1], i.imm))
    /\ pc' = Target(pc, 1)
    /\ UNCHANGED <<prog, mem>>

Address(i) == Alu("add", regs[i.rs1], i.imm)

Load(i) ==
    /\ i.op = "lw"
    /\ regs' = SetReg(i.rd, mem[Address(i)])
    /\ pc' = Target(pc, 1)
    /\ UNCHANGED <<prog, mem>>

Store(i) ==
    /\ i.op = "sw"
    /\ mem' = [mem EXCEPT ![Address(i)] = regs[i.rs2]]
    /\ pc' = Target(pc, 1)
    /\ UNCHANGED <<prog, regs>>

Branch(i) ==
    /\ i.op = "beq"
    /\ pc' = Target(pc, IF regs[i.rs1] = regs[i.rs2] THEN i.disp ELSE 1)
    /\ UNCHANGED <<prog, regs, mem>>

Step == LET i == prog[pc] IN Compute(i) \/ Load(i) \/ Store(i) \/ Branch(i)

Spec == Init /\ [][Step]_vars
================================================================================
