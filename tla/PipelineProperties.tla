--------------------------- MODULE PipelineProperties ---------------------------
(* What the pipeline of PipelineCPU guarantees its programs. *)
EXTENDS PipelineCPU

Pcs == 0..(ProgSize - 1)

\* The type invariant of the registers.
TypeOK ==
    /\ prog \in Programs
    /\ pc \in Pcs
    /\ ifid \in [instr : Instr \cup {NoInstr}, pc : Pcs]
    /\ idex \in [RegWrite : BOOLEAN, MemtoReg : BOOLEAN, MemRead : BOOLEAN,
                 MemWrite : BOOLEAN, Branch : BOOLEAN, ALUSrc : BOOLEAN,
                 op : Ops \cup {"none"}, data1 : Word, data2 : Word, imm : Word,
                 disp : Int, rd : Regs, rs1 : Regs, rs2 : Regs, pc : Pcs,
                 prediction : BOOLEAN]
    /\ exmem \in [RegWrite : BOOLEAN, MemtoReg : BOOLEAN, MemRead : BOOLEAN,
                  MemWrite : BOOLEAN, alu : Word, store : Word, rd : Regs]
    /\ memwb \in [RegWrite : BOOLEAN, MemtoReg : BOOLEAN, alu : Word,
                  data : Word, rd : Regs]
    /\ branch_state \in 0..3
    /\ regs \in [Regs -> Word]
    /\ mem \in [Word -> Word]

\* An instruction, and not a bubble, is in ID or in EX: every instruction
\* writes a register or the memory, or is a branch.
InID == ifid.instr # NoInstr
InEX == idex.RegWrite \/ idex.MemWrite \/ idex.Branch

\* The machine as the instructions before the oldest one in IF, ID or EX leave it.
\* What waits in MEM and WB counts as written.
MemResult == IF exmem.MemtoReg THEN mem[exmem.alu] ELSE exmem.alu

SeqRegs ==
    [r \in Regs |-> IF WritesTo(exmem, r) THEN MemResult
                    ELSE IF WritesTo(memwb, r) THEN WbData
                    ELSE regs[r]]

SeqPc == IF InEX THEN idex.pc ELSE IF InID THEN ifid.pc ELSE pc

Sequential == INSTANCE SequentialCPU
    WITH pc <- SeqPc, regs <- SeqRegs, mem <- NextMem

\* Forwarding, stalls, predictions and rollbacks are invisible to a program: the
\* pipeline implements the sequential machine.
Implements == Sequential!Spec

\* A stall freezes the PC, so it must never meet a redirection of the PC, which
\* would be lost ("normal case: PC write should be 1", Hazard_Detection_Unit.v:26).
NoRedirectLost == Stall => ~TakeBranch /\ ~Rollback

\* A load delays the instruction behind it by one cycle, never by two.
StallsOnce == [][Stall => ~Stall']_vars

\* The pipeline never starves: an instruction reaches EX again and again.
KeepsExecuting == []<>InEX
=================================================================================
