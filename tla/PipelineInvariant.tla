--------------------------- MODULE PipelineInvariant ---------------------------
(* Why the pipeline of PipelineCPU is right: an inductive invariant. *)
EXTENDS PipelineProperties

\* Register 0 is 0, and what is on its way to it is 0 too.
ZeroReg ==
    /\ regs[0] = 0
    /\ exmem.RegWrite /\ exmem.rd = 0 => ~exmem.MemtoReg /\ exmem.alu = 0
    /\ memwb.RegWrite /\ memwb.rd = 0 => WbData = 0

\* ID read what the register file holds now: it saw the write of its own cycle.
ReadInID ==
    /\ idex.data1 = regs[idex.rs1]
    /\ idex.data2 = regs[idex.rs2]

\* Only a load takes its result from the memory.
LoadMarked == exmem.MemRead = exmem.MemtoReg

\* The instruction in EX never needs what a load in MEM is about to read.
NoLoadUse ==
    InEX /\ exmem.MemRead /\ exmem.rd # 0 => exmem.rd \notin {idex.rs1, idex.rs2}

\* EX holds a decoded instruction of the program, or a bubble that loads nothing.
Decoded ==
    IF InEX
    THEN LET i == prog[idex.pc]
             c == ControlOf(i.op, FALSE)
         IN  /\ idex.op = i.op /\ idex.imm = i.imm /\ idex.disp = i.disp
             /\ idex.rd = i.rd /\ idex.rs1 = i.rs1 /\ idex.rs2 = i.rs2
             /\ idex.RegWrite = c.RegWrite /\ idex.MemtoReg = c.MemtoReg
             /\ idex.MemRead = c.MemRead /\ idex.MemWrite = c.MemWrite
             /\ idex.Branch = c.Branch /\ idex.ALUSrc = c.ALUSrc
    ELSE ~idex.MemRead /\ ~idex.MemtoReg

\* ID holds the instruction before the one being fetched.
Fetched == InID => ifid.instr = prog[ifid.pc] /\ pc = Target(ifid.pc, 1)

\* Behind the instruction in EX comes the one its prediction says.
Followed ==
    InEX => IF idex.Branch /\ idex.prediction
            THEN ~InID /\ pc = Target(idex.pc, idex.disp)
            ELSE InID /\ ifid.pc = Target(idex.pc, 1)

Inv ==
    /\ TypeOK /\ ZeroReg /\ ReadInID /\ LoadMarked
    /\ NoLoadUse /\ Decoded /\ Fetched /\ Followed
================================================================================
