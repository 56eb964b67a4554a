---------------------------- MODULE PipelineProofs ----------------------------
(* Theorems about PipelineCPU, for every program and every ALU. *)
EXTENDS PipelineInvariant, TLAPS

------------------------------------------------------------------------------
\* The wires carry values of their types.

\* An adder's sum, wrapped, is an address.
LEMMA TargetType == ASSUME NEW a \in Int, NEW d \in Int PROVE Target(a, d) \in Pcs
<1> DEFINE s == a + d
<1>1. s \in Int /\ ProgSize \in Nat /\ ProgSize > 0  BY ProgramsAssumption
<1>2. s % ProgSize \in 0..(ProgSize - 1)  BY <1>1
<1> QED BY <1>2 DEF Target, Pcs

\* ALU_Control asks the ALU only for what it can do.
LEMMA AluType ==
    ASSUME NEW op, NEW a \in Word, NEW b \in Word
    PROVE Alu(ALUControl(op), a, b) \in Word
<1>1. ALUControl(op) \in ALUOps  BY DEF ALUControl, ALUOps, RType
<1> QED BY <1>1, WordAssumption

\* The fields of an instruction, or of the zero word, have their types.
LEMMA InstrFields ==
    ASSUME NEW i \in Instr \cup {NoInstr}
    PROVE /\ i.op \in Ops \cup {"none"}
          /\ i.rd \in Regs /\ i.rs1 \in Regs /\ i.rs2 \in Regs
          /\ i.imm \in Word /\ i.disp \in Int
BY WordAssumption DEF Instr, NoInstr

\* The instruction memory holds instructions.
LEMMA ProgInstr == ASSUME TypeOK, NEW a \in Pcs PROVE prog[a] \in Instr
BY ProgramsAssumption DEF TypeOK, Pcs

\* The register file and the write-back bus hold words.
LEMMA ReadTypes == ASSUME TypeOK, NEW r \in Regs PROVE ReadReg(r) \in Word /\ WbData \in Word
BY DEF TypeOK, ReadReg, WbData

\* What is forwarded to EX, what the ALU makes of it and where a rollback goes are well typed.
LEMMA OperandTypes ==
    ASSUME TypeOK
    PROVE /\ ForwardB \in Word /\ OperandA \in Word
          /\ AluResult \in Word /\ Zero \in BOOLEAN /\ RollbackPc \in Pcs
<1>1. ForwardB \in Word /\ OperandA \in Word
  BY DEF TypeOK, ForwardB, OperandA, Forwarded, WbData
<1>2. OperandB \in Word  BY <1>1 DEF TypeOK, OperandB
<1>3. AluResult \in Word  BY <1>1, <1>2, AluType DEF AluResult
<1>4. idex.pc \in Int /\ idex.disp \in Int  BY ProgramsAssumption DEF TypeOK, Pcs
<1>5. RollbackPc \in Pcs  BY <1>4, TargetType DEF RollbackPc
<1> QED BY <1>1, <1>3, <1>5 DEF Zero

\* PC, predictor, registers and memory keep their types.
LEMMA NextTypes ==
    ASSUME TypeOK
    PROVE /\ NextPc \in Pcs
          /\ NextState \in 0..3
          /\ NextRegs \in [Regs -> Word] /\ NextMem \in [Word -> Word]
<1>1. NextPc \in Pcs
  <2>1. pc \in Int /\ ifid.pc \in Int /\ ifid.instr.disp \in Int
    BY ProgramsAssumption, InstrFields DEF TypeOK, Pcs
  <2> QED BY <2>1, TargetType, OperandTypes DEF NextPc
<1>2. NextState \in 0..3  BY DEF TypeOK, NextState
<1>3. NextRegs \in [Regs -> Word]  BY ReadTypes DEF TypeOK, NextRegs
<1>4. NextMem \in [Word -> Word]  BY DEF TypeOK, NextMem
<1> QED BY <1>1, <1>2, <1>3, <1>4

\* So does the register between ID and EX.
LEMMA IdExType ==
    ASSUME TypeOK
    PROVE NextIdEx \in [RegWrite : BOOLEAN, MemtoReg : BOOLEAN, MemRead : BOOLEAN,
                        MemWrite : BOOLEAN, Branch : BOOLEAN, ALUSrc : BOOLEAN,
                        op : Ops \cup {"none"}, data1 : Word, data2 : Word, imm : Word,
                        disp : Int, rd : Regs, rs1 : Regs, rs2 : Regs, pc : Pcs,
                        prediction : BOOLEAN]
<1>1. 0 \in Pcs /\ 0 \in Word /\ 0 \in Regs
  BY WordAssumption, ProgramsAssumption DEF Pcs
<1>2. idex.prediction \in BOOLEAN /\ ifid.pc \in Pcs /\ Predict \in BOOLEAN
  BY DEF TypeOK, Predict
<1>3. CASE Rollback
  BY <1>1, <1>2, <1>3 DEF NextIdEx, EmptyIdEx
<1>4. CASE ~Rollback
  <2> DEFINE i == ifid.instr
  <2>1. /\ i.op \in Ops \cup {"none"}
        /\ i.rd \in Regs /\ i.rs1 \in Regs /\ i.rs2 \in Regs
        /\ i.imm \in Word /\ i.disp \in Int
    <3>1. i \in Instr \cup {NoInstr}  BY DEF TypeOK
    <3> QED BY <3>1, InstrFields
  <2>2. ReadReg(i.rs1) \in Word /\ ReadReg(i.rs2) \in Word
    BY <2>1, ReadTypes
  <2>3. /\ Control.RegWrite \in BOOLEAN /\ Control.MemtoReg \in BOOLEAN
        /\ Control.MemRead \in BOOLEAN /\ Control.MemWrite \in BOOLEAN
        /\ Control.Branch \in BOOLEAN /\ Control.ALUSrc \in BOOLEAN
    BY DEF Control, ControlOf
  <2> QED BY <1>2, <1>4, <2>1, <2>2, <2>3 DEF NextIdEx
<1> QED BY <1>3, <1>4

\* A clock keeps the types.
LEMMA TypeStep == ASSUME TypeOK, Clock PROVE TypeOK'
<1>1. prog' \in Programs  BY DEF TypeOK, Clock
<1>2. pc' \in Pcs  BY NextTypes DEF TypeOK, Clock
<1>3. ifid' \in [instr : Instr \cup {NoInstr}, pc : Pcs]
  <2>1. prog[pc] \in Instr /\ 0 \in Pcs
    BY ProgInstr, ProgramsAssumption DEF TypeOK, Pcs
  <2> QED BY <2>1 DEF TypeOK, Clock, NextIfId
<1>4. idex' = NextIdEx  BY DEF Clock
<1>5. exmem' \in [RegWrite : BOOLEAN, MemtoReg : BOOLEAN, MemRead : BOOLEAN,
                  MemWrite : BOOLEAN, alu : Word, store : Word, rd : Regs]
  BY OperandTypes DEF TypeOK, Clock, NextExMem
<1>6. memwb' \in [RegWrite : BOOLEAN, MemtoReg : BOOLEAN, alu : Word,
                  data : Word, rd : Regs]
  <2>1. ReadMem \in Word  BY WordAssumption DEF TypeOK, ReadMem
  <2> QED BY <2>1 DEF TypeOK, Clock, NextMemWb
<1>7. branch_state' \in 0..3 /\ regs' \in [Regs -> Word] /\ mem' \in [Word -> Word]
  BY NextTypes DEF Clock
<1> QED BY <1>1, <1>2, <1>3, <1>4, <1>5, <1>6, <1>7, IdExType DEF TypeOK, Pcs

------------------------------------------------------------------------------
\* What an instruction in EX is.

\* A stalled, flushed or zero instruction leaves no control signal in EX.
LEMMA Bubble ==
    ASSUME Clock, Stall \/ Rollback \/ ~InID
    PROVE ~InEX' /\ ~idex'.MemRead /\ ~idex'.MemtoReg
<1>1. idex' = NextIdEx  BY DEF Clock
<1>2. CASE Rollback  BY <1>1, <1>2 DEF NextIdEx, EmptyIdEx, InEX
<1>3. CASE ~Rollback /\ (Stall \/ ~InID)
  <2>1. /\ ~Control.RegWrite /\ ~Control.MemtoReg /\ ~Control.MemRead
        /\ ~Control.MemWrite /\ ~Control.Branch
    <3>1. CASE Stall  BY <3>1 DEF Control, ControlOf
    <3>2. CASE ~InID
      <4>1. ifid.instr.op = "none"  BY <3>2 DEF InID, NoInstr
      <4> QED BY <4>1 DEF Control, ControlOf, RType, IType
    <3> QED BY <1>3, <3>1, <3>2
  <2> QED BY <1>1, <1>3, <2>1 DEF NextIdEx, InEX
<1> QED BY <1>2, <1>3

\* Otherwise the instruction in ID goes to EX.
LEMMA Issued ==
    ASSUME TypeOK, Clock, ~Stall, ~Rollback, InID
    PROVE /\ idex'.op = ifid.instr.op /\ idex'.imm = ifid.instr.imm
          /\ idex'.disp = ifid.instr.disp /\ idex'.rd = ifid.instr.rd
          /\ idex'.rs1 = ifid.instr.rs1 /\ idex'.rs2 = ifid.instr.rs2
          /\ idex'.pc = ifid.pc /\ idex'.prediction = Predict
          /\ idex'.RegWrite = Control.RegWrite /\ idex'.MemtoReg = Control.MemtoReg
          /\ idex'.MemRead = Control.MemRead /\ idex'.MemWrite = Control.MemWrite
          /\ idex'.Branch = Control.Branch /\ idex'.ALUSrc = Control.ALUSrc
          /\ Control = ControlOf(ifid.instr.op, FALSE)
          /\ InEX'
<1>1. idex' = NextIdEx  BY DEF Clock
<1>2. Control = ControlOf(ifid.instr.op, FALSE)
  BY DEF Control, ControlOf
<1>3. ifid.instr.op \in Ops  BY DEF TypeOK, InID, Instr
<1>4. Control.RegWrite \/ Control.MemWrite \/ Control.Branch
  BY <1>2, <1>3 DEF ControlOf, Ops
<1> QED BY <1>1, <1>2, <1>4 DEF NextIdEx, InEX

\* A branch in EX is no load, so a stall never meets a rollback, and the branch in
\* ID that a stall turns into a bubble redirects nothing.
LEMMA NoRedirect == ASSUME TypeOK, Decoded PROVE NoRedirectLost
<1>1. Stall => ~TakeBranch  BY DEF TakeBranch, Control, ControlOf
<1>2. Stall => ~Rollback
  <2>1. idex.Branch => InEX  BY DEF InEX
  <2>2. idex.Branch => ~idex.MemRead  BY <2>1 DEF Decoded, ControlOf
  <2> QED BY <2>2 DEF Stall, Rollback
<1> QED BY <1>1, <1>2 DEF NoRedirectLost

\* Where the stages stand after the edge.
LEMMA DecodedStep ==
    ASSUME Inv, Clock
    PROVE Decoded' /\ (InEX' => ~Stall /\ ~Rollback /\ InID)
<1>1. CASE Stall \/ Rollback \/ ~InID  BY <1>1, Bubble DEF Decoded
<1>2. CASE ~Stall /\ ~Rollback /\ InID
  <2>1. ifid.instr = prog[ifid.pc]  BY <1>2 DEF Inv, Fetched
  <2>2. prog' = prog  BY DEF Clock
  <2>3. TypeOK  BY DEF Inv
  <2> QED BY <1>2, <2>1, <2>2, <2>3, Issued DEF Decoded
<1> QED BY <1>1, <1>2

\* A clock keeps that IF/ID holds the word at its PC, and the PC the next one.
LEMMA FetchedStep == ASSUME Inv, Clock PROVE Fetched'
<1>1. CASE TakeBranch \/ Rollback  BY <1>1 DEF Clock, NextIfId, InID, Fetched
<1>2. CASE ~TakeBranch /\ ~Rollback /\ Stall
  BY <1>2 DEF Clock, NextIfId, InID, Inv, Fetched
<1>3. CASE ~TakeBranch /\ ~Rollback /\ ~Stall
  <2>1. ifid' = [instr |-> prog[pc], pc |-> pc] /\ pc' = Target(pc, 1) /\ prog' = prog
    BY <1>3 DEF Clock, NextIfId, NextPc
  <2> QED BY <2>1 DEF Fetched
<1> QED BY <1>1, <1>2, <1>3

\* A clock keeps that the instruction behind the one in EX is the one predicted.
LEMMA FollowedStep == ASSUME Inv, Clock PROVE Followed'
<1> SUFFICES ASSUME InEX'
             PROVE (IF idex.Branch /\ idex.prediction
                    THEN ~InID /\ pc = Target(idex.pc, idex.disp)
                    ELSE InID /\ ifid.pc = Target(idex.pc, 1))'
  BY DEF Followed
<1>1. ~Stall /\ ~Rollback /\ InID  BY DecodedStep
<1>2. TypeOK /\ pc = Target(ifid.pc, 1)  BY <1>1 DEF Inv, Fetched
<1>3. idex'.Branch = Control.Branch /\ idex'.prediction = Predict
      /\ idex'.pc = ifid.pc /\ idex'.disp = ifid.instr.disp
  BY <1>1, <1>2, Issued
<1>4. CASE TakeBranch
  <2>1. idex'.Branch /\ idex'.prediction  BY <1>3, <1>4 DEF TakeBranch
  <2>2. pc' = Target(ifid.pc, ifid.instr.disp) /\ ifid'.instr = NoInstr
    BY <1>1, <1>4 DEF Clock, NextPc, NextIfId
  <2> QED BY <1>3, <2>1, <2>2 DEF InID
<1>5. CASE ~TakeBranch
  <2>1. ~(idex'.Branch /\ idex'.prediction)  BY <1>3, <1>5 DEF TakeBranch
  <2>2. ifid'.instr = prog[pc] /\ ifid'.pc = pc
    BY <1>1, <1>5 DEF Clock, NextIfId
  <2>3. prog[pc] # NoInstr
    <3>1. prog[pc] \in Instr  BY <1>2, ProgInstr DEF TypeOK
    <3> QED BY <3>1 DEF Instr, NoInstr, Ops, RType, IType
  <2> QED BY <1>2, <1>3, <2>1, <2>2, <2>3 DEF InID
<1> QED BY <1>4, <1>5

------------------------------------------------------------------------------
\* Where the values are.

\* A nop writes 0 to register 0, and nothing else writes it.
LEMMA ZeroRegStep == ASSUME Inv, Clock PROVE ZeroReg'
<1>1. regs'[0] = 0  BY DEF Inv, ZeroReg, TypeOK, Clock, NextRegs
<1>2. ASSUME exmem'.RegWrite, exmem'.rd = 0
      PROVE ~exmem'.MemtoReg /\ exmem'.alu = 0
  <2> DEFINE i == prog[idex.pc]
  <2>1. idex.RegWrite /\ idex.rd = 0  BY <1>2 DEF Clock, NextExMem
  <2>2. /\ InEX /\ i.rd = 0
        /\ idex.op = i.op /\ idex.imm = i.imm /\ idex.rs1 = i.rs1
        /\ i.op \in RType \cup IType \cup {"lw"}
        /\ idex.ALUSrc = (i.op \in IType \cup {"lw", "sw"})
        /\ idex.MemtoReg = (i.op = "lw")
    BY <2>1 DEF Inv, Decoded, InEX, ControlOf
  <2>3. i = Nop
    <3>1. i.op # "sw" /\ i.op # "beq"  BY <2>2 DEF RType, IType
    <3> QED BY <2>2, <3>1, ProgramsAssumption DEF Inv, TypeOK, Pcs
  <2>4. /\ idex.op = "addi" /\ idex.imm = 0 /\ idex.rs1 = 0 /\ ~idex.MemtoReg
        /\ idex.ALUSrc
    <3>1. i.op = "addi" /\ i.imm = 0 /\ i.rs1 = 0  BY <2>3 DEF Nop
    <3> QED BY <2>2, <3>1 DEF IType
  <2>5. OperandA = 0
    BY <2>4 DEF Inv, ReadInID, ZeroReg, OperandA, Forwarded, WritesTo
  <2>6. ALUControl(idex.op) = "add"
    <3>1. idex.op \notin RType /\ idex.op \in {"addi", "lw", "sw", "none"}
      BY <2>4 DEF RType
    <3> QED BY <3>1 DEF ALUControl
  <2>7. AluResult = 0  BY <2>4, <2>5, <2>6, WordAssumption DEF AluResult, OperandB
  <2> QED BY <2>4, <2>7 DEF Clock, NextExMem
<1>3. ASSUME memwb'.RegWrite, memwb'.rd = 0 PROVE WbData' = 0
  BY <1>3 DEF Inv, ZeroReg, Clock, NextMemWb, WbData
<1> QED BY <1>1, <1>2, <1>3 DEF ZeroReg

\* A read in ID is what the register holds after the edge.
LEMMA ReadIsNext ==
    ASSUME TypeOK, ZeroReg, NEW r \in Regs PROVE ReadReg(r) = NextRegs[r]
BY DEF TypeOK, ZeroReg, ReadReg, NextRegs

\* A clock keeps that ID read what the register file holds.
LEMMA ReadInIDStep == ASSUME Inv, Clock PROVE ReadInID'
<1>1. regs'[0] = 0  BY ZeroRegStep DEF ZeroReg
<1>2. idex' = NextIdEx /\ regs' = NextRegs  BY DEF Clock
<1>3. CASE Rollback  BY <1>1, <1>2, <1>3 DEF NextIdEx, EmptyIdEx, ReadInID
<1>4. CASE ~Rollback
  <2>1. ifid.instr.rs1 \in Regs /\ ifid.instr.rs2 \in Regs
    <3>1. ifid.instr \in Instr \cup {NoInstr}  BY DEF Inv, TypeOK
    <3> QED BY <3>1, InstrFields
  <2>2. /\ ReadReg(ifid.instr.rs1) = NextRegs[ifid.instr.rs1]
        /\ ReadReg(ifid.instr.rs2) = NextRegs[ifid.instr.rs2]
    BY <2>1, ReadIsNext DEF Inv
  <2> QED BY <1>2, <1>4, <2>2 DEF NextIdEx, ReadInID
<1> QED BY <1>3, <1>4

\* A clock keeps that only a load takes its result from the memory.
LEMMA LoadMarkedStep == ASSUME Inv, Clock PROVE LoadMarked'
<1>1. idex.MemRead = idex.MemtoReg  BY DEF Inv, TypeOK, Decoded, ControlOf
<1> QED BY <1>1 DEF Clock, NextExMem, LoadMarked

\* The stall keeps the instruction that needs a load one stage behind it.
LEMMA NoLoadUseStep == ASSUME Inv, Clock PROVE NoLoadUse'
<1> SUFFICES ASSUME InEX', exmem'.MemRead, exmem'.rd # 0
             PROVE exmem'.rd \notin {idex'.rs1, idex'.rs2}
  BY DEF NoLoadUse
<1>1. ~Stall /\ ~Rollback /\ InID /\ TypeOK  BY DecodedStep DEF Inv
<1>2. idex'.rs1 = ifid.instr.rs1 /\ idex'.rs2 = ifid.instr.rs2  BY <1>1, Issued
<1>3. idex.MemRead /\ exmem'.rd = idex.rd  BY DEF Clock, NextExMem
<1> QED BY <1>1, <1>2, <1>3 DEF Clock, NextExMem, Stall

------------------------------------------------------------------------------
\* The invariant.

\* The invariant holds after the reset.
LEMMA InvInit == ASSUME Init PROVE Inv
<1> USE WordAssumption, InitAssumption, ProgramsAssumption DEF Init
<1>1. TypeOK
  <2>1. 0 \in Pcs /\ prog \in Programs  BY DEF Pcs
  <2>2. PICK b \in BOOLEAN : idex = EmptyIdEx(b)  OBVIOUS
  <2>3. ifid \in [instr : Instr \cup {NoInstr}, pc : Pcs]  BY <2>1
  <2>4. idex \in [RegWrite : BOOLEAN, MemtoReg : BOOLEAN, MemRead : BOOLEAN,
                  MemWrite : BOOLEAN, Branch : BOOLEAN, ALUSrc : BOOLEAN,
                  op : Ops \cup {"none"}, data1 : Word, data2 : Word, imm : Word,
                  disp : Int, rd : Regs, rs1 : Regs, rs2 : Regs, pc : Pcs,
                  prediction : BOOLEAN]
    BY <2>1, <2>2 DEF EmptyIdEx
  <2> QED BY <2>1, <2>3, <2>4 DEF TypeOK
<1>2. ~InEX /\ ~InID /\ idex.data1 = 0 /\ idex.data2 = 0 /\ idex.rs1 = 0 /\ idex.rs2 = 0
      /\ ~idex.MemRead /\ ~idex.MemtoReg
  BY DEF EmptyIdEx, InEX, InID
<1>3. ZeroReg /\ ReadInID /\ LoadMarked
  BY <1>2 DEF ZeroReg, ReadInID, LoadMarked
<1> QED BY <1>1, <1>2, <1>3 DEF Inv, NoLoadUse, Decoded, Fetched, Followed

\* A clock, and a stutter, keep the invariant.
LEMMA InvStep == ASSUME Inv, [Clock]_vars PROVE Inv'
<1>1. CASE Clock
  <2>1. TypeOK'  BY <1>1, TypeStep DEF Inv
  <2> QED
    BY <1>1, <2>1, ZeroRegStep, ReadInIDStep, LoadMarkedStep, NoLoadUseStep,
       DecodedStep, FetchedStep, FollowedStep DEF Inv
<1>2. CASE UNCHANGED vars
  <2> USE <1>2 DEF vars, Inv
  <2>1. TypeOK'  BY DEF TypeOK
  <2>2. (InEX <=> InEX') /\ (InID <=> InID')  BY DEF InEX, InID
  <2>3. ZeroReg' /\ ReadInID' /\ LoadMarked'
    BY DEF ZeroReg, WbData, ReadInID, LoadMarked
  <2>4. NoLoadUse' /\ Fetched' /\ Followed'  BY <2>2 DEF NoLoadUse, Fetched, Followed
  <2>5. Decoded'  BY <2>2 DEF Decoded
  <2> QED BY <2>1, <2>3, <2>4, <2>5
<1> QED BY <1>1, <1>2

\* The inductive invariant of the pipeline registers.
THEOREM Invariance == Spec => []Inv
BY InvInit, InvStep, PTL DEF Spec

\* Every wire and register keeps its type: no address leaves the program, no
\* counter of the predictor leaves its two bits.
THEOREM TypeCorrect == Spec => []TypeOK
<1>1. Inv => TypeOK  BY DEF Inv
<1> QED BY <1>1, Invariance, PTL

\* A stall, which freezes the PC, never meets a redirection of the PC.
THEOREM RedirectsKept == Spec => []NoRedirectLost
<1>1. Inv => NoRedirectLost  BY NoRedirect DEF Inv
<1> QED BY <1>1, Invariance, PTL

\* A load delays the instruction behind it by one cycle only.
THEOREM OneStall == Spec => StallsOnce
<1>1. Inv /\ [Clock]_vars => [Stall => ~Stall']_vars
  <2> SUFFICES ASSUME Inv, Clock, Stall PROVE ~Stall'  OBVIOUS
  <2>1. ~idex'.MemRead  BY Bubble
  <2> QED BY <2>1 DEF Stall
<1> QED BY <1>1, Invariance, PTL DEF Spec, StallsOnce

------------------------------------------------------------------------------
\* The pipeline implements the sequential machine: the step of the machine is the
\* edge at which its instruction leaves EX.

\* Forwarding gives EX the registers as all earlier instructions leave them.
LEMMA ForwardedIsSeq ==
    ASSUME Inv, InEX, NEW r \in {idex.rs1, idex.rs2}
    PROVE Forwarded(r, regs[r]) = SeqRegs[r]
<1>1. r \in Regs  BY DEF Inv, TypeOK
<1>2. CASE WritesTo(exmem, r)
  <2>1. ~exmem.MemtoReg  BY <1>2 DEF Inv, NoLoadUse, LoadMarked, WritesTo
  <2> QED BY <1>1, <1>2, <2>1 DEF Forwarded, SeqRegs, MemResult
<1>3. CASE ~WritesTo(exmem, r)
  BY <1>1, <1>3 DEF Forwarded, SeqRegs
<1> QED BY <1>2, <1>3

\* Both operands in EX are those of the sequential machine.
LEMMA Operands ==
    ASSUME Inv, InEX
    PROVE OperandA = SeqRegs[idex.rs1] /\ ForwardB = SeqRegs[idex.rs2]
BY ForwardedIsSeq DEF Inv, ReadInID, OperandA, ForwardB

\* What the instruction leaving EX adds to the registers and the memory.
LEMMA SeqRegsNext ==
    ASSUME Inv, Clock
    PROVE SeqRegs' = [r \in Regs |->
                        IF WritesTo(idex, r)
                        THEN IF idex.MemtoReg THEN NextMem[AluResult] ELSE AluResult
                        ELSE SeqRegs[r]]
<1>1. MemResult' = IF idex.MemtoReg THEN NextMem[AluResult] ELSE AluResult
  BY DEF Clock, NextExMem, MemResult
<1>2. WbData' = MemResult
  BY DEF Clock, NextMemWb, WbData, MemResult, ReadMem, Inv, LoadMarked
<1>3. ASSUME NEW r \in Regs
      PROVE /\ WritesTo(exmem, r)' = WritesTo(idex, r)
            /\ WritesTo(memwb, r)' = WritesTo(exmem, r)
            /\ regs'[r] = IF WritesTo(memwb, r) THEN WbData ELSE regs[r]
  BY DEF Clock, NextExMem, NextMemWb, NextRegs, WritesTo, Inv, TypeOK
<1> QED BY <1>1, <1>2, <1>3 DEF SeqRegs

\* The memory the sequential machine sees changes by the store in EX only.
LEMMA SeqMemNext ==
    ASSUME Inv, Clock
    PROVE NextMem' = IF idex.MemWrite THEN [NextMem EXCEPT ![AluResult] = ForwardB]
                     ELSE NextMem
BY DEF Clock, NextExMem, NextMem

\* The instruction executed next: a prediction that was wrong is rolled back before
\* what it fetched gets to EX.
LEMMA SeqPcNext ==
    ASSUME Inv, Clock
    PROVE SeqPc' = IF InEX
                   THEN Target(idex.pc, IF idex.Branch /\ Zero THEN idex.disp ELSE 1)
                   ELSE SeqPc
<1>1. TypeOK /\ NoRedirectLost /\ Followed /\ Decoded  BY NoRedirect DEF Inv
<1>2. ASSUME ~InID PROVE ~TakeBranch
  <2>1. ifid.instr.op = "none"  BY <1>2 DEF InID, NoInstr
  <2> QED BY <2>1 DEF TakeBranch, Control, ControlOf
<1>3. prog[pc] # NoInstr
  <2>1. prog[pc] \in Instr  BY <1>1, ProgInstr DEF TypeOK
  <2> QED BY <2>1 DEF Instr, NoInstr, Ops, RType, IType
<1>4. ASSUME ~Rollback, ~InID, ~Stall PROVE SeqPc' = pc
  <2>1. ~InEX'  BY <1>4, Bubble
  <2>2. ifid' = [instr |-> prog[pc], pc |-> pc]  BY <1>2, <1>4 DEF Clock, NextIfId
  <2> QED BY <1>3, <2>1, <2>2 DEF SeqPc, InID
<1>5. ASSUME ~Rollback, InID PROVE SeqPc' = ifid.pc
  <2>1. CASE Stall
    <3>1. ~InEX'  BY <2>1, Bubble
    <3>2. ifid' = ifid  BY <1>1, <1>5, <2>1 DEF NoRedirectLost, Clock, NextIfId
    <3> QED BY <1>5, <3>1, <3>2 DEF SeqPc, InID
  <2>2. CASE ~Stall  BY <1>1, <1>5, <2>2, Issued DEF SeqPc
  <2> QED BY <2>1, <2>2
<1>6. CASE Rollback
  <2>1. idex.Branch /\ InEX  BY <1>6 DEF Rollback, InEX
  <2>2. ~InEX'  BY <1>6, Bubble
  <2>3. ~InID' /\ pc' = RollbackPc
    BY <1>1, <1>6 DEF NoRedirectLost, Clock, NextIfId, NextPc, InID
  <2> QED BY <2>1, <2>2, <2>3 DEF SeqPc, RollbackPc
<1>7. CASE ~Rollback /\ InEX
  <2>1. CASE idex.Branch /\ idex.prediction
    <3>1. Zero  BY <1>7, <2>1, OperandTypes, <1>1 DEF Rollback, TypeOK
    <3>2. ~InID /\ pc = Target(idex.pc, idex.disp)  BY <1>1, <1>7, <2>1 DEF Followed
    <3>3. ~Stall  BY <1>1, <1>7, <2>1 DEF Decoded, ControlOf, Stall
    <3> QED BY <1>4, <1>7, <2>1, <3>1, <3>2, <3>3
  <2>2. CASE ~(idex.Branch /\ idex.prediction)
    <3>1. ~(idex.Branch /\ Zero)  BY <1>1, <1>7, <2>2, OperandTypes DEF Rollback, TypeOK
    <3>2. InID /\ ifid.pc = Target(idex.pc, 1)  BY <1>1, <1>7, <2>2 DEF Followed
    <3> QED BY <1>5, <1>7, <3>1, <3>2
  <2> QED BY <2>1, <2>2
<1>8. CASE ~Rollback /\ ~InEX
  <2>1. ~Stall  BY <1>1, <1>8 DEF Decoded, Stall
  <2> QED BY <1>4, <1>5, <1>8, <2>1 DEF SeqPc
<1> QED BY <1>6, <1>7, <1>8

\* An edge with a bubble in EX changes nothing.
LEMMA BubbleStutters ==
    ASSUME Inv, Clock, ~InEX PROVE UNCHANGED Sequential!vars
<1>1. ~idex.RegWrite /\ ~idex.MemWrite  BY DEF InEX
<1>2. SeqRegs' = SeqRegs
  <2>1. \A r \in Regs : ~WritesTo(idex, r)  BY <1>1 DEF WritesTo
  <2>2. SeqRegs' = [r \in Regs |-> SeqRegs[r]]  BY <2>1, SeqRegsNext
  <2> QED BY <2>2 DEF SeqRegs
<1>3. NextMem' = NextMem  BY <1>1, SeqMemNext
<1>4. SeqPc' = SeqPc  BY SeqPcNext
<1> QED BY <1>2, <1>3, <1>4 DEF Sequential!vars, Clock

\* An edge with an instruction in EX executes it.
LEMMA ExecutedIsStep == ASSUME Inv, Clock, InEX PROVE Sequential!Step
<1> DEFINE i == prog[idex.pc]
<1>1. /\ SeqPc = idex.pc /\ prog' = prog
      /\ i \in Instr /\ i.op \in Ops
      /\ idex.op = i.op /\ idex.imm = i.imm /\ idex.disp = i.disp
      /\ idex.rd = i.rd /\ idex.rs1 = i.rs1 /\ idex.rs2 = i.rs2
  <2>1. i \in Instr  BY ProgInstr DEF Inv, TypeOK
  <2> QED BY <2>1 DEF Inv, Decoded, Clock, SeqPc, Instr
<1>2. /\ idex.RegWrite = (i.op \in RType \cup IType \cup {"lw"})
      /\ idex.MemtoReg = (i.op = "lw") /\ idex.MemWrite = (i.op = "sw")
      /\ idex.Branch = (i.op = "beq")
      /\ idex.ALUSrc = (i.op \in IType \cup {"lw", "sw"})
  BY DEF Inv, Decoded, ControlOf
<1>3. OperandA = SeqRegs[i.rs1] /\ ForwardB = SeqRegs[i.rs2]  BY <1>1, Operands
<1>4. /\ idex.RegWrite => SeqRegs' = Sequential!SetReg(i.rd,
              IF idex.MemtoReg THEN NextMem[AluResult] ELSE AluResult)
      /\ ~idex.RegWrite => SeqRegs' = SeqRegs
  <2> DEFINE v == IF idex.MemtoReg THEN NextMem[AluResult] ELSE AluResult
  <2>1. SeqRegs' = [r \in Regs |-> IF WritesTo(idex, r) THEN v ELSE SeqRegs[r]]
    BY SeqRegsNext
  <2>2. SeqRegs = [r \in Regs |-> SeqRegs[r]]  BY DEF SeqRegs
  <2>3. CASE idex.RegWrite /\ i.rd # 0
    <3>1. \A r \in Regs : WritesTo(idex, r) <=> r = i.rd  BY <1>1, <2>3 DEF WritesTo
    <3>2. SeqRegs' = [SeqRegs EXCEPT ![i.rd] = v]  BY <2>1, <2>2, <3>1
    <3> QED BY <2>3, <3>2 DEF Sequential!SetReg
  <2>4. CASE ~(idex.RegWrite /\ i.rd # 0)
    <3>1. \A r \in Regs : ~WritesTo(idex, r)  BY <1>1, <2>4 DEF WritesTo
    <3>2. SeqRegs' = SeqRegs  BY <2>1, <2>2, <3>1
    <3> QED BY <2>4, <3>2 DEF Sequential!SetReg
  <2> QED BY <2>3, <2>4
<1>5. /\ idex.MemWrite => NextMem' = [NextMem EXCEPT ![AluResult] = SeqRegs[i.rs2]]
      /\ ~idex.MemWrite => NextMem' = NextMem
  BY <1>3, SeqMemNext
<1>6. SeqPc' = Target(idex.pc, IF idex.Branch /\ Zero THEN i.disp ELSE 1)
  BY <1>1, SeqPcNext
<1>7. CASE i.op \in RType \cup IType
  <2>1. /\ idex.RegWrite /\ ~idex.MemtoReg /\ ~idex.MemWrite /\ ~idex.Branch
        /\ idex.ALUSrc <=> i.op \in IType
    BY <1>2, <1>7 DEF RType, IType
  <2>2. AluResult =
            IF i.op \in RType THEN Alu(i.op, SeqRegs[i.rs1], SeqRegs[i.rs2])
            ELSE Alu(IF i.op = "addi" THEN "add" ELSE "srai", SeqRegs[i.rs1], i.imm)
    <3>1. CASE i.op \in RType
      <4>1. ALUControl(i.op) = i.op /\ ~idex.ALUSrc
        BY <2>1, <3>1 DEF ALUControl, RType, IType
      <4> QED BY <1>1, <1>3, <3>1, <4>1 DEF AluResult, OperandB
    <3>2. CASE i.op = "addi"
      <4>1. i.op \notin RType  BY <3>2 DEF RType
      <4>2. ALUControl(i.op) = "add"  BY <3>2, <4>1 DEF ALUControl
      <4>3. idex.ALUSrc  BY <2>1, <3>2 DEF IType
      <4> QED BY <1>1, <1>3, <3>2, <4>1, <4>2, <4>3 DEF AluResult, OperandB
    <3>3. CASE i.op = "srai"
      <4>1. i.op \notin RType /\ i.op \notin {"addi", "lw", "sw", "none"}
        BY <3>3 DEF RType
      <4>2. ALUControl(i.op) = "srai"  BY <3>3, <4>1 DEF ALUControl
      <4>3. idex.ALUSrc  BY <2>1, <3>3 DEF IType
      <4> QED BY <1>1, <1>3, <3>3, <4>1, <4>2, <4>3 DEF AluResult, OperandB
    <3> QED BY <1>7, <3>1, <3>2, <3>3 DEF IType
  <2>3. Sequential!Compute(i)
    BY <1>1, <1>4, <1>5, <1>6, <1>7, <2>1, <2>2
       DEF Sequential!Compute, Sequential!Target, Target, Sequential!RType, RType,
           Sequential!IType, IType
  <2> QED BY <1>1, <2>3 DEF Sequential!Step
<1>8. ASSUME i.op \in {"lw", "sw"} PROVE AluResult = Sequential!Address(i)
  <2>1. i.op \notin RType /\ i.op \in {"addi", "lw", "sw", "none"}  BY <1>8 DEF RType
  <2>2. ALUControl(i.op) = "add"  BY <2>1 DEF ALUControl
  <2>3. idex.ALUSrc  BY <1>2, <1>8
  <2> QED BY <1>1, <1>3, <2>2, <2>3 DEF AluResult, OperandB, Sequential!Address
<1>9. CASE i.op = "lw"
  <2>1. idex.RegWrite /\ idex.MemtoReg /\ ~idex.MemWrite /\ ~idex.Branch
    BY <1>2, <1>9
  <2>2. Sequential!Load(i)
    BY <1>1, <1>4, <1>5, <1>6, <1>8, <1>9, <2>1
       DEF Sequential!Load, Sequential!Target, Target
  <2> QED BY <1>1, <2>2 DEF Sequential!Step
<1>10. CASE i.op = "sw"
  <2>1. ~idex.RegWrite /\ idex.MemWrite /\ ~idex.Branch
    BY <1>2, <1>10 DEF RType, IType
  <2>2. Sequential!Store(i)
    BY <1>1, <1>4, <1>5, <1>6, <1>8, <1>10, <2>1
       DEF Sequential!Store, Sequential!Target, Target
  <2> QED BY <1>1, <2>2 DEF Sequential!Step
<1>11. CASE i.op = "beq"
  <2>1. ~idex.RegWrite /\ ~idex.MemWrite /\ idex.Branch /\ ~idex.ALUSrc
    BY <1>2, <1>11 DEF RType, IType
  <2>2. ALUControl(i.op) = "sub"
    <3>1. i.op \notin RType /\ i.op \notin {"addi", "lw", "sw", "none"} /\ i.op # "srai"
      BY <1>11 DEF RType
    <3> QED BY <3>1 DEF ALUControl
  <2>3. Zero <=> SeqRegs[i.rs1] = SeqRegs[i.rs2]
    BY <1>1, <1>3, <2>1, <2>2 DEF Zero, OperandB
  <2>4. Sequential!Branch(i)
    BY <1>1, <1>4, <1>5, <1>6, <1>11, <2>1, <2>3
       DEF Sequential!Branch, Sequential!Target, Target
  <2> QED BY <1>1, <2>4 DEF Sequential!Step
<1> QED BY <1>1, <1>7, <1>9, <1>10, <1>11 DEF Ops

\* After the reset the sequential machine is at its start.
LEMMA SeqInit == ASSUME Init PROVE Sequential!Init
<1> USE DEF Init
<1>1. PICK b \in BOOLEAN : idex = EmptyIdEx(b)  OBVIOUS
<1>2. ~InEX /\ ~InID  BY <1>1 DEF EmptyIdEx, InEX, InID
<1>3. SeqRegs = InitRegs
  <2>1. SeqRegs = [r \in Regs |-> InitRegs[r]]  BY DEF SeqRegs, WritesTo
  <2> QED BY <2>1, InitAssumption
<1>4. NextMem = InitMem  BY DEF NextMem
<1> QED BY <1>2, <1>3, <1>4 DEF Sequential!Init, SeqPc

\* The pipeline implements the machine that runs one instruction after the other.
THEOREM Refinement == Spec => Implements
<1>1. Inv /\ [Clock]_vars => [Sequential!Step]_(Sequential!vars)
  <2> SUFFICES ASSUME Inv, [Clock]_vars
               PROVE Sequential!Step \/ UNCHANGED Sequential!vars
    OBVIOUS
  <2>1. CASE Clock  BY <2>1, BubbleStutters, ExecutedIsStep
  <2>2. CASE UNCHANGED vars
    BY <2>2 DEF vars, Sequential!vars, SeqPc, SeqRegs, NextMem, InEX, InID, MemResult,
                WbData, WritesTo
  <2> QED BY <2>1, <2>2
<1> QED BY <1>1, SeqInit, Invariance, PTL DEF Spec, Implements, Sequential!Spec
================================================================================
