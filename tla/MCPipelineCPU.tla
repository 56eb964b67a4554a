----------------------------- MODULE MCPipelineCPU -----------------------------
(* Instances of PipelineCPU for TLC: words of two bits, programs of four words. *)
EXTENDS PipelineProperties, Bitwise, TLC

Words == 0..3
Signed(a) == IF a >= 2 THEN a - 4 ELSE a

\* ALU.v on two-bit words.
ALU(op, a, b) ==
    CASE op = "and"  -> a & b
      [] op = "xor"  -> a ^^ b
      [] op = "sll"  -> (a * 2^b) % 4
      [] op = "add"  -> (a + b) % 4
      [] op = "sub"  -> (a - b) % 4
      [] op = "mul"  -> (a * b) % 4
      [] op = "srai" -> (Signed(a) \div 2^(b % 2)) % 4

R(op, rd, rs1, rs2) == [op |-> op, rd |-> rd, rs1 |-> rs1, rs2 |-> rs2, imm |-> 0, disp |-> 0]
I(op, rd, rs1, imm) == [op |-> op, rd |-> rd, rs1 |-> rs1, rs2 |-> imm % 3, imm |-> imm, disp |-> 0]
Lw(rd, rs1) == I("lw", rd, rs1, 0)
Sw(rs1, rs2) == [op |-> "sw", rd |-> 0, rs1 |-> rs1, rs2 |-> rs2, imm |-> 0, disp |-> 0]
Beq(rs1, rs2, d) == [op |-> "beq", rd |-> d % 3, rs1 |-> rs1, rs2 |-> rs2, imm |-> d % 4, disp |-> d]

Few == {R("add", 1, 1, 2), R("sub", 2, 2, 1), R("mul", 1, 2, 2), I("addi", 1, 0, 1), Nop,
        Lw(1, 2), Lw(2, 1), Lw(1, 1), Sw(1, 2), Sw(2, 1),
        Beq(1, 2, 2), Beq(1, 0, -1), Beq(0, 0, 3)}
MCPrograms == [0..3 -> Few]
MCRegs == [r \in 0..2 |-> r]
MCMem == [a \in Words |-> 3 - a]
================================================================================
