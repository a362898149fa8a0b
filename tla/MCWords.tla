------------------------------ MODULE MCWords ------------------------------
(***************************************************************************)
(* What the instances for TLC share: words of eight bits, and instructions *)
(* in the forms of the assembler.                                          *)
(***************************************************************************)
EXTENDS Integers

\* The bitwise and of two words of eight bits.
AndOfBytes(a, b) ==
  LET low[n \in 0..8] ==
        IF n = 0 THEN 0
        ELSE low[n - 1] + 2^(n - 1) * ((a \div 2^(n - 1)) % 2) * ((b \div 2^(n - 1)) % 2)
  IN  low[8]

RType(op, rs, rt, rd, shamt) ==
  [word |-> [op |-> op, rs |-> rs, rt |-> rt, rd |-> rd], imm |-> shamt]
IType(op, rs, rt, imm) ==
  [word |-> [op |-> op, rs |-> rs, rt |-> rt, rd |-> 0], imm |-> imm]
Bare(op) == IType(op, 0, 0, 0)

WordsOf(instructions) == {instr.word : instr \in instructions}
=============================================================================
