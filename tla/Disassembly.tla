---------------------------- MODULE Disassembly ----------------------------
(***************************************************************************)
(* printInstr of Utilities.cpp, which shows an instruction word in the     *)
(* pipeline dump, next to the decoder of Emulator::executeInstruction: two *)
(* readings of the same bits, from two copies of the opcode tables.        *)
(*                                                                         *)
(* A word is the record of its bit fields; what is printed is a mnemonic   *)
(* and the registers behind it, in order.  The layout is left out, as are  *)
(* the immediates.                                                         *)
(*                                                                         *)
(* Operators whose name ends in Mutant are plausible slips in the code;    *)
(* no specification uses them.                                             *)
(***************************************************************************)
EXTENDS Naturals, Sequences

FieldsOf(opcode, rs, rt, rd, shamt, funct) ==
  [opcode |-> opcode, rs |-> rs, rt |-> rt, rd |-> rd, shamt |-> shamt, funct |-> funct]

Bits == [opcode : 0..63, rs : 0..31, rt : 0..31, rd : 0..31, shamt : 0..31, funct : 0..63]

ZeroBits    == FieldsOf(0, 0, 0, 0, 0, 0)
HaltBits    == FieldsOf(63, 23, 13, 31, 27, 45)   \* 0xfeedfeed
UnknownBits == FieldsOf(55, 23, 15, 27, 27, 47)   \* 0xdeefdeef

-----------------------------------------------------------------------------
\* OP_IDS and FUNCT_IDS of emulator.h, and the mnemonic executeInstruction executes.
EmulatorOps ==
  [ADDI |-> 8, ADDIU |-> 9, ANDI |-> 12, BEQ |-> 4, BNE |-> 5, LBU |-> 36, LHU |-> 37,
   LUI |-> 15, LW |-> 35, ORI |-> 13, SLTI |-> 10, SLTIU |-> 11, SB |-> 40, SH |-> 41,
   SW |-> 43, BLEZ |-> 6, BGTZ |-> 7, J |-> 2, JAL |-> 3]
EmulatorFuncts ==
  [ADD |-> 32, ADDU |-> 33, AND |-> 36, JR |-> 8, NOR |-> 39, OR |-> 37, SLT |-> 42,
   SLTU |-> 43, SLL |-> 0, SRL |-> 2, SUB |-> 34, SUBU |-> 35]

\* The mnemonic a table gives a number, and what stands for none.
Named(table, n, otherwise) ==
  IF \E op \in DOMAIN table : table[op] = n THEN CHOOSE op \in DOMAIN table : table[op] = n
  ELSE otherwise

Executes(w) ==
  IF w = HaltBits THEN "HALT"
  ELSE IF w.opcode = 0 THEN Named(EmulatorFuncts, w.funct, "ILLEGAL")
  ELSE Named(EmulatorOps, w.opcode, "ILLEGAL")

-----------------------------------------------------------------------------
\* OP_IDS and FUN_IDS of Utilities.cpp.  ll and sc are in no other table.
PrintedImmediateOpsMutant ==
  [ADDI |-> 8, ADDIU |-> 9, ANDI |-> 12, BEQ |-> 4, BNE |-> 5, LBU |-> 36, LHU |-> 37,
   LL |-> 48, LUI |-> 15, LW |-> 35, ORI |-> 13, SLTI |-> 10, SLTIU |-> 11, SB |-> 40,
   SC |-> 56, SH |-> 41, SW |-> 43, BLEZ |-> 7, BGTZ |-> 6]
PrintedImmediateOps ==
  [ADDI |-> 8, ADDIU |-> 9, ANDI |-> 12, BEQ |-> 4, BNE |-> 5, LBU |-> 36, LHU |-> 37,
   LL |-> 48, LUI |-> 15, LW |-> 35, ORI |-> 13, SLTI |-> 10, SLTIU |-> 11, SB |-> 40,
   SC |-> 56, SH |-> 41, SW |-> 43, BLEZ |-> 6, BGTZ |-> 7]
PrintedJumpOps == [J |-> 2, JAL |-> 3]
PrintedFuncts ==
  [ADD |-> 32, ADDU |-> 33, AND |-> 36, JR |-> 8, NOR |-> 39, OR |-> 37, SLT |-> 42,
   SLTU |-> 43, SLL |-> 0, SRL |-> 2, SUB |-> 34, SUBU |-> 35]

NumbersOf(table) == {table[op] : op \in DOMAIN table}

Line(mnemonic, operands) == [mnemonic |-> mnemonic, operands |-> operands]

\* getFunString and handleOpZeroInst
OpZeroLine(w) ==
  LET funct == Named(PrintedFuncts, w.funct, "ILLEGAL")
  IN  CASE funct = "JR"                             -> Line(funct, <<w.rs>>)
        [] funct \in {"SLL", "SRL"} /\ w = ZeroBits -> Line("NOP", << >>)
        [] funct \in {"SLL", "SRL"} /\ w # ZeroBits -> Line(funct, <<w.rd, w.rt>>)
        [] OTHER                                    -> Line(funct, <<w.rd, w.rs, w.rt>>)

\* getImmString and handleImmInst
ImmediateLineMutant(w) ==
  Line(Named(PrintedImmediateOps, w.opcode, "ILLEGAL"), <<w.rt, w.rs>>)
ImmediateLine(w) ==
  LET op == Named(PrintedImmediateOps, w.opcode, "ILLEGAL")
  IN  CASE op \in {"BEQ", "BNE"}   -> Line(op, <<w.rs, w.rt>>)
        [] op = "LUI"              -> Line(op, <<w.rt>>)
        [] op \in {"BLEZ", "BGTZ"} -> Line(op, <<w.rs>>)
        [] OTHER                   -> Line(op, <<w.rt, w.rs>>)

\* handleJInst
JumpLine(w) == Line(Named(PrintedJumpOps, w.opcode, "ILLEGAL"), << >>)

\* printInstr
PrintInstr(w) ==
  CASE w = HaltBits    -> Line("HALT", << >>)
    [] w = UnknownBits -> Line("UNKNOWN", << >>)
    [] OTHER ->
         CASE w.opcode = 0                               -> OpZeroLine(w)
           [] w.opcode \in NumbersOf(PrintedImmediateOps) -> ImmediateLine(w)
           [] w.opcode \in NumbersOf(PrintedJumpOps)      -> JumpLine(w)
           [] OTHER                                       -> Line("ILLEGAL", << >>)

-----------------------------------------------------------------------------
\* regNames of Utilities.cpp: the register that bears a number.
RegNames(r) ==
  CASE r = 0        -> <<"zero", 0>>
    [] r = 1        -> <<"at", 0>>
    [] r \in 2..3   -> <<"v", r - 2>>
    [] r \in 4..7   -> <<"a", r - 4>>
    [] r \in 8..15  -> <<"t", r - 8>>
    [] r \in 16..23 -> <<"s", r - 16>>
    [] r \in 24..25 -> <<"t", r - 16>>
    [] r \in 26..27 -> <<"k", r - 26>>
    [] r = 28       -> <<"gp", 0>>
    [] r = 29       -> <<"sp", 0>>
    [] r = 30       -> <<"fp", 0>>
    [] r = 31       -> <<"ra", 0>>
=============================================================================
