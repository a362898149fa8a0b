-------------------------------- MODULE Isa --------------------------------
(***************************************************************************)
(* The instruction set as Emulator::executeInstruction implements it.      *)
(*                                                                         *)
(* A word of the program is a record of the mnemonic its opcode and funct  *)
(* fields select (emulator.h) and of its three register fields.  Two       *)
(* mnemonics stand for the words that no enumeration names: "HALT" is      *)
(* 0xfeedfeed and "ILLEGAL" is every word that reaches a default branch of *)
(* the decoder.  Immediates and addresses are left out: what they decide   *)
(* (is a branch taken, does a sum overflow, which block is accessed) is a  *)
(* choice of the modules that extend this one.                             *)
(***************************************************************************)
EXTENDS Naturals

CONSTANT Words   \* the instruction words a program may hold

\* R-type mnemonics that compute a value into rd.
ShiftOps    == {"SLL", "SRL"}
RegisterOps == {"ADD", "ADDU", "AND", "NOR", "OR", "SLT", "SLTU", "SUB", "SUBU"}
\* I-type mnemonics that compute a value into rt.
ImmediateOps == {"ADDI", "ADDIU", "ANDI", "LUI", "ORI", "SLTI", "SLTIU"}
LoadOps      == {"LBU", "LHU", "LW"}
StoreOps     == {"SB", "SH", "SW"}
MemOps       == LoadOps \cup StoreOps
\* Branches that compare two registers, and branches that test one.
CompareBranchOps == {"BEQ", "BNE"}
SignBranchOps    == {"BLEZ", "BGTZ"}
BranchOps        == CompareBranchOps \cup SignBranchOps
JumpOps          == {"J", "JAL", "JR"}

Ops == ShiftOps \cup RegisterOps \cup ImmediateOps \cup MemOps \cup BranchOps
         \cup JumpOps \cup {"HALT", "ILLEGAL"}

Word == [op : Ops, rs : 0..31, rt : 0..31, rd : 0..31]

\* 0x00000000: sll $zero, $zero, 0.  The nop of the assembler, and the fields of
\* a default-constructed InstructionInfo.
ZeroWord == [op |-> "SLL", rs |-> 0, rt |-> 0, rd |-> 0]

ASSUME WordsAssumption == Words \subseteq Word

\* The instructions whose sum or difference executeInstruction tests for overflow.
OverflowOps == {"ADD", "ADDI", "SUB"}

(***************************************************************************)
(* The registers executeInstruction reads to execute w, and the one it     *)
(* writes (0 when it writes none: $zero is cleared before every            *)
(* instruction).                                                           *)
(***************************************************************************)
ReadsRs(w) == w.op \in RegisterOps \cup (ImmediateOps \ {"LUI"}) \cup MemOps
                          \cup BranchOps \cup {"JR"}
ReadsRt(w) == w.op \in ShiftOps \cup RegisterOps \cup StoreOps \cup CompareBranchOps

Reads(w, r) ==
  \/ ReadsRs(w) /\ w.rs = r
  \/ ReadsRt(w) /\ w.rt = r

Dest(w) ==
  CASE w.op \in ShiftOps \cup RegisterOps -> w.rd
    [] w.op \in ImmediateOps \cup LoadOps -> w.rt
    [] w.op = "JAL"                       -> 31
    [] OTHER                              -> 0
=============================================================================
