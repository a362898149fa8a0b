----------------------------- MODULE MCPipeline -----------------------------
(***************************************************************************)
(* Programs for the cycle simulator's control, for TLC: small sets of      *)
(* instruction words over few registers, chosen for what they make the     *)
(* pipeline do.                                                            *)
(***************************************************************************)
EXTENDS PipelineProperties

RType(op, rs, rt, rd) == [op |-> op, rs |-> rs, rt |-> rt, rd |-> rd]
IType(op, rs, rt)     == [op |-> op, rs |-> rs, rt |-> rt, rd |-> 0]
Bare(op)              == [op |-> op, rs |-> 0, rt |-> 0, rd |-> 0]

\* Every class of the hazard tables on register 1: loads, computations into rd and into
\* rt, uses of rs, of rt and of neither, stores, branches on two registers and on one.
HazardWords ==
  {IType("LW", 1, 1), IType("LBU", 0, 1), IType("SB", 0, 1), RType("SUB", 0, 1, 1),
   RType("SLL", 1, 0, 1), IType("ORI", 0, 1), IType("BEQ", 0, 1), IType("BLEZ", 1, 0),
   RType("JR", 1, 0, 0), Bare("JAL"), Bare("HALT")}

\* The two kinds of exception, next to a load whose misses delay their detection.
ExceptionWords ==
  {Bare("ILLEGAL"), IType("ADDI", 1, 1), IType("LW", 1, 1), IType("BEQ", 1, 0), Bare("HALT")}
=============================================================================
