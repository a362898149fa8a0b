---------------------------- MODULE MCCycleStats ----------------------------
(***************************************************************************)
(* Programs for the statistics, for TLC: loads that a branch waits for,    *)
(* two at a time, and one of each kind of exception.                       *)
(***************************************************************************)
EXTENDS CycleStats

IType(op, rs, rt) == [op |-> op, rs |-> rs, rt |-> rt, rd |-> 0]
Bare(op)          == [op |-> op, rs |-> 0, rt |-> 0, rd |-> 0]

CountedWords ==
  {IType("LW", 0, 1), IType("LW", 1, 2), IType("SW", 0, 1), IType("ADDI", 0, 1),
   IType("BEQ", 1, 2), Bare("ILLEGAL"), Bare("HALT")}

\* Chains of loads and branches on one register: more load-stall pairs than the table
\* holds, two of them at a time where a branch follows two loads.
ChainWords == {IType("LW", 0, 1), IType("LW", 1, 1), IType("BEQ", 1, 1), Bare("HALT")}
=============================================================================
