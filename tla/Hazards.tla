------------------------------ MODULE Hazards ------------------------------
(***************************************************************************)
(* The hazard tables of the cycle simulator (cycle.cpp): which pairs of    *)
(* decoded words in the ID, EX and MEM stages make detectHazards stall.    *)
(* Operators whose name ends in Mutant are plausible slips in a table or a *)
(* test; no specification uses them.                                       *)
(***************************************************************************)
EXTENDS Isa

\* hasArithmeticHazard's tables: the mnemonics that write rt, and those that write rd.
RtCheckOps == {"ADDI", "ADDIU", "ANDI", "LBU", "LHU", "LUI", "LW", "ORI", "SLTI", "SLTIU"}
RdCheckOpsMutant == {"ADD", "ADDU", "AND", "NOR", "OR", "SLT", "SLTU", "SLL", "SRL", "SUBU"}
RdCheckOps == {"ADD", "ADDU", "AND", "NOR", "OR", "SLT", "SLTU", "SLL", "SRL", "SUB", "SUBU"}

\* hasLoadUseHazard's tables: the mnemonics that use rt, and those that use rs.
RtUseOps == {"ADD", "ADDU", "AND", "NOR", "OR", "SLT", "SLTU", "SLL", "SRL", "SUB", "SUBU",
             "SB", "SH", "SW"}
RsUseOps == {"ADDI", "ADDIU", "ANDI", "ORI", "SLTI", "SLTIU", "LW", "SH", "SW", "LBU", "LHU",
             "SB", "ADD", "ADDU", "AND", "JR", "NOR", "OR", "SLT", "SLTU", "SUB", "SUBU"}

\* The branch b compares or tests register r.
BranchUses(b, r) ==
  \/ b.op \in CompareBranchOps /\ (b.rs = r \/ b.rt = r)
  \/ b.op \in SignBranchOps /\ b.rs = r

\* hasArithmeticHazard: the branch b in ID uses what e in EX computes.
HasArithmeticHazard(b, e) ==
  \/ e.op \in RtCheckOps /\ e.rt # 0 /\ BranchUses(b, e.rt)
  \/ e.op \in RdCheckOps /\ e.rd # 0 /\ BranchUses(b, e.rd)

\* hasLoadBranchHazard: the branch b in ID uses what the load l (in EX or in MEM) loads.
HasLoadBranchHazard(b, l) == l.rt # 0 /\ BranchUses(b, l.rt)

\* hasLoadUseHazard: u in ID uses what the load l in EX loads.
HasLoadUseHazardMutant(u, l) == l.rt # 0 /\ u.op \in RsUseOps /\ u.rs = l.rt
HasLoadUseHazard(u, l) ==
  /\ l.rt # 0
  /\ \/ u.op \in RsUseOps /\ u.rs = l.rt
     \/ u.op \in RtUseOps /\ u.rt = l.rt

\* The load-stall tests of detectHazards, per stage of the load.
LoadInEX(d, e)  == e.op \in LoadOps /\ (HasLoadUseHazard(d, e) \/ HasLoadBranchHazard(d, e))
LoadInMEMMutant(d, m) == FALSE
LoadInMEM(d, m) == m.op \in LoadOps /\ HasLoadBranchHazard(d, m)

\* detectHazards' ID_stall, from the decoded words in ID, EX and MEM.
DetectHazards(d, e, m) == LoadInEX(d, e) \/ LoadInMEM(d, m) \/ HasArithmeticHazard(d, e)
=============================================================================
