------------------------------ MODULE FunctSim ------------------------------
(***************************************************************************)
(* The functional simulator (funct.cpp): runTillHalt calls runInstructions *)
(* for one instruction at a time until it has executed HALT, and the       *)
(* registers and the memory are dumped as they are then.                   *)
(***************************************************************************)
EXTENDS Emulator

\* What runInstructions(1) returned last: HALT when the instruction it executed was HALT.
functStatus == IF info.isHalt THEN "HALT" ELSE "SUCCESS"

\* runInstructions(1), which runTillHalt calls again until it returns HALT.
RunInstruction(instr) ==
  /\ functStatus = "SUCCESS"
  /\ ExecuteInstruction(instr)

FunctNext == \E instr \in Fetchable : RunInstruction(instr)

FunctSpec == EmulatorInit /\ [][FunctNext]_emulatorVars
=============================================================================
