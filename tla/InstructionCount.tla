--------------------------- MODULE InstructionCount ---------------------------
(***************************************************************************)
(* Emulator::din, which numbers the instructions executed: the emulator    *)
(* counts it (module Emulator), and the control of the cycle simulator     *)
(* follows it (module Pipeline).                                           *)
(***************************************************************************)
EXTENDS Isa

CONSTANT MaxDin   \* bound: at most this many instructions are executed

VARIABLE din
=============================================================================
