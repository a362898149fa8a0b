----------------------------- MODULE MCEmulator -----------------------------
(***************************************************************************)
(* Programs for the emulator, for TLC: bytes of two bits, so words of      *)
(* eight and immediates of four, a memory of 32 bytes and the exception    *)
(* handler in its upper half, as in the code.                              *)
(***************************************************************************)
EXTENDS EmulatorProperties, MCWords

\* A nop, values at both ends of the signed range and sums that leave it, branches of each kind
\* forwards and backwards, accesses of each size inside, across and beyond the end.
SomeInstructions ==
  {IType("LUI", 0, 1, 7), IType("ADDI", 1, 2, 8), RType("ADD", 1, 1, 2, 0),
   RType("SUB", 2, 1, 3, 0), RType("NOR", 1, 2, 1, 0), RType("SLL", 0, 0, 0, 0),
   IType("BEQ", 0, 0, 1), IType("BGTZ", 1, 0, 15), RType("JR", 31, 0, 0, 0),
   IType("JAL", 0, 0, 7), IType("SW", 1, 1, 0), IType("SW", 0, 1, 12), IType("SH", 2, 1, 7),
   IType("LW", 0, 2, 13), IType("LBU", 1, 1, 6), Bare("ILLEGAL"), Bare("HALT")}

\* A difference whose destination is its second operand.
AliasedInstructions ==
  {IType("ADDI", 0, 1, 7), RType("SUB", 0, 1, 1, 0), Bare("HALT")}

SomeWords    == WordsOf(SomeInstructions)
AliasedWords == WordsOf(AliasedInstructions)

\* Words of data that overlap each other, a program of 14 bytes and the word at address 0,
\* and a program that is shorter than that word.
SomeImages ==
  {<< >>, <<[address |-> 12, value |-> 27], [address |-> 2, value |-> 177],
            [address |-> 14, value |-> 228]>>}
SomeFiles == {[n \in 1..14 |-> n % 4], <<3>>}
=============================================================================
