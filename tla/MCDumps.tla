------------------------------ MODULE MCDumps ------------------------------
(***************************************************************************)
(* Words and memory ranges for the dumps, for TLC: every opcode and every  *)
(* funct, with three different registers.                                  *)
(***************************************************************************)
EXTENDS DumpProperties

SomeShownWords ==
  {FieldsOf(opcode, 1, 2, 3, 4, 0) : opcode \in 1..63}
    \cup {FieldsOf(0, 1, 2, 3, 4, funct) : funct \in 0..63}
    \cup {ZeroBits, HaltBits, UnknownBits}

\* Ranges of whole rows, of part of a row, that end within a word, that are empty, and
\* that leave the memory.
SomeRanges == {<<0, 40>>, <<4, 36>>, <<8, 21>>, <<0, 0>>, <<12, 8>>, <<40, 80>>, <<64, 72>>}
=============================================================================
