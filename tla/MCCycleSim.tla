----------------------------- MODULE MCCycleSim -----------------------------
(***************************************************************************)
(* Programs for the whole cycle simulator, for TLC: words of eight bits as *)
(* in module MCEmulator, and caches of a few blocks of one word.           *)
(***************************************************************************)
EXTENDS CycleSim, MCWords

\* Loads and stores that depend on each other and fall into different blocks, a branch on
\* a loaded register, and both kinds of exception.  The file has the value 20 at 6, which
\* sends the store to 24; without the load it goes to the program, behind a lui it leaves
\* the memory.
SomeInstructions ==
  {IType("LW", 0, 1, 6), IType("SW", 1, 1, 4), IType("BEQ", 0, 1, 1), IType("LUI", 0, 1, 7),
   RType("ADD", 1, 1, 2, 0), Bare("ILLEGAL"), Bare("HALT")}
SomeWords == WordsOf(SomeInstructions)

SomeImages == {<< >>}
SomeFiles  == {[n \in 1..12 |-> IF n \in {8, 9} THEN 1 ELSE 0]}
SomeTags   == 0..255
=============================================================================
