--------------------------- MODULE DumpProperties ---------------------------
(***************************************************************************)
(* What the dumps must get right: a reader of a dump draws conclusions     *)
(* about what was executed.                                                *)
(***************************************************************************)
EXTENDS Dumps

IsaOf == INSTANCE Isa WITH Words <- {}

\* ll and sc have a mnemonic in Utilities.cpp and none in the emulator, which takes them
\* for illegal: they are excepted.
PrintedOnly == {PrintedImmediateOps.LL, PrintedImmediateOps.SC}

\* printInstr shows the mnemonic that executeInstruction executes, although each has its
\* own copy of the tables; it calls the zero word nop and marks 0xdeefdeef, which is illegal.
ExpectedMnemonic(bits) ==
  IF bits = ZeroBits THEN "NOP" ELSE IF bits = UnknownBits THEN "UNKNOWN" ELSE Executes(bits)

ShowsWhatExecutes ==
  shown.bits.opcode \notin PrintedOnly => shown.line.mnemonic = ExpectedMnemonic(shown.bits)

\* The registers shown are those the instruction reads and writes, with the destination
\* first ($ra, which jal writes, is implied by its name).
Elements(seq) == {seq[k] : k \in 1..Len(seq)}

ShowsOperands ==
  LET op   == Executes(shown.bits)
      word == [op |-> op, rs |-> shown.bits.rs, rt |-> shown.bits.rt, rd |-> shown.bits.rd]
      used == {r \in 1..31 : IsaOf!Reads(word, r)}
      dest == IF op = "JAL" THEN {} ELSE {IsaOf!Dest(word)} \ {0}
      line == shown.line
  IN  op \notin {"ILLEGAL", "HALT"} =>
        /\ Elements(line.operands) \ {0} = used \cup dest
        /\ \A r \in dest : line.operands[1] = r

-----------------------------------------------------------------------------
\* RegisterInfo overlays the array of registers, and dumpRegisterState writes it member by
\* member: every register but $zero is written once, in the order of their numbers.
EveryRegisterDumped ==
  phase = "memory" =>
    /\ Len(registersDone) = 31
    /\ \A n \in 1..31 : registersDone[n].register = n

-----------------------------------------------------------------------------
\* printMemArray counts relStart and curAddr separately: the label of a row is the address
\* of its first word.
RowsAreLabelled ==
  wordsDone # << >> =>
    LET row == (Len(wordsDone) - 1) \div EntriesPerRow
    IN  rowLabel = wordsDone[row * EntriesPerRow + 1]

\* A dump that ends without an error shows every word that begins in the range, in order,
\* and none that begins behind it.
RangeDumped ==
  /\ \A k \in 1..Len(wordsDone) : wordsDone[k] = start + 4 * (k - 1) /\ wordsDone[k] < end
  /\ phase = "done" => start + 4 * Len(wordsDone) >= end
-----------------------------------------------------------------------------
\* What the comments on the members of RegisterInfo say (RegisterInfo.h:28 and 30): "The $t
\* registers" and "The $s registers".  The register a line names is the one that bears the
\* name in the instructions shown (regNames).
LinesNameTheirRegister ==
  \A k \in 1..Len(registersDone) : registersDone[k].name = RegNames(registersDone[k].register)
=============================================================================
