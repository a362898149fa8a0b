------------------------------ MODULE DumpProofs ------------------------------
(***************************************************************************)
(* Proofs about the dumps: of the pipeline, for every set of words, and of *)
(* the registers and the memory, for every range, every size of the memory *)
(* and every number of words in a row.                                     *)
(***************************************************************************)
EXTENDS DumpProperties, Integers, TLAPS

-----------------------------------------------------------------------------
\* How many words the complete rows above place in the current one are.
Above(words, place) == \E rows \in Nat : words = rows * EntriesPerRow + place

\* Where a row begins that has that many words above it.
LabelOf(words) == start + 4 * words

\* The two counters of printMemArray agree: relStart counts all words done, curAddr those
\* of complete rows; a row begun has the label curAddr.
MemoryDumpInv ==
  /\ start \in Nat /\ end \in Nat /\ wordsDone \in Seq(Nat)
  /\ inRow \in 0..EntriesPerRow - 1
  /\ relStart = start + 4 * Len(wordsDone)
  /\ Above(Len(wordsDone), inRow) /\ curAddr = LabelOf(Len(wordsDone) - inRow)
  /\ inRow > 0 => rowLabel = curAddr
  /\ Len(wordsDone) > 0 =>
       \E place \in 0..EntriesPerRow - 1 :
         /\ Above(Len(wordsDone) - 1, place)
         /\ rowLabel = LabelOf(Len(wordsDone) - 1 - place)
  /\ \A k \in 1..Len(wordsDone) : wordsDone[k] = start + 4 * (k - 1) /\ wordsDone[k] < end
  /\ phase = "done" => ~(relStart < end)

LEMMA RowWidth == EntriesPerRow \in Nat /\ EntriesPerRow >= 1
BY DumpAssumption

LEMMA MemoryDumpStart == DumpInit => MemoryDumpInv
<1> SUFFICES ASSUME DumpInit PROVE MemoryDumpInv
  OBVIOUS
<1>1. start \in Nat /\ end \in Nat
  BY DumpAssumption DEF DumpInit
<1>2. wordsDone = << >> /\ Len(wordsDone) = 0 /\ inRow = 0 /\ wordsDone \in Seq(Nat)
  BY DEF DumpInit
<1>3. Above(0, 0)
  <2>1. 0 = 0 * EntriesPerRow + 0
    BY RowWidth
  <2> QED BY <2>1 DEF Above
<1>4. inRow \in 0..EntriesPerRow - 1
  BY <1>2, RowWidth
<1> QED BY <1>1, <1>2, <1>3, <1>4 DEF DumpInit, MemoryDumpInv, LabelOf

\* Another word: the row goes on, or it is full and the next one begins.
LEMMA MemoryDumpWord ==
  ASSUME MemoryDumpInv, DumpWord
  PROVE  MemoryDumpInv'
<1> DEFINE n == Len(wordsDone)
<1>1. /\ start \in Nat /\ end \in Nat /\ wordsDone \in Seq(Nat) /\ n \in Nat
      /\ inRow \in 0..EntriesPerRow - 1 /\ inRow \in Nat
      /\ relStart = start + 4 * n /\ relStart \in Nat
      /\ curAddr = LabelOf(n - inRow)
      /\ inRow > 0 => rowLabel = curAddr
  BY DEF MemoryDumpInv
<1>2. /\ start' = start /\ end' = end /\ phase' = phase /\ phase = "memory"
      /\ relStart' = relStart + 4 /\ relStart < end
      /\ wordsDone' = Append(wordsDone, relStart)
      /\ rowLabel' = IF inRow = 0 THEN curAddr ELSE rowLabel
      /\ \/ inRow + 1 < EntriesPerRow /\ inRow' = inRow + 1 /\ curAddr' = curAddr
         \/ ~(inRow + 1 < EntriesPerRow) /\ inRow' = 0 /\ curAddr' = NextRow
  BY DEF DumpWord, MoreWords
<1>3. /\ wordsDone' \in Seq(Nat) /\ Len(wordsDone') = n + 1
      /\ wordsDone'[n + 1] = relStart
      /\ \A k \in 1..n : wordsDone'[k] = wordsDone[k]
  BY <1>1, <1>2
<1>4. relStart' = start + 4 * (n + 1)
  BY <1>1, <1>2
<1>5. rowLabel' = LabelOf(n - inRow) /\ Above(n, inRow)
  <2>1. rowLabel' = curAddr
    <3>1. inRow = 0 \/ inRow > 0
      BY <1>1
    <3> QED BY <1>1, <1>2, <3>1
  <2>2. Above(n, inRow)
    BY DEF MemoryDumpInv
  <2> QED BY <1>1, <2>1, <2>2
<1>6. \A k \in 1..(n + 1) : wordsDone'[k] = start + 4 * (k - 1) /\ wordsDone'[k] < end
  <2> SUFFICES ASSUME NEW k \in 1..(n + 1)
               PROVE  wordsDone'[k] = start + 4 * (k - 1) /\ wordsDone'[k] < end
    OBVIOUS
  <2>1. CASE k \in 1..n
    BY <1>3, <2>1 DEF MemoryDumpInv
  <2>2. CASE k = n + 1
    BY <1>1, <1>2, <1>3, <2>2
  <2> QED BY <1>1, <2>1, <2>2
<1>7. /\ inRow' \in 0..EntriesPerRow - 1
      /\ Above(n + 1, inRow') /\ curAddr' = LabelOf(n + 1 - inRow')
      /\ inRow' > 0 => rowLabel' = curAddr'
  <2>1. CASE inRow + 1 < EntriesPerRow
    <3>1. inRow' = inRow + 1 /\ curAddr' = curAddr
      BY <1>2, <2>1
    <3>2. Above(n + 1, inRow + 1)
      <4>1. PICK rows \in Nat : n = rows * EntriesPerRow + inRow
        BY <1>5 DEF Above
      <4>2. n + 1 = rows * EntriesPerRow + (inRow + 1)
        BY <1>1, <4>1, RowWidth
      <4> QED BY <4>2 DEF Above
    <3>3. n + 1 - (inRow + 1) = n - inRow
      BY <1>1
    <3>4. inRow + 1 \in 0..EntriesPerRow - 1
      BY <1>1, <2>1, RowWidth
    <3> QED BY <1>1, <1>5, <3>1, <3>2, <3>3, <3>4
  <2>2. CASE ~(inRow + 1 < EntriesPerRow)
    <3>1. inRow' = 0 /\ curAddr' = NextRow /\ inRow + 1 = EntriesPerRow
      BY <1>1, <1>2, <2>2, RowWidth
    <3>2. Above(n + 1, 0)
      <4>1. PICK rows \in Nat : n = rows * EntriesPerRow + inRow
        BY <1>5 DEF Above
      <4>2. n + 1 = rows * EntriesPerRow + EntriesPerRow
        BY <1>1, <3>1, <4>1, RowWidth
      <4>3. rows * EntriesPerRow + EntriesPerRow = (rows + 1) * EntriesPerRow + 0
        BY RowWidth
      <4>4. rows + 1 \in Nat
        OBVIOUS
      <4> QED BY <4>2, <4>3, <4>4 DEF Above
    <3>3. curAddr' = LabelOf(n + 1 - 0)
      BY <1>1, <3>1, RowWidth DEF NextRow, LabelOf
    <3>4. 0 \in 0..EntriesPerRow - 1
      BY RowWidth
    <3> QED BY <3>1, <3>2, <3>3, <3>4
  <2> QED BY <2>1, <2>2
<1>8. \E place \in 0..EntriesPerRow - 1 : Above(n + 1 - 1, place)
                                          /\ rowLabel' = LabelOf(n + 1 - 1 - place)
  <2>1. n + 1 - 1 = n
    BY <1>1
  <2> QED BY <1>1, <1>5, <2>1
<1>9. Len(wordsDone') > 0 =>
        \E place \in 0..EntriesPerRow - 1 :
          /\ Above(Len(wordsDone') - 1, place)
          /\ rowLabel' = LabelOf(Len(wordsDone') - 1 - place)
  BY <1>3, <1>8
<1>10. /\ relStart' = start + 4 * Len(wordsDone')
       /\ Above(Len(wordsDone'), inRow') /\ curAddr' = LabelOf(Len(wordsDone') - inRow')
       /\ \A k \in 1..Len(wordsDone') :
            wordsDone'[k] = start + 4 * (k - 1) /\ wordsDone'[k] < end
  BY <1>3, <1>4, <1>6, <1>7
<1>11. phase' # "done"
  BY <1>2
<1> HIDE DEF n
<1> QED BY <1>1, <1>2, <1>3, <1>7, <1>9, <1>10, <1>11 DEF MemoryDumpInv, LabelOf, Above

LEMMA MemoryDumpHolds == DumpSpec => []MemoryDumpInv
<1>1. MemoryDumpInv /\ [DumpNext]_dumpVars => MemoryDumpInv'
  <2> SUFFICES ASSUME MemoryDumpInv, [DumpNext]_dumpVars PROVE MemoryDumpInv'
    OBVIOUS
  <2>1. CASE DumpWord
    BY <2>1, MemoryDumpWord
  <2>2. CASE EndMemory
    BY <2>2 DEF EndMemory, MoreWords, memoryDump, MemoryDumpInv, LabelOf, Above
  <2>3. ASSUME UNCHANGED memoryDump, phase' = "done" => phase = "done"
        PROVE  MemoryDumpInv'
    BY <2>3 DEF memoryDump, MemoryDumpInv, LabelOf, Above
  <2> QED BY <2>1, <2>2, <2>3
          DEF DumpNext, DumpInstruction, StartRegisters, DumpRegister, StartMemory, Dumped,
              dumpVars
<1> QED BY <1>1, MemoryDumpStart, PTL DEF DumpSpec

-----------------------------------------------------------------------------
LEMMA RowOf ==
  ASSUME NEW words \in Nat, NEW place \in 0..EntriesPerRow - 1, Above(words, place)
  PROVE  (words \div EntriesPerRow) * EntriesPerRow = words - place
<1>1. PICK rows \in Nat : words = rows * EntriesPerRow + place
  BY DEF Above
<1>2. words \div EntriesPerRow = rows
  BY <1>1, RowWidth
<1>3. rows * EntriesPerRow \in Nat
  BY RowWidth
<1> QED BY <1>1, <1>2, <1>3

\* The label printMemArray writes before a row is the address of the first word in it.
THEOREM RowsLabelled == DumpSpec => []RowsAreLabelled
<1>1. MemoryDumpInv => RowsAreLabelled
  <2> SUFFICES ASSUME MemoryDumpInv, wordsDone # << >>
               PROVE  rowLabel = wordsDone[((Len(wordsDone) - 1) \div EntriesPerRow)
                                             * EntriesPerRow + 1]
    BY DEF RowsAreLabelled
  <2> DEFINE n == Len(wordsDone)
  <2>1. n \in Nat /\ n > 0 /\ start \in Nat
    BY DEF MemoryDumpInv
  <2>2. PICK place \in 0..EntriesPerRow - 1 :
          Above(n - 1, place) /\ rowLabel = LabelOf(n - 1 - place)
    BY <2>1 DEF MemoryDumpInv
  <2>3. ((n - 1) \div EntriesPerRow) * EntriesPerRow = n - 1 - place
    BY <2>1, <2>2, RowOf
  <2>4. n - 1 - place >= 0
    <3>1. PICK rows \in Nat : n - 1 = rows * EntriesPerRow + place
      BY <2>2 DEF Above
    <3>2. rows * EntriesPerRow \in Nat
      BY RowWidth
    <3> QED BY <2>1, <3>1, <3>2
  <2>5. n - 1 - place + 1 \in 1..n
    BY <2>1, <2>4, RowWidth
  <2>6. \A k \in 1..n : wordsDone[k] = start + 4 * (k - 1)
    BY DEF MemoryDumpInv
  <2>7. wordsDone[n - 1 - place + 1] = start + 4 * (n - 1 - place)
    BY <2>1, <2>5, <2>6
  <2> QED BY <2>2, <2>3, <2>7 DEF LabelOf
<1> QED BY <1>1, MemoryDumpHolds, PTL

\* dumpMemoryState shows the words of the range in order, none behind its end and, unless
\* it stops with an error, all of them.
THEOREM RangeShown == DumpSpec => []RangeDumped
<1>1. MemoryDumpInv => RangeDumped
  <2> SUFFICES ASSUME MemoryDumpInv PROVE RangeDumped
    OBVIOUS
  <2>1. /\ relStart = start + 4 * Len(wordsDone) /\ relStart \in Nat /\ end \in Nat
        /\ phase = "done" => ~(relStart < end)
    BY DEF MemoryDumpInv
  <2>2. phase = "done" => start + 4 * Len(wordsDone) >= end
    BY <2>1
  <2> QED BY <2>2 DEF MemoryDumpInv, RangeDumped
<1> QED BY <1>1, MemoryDumpHolds, PTL

-----------------------------------------------------------------------------
(***************************************************************************)
(* The tables of mnemonics.                                                *)
(***************************************************************************)
\* No two mnemonics of a table bear the same number.
IsInjective(table) ==
  \A op, other \in DOMAIN table : table[op] = table[other] => op = other

LEMMA NamesAre ==
  ASSUME NEW table, IsInjective(table)
  PROVE  /\ \A op \in DOMAIN table : Named(table, table[op], "ILLEGAL") = op
         /\ \A n : n \notin NumbersOf(table) => Named(table, n, "ILLEGAL") = "ILLEGAL"
<1>1. ASSUME NEW op \in DOMAIN table
      PROVE  Named(table, table[op], "ILLEGAL") = op
  <2>1. \A other \in DOMAIN table : table[other] = table[op] <=> other = op
    BY DEF IsInjective
  <2> QED BY <2>1 DEF Named
<1>2. ASSUME NEW n, n \notin NumbersOf(table)
      PROVE  Named(table, n, "ILLEGAL") = "ILLEGAL"
  BY <1>2 DEF Named, NumbersOf
<1> QED BY <1>1, <1>2

LEMMA EmulatorOpsAre ==
  DOMAIN EmulatorOps = {"ADDI", "ADDIU", "ANDI", "BEQ", "BNE", "LBU", "LHU", "LUI", "LW", "ORI",
                        "SLTI", "SLTIU", "SB", "SH", "SW", "BLEZ", "BGTZ", "J", "JAL"}
BY DEF EmulatorOps

LEMMA PrintedOpsAre ==
  DOMAIN PrintedImmediateOps =
    {"ADDI", "ADDIU", "ANDI", "BEQ", "BNE", "LBU", "LHU", "LL", "LUI", "LW", "ORI",
     "SLTI", "SLTIU", "SB", "SC", "SH", "SW", "BLEZ", "BGTZ"}
BY DEF PrintedImmediateOps

LEMMA FunctsAre ==
  DOMAIN EmulatorFuncts = {"ADD", "ADDU", "AND", "JR", "NOR", "OR", "SLT", "SLTU", "SLL", "SRL",
                           "SUB", "SUBU"}
BY DEF EmulatorFuncts

LEMMA TablesAreInjective ==
  /\ IsInjective(EmulatorOps) /\ IsInjective(EmulatorFuncts)
  /\ IsInjective(PrintedImmediateOps) /\ IsInjective(PrintedJumpOps)
<1>1. IsInjective(EmulatorOps)
  BY EmulatorOpsAre DEF EmulatorOps, IsInjective
<1>2. IsInjective(EmulatorFuncts)
  BY FunctsAre DEF EmulatorFuncts, IsInjective
<1>3. IsInjective(PrintedImmediateOps)
  BY PrintedOpsAre DEF PrintedImmediateOps, IsInjective
<1>4. IsInjective(PrintedJumpOps)
  BY DEF PrintedJumpOps, IsInjective
<1> QED BY <1>1, <1>2, <1>3, <1>4

\* The copies of the tables give the same numbers, but for ll and sc.
LEMMA CopiesAgree ==
  /\ PrintedFuncts = EmulatorFuncts
  /\ \A op \in DOMAIN PrintedImmediateOps :
       PrintedImmediateOps[op] \notin PrintedOnly =>
         op \in DOMAIN EmulatorOps /\ EmulatorOps[op] = PrintedImmediateOps[op]
  /\ \A op \in DOMAIN PrintedJumpOps :
       op \in DOMAIN EmulatorOps /\ EmulatorOps[op] = PrintedJumpOps[op]
  /\ \A op \in DOMAIN EmulatorOps :
       \/ op \in DOMAIN PrintedImmediateOps /\ PrintedImmediateOps[op] = EmulatorOps[op]
       \/ op \in DOMAIN PrintedJumpOps /\ PrintedJumpOps[op] = EmulatorOps[op]
<1>1. PrintedFuncts = EmulatorFuncts
  BY DEF PrintedFuncts, EmulatorFuncts
<1>2. \A op \in DOMAIN PrintedImmediateOps :
        PrintedImmediateOps[op] \notin PrintedOnly =>
          op \in DOMAIN EmulatorOps /\ EmulatorOps[op] = PrintedImmediateOps[op]
  BY PrintedOpsAre, EmulatorOpsAre DEF PrintedImmediateOps, EmulatorOps, PrintedOnly
<1>3. DOMAIN PrintedJumpOps = {"J", "JAL"}
  BY DEF PrintedJumpOps
<1>4. \A op \in DOMAIN PrintedJumpOps :
        op \in DOMAIN EmulatorOps /\ EmulatorOps[op] = PrintedJumpOps[op]
  BY <1>3, EmulatorOpsAre DEF PrintedJumpOps, EmulatorOps
<1>5. \A op \in DOMAIN EmulatorOps :
        \/ op \in DOMAIN PrintedImmediateOps /\ PrintedImmediateOps[op] = EmulatorOps[op]
        \/ op \in DOMAIN PrintedJumpOps /\ PrintedJumpOps[op] = EmulatorOps[op]
  BY <1>3, EmulatorOpsAre, PrintedOpsAre DEF PrintedJumpOps, PrintedImmediateOps, EmulatorOps
<1> QED BY <1>1, <1>2, <1>4, <1>5

\* An opcode is in one table at most, and 0 is in none.
LEMMA TablesAreApart ==
  /\ 0 \notin NumbersOf(PrintedImmediateOps) /\ 0 \notin NumbersOf(PrintedJumpOps)
  /\ \A n \in NumbersOf(PrintedJumpOps) : n \notin NumbersOf(PrintedImmediateOps)
<1>1. DOMAIN PrintedJumpOps = {"J", "JAL"}
  BY DEF PrintedJumpOps
<1>2. NumbersOf(PrintedJumpOps) = {2, 3}
  BY <1>1 DEF PrintedJumpOps, NumbersOf
<1>3. \A op \in DOMAIN PrintedImmediateOps : PrintedImmediateOps[op] \notin {0, 2, 3}
  BY PrintedOpsAre DEF PrintedImmediateOps
<1> QED BY <1>2, <1>3 DEF NumbersOf

-----------------------------------------------------------------------------
(***************************************************************************)
(* printInstr, by the kinds of words.                                      *)
(***************************************************************************)
IsMarked(w) == w = HaltBits \/ w = UnknownBits

LEMMA MarkedWords ==
  /\ HaltBits.opcode = 63 /\ UnknownBits.opcode = 55 /\ ZeroBits.opcode = 0 /\ ZeroBits.funct = 0
  /\ HaltBits # UnknownBits /\ HaltBits # ZeroBits /\ UnknownBits # ZeroBits
  /\ ZeroBits.rs = 0 /\ ZeroBits.rt = 0 /\ ZeroBits.rd = 0
<1>1. /\ HaltBits.opcode = 63 /\ UnknownBits.opcode = 55 /\ ZeroBits.opcode = 0
      /\ ZeroBits.funct = 0 /\ ZeroBits.rs = 0 /\ ZeroBits.rt = 0 /\ ZeroBits.rd = 0
  BY DEF HaltBits, UnknownBits, ZeroBits, FieldsOf
<1> HIDE DEF HaltBits, UnknownBits, ZeroBits
<1>2. HaltBits # UnknownBits /\ HaltBits # ZeroBits /\ UnknownBits # ZeroBits
  BY <1>1
<1> QED BY <1>1, <1>2

\* A word whose opcode is 0.
LEMMA OpZeroWords ==
  ASSUME NEW w, w.opcode = 0
  PROVE  /\ PrintInstr(w) = OpZeroLine(w)
         /\ Executes(w) = Named(EmulatorFuncts, w.funct, "ILLEGAL")
         /\ Executes(w) = Named(PrintedFuncts, w.funct, "ILLEGAL")
         /\ \/ Executes(w) \in DOMAIN EmulatorFuncts
            \/ Executes(w) = "ILLEGAL"
         /\ w = ZeroBits => Executes(w) = "SLL"
<1>1. w # HaltBits /\ w # UnknownBits
  BY MarkedWords
<1>2. PrintInstr(w) = OpZeroLine(w)
  BY <1>1, TablesAreApart DEF PrintInstr
<1>3. Executes(w) = Named(EmulatorFuncts, w.funct, "ILLEGAL")
  BY <1>1 DEF Executes
<1>4. \A n : Named(EmulatorFuncts, n, "ILLEGAL") \in DOMAIN EmulatorFuncts
             \/ Named(EmulatorFuncts, n, "ILLEGAL") = "ILLEGAL"
  <2> SUFFICES ASSUME NEW n
               PROVE  \/ Named(EmulatorFuncts, n, "ILLEGAL") \in DOMAIN EmulatorFuncts
                      \/ Named(EmulatorFuncts, n, "ILLEGAL") = "ILLEGAL"
    OBVIOUS
  <2>1. CASE n \in NumbersOf(EmulatorFuncts)
    <3>1. PICK op \in DOMAIN EmulatorFuncts : n = EmulatorFuncts[op]
      BY <2>1 DEF NumbersOf
    <3> QED BY <3>1, NamesAre, TablesAreInjective
  <2>2. CASE n \notin NumbersOf(EmulatorFuncts)
    BY <2>2, NamesAre, TablesAreInjective
  <2> QED BY <2>1, <2>2
<1>5. ASSUME w = ZeroBits
      PROVE  Executes(w) = "SLL"
  <2>1. "SLL" \in DOMAIN EmulatorFuncts /\ EmulatorFuncts["SLL"] = 0
    BY FunctsAre DEF EmulatorFuncts
  <2>2. Named(EmulatorFuncts, 0, "ILLEGAL") = "SLL"
    BY <2>1, NamesAre, TablesAreInjective
  <2> QED BY <1>3, <1>5, <2>2, MarkedWords
<1> QED BY <1>2, <1>3, <1>4, <1>5, CopiesAgree

\* A word with an opcode of its own, that both tables know.
LEMMA ImmediateWords ==
  ASSUME NEW w, w.opcode # 0, ~IsMarked(w),
         w.opcode \in NumbersOf(PrintedImmediateOps), w.opcode \notin PrintedOnly
  PROVE  /\ PrintInstr(w) = ImmediateLine(w)
         /\ Executes(w) = Named(PrintedImmediateOps, w.opcode, "ILLEGAL")
         /\ Executes(w) \in DOMAIN PrintedImmediateOps \cap DOMAIN EmulatorOps
<1>1. PICK op \in DOMAIN PrintedImmediateOps : w.opcode = PrintedImmediateOps[op]
  BY DEF NumbersOf
<1>2. op \in DOMAIN EmulatorOps /\ EmulatorOps[op] = w.opcode
  BY <1>1, CopiesAgree
<1>3. /\ Named(PrintedImmediateOps, w.opcode, "ILLEGAL") = op
      /\ Named(EmulatorOps, w.opcode, "ILLEGAL") = op
  BY <1>1, <1>2, NamesAre, TablesAreInjective
<1>4. Executes(w) = op
  BY <1>3 DEF Executes, IsMarked
<1>5. PrintInstr(w) = ImmediateLine(w)
  BY TablesAreApart DEF PrintInstr, IsMarked
<1> QED BY <1>1, <1>2, <1>3, <1>4, <1>5

LEMMA JumpWords ==
  ASSUME NEW w, w.opcode # 0, ~IsMarked(w),
         w.opcode \notin NumbersOf(PrintedImmediateOps), w.opcode \in NumbersOf(PrintedJumpOps)
  PROVE  /\ PrintInstr(w) = Line(Executes(w), << >>)
         /\ Executes(w) \in {"J", "JAL"}
<1>1. PICK op \in DOMAIN PrintedJumpOps : w.opcode = PrintedJumpOps[op]
  BY DEF NumbersOf
<1>2. op \in DOMAIN EmulatorOps /\ EmulatorOps[op] = w.opcode /\ op \in {"J", "JAL"}
  <2>1. DOMAIN PrintedJumpOps = {"J", "JAL"}
    BY DEF PrintedJumpOps
  <2> QED BY <1>1, <2>1, CopiesAgree
<1>3. /\ Named(PrintedJumpOps, w.opcode, "ILLEGAL") = op
      /\ Named(EmulatorOps, w.opcode, "ILLEGAL") = op
  BY <1>1, <1>2, NamesAre, TablesAreInjective
<1>4. Executes(w) = op
  BY <1>3 DEF Executes, IsMarked
<1>5. PrintInstr(w) = JumpLine(w)
  BY TablesAreApart DEF PrintInstr, IsMarked
<1> QED BY <1>2, <1>3, <1>4, <1>5 DEF JumpLine

\* Words neither reading knows, and ll and sc, which only printInstr knows.
LEMMA OtherWords ==
  ASSUME NEW w, w.opcode # 0, ~IsMarked(w), w.opcode \notin NumbersOf(PrintedJumpOps),
         w.opcode \in NumbersOf(PrintedImmediateOps) => w.opcode \in PrintedOnly
  PROVE  /\ Executes(w) = "ILLEGAL"
         /\ w.opcode \notin PrintedOnly => PrintInstr(w) = Line("ILLEGAL", << >>)
<1>1. ASSUME w.opcode \in NumbersOf(EmulatorOps)
      PROVE  FALSE
  <2>1. PICK op \in DOMAIN EmulatorOps : w.opcode = EmulatorOps[op]
    BY <1>1 DEF NumbersOf
  <2>2. CASE w.opcode \in PrintedOnly
    BY <2>1, <2>2, EmulatorOpsAre DEF EmulatorOps, PrintedOnly, PrintedImmediateOps
  <2>3. CASE w.opcode \notin PrintedOnly
    BY <2>1, <2>3, CopiesAgree DEF NumbersOf
  <2> QED BY <2>2, <2>3
<1>2. Executes(w) = "ILLEGAL"
  BY <1>1, NamesAre, TablesAreInjective DEF Executes, IsMarked
<1>3. w.opcode \notin PrintedOnly => PrintInstr(w) = Line("ILLEGAL", << >>)
  BY DEF PrintInstr, IsMarked
<1> QED BY <1>2, <1>3

-----------------------------------------------------------------------------
LEMMA RightMnemonic ==
  ASSUME NEW w, w.opcode \notin PrintedOnly
  PROVE  PrintInstr(w).mnemonic = ExpectedMnemonic(w)
<1>0. \A mnemonic, operands : Line(mnemonic, operands).mnemonic = mnemonic
  BY DEF Line
<1>1. CASE w = HaltBits
  BY <1>0, <1>1, MarkedWords DEF PrintInstr, ExpectedMnemonic, Executes
<1>2. CASE w = UnknownBits
  BY <1>0, <1>2, MarkedWords DEF PrintInstr, ExpectedMnemonic
<1>3. CASE w.opcode = 0
  <2> DEFINE funct == Named(PrintedFuncts, w.funct, "ILLEGAL")
  <2>1. PrintInstr(w) = OpZeroLine(w) /\ Executes(w) = funct /\ w # UnknownBits
        /\ (w = ZeroBits => funct = "SLL")
    BY <1>3, OpZeroWords, MarkedWords
  <2>2. w # ZeroBits => OpZeroLine(w).mnemonic = funct
    BY <1>0 DEF OpZeroLine
  <2>3. w = ZeroBits => OpZeroLine(w).mnemonic = "NOP"
    <3> HIDE DEF funct
    <3>1. funct = "SLL" => funct # "JR" /\ funct \in {"SLL", "SRL"}
      OBVIOUS
    <3> QED BY <1>0, <2>1, <3>1 DEF OpZeroLine, funct
  <2> QED BY <2>1, <2>2, <2>3 DEF ExpectedMnemonic
<1>4. CASE w.opcode # 0 /\ ~IsMarked(w)
  <2>0. ExpectedMnemonic(w) = Executes(w)
    BY <1>4, MarkedWords DEF ExpectedMnemonic, IsMarked
  <2>1. CASE w.opcode \in NumbersOf(PrintedImmediateOps)
    <3>1. PrintInstr(w) = ImmediateLine(w)
          /\ Executes(w) = Named(PrintedImmediateOps, w.opcode, "ILLEGAL")
      BY <1>4, <2>1, ImmediateWords
    <3>2. ImmediateLine(w).mnemonic = Named(PrintedImmediateOps, w.opcode, "ILLEGAL")
      BY <1>0 DEF ImmediateLine
    <3> QED BY <2>0, <3>1, <3>2
  <2>2. CASE w.opcode \notin NumbersOf(PrintedImmediateOps) /\ w.opcode \in NumbersOf(PrintedJumpOps)
    BY <1>0, <1>4, <2>0, <2>2, JumpWords
  <2>3. CASE w.opcode \notin NumbersOf(PrintedImmediateOps) /\ w.opcode \notin NumbersOf(PrintedJumpOps)
    BY <1>0, <1>4, <2>0, <2>3, OtherWords
  <2> QED BY <2>1, <2>2, <2>3
<1> QED BY <1>1, <1>2, <1>3, <1>4 DEF IsMarked

\* What ShowsOperands says of a word and a line.
ShowsOperandsOf(bits, line) ==
  LET op   == Executes(bits)
      word == [op |-> op, rs |-> bits.rs, rt |-> bits.rt, rd |-> bits.rd]
      used == {r \in 1..31 : IsaOf!Reads(word, r)}
      dest == IF op = "JAL" THEN {} ELSE {IsaOf!Dest(word)} \ {0}
  IN  op \notin {"ILLEGAL", "HALT"} =>
        /\ Elements(line.operands) \ {0} = used \cup dest
        /\ \A r \in dest : line.operands[1] = r

LEMMA ElementsAre ==
  /\ Elements(<< >>) = {}
  /\ \A a : Elements(<<a>>) = {a}
  /\ \A a, b : Elements(<<a, b>>) = {a, b}
  /\ \A a, b, c : Elements(<<a, b, c>>) = {a, b, c}
<1>1. Elements(<< >>) = {}
  BY DEF Elements
<1>2. ASSUME NEW a PROVE Elements(<<a>>) = {a}
  <2>1. 1..Len(<<a>>) = {1} /\ <<a>>[1] = a
    OBVIOUS
  <2> QED BY <2>1 DEF Elements
<1>3. ASSUME NEW a, NEW b PROVE Elements(<<a, b>>) = {a, b}
  <2>1. 1..Len(<<a, b>>) = {1, 2} /\ <<a, b>>[1] = a /\ <<a, b>>[2] = b
    OBVIOUS
  <2> QED BY <2>1 DEF Elements
<1>4. ASSUME NEW a, NEW b, NEW c PROVE Elements(<<a, b, c>>) = {a, b, c}
  <2>1. /\ 1..Len(<<a, b, c>>) = {1, 2, 3}
        /\ <<a, b, c>>[1] = a /\ <<a, b, c>>[2] = b /\ <<a, b, c>>[3] = c
    OBVIOUS
  <2> QED BY <2>1 DEF Elements
<1> QED BY <1>1, <1>2, <1>3, <1>4

\* The operands of each kind of instruction: those it reads, behind the one it writes.
LEMMA UsedRegisters ==
  ASSUME NEW word, word.rs \in 0..31, word.rt \in 0..31, word.rd \in 0..31
  PROVE  LET used == {r \in 1..31 : IsaOf!Reads(word, r)}
         IN  /\ word.op = "JR" => used = {word.rs} \ {0} /\ IsaOf!Dest(word) = 0
             /\ word.op \in {"SLL", "SRL"} => used = {word.rt} \ {0} /\ IsaOf!Dest(word) = word.rd
             /\ word.op \in DOMAIN EmulatorFuncts \ {"JR", "SLL", "SRL"} =>
                  used = {word.rs, word.rt} \ {0} /\ IsaOf!Dest(word) = word.rd
             /\ word.op \in {"BEQ", "BNE"} =>
                  used = {word.rs, word.rt} \ {0} /\ IsaOf!Dest(word) = 0
             /\ word.op = "LUI" => used = {} /\ IsaOf!Dest(word) = word.rt
             /\ word.op \in {"BLEZ", "BGTZ"} => used = {word.rs} \ {0} /\ IsaOf!Dest(word) = 0
             /\ word.op \in {"SB", "SH", "SW"} =>
                  used = {word.rs, word.rt} \ {0} /\ IsaOf!Dest(word) = 0
             /\ word.op \in {"ADDI", "ADDIU", "ANDI", "ORI", "SLTI", "SLTIU", "LBU", "LHU", "LW"} =>
                  used = {word.rs} \ {0} /\ IsaOf!Dest(word) = word.rt
             /\ word.op \in {"J", "JAL"} => used = {}
             /\ word.op = "J" => IsaOf!Dest(word) = 0
<1> DEFINE used == {r \in 1..31 : IsaOf!Reads(word, r)}
<1> USE DEF IsaOf!Dest, IsaOf!ShiftOps, IsaOf!RegisterOps, IsaOf!ImmediateOps, IsaOf!LoadOps,
            IsaOf!StoreOps, IsaOf!MemOps, IsaOf!CompareBranchOps, IsaOf!SignBranchOps,
            IsaOf!BranchOps
<1>1. /\ word.op = "JR" => IsaOf!Dest(word) = 0
      /\ word.op \in {"SLL", "SRL"} => IsaOf!Dest(word) = word.rd
      /\ word.op \in DOMAIN EmulatorFuncts \ {"JR", "SLL", "SRL"} => IsaOf!Dest(word) = word.rd
      /\ word.op \in {"BEQ", "BNE", "BLEZ", "BGTZ", "SB", "SH", "SW", "J"} => IsaOf!Dest(word) = 0
      /\ word.op \in {"LUI", "ADDI", "ADDIU", "ANDI", "ORI", "SLTI", "SLTIU", "LBU", "LHU", "LW"} =>
           IsaOf!Dest(word) = word.rt
  BY FunctsAre
<1>2. /\ word.op \in {"JR", "BLEZ", "BGTZ", "ADDI", "ADDIU", "ANDI", "ORI", "SLTI", "SLTIU",
                      "LBU", "LHU", "LW"} => IsaOf!ReadsRs(word) /\ ~IsaOf!ReadsRt(word)
      /\ word.op \in {"SLL", "SRL"} => ~IsaOf!ReadsRs(word) /\ IsaOf!ReadsRt(word)
      /\ word.op \in (DOMAIN EmulatorFuncts \ {"JR", "SLL", "SRL"})
                       \cup {"BEQ", "BNE", "SB", "SH", "SW"} =>
           IsaOf!ReadsRs(word) /\ IsaOf!ReadsRt(word)
      /\ word.op \in {"LUI", "J", "JAL"} => ~IsaOf!ReadsRs(word) /\ ~IsaOf!ReadsRt(word)
  BY FunctsAre DEF IsaOf!ReadsRs, IsaOf!ReadsRt
<1>3. /\ IsaOf!ReadsRs(word) /\ ~IsaOf!ReadsRt(word) => used = {word.rs} \ {0}
      /\ ~IsaOf!ReadsRs(word) /\ IsaOf!ReadsRt(word) => used = {word.rt} \ {0}
      /\ IsaOf!ReadsRs(word) /\ IsaOf!ReadsRt(word) => used = {word.rs, word.rt} \ {0}
      /\ ~IsaOf!ReadsRs(word) /\ ~IsaOf!ReadsRt(word) => used = {}
  BY DEF IsaOf!Reads
<1> HIDE DEF used
<1>4. /\ word.op = "JR" => used = {word.rs} \ {0}
      /\ word.op \in {"SLL", "SRL"} => used = {word.rt} \ {0}
      /\ word.op \in DOMAIN EmulatorFuncts \ {"JR", "SLL", "SRL"} => used = {word.rs, word.rt} \ {0}
      /\ word.op \in {"BEQ", "BNE", "SB", "SH", "SW"} => used = {word.rs, word.rt} \ {0}
      /\ word.op = "LUI" => used = {}
      /\ word.op \in {"BLEZ", "BGTZ"} => used = {word.rs} \ {0}
      /\ word.op \in {"ADDI", "ADDIU", "ANDI", "ORI", "SLTI", "SLTIU", "LBU", "LHU", "LW"} =>
           used = {word.rs} \ {0}
      /\ word.op \in {"J", "JAL"} => used = {}
  BY <1>2, <1>3
<1> QED BY <1>1, <1>4 DEF used

LEMMA RightOperands ==
  ASSUME NEW w \in Bits
  PROVE  ShowsOperandsOf(w, PrintInstr(w))
<1> DEFINE op   == Executes(w)
           word == [op |-> op, rs |-> w.rs, rt |-> w.rt, rd |-> w.rd]
           used == {r \in 1..31 : IsaOf!Reads(word, r)}
           dest == IF op = "JAL" THEN {} ELSE {IsaOf!Dest(word)} \ {0}
           line == PrintInstr(w)
           Shown(operands) == /\ Elements(operands) \ {0} = used \cup dest
                              /\ \A r \in dest : operands[1] = r
<1> SUFFICES ASSUME op \notin {"ILLEGAL", "HALT"} PROVE Shown(line.operands)
  BY DEF ShowsOperandsOf
<1>1. /\ word.op = op /\ word.rs = w.rs /\ word.rt = w.rt /\ word.rd = w.rd
      /\ w.rs \in 0..31 /\ w.rt \in 0..31 /\ w.rd \in 0..31
  BY DEF Bits
<1>2. /\ op = "JR" => used = {w.rs} \ {0} /\ dest = {}
      /\ op \in {"SLL", "SRL"} => used = {w.rt} \ {0} /\ dest = {w.rd} \ {0}
      /\ op \in DOMAIN EmulatorFuncts \ {"JR", "SLL", "SRL"} =>
           used = {w.rs, w.rt} \ {0} /\ dest = {w.rd} \ {0}
      /\ op \in {"BEQ", "BNE"} => used = {w.rs, w.rt} \ {0} /\ dest = {}
      /\ op = "LUI" => used = {} /\ dest = {w.rt} \ {0}
      /\ op \in {"BLEZ", "BGTZ"} => used = {w.rs} \ {0} /\ dest = {}
      /\ op \in {"SB", "SH", "SW"} => used = {w.rs, w.rt} \ {0} /\ dest = {}
      /\ op \in {"ADDI", "ADDIU", "ANDI", "ORI", "SLTI", "SLTIU", "LBU", "LHU", "LW"} =>
           used = {w.rs} \ {0} /\ dest = {w.rt} \ {0}
      /\ op \in {"J", "JAL"} => used = {} /\ dest = {}
  <2>1. op \in DOMAIN EmulatorFuncts => op # "JAL"
    BY FunctsAre
  <2> HIDE DEF word, op
  <2> QED BY <1>1, <2>1, UsedRegisters
<1> HIDE DEF used, dest, word, op, line
<1>3. \A mnemonic, operands : Line(mnemonic, operands).operands = operands
  BY DEF Line
<1>4. ASSUME NEW operands, line.operands = operands,
             Elements(operands) \ {0} = used \cup dest, \A r \in dest : operands[1] = r
      PROVE  Shown(line.operands)
  BY <1>4
<1> HIDE DEF Shown
<1>5. CASE w.opcode = 0
  <2>1. line = OpZeroLine(w) /\ op = Named(PrintedFuncts, w.funct, "ILLEGAL")
        /\ op \in DOMAIN EmulatorFuncts /\ (w = ZeroBits => op = "SLL")
    BY <1>5, OpZeroWords DEF op, line
  <2>2. CASE op = "JR"
    <3>1. line = Line(op, <<w.rs>>)
      BY <2>1, <2>2 DEF OpZeroLine
    <3>2. line.operands = <<w.rs>>
      BY <1>3, <3>1
    <3>3. Elements(<<w.rs>>) = {w.rs} /\ <<w.rs>>[1] = w.rs
      BY ElementsAre
    <3>4. Elements(<<w.rs>>) \ {0} = used \cup dest /\ \A r \in dest : <<w.rs>>[1] = r
      BY <1>2, <2>2, <3>3
    <3> QED BY <1>4, <3>2, <3>4
  <2>3. CASE op \in {"SLL", "SRL"} /\ w = ZeroBits
    <3>1. line = Line("NOP", << >>)
      BY <2>1, <2>3 DEF OpZeroLine
    <3>2. used = {} /\ dest = {}
      BY <1>2, <2>3, MarkedWords
    <3>3. line.operands = << >>
      BY <1>3, <3>1
    <3>4. Elements(<< >>) = {}
      BY ElementsAre
    <3>5. Elements(<< >>) \ {0} = used \cup dest /\ \A r \in dest : << >>[1] = r
      BY <3>2, <3>4
    <3> QED BY <1>4, <3>3, <3>5
  <2>4. CASE op \in {"SLL", "SRL"} /\ w # ZeroBits
    <3>1. line = Line(op, <<w.rd, w.rt>>)
      BY <2>1, <2>4 DEF OpZeroLine
    <3>2. line.operands = <<w.rd, w.rt>>
      BY <1>3, <3>1
    <3>3. Elements(<<w.rd, w.rt>>) = {w.rd, w.rt} /\ <<w.rd, w.rt>>[1] = w.rd
      BY ElementsAre
    <3>4. Elements(<<w.rd, w.rt>>) \ {0} = used \cup dest /\ \A r \in dest : <<w.rd, w.rt>>[1] = r
      BY <1>2, <2>4, <3>3
    <3> QED BY <1>4, <3>2, <3>4
  <2>5. CASE op \notin {"JR", "SLL", "SRL"}
    <3>1. line = Line(op, <<w.rd, w.rs, w.rt>>)
      BY <2>1, <2>5 DEF OpZeroLine
    <3>2. line.operands = <<w.rd, w.rs, w.rt>>
      BY <1>3, <3>1
    <3>3. Elements(<<w.rd, w.rs, w.rt>>) = {w.rd, w.rs, w.rt} /\ <<w.rd, w.rs, w.rt>>[1] = w.rd
      BY ElementsAre
    <3>4. Elements(<<w.rd, w.rs, w.rt>>) \ {0} = used \cup dest /\ \A r \in dest : <<w.rd, w.rs, w.rt>>[1] = r
      BY <1>2, <2>1, <2>5, <3>3
    <3> QED BY <1>4, <3>2, <3>4
  <2> QED BY <2>2, <2>3, <2>4, <2>5
<1>6. CASE w.opcode # 0 /\ ~IsMarked(w) /\ w.opcode \in NumbersOf(PrintedImmediateOps)
  <2>1. w.opcode \notin PrintedOnly
    BY <1>6, OtherWords, TablesAreApart DEF op
  <2>2. line = ImmediateLine(w) /\ op = Named(PrintedImmediateOps, w.opcode, "ILLEGAL")
        /\ op \in DOMAIN PrintedImmediateOps /\ op \in DOMAIN EmulatorOps
    BY <1>6, <2>1, ImmediateWords DEF op, line
  <2>3. CASE op \in {"BEQ", "BNE"}
    <3>1. line = Line(op, <<w.rs, w.rt>>)
      BY <2>2, <2>3 DEF ImmediateLine
    <3>2. line.operands = <<w.rs, w.rt>>
      BY <1>3, <3>1
    <3>3. Elements(<<w.rs, w.rt>>) = {w.rs, w.rt} /\ <<w.rs, w.rt>>[1] = w.rs
      BY ElementsAre
    <3>4. Elements(<<w.rs, w.rt>>) \ {0} = used \cup dest /\ \A r \in dest : <<w.rs, w.rt>>[1] = r
      BY <1>2, <2>3, <3>3
    <3> QED BY <1>4, <3>2, <3>4
  <2>4. CASE op = "LUI"
    <3>1. line = Line(op, <<w.rt>>)
      BY <2>2, <2>4 DEF ImmediateLine
    <3>2. line.operands = <<w.rt>>
      BY <1>3, <3>1
    <3>3. Elements(<<w.rt>>) = {w.rt} /\ <<w.rt>>[1] = w.rt
      BY ElementsAre
    <3>4. Elements(<<w.rt>>) \ {0} = used \cup dest /\ \A r \in dest : <<w.rt>>[1] = r
      BY <1>2, <2>4, <3>3
    <3> QED BY <1>4, <3>2, <3>4
  <2>5. CASE op \in {"BLEZ", "BGTZ"}
    <3>1. line = Line(op, <<w.rs>>)
      BY <2>2, <2>5 DEF ImmediateLine
    <3>2. line.operands = <<w.rs>>
      BY <1>3, <3>1
    <3>3. Elements(<<w.rs>>) = {w.rs} /\ <<w.rs>>[1] = w.rs
      BY ElementsAre
    <3>4. Elements(<<w.rs>>) \ {0} = used \cup dest /\ \A r \in dest : <<w.rs>>[1] = r
      BY <1>2, <2>5, <3>3
    <3> QED BY <1>4, <3>2, <3>4
  <2>6. CASE op \notin {"BEQ", "BNE", "LUI", "BLEZ", "BGTZ"}
    <3>1. line = Line(op, <<w.rt, w.rs>>)
      BY <2>2, <2>6 DEF ImmediateLine
    <3>2. \/ op \in {"SB", "SH", "SW"}
          \/ op \in {"ADDI", "ADDIU", "ANDI", "ORI", "SLTI", "SLTIU", "LBU", "LHU", "LW"}
      BY <2>2, <2>6, PrintedOpsAre, EmulatorOpsAre
    <3>3. line.operands = <<w.rt, w.rs>>
      BY <1>3, <3>1
    <3>4. Elements(<<w.rt, w.rs>>) = {w.rt, w.rs} /\ <<w.rt, w.rs>>[1] = w.rt
      BY ElementsAre
    <3>5. Elements(<<w.rt, w.rs>>) \ {0} = used \cup dest /\ \A r \in dest : <<w.rt, w.rs>>[1] = r
      BY <1>2, <3>2, <3>4
    <3> QED BY <1>4, <3>3, <3>5
  <2> QED BY <2>3, <2>4, <2>5, <2>6
<1>7. CASE w.opcode # 0 /\ ~IsMarked(w) /\ w.opcode \notin NumbersOf(PrintedImmediateOps)
  <2>1. w.opcode \in NumbersOf(PrintedJumpOps)
    BY <1>7, OtherWords DEF op
  <2>2. line = Line(op, << >>) /\ op \in {"J", "JAL"}
    BY <1>7, <2>1, JumpWords DEF op, line
  <2>3. line.operands = << >> /\ Elements(<< >>) = {} /\ used = {} /\ dest = {}
    BY <1>2, <1>3, <2>2, ElementsAre
  <2> QED BY <1>4, <2>3
<1>8. CASE IsMarked(w)
  <2>1. HaltBits # w /\ w.opcode = 55
    BY <1>8, MarkedWords DEF IsMarked, op, Executes
  <2>2. 55 \notin NumbersOf(EmulatorOps)
    BY EmulatorOpsAre DEF EmulatorOps, NumbersOf
  <2>3. op = "ILLEGAL"
    BY <2>1, <2>2, NamesAre, TablesAreInjective DEF op, Executes
  <2> QED BY <2>3
<1> QED BY <1>5, <1>6, <1>7, <1>8

-----------------------------------------------------------------------------
\* What is shown is what printInstr makes of a word.
ShownInv == shown.bits \in Bits /\ shown.line = PrintInstr(shown.bits)

LEMMA ShownHolds == DumpSpec => []ShownInv
<1>1. ASSUME NEW w \in Bits, NEW s, s = [bits |-> w, line |-> PrintInstr(w)]
      PROVE  s.bits \in Bits /\ s.line = PrintInstr(s.bits)
  BY <1>1
<1>2. ZeroBits \in Bits
  BY DEF ZeroBits, FieldsOf, Bits
<1>3. DumpInit => ShownInv
  BY <1>1, <1>2 DEF DumpInit, ShownInv, Nothing
<1>4. ShownInv /\ [DumpNext]_dumpVars => ShownInv'
  <2> SUFFICES ASSUME ShownInv, [DumpNext]_dumpVars PROVE ShownInv'
    OBVIOUS
  <2>1. ASSUME NEW w \in ShownWords, DumpInstruction(w) PROVE ShownInv'
    <3>1. shown' = [bits |-> w, line |-> PrintInstr(w)] /\ w \in Bits
      BY <2>1, DumpAssumption DEF DumpInstruction
    <3> QED BY <1>1, <3>1 DEF ShownInv
  <2>2. CASE StartRegisters
    BY <1>1, <1>2, <2>2 DEF StartRegisters, ShownInv, Nothing
  <2>3. CASE UNCHANGED shown
    BY <2>3 DEF ShownInv
  <2> QED BY <2>1, <2>2, <2>3
          DEF DumpNext, DumpRegister, StartMemory, DumpWord, EndMemory, Dumped, dumpVars
<1> QED BY <1>3, <1>4, PTL DEF DumpSpec

\* printInstr shows the mnemonic that executeInstruction executes, for every word but ll and
\* sc, which the emulator does not have.
THEOREM MnemonicsShown == DumpSpec => []ShowsWhatExecutes
<1>1. ShownInv => ShowsWhatExecutes
  BY RightMnemonic DEF ShownInv, ShowsWhatExecutes
<1> QED BY <1>1, ShownHolds, PTL

\* printInstr shows the registers an instruction reads, behind the one it writes.
THEOREM OperandsShown == DumpSpec => []ShowsOperands
<1>1. ShownInv => ShowsOperands
  <2>1. ShowsOperands <=> ShowsOperandsOf(shown.bits, shown.line)
    BY DEF ShowsOperands, ShowsOperandsOf
  <2> QED BY <2>1, RightOperands DEF ShownInv
<1> QED BY <1>1, ShownHolds, PTL
-----------------------------------------------------------------------------
\* The number of a member's first register, and of the one after the last.
First == <<0, 1, 2, 4, 8, 18, 26, 28, 29, 30, 31, 32>>

LEMMA MembersAre ==
  /\ Len(Members) = 11
  /\ \A m \in 1..11 : First[m] \in Nat /\ First[m] + LoopBound(m) = First[m + 1]
  /\ \A m \in 1..10 : First[m] + Members[m][2] = First[m + 1]
  /\ \A m \in 1..11 : LoopBound(m) \in Nat /\ LoopBound(m) >= 1
  /\ First[1] = 0 /\ First[2] = 1 /\ First[12] = 32
<1>1. \A m \in 1..11 : m = 1 \/ m = 2 \/ m = 3 \/ m = 4 \/ m = 5 \/ m = 6
                         \/ m = 7 \/ m = 8 \/ m = 9 \/ m = 10 \/ m = 11
  OBVIOUS
<1>2. /\ First[1] = 0 /\ First[2] = 1 /\ First[3] = 2 /\ First[4] = 4
      /\ First[5] = 8 /\ First[6] = 18 /\ First[7] = 26 /\ First[8] = 28
      /\ First[9] = 29 /\ First[10] = 30 /\ First[11] = 31 /\ First[12] = 32
  BY DEF First
<1>3. /\ Members[1] = <<"zero", 1>> /\ Members[2] = <<"at", 1>> /\ Members[3] = <<"v", 2>>
      /\ Members[4] = <<"a", 4>> /\ Members[5] = <<"t", 10>> /\ Members[6] = <<"s", 8>>
      /\ Members[7] = <<"k", 2>> /\ Members[8] = <<"gp", 1>> /\ Members[9] = <<"sp", 1>>
      /\ Members[10] = <<"fp", 1>> /\ Members[11] = <<"ra", 1>> /\ Len(Members) = 11
  BY DEF Members
<1>4. /\ LoopBound(1) = 1 /\ LoopBound(2) = 1 /\ LoopBound(3) = 2 /\ LoopBound(4) = 4
      /\ LoopBound(5) = 10 /\ LoopBound(6) = 8 /\ LoopBound(7) = 2 /\ LoopBound(8) = 1
      /\ LoopBound(9) = 1 /\ LoopBound(10) = 1 /\ LoopBound(11) = 1
  BY <1>3 DEF LoopBound
<1>5. \A m \in 1..11 : First[m] \in Nat /\ First[m] + LoopBound(m) = First[m + 1]
  BY <1>1, <1>2, <1>4
<1>6. \A m \in 1..10 : First[m] + Members[m][2] = First[m + 1]
  BY <1>1, <1>2, <1>3
<1>7. \A m \in 1..11 : LoopBound(m) \in Nat /\ LoopBound(m) >= 1
  BY <1>1, <1>4
<1> QED BY <1>2, <1>3, <1>5, <1>6, <1>7

\* The layout of the struct: a member begins where the loops over those before it have ended.
LEMMA OffsetsAre == \A m \in 1..11 : Offset[m] = First[m]
<1> DEFINE layout == [m \in 1..11 |-> First[m]]
           Step(at) == [m \in 1..Len(Members) |->
                          IF m = 1 THEN 0 ELSE at[m - 1] + Members[m - 1][2]]
<1>1. Offset = CHOOSE at : at = Step(at)
  BY DEF Offset
<1>2. layout = Step(layout)
  <2>1. \A m \in 2..11 : layout[m] = layout[m - 1] + Members[m - 1][2]
    <3> SUFFICES ASSUME NEW m \in 2..11 PROVE layout[m] = layout[m - 1] + Members[m - 1][2]
      OBVIOUS
    <3>1. m - 1 \in 1..10 /\ m - 1 + 1 = m
      OBVIOUS
    <3> QED BY <3>1, MembersAre
  <2>2. layout[1] = 0
    BY MembersAre
  <2> HIDE DEF layout
  <2>3. Step(layout) = [m \in 1..11 |-> layout[m]]
    <3>1. \A m \in 1..11 : m = 1 \/ m \in 2..11
      OBVIOUS
    <3> QED BY <2>1, <2>2, <3>1, MembersAre
  <2> QED BY <2>3 DEF layout
<1> HIDE DEF Step
<1>3. Offset = Step(Offset)
  BY <1>1, <1>2
<1>4. /\ Offset[1] = 0
      /\ \A m \in 2..11 : Offset[m] = Offset[m - 1] + Members[m - 1][2]
  BY <1>3, MembersAre DEF Step
<1>5. \A m \in 1..10 : Offset[m] = First[m] => Offset[m + 1] = First[m + 1]
  <2> SUFFICES ASSUME NEW m \in 1..10, Offset[m] = First[m] PROVE Offset[m + 1] = First[m + 1]
    OBVIOUS
  <2>1. m + 1 \in 2..11 /\ m + 1 - 1 = m
    OBVIOUS
  <2>2. Offset[m + 1] = Offset[m] + Members[m][2]
    BY <1>4, <2>1
  <2> QED BY <2>2, MembersAre
<1>6. Offset[1] = First[1]
  BY <1>4, MembersAre
<1>7. /\ Offset[2] = First[2] /\ Offset[3] = First[3] /\ Offset[4] = First[4]
      /\ Offset[5] = First[5] /\ Offset[6] = First[6] /\ Offset[7] = First[7]
      /\ Offset[8] = First[8] /\ Offset[9] = First[9] /\ Offset[10] = First[10]
      /\ Offset[11] = First[11]
  BY <1>5, <1>6
<1> QED BY <1>6, <1>7

\* What dumpRegisterState writes of an element.
Entries == [name : {Members[m][1] : m \in 1..11} \X Nat, register : Nat]

\* The registers written are those below the number of the next element, without $zero.
RegisterDumpInv ==
  /\ phase \in {"pipeline", "registers", "memory", "done", "error"}
  /\ member \in 2..12 /\ element \in Nat
  /\ IF member = 12 THEN element = 0 ELSE element < LoopBound(member)
  /\ registersDone \in Seq(Entries)
  /\ Len(registersDone) = First[member] + element - 1
  /\ \A n \in 1..Len(registersDone) : registersDone[n].register = n
  /\ phase = "memory" => member = 12

LEMMA RegisterDumpStart == DumpInit => RegisterDumpInv
<1>1. First[2] = 1 /\ LoopBound(2) >= 1 /\ LoopBound(2) \in Nat
  BY MembersAre
<1> QED BY <1>1 DEF DumpInit, RegisterDumpInv

\* One more register: the next element of the member, or the first of the next one.
LEMMA RegisterDumpStep ==
  ASSUME RegisterDumpInv, DumpRegister
  PROVE  RegisterDumpInv'
<1> DEFINE n == Len(registersDone)
           register == Offset[member] + element
           entry == [name |-> <<Members[member][1], element>>, register |-> register]
<1>1. /\ phase = "registers" /\ phase' = phase
      /\ member <= 11
      /\ registersDone' = Append(registersDone, entry)
      /\ \/ element + 1 < LoopBound(member) /\ member' = member /\ element' = element + 1
         \/ ~(element + 1 < LoopBound(member)) /\ member' = member + 1 /\ element' = 0
  BY MembersAre DEF DumpRegister
<1>2. /\ member \in 1..11 /\ member \in 2..12 /\ element \in Nat /\ element < LoopBound(member)
      /\ registersDone \in Seq(Entries)
      /\ n = First[member] + element - 1 /\ n \in Nat
      /\ \A k \in 1..n : registersDone[k].register = k
  BY <1>1 DEF RegisterDumpInv
<1>3. /\ First[member] \in Nat /\ First[member] + LoopBound(member) = First[member + 1]
      /\ LoopBound(member) \in Nat /\ Offset[member] = First[member]
  BY <1>2, MembersAre, OffsetsAre
<1>4. register = n + 1
  BY <1>2, <1>3
<1>5. entry \in Entries /\ entry.register = n + 1
  <2> HIDE DEF register
  <2> QED BY <1>2, <1>4 DEF Entries
<1> HIDE DEF entry
<1>6. /\ registersDone' \in Seq(Entries)
      /\ Len(registersDone') = n + 1
      /\ registersDone'[n + 1] = entry
      /\ \A k \in 1..n : registersDone'[k] = registersDone[k]
  BY <1>1, <1>2, <1>5
<1>7. \A k \in 1..Len(registersDone') : registersDone'[k].register = k
  <2> SUFFICES ASSUME NEW k \in 1..(n + 1) PROVE registersDone'[k].register = k
    BY <1>6
  <2>1. k \in 1..n \/ k = n + 1
    BY <1>2
  <2> QED BY <1>2, <1>5, <1>6, <2>1
<1> HIDE DEF n
<1>8. CASE element + 1 < LoopBound(member)
  <2>1. member' = member /\ element' = element + 1
    BY <1>1, <1>8
  <2>2. member' # 12 /\ element' \in Nat /\ element' < LoopBound(member')
    BY <1>1, <1>2, <1>8, <2>1
  <2>3. n + 1 = First[member'] + element' - 1
    BY <1>2, <1>3, <2>1
  <2> QED BY <1>1, <1>2, <1>6, <1>7, <2>1, <2>2, <2>3 DEF RegisterDumpInv
<1>9. CASE ~(element + 1 < LoopBound(member))
  <2>1. member' = member + 1 /\ element' = 0 /\ element + 1 = LoopBound(member)
    BY <1>1, <1>2, <1>3, <1>9
  <2>2. member' \in 2..12 /\ (member' # 12 => element' < LoopBound(member'))
    <3>1. member + 1 \in 2..12 /\ (member + 1 # 12 => member + 1 \in 1..11)
      BY <1>2
    <3>2. \A m \in 1..11 : LoopBound(m) \in Nat /\ LoopBound(m) >= 1
      BY MembersAre
    <3>3. member + 1 # 12 => 0 < LoopBound(member + 1)
      BY <3>1, <3>2
    <3> QED BY <2>1, <3>1, <3>3
  <2>3. n + 1 = First[member'] + element' - 1
    BY <1>2, <1>3, <2>1
  <2> QED BY <1>1, <1>6, <1>7, <2>1, <2>2, <2>3 DEF RegisterDumpInv
<1> QED BY <1>8, <1>9

LEMMA RegisterDumpHolds == DumpSpec => []RegisterDumpInv
<1>1. RegisterDumpInv /\ [DumpNext]_dumpVars => RegisterDumpInv'
  <2> SUFFICES ASSUME RegisterDumpInv, [DumpNext]_dumpVars PROVE RegisterDumpInv'
    OBVIOUS
  <2>1. CASE DumpRegister
    BY <2>1, RegisterDumpStep
  <2>2. CASE StartMemory
    <3>1. member \in 2..12 /\ member > 11 => member = 12
      OBVIOUS
    <3> QED BY <2>2, <3>1, MembersAre DEF StartMemory, RegisterDumpInv
  <2>3. ASSUME UNCHANGED <<member, element, registersDone>>,
               phase' \in {phase, "registers", "done", "error"}
        PROVE  RegisterDumpInv'
    BY <2>3 DEF RegisterDumpInv
  <2> QED BY <2>1, <2>2, <2>3
          DEF DumpNext, DumpInstruction, StartRegisters, DumpWord, EndMemory, Dumped, dumpVars
<1> QED BY <1>1, RegisterDumpStart, PTL DEF DumpSpec

\* dumpRegisterState writes every register but $zero once, in the order of their numbers: its
\* loops over the members of the struct cover the array the struct overlays.
THEOREM RegistersShown == DumpSpec => []EveryRegisterDumped
<1>1. RegisterDumpInv => EveryRegisterDumped
  <2>1. First[12] = 32
    BY MembersAre
  <2> SUFFICES ASSUME RegisterDumpInv, phase = "memory"
               PROVE  Len(registersDone) = 31 /\ \A n \in 1..31 : registersDone[n].register = n
    BY DEF EveryRegisterDumped
  <2>2. member = 12 /\ element = 0
    BY DEF RegisterDumpInv
  <2>3. Len(registersDone) = 31
    BY <2>1, <2>2 DEF RegisterDumpInv
  <2> QED BY <2>3 DEF RegisterDumpInv
<1> QED BY <1>1, RegisterDumpHolds, PTL
=============================================================================
