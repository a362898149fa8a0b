------------------------------- MODULE Dumps -------------------------------
(***************************************************************************)
(* What a run writes to its dump files, in this order: the words of the    *)
(* pipeline while it runs (dumpPipeState), then the registers              *)
(* (dumpRegisterState) and a range of the memory (dumpMemoryState and      *)
(* printMemArray).  One step writes one instruction, one register or one   *)
(* word of memory.                                                         *)
(***************************************************************************)
EXTENDS Disassembly

CONSTANTS
  ShownWords,      \* the words a stage may hold
  Ranges,          \* contents of print_mem_range
  MemorySize,      \* MEMORY_SIZE
  EntriesPerRow    \* 5

ASSUME DumpAssumption ==
  /\ ShownWords \subseteq Bits
  /\ Ranges \subseteq (Nat \X Nat)
  /\ MemorySize \in Nat /\ EntriesPerRow \in Nat \ {0}

VARIABLES
  phase,              \* the file being written
  shown,              \* the word of a stage printed last, and how it was printed
  member, element,    \* the member of RegisterInfo to write next, and its element
  start, end,         \* the range of the memory, which ends before end
  relStart, curAddr,  \* the next word of memory, and the label of the next row
  inRow,              \* i in printMemArray's loop over a row
  rowLabel,           \* the label of the row being written
  registersDone, wordsDone   \* the registers and the words of memory written so far

memoryDump == <<start, end, relStart, curAddr, inRow, rowLabel, wordsDone>>
dumpVars   == <<phase, shown, member, element, registersDone, memoryDump>>

Nothing == [bits |-> ZeroBits, line |-> PrintInstr(ZeroBits)]

DumpInit ==
  /\ phase = "pipeline" /\ shown = Nothing
  /\ member = 2 /\ element = 0 /\ registersDone = << >>
  /\ \E range \in Ranges : start = range[1] /\ end = range[2]
  /\ relStart = start /\ curAddr = start
  /\ inRow = 0 /\ rowLabel = start /\ wordsDone = << >>

\* One of the five words dumpPipeState prints.
DumpInstruction(w) ==
  /\ phase = "pipeline"
  /\ shown' = [bits |-> w, line |-> PrintInstr(w)]
  /\ UNCHANGED <<phase, member, element, registersDone, memoryDump>>

\* The run has ended.
StartRegisters ==
  /\ phase = "pipeline"
  /\ phase' = "registers"
  /\ shown' = Nothing
  /\ UNCHANGED <<member, element, registersDone, memoryDump>>

-----------------------------------------------------------------------------
\* The members of RegisterInfo in the order of the struct, and their lengths.
Members == <<<<"zero", 1>>, <<"at", 1>>, <<"v", 2>>, <<"a", 4>>, <<"t", 10>>, <<"s", 8>>,
             <<"k", 2>>, <<"gp", 1>>, <<"sp", 1>>, <<"fp", 1>>, <<"ra", 1>>>>

\* The struct overlays the array `registers`: the number of a member's first element.
Offset ==
  LET at[m \in 1..Len(Members)] == IF m = 1 THEN 0 ELSE at[m - 1] + Members[m - 1][2]
  IN  at

\* How many elements dumpRegisterState's loops write of each member: V_REG_SIZE and so on.
LoopBoundMutant(m) == IF Members[m][1] = "t" THEN 8 ELSE Members[m][2]
LoopBound(m) ==
  CASE Members[m][1] = "v" -> 2
    [] Members[m][1] = "a" -> 4
    [] Members[m][1] = "t" -> 10
    [] Members[m][1] = "s" -> 8
    [] Members[m][1] = "k" -> 2
    [] OTHER               -> 1

DumpRegister ==
  /\ phase = "registers"
  /\ member <= Len(Members)
  /\ registersDone' = Append(registersDone, [name |-> <<Members[member][1], element>>,
                                              register |-> Offset[member] + element])
  /\ IF element + 1 < LoopBound(member)
     THEN member' = member /\ element' = element + 1
     ELSE member' = member + 1 /\ element' = 0
  /\ UNCHANGED <<phase, shown, memoryDump>>

StartMemory ==
  /\ phase = "registers"
  /\ member > Len(Members)
  /\ phase' = "memory"
  /\ UNCHANGED <<shown, member, element, registersDone, memoryDump>>

-----------------------------------------------------------------------------
\* A word that reaches beyond the memory ends the dump with an error.
Inside(address) == address + 3 < MemorySize

NextRowMutant == curAddr + 4
NextRow == curAddr + 4 * EntriesPerRow

\* Whether the loop goes on.
MoreWordsMutant == relStart <= end
MoreWords == relStart < end

\* The word at relStart, after a new label at the beginning of a row.
DumpWord ==
  /\ phase = "memory"
  /\ MoreWords
  /\ Inside(relStart)
  /\ wordsDone' = Append(wordsDone, relStart)
  /\ rowLabel' = IF inRow = 0 THEN curAddr ELSE rowLabel
  /\ relStart' = relStart + 4
  /\ IF inRow + 1 < EntriesPerRow
     THEN inRow' = inRow + 1 /\ curAddr' = curAddr
     ELSE inRow' = 0 /\ curAddr' = NextRow
  /\ UNCHANGED <<phase, shown, member, element, registersDone, start, end>>

EndMemory ==
  /\ phase = "memory"
  /\ ~MoreWords \/ ~Inside(relStart)
  /\ phase' = IF ~MoreWords THEN "done" ELSE "error"
  /\ UNCHANGED <<shown, member, element, registersDone, memoryDump>>

Dumped == phase \in {"done", "error"} /\ UNCHANGED dumpVars

DumpNext ==
  \/ \E w \in ShownWords : DumpInstruction(w)
  \/ StartRegisters \/ DumpRegister
  \/ StartMemory \/ DumpWord \/ EndMemory
  \/ Dumped

DumpSpec == DumpInit /\ [][DumpNext]_dumpVars
=============================================================================
