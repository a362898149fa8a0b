------------------------------ MODULE Emulator ------------------------------
(***************************************************************************)
(* Class Emulator: registers, memory, program counter and pending branch,  *)
(* and executeInstruction, which executes one instruction completely.      *)
(* Both simulators are loops over it (modules FunctSim and CycleSim).      *)
(*                                                                         *)
(* An instruction is a word of module Isa and imm, which stands for its    *)
(* shamt, its immediate or its jump address.  How instructions are encoded *)
(* is left out: what a fetch finds at an address is any instruction, and   *)
(* the same one until a store overwrites it (program).  The words loads    *)
(* read are those of memory, independently of that choice.                 *)
(***************************************************************************)
EXTENDS InstructionCount, MemoryStore

CONSTANTS
  Instructions,      \* the instructions a program may hold
  ExceptionAddress,  \* 0x8000
  JumpRegion,        \* the addresses j and jal reach: 2^28
  Images, Files      \* contents of init_mem_image and of the program's file

\* The largest shamt, immediate and jump address of an instruction.
ImmBound(op) ==
  CASE op \in ShiftOps     -> 4 * ByteBits
    [] op \in {"J", "JAL"} -> JumpRegion \div 4
    [] OTHER               -> HalfSize

ASSUME EmulatorAssumption ==
  /\ \A instr \in Instructions :
       /\ DOMAIN instr = {"word", "imm"}
       /\ instr = [word |-> instr.word, imm |-> instr.imm]
       /\ instr.word \in Words
       /\ instr.imm \in 0..ImmBound(instr.word.op) - 1
  /\ ExceptionAddress \in Value
  /\ JumpRegion \in Nat \ {0} /\ JumpRegion % 4 = 0 /\ WordSize % JumpRegion = 0
  /\ MaxDin \in Nat
  \* prepareMemory's result is asserted: an image that leaves the memory aborts.
  /\ \A image \in Images :
       /\ image \in Seq([address : Value, value : Value])
       /\ \A n \in 1..Len(image) : ~IsAccessViolation(image[n].address, 4)
  \* loadFromFile counts the bytes of the file in an int.
  /\ \A file \in Files : file \in Seq(Byte) /\ Len(file) < SignedMax

VARIABLES
  registers, memory, PC, encounteredBranch, savedBranch,
  program,  \* the instructions found so far, by address
  info      \* the InstructionInfo executeInstruction returned last

emulatorVars == <<registers, memory, PC, encounteredBranch, savedBranch, din, program, info>>

-----------------------------------------------------------------------------
\* A default-constructed InstructionInfo.  loadAddress and storeAddress are one field:
\* an instruction sets at most one of them.
DefaultInfo ==
  [pc |-> 0, nextPC |-> 0, isHalt |-> FALSE, isValid |-> TRUE, isOverflow |-> FALSE,
   instructionID |-> 0, word |-> ZeroWord, imm |-> 0, accessAddress |-> 0]

EmulatorInit ==
  /\ registers = [r \in 0..31 |-> 0]
  /\ \E image \in Images, file \in Files : memory = Constructed(image, file)
  /\ PC = 0 /\ encounteredBranch = FALSE /\ savedBranch = 0
  /\ din = 0
  /\ program = << >>
  /\ info = DefaultInfo

-----------------------------------------------------------------------------
\* A fetch outside the memory leaves 0 in instruction.
OutsideMutant(address) == address > MemorySize
Outside(address) == address >= MemorySize
ZeroInstruction == [word |-> ZeroWord, imm |-> 0]

Fetchable ==
  IF Outside(PC) THEN {ZeroInstruction}
  ELSE IF PC \in DOMAIN program THEN {program[PC]} ELSE Instructions

\* The program as known after a fetch, and after a store of size bytes at address.
WithFetched(instr) ==
  [a \in DOMAIN program \cup {PC} |-> IF a = PC THEN instr ELSE program[a]]

Overwritten(address, size) ==
  {AddressOf(address, i) : i \in Reached(address, size)}

WithoutOverwritten(known, address, size) ==
  [a \in {b \in DOMAIN known : \A i \in 0..3 : AddressOf(b, i) \notin Overwritten(address, size)}
     |-> known[a]]

\* Where execution goes behind the current instruction, and the registers without what
\* was written to $zero.
NextPCMutant == IF encounteredBranch THEN savedBranch ELSE PC
NextPC  == IF encounteredBranch THEN savedBranch ELSE Wrap(PC + 4)
Cleared == [registers EXCEPT ![0] = 0]

Returned(instr, next, access) ==
  [pc |-> PC, nextPC |-> next, isHalt |-> instr.word.op = "HALT",
   isValid |-> instr.word.op # "ILLEGAL", isOverflow |-> FALSE,
   instructionID |-> din, word |-> instr.word, imm |-> instr.imm, accessAddress |-> access]

\* The first part of every execution.
BeginExecution(instr) ==
  /\ din < MaxDin
  /\ instr \in Fetchable
  /\ program' = IF Outside(PC) THEN program ELSE WithFetched(instr)
  /\ din' = din + 1

\* No branch is pending behind the instruction.
GoOn(instr, access) ==
  /\ PC' = NextPC
  /\ encounteredBranch' = FALSE
  /\ UNCHANGED savedBranch
  /\ info' = Returned(instr, NextPC, access)

-----------------------------------------------------------------------------
Rs(instr) == Cleared[instr.word.rs]
Rt(instr) == Cleared[instr.word.rt]

\* HALT returns before it is decoded.
ExecuteHalt(instr) ==
  /\ instr.word.op = "HALT"
  /\ BeginExecution(instr)
  /\ GoOn(instr, 0)
  /\ registers' = Cleared
  /\ UNCHANGED memory

\* The instructions that compute a value without an overflow test.
Computed(instr) ==
  IF instr.word.op \in ImmediateOps
  THEN ImmediateResult(instr.word.op, Rs(instr), instr.imm)
  ELSE RegisterResult(instr.word.op, Rs(instr), Rt(instr), instr.imm)

ExecuteCompute(instr) ==
  /\ instr.word.op \in (ShiftOps \cup RegisterOps \cup ImmediateOps) \ OverflowOps
  /\ BeginExecution(instr)
  /\ GoOn(instr, 0)
  /\ registers' = [Cleared EXCEPT ![Dest(instr.word)] = Computed(instr)]
  /\ UNCHANGED memory

(***************************************************************************)
(* add, addi and sub write the destination, look at the sign bits of the   *)
(* registers as they are then, and put the old value back on overflow.     *)
(***************************************************************************)
Summed(instr) ==
  [Cleared EXCEPT ![Dest(instr.word)] =
     CASE instr.word.op = "ADD"  -> Wrap(Rs(instr) + Rt(instr))
       [] instr.word.op = "ADDI" -> Wrap(Rs(instr) + SignExt(instr.imm))
       [] instr.word.op = "SUB"  -> Wrap(Rs(instr) - Rt(instr))]

OverflowsIn(instr, regs) ==
  LET rs == SignBit(regs[instr.word.rs])
      rt == SignBit(regs[instr.word.rt])
      rd == SignBit(regs[instr.word.rd])
  IN  CASE instr.word.op = "ADD"  -> AddOverflow(rs, rt, rd)
        [] instr.word.op = "ADDI" -> AddOverflow(rs, SignBit(SignExt(instr.imm)), rt)
        [] instr.word.op = "SUB"  -> SubOverflow(rs, rt, rd)

Overflows(instr) == OverflowsIn(instr, Summed(instr))

ExecuteSum(instr) ==
  /\ instr.word.op \in OverflowOps
  /\ ~Overflows(instr)
  /\ BeginExecution(instr)
  /\ GoOn(instr, 0)
  /\ registers' = Summed(instr)
  /\ UNCHANGED memory

TrapNextPCMutant(returned) ==
  /\ PC' = ExceptionAddress
  /\ encounteredBranch' = FALSE
  /\ UNCHANGED savedBranch
  /\ info' = returned
\* An exception goes to the handler at once; no branch is pending there.
TrapMutant(returned) ==
  /\ PC' = ExceptionAddress
  /\ UNCHANGED <<encounteredBranch, savedBranch>>
  /\ info' = [returned EXCEPT !.nextPC = ExceptionAddress]
Trap(returned) ==
  /\ PC' = ExceptionAddress
  /\ encounteredBranch' = FALSE
  /\ UNCHANGED savedBranch
  /\ info' = [returned EXCEPT !.nextPC = ExceptionAddress]

RestoredMutant(instr) == Summed(instr)
Restored(instr) == [Summed(instr) EXCEPT ![Dest(instr.word)] = Cleared[Dest(instr.word)]]

ExecuteOverflow(instr) ==
  /\ instr.word.op \in OverflowOps
  /\ Overflows(instr)
  /\ BeginExecution(instr)
  /\ Trap([Returned(instr, NextPC, 0) EXCEPT !.isOverflow = TRUE])
  /\ registers' = Restored(instr)
  /\ UNCHANGED memory

ExecuteIllegal(instr) ==
  /\ instr.word.op = "ILLEGAL"
  /\ BeginExecution(instr)
  /\ Trap(Returned(instr, NextPC, 0))
  /\ registers' = Cleared
  /\ UNCHANGED memory

-----------------------------------------------------------------------------
\* Targets are relative to the program counter already moved on (NextPC).
BranchTarget(instr) == Wrap(NextPC + SignExt(instr.imm) * 4)
JumpTarget(instr)   == (NextPC - (NextPC % JumpRegion)) + 4 * instr.imm

IsTaken(instr) ==
  CASE instr.word.op = "BEQ"  -> Rs(instr) = Rt(instr)
    [] instr.word.op = "BNE"  -> Rs(instr) # Rt(instr)
    [] instr.word.op = "BLEZ" -> Rs(instr) = 0 \/ SignBit(Rs(instr))
    [] instr.word.op = "BGTZ" -> ~SignBit(Rs(instr)) /\ Rs(instr) # 0
    [] OTHER                  -> TRUE

Target(instr) ==
  CASE instr.word.op = "JR"          -> Rs(instr)
    [] instr.word.op \in {"J", "JAL"} -> JumpTarget(instr)
    [] OTHER                         -> BranchTarget(instr)

ExecuteBranch(instr) ==
  /\ instr.word.op \in BranchOps \cup JumpOps
  /\ BeginExecution(instr)
  /\ IF IsTaken(instr)
     THEN /\ PC' = NextPC
          /\ encounteredBranch' = TRUE
          /\ savedBranch' = Target(instr)
          /\ info' = Returned(instr, NextPC, 0)
     ELSE GoOn(instr, 0)
  /\ registers' = IF instr.word.op = "JAL" THEN [Cleared EXCEPT ![31] = Wrap(NextPC + 4)]
                                           ELSE Cleared
  /\ UNCHANGED memory

-----------------------------------------------------------------------------
AccessSize(op) ==
  CASE op \in {"LBU", "SB"} -> 1
    [] op \in {"LHU", "SH"} -> 2
    [] op \in {"LW", "SW"}  -> 4

AccessAddress(instr) == Wrap(Rs(instr) + SignExt(instr.imm))

\* The return values of getMemValue and setMemValue are ignored.
ExecuteLoad(instr) ==
  /\ instr.word.op \in LoadOps
  /\ BeginExecution(instr)
  /\ GoOn(instr, AccessAddress(instr))
  /\ registers' = [Cleared EXCEPT ![instr.word.rt] =
                     GetMemValue(memory, AccessAddress(instr), AccessSize(instr.word.op))]
  /\ UNCHANGED memory

ExecuteStore(instr) ==
  LET address == AccessAddress(instr)
      size    == AccessSize(instr.word.op)
  IN  /\ instr.word.op \in StoreOps
      /\ din < MaxDin
      /\ instr \in Fetchable
      /\ din' = din + 1
      /\ program' = IF Outside(PC) THEN WithoutOverwritten(program, address, size)
                    ELSE WithoutOverwritten(WithFetched(instr), address, size)
      /\ GoOn(instr, address)
      /\ registers' = Cleared
      /\ memory' = SetMemValue(memory, address, Rt(instr), size)

ExecuteInstruction(instr) ==
  \/ ExecuteHalt(instr)
  \/ ExecuteCompute(instr)
  \/ ExecuteSum(instr) \/ ExecuteOverflow(instr)
  \/ ExecuteIllegal(instr)
  \/ ExecuteBranch(instr)
  \/ ExecuteLoad(instr) \/ ExecuteStore(instr)

\* executeInstruction itself does not stop at HALT: its callers do.
EmulatorNext == ~info.isHalt /\ \E instr \in Fetchable : ExecuteInstruction(instr)

EmulatorSpec == EmulatorInit /\ [][EmulatorNext]_emulatorVars
=============================================================================
