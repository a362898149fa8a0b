--------------------------- MODULE EmulatorProofs ---------------------------
(***************************************************************************)
(* Proofs about executeInstruction, for every width of a byte, every size  *)
(* of the memory, every set of instructions and every bound.               *)
(***************************************************************************)
EXTENDS EmulatorProperties, MemoryProofs

-----------------------------------------------------------------------------
(***************************************************************************)
(* What the operators yield.                                               *)
(***************************************************************************)
LEMMA Quotient ==
  ASSUME NEW x \in Nat, NEW n \in Nat \ {0}
  PROVE  x \div n \in 0..x
<1>1. PICK q \in Int, r \in 0..n - 1 : x = q * n + r /\ x \div n = q
  BY Remainder
<1>2. q >= 0
  <2>1. ASSUME q < 0 PROVE FALSE
    <3>1. -q \in Nat /\ 1 <= -q
      BY <2>1
    <3>2. 1 * n <= (-q) * n
      BY <3>1, Products
    <3>3. (-q) * n = -(q * n) /\ q * n \in Int
      OBVIOUS
    <3> QED BY <1>1, <3>2, <3>3
  <2> QED BY <2>1
<1>3. q * 1 <= q * n
  <2>1. q \in Nat /\ 1 <= n
    BY <1>2
  <2>2. 1 * q <= n * q
    BY <2>1, Products
  <2>3. q * n = n * q
    OBVIOUS
  <2> QED BY <2>2, <2>3
<1> QED BY <1>1, <1>2, <1>3

LEMMA LogicIsValue ==
  ASSUME NEW a \in Value, NEW b \in Value
  PROVE  And(a, b) \in Value /\ Nor(a, b) \in Value /\ Or(a, b) \in Value
<1>1. \A x \in Value : Not(x) \in Value
  BY WordFacts DEF Not, Value
<1>2. \A x, y \in Value : And(x, y) \in Value
  BY AluAssumption
<1>3. Nor(a, b) \in Value
  BY <1>1, <1>2 DEF Nor
<1> QED BY <1>1, <1>2, <1>3 DEF Or

LEMMA LessIsValue == \A x, y : Less(x, y) \in Value
BY WordFacts DEF Less, Value

LEMMA PowerOfShamt ==
  ASSUME NEW shamt \in 0..4 * ByteBits - 1
  PROVE  2^shamt \in Nat \ {0}
<1>1. shamt \in 0..4 * ByteBits
  BY AluAssumption
<1> QED BY <1>1, AluAssumption

LEMMA RegisterResultIsValue ==
  ASSUME NEW op \in (ShiftOps \cup RegisterOps) \ OverflowOps,
         NEW a \in Value, NEW b \in Value, NEW shamt \in Nat,
         op \in ShiftOps => shamt \in 0..4 * ByteBits - 1
  PROVE  RegisterResult(op, a, b, shamt) \in Value
<1>1. a \in Int /\ b \in Int /\ a + b \in Int /\ a - b \in Int
  BY ValueIsInt
<1>2. Wrap(a + b) \in Value /\ Wrap(a - b) \in Value
  BY <1>1, WrapFacts
<1>3. And(a, b) \in Value /\ Nor(a, b) \in Value /\ Or(a, b) \in Value
  BY LogicIsValue
<1>4. Less(Signed(a), Signed(b)) \in Value /\ Less(a, b) \in Value
  BY LessIsValue
<1>5. op \in ShiftOps => Wrap(b * 2^shamt) \in Value /\ b \div 2^shamt \in Value
  <2> SUFFICES ASSUME op \in ShiftOps
               PROVE  Wrap(b * 2^shamt) \in Value /\ b \div 2^shamt \in Value
    OBVIOUS
  <2> DEFINE p == 2^shamt
  <2>1. p \in Nat \ {0}
    BY PowerOfShamt
  <2> HIDE DEF p
  <2>2. b * p \in Int /\ Wrap(b * p) \in Value
    BY <1>1, <2>1, WrapFacts
  <2>3. b \div p \in Value
    BY <2>1, Quotient, WordFacts DEF Value
  <2> QED BY <2>2, <2>3 DEF p
<1> QED BY <1>2, <1>3, <1>4, <1>5 DEF RegisterResult, ShiftOps, RegisterOps, OverflowOps

LEMMA ImmediateResultIsValue ==
  ASSUME NEW op \in ImmediateOps \ OverflowOps, NEW a \in Value, NEW imm \in 0..HalfSize - 1
  PROVE  ImmediateResult(op, a, imm) \in Value
<1>1. imm \in Value /\ SignExt(imm) \in Value
  BY WordFacts, SignExtIsValue DEF Value
<1>2. Wrap(a + SignExt(imm)) \in Value
  <2>1. a \in Int /\ SignExt(imm) \in Int
    BY <1>1, ValueIsInt
  <2>2. a + SignExt(imm) \in Int
    BY <2>1
  <2> QED BY <2>2, WrapFacts
<1>3. And(a, imm) \in Value /\ Or(a, imm) \in Value
  BY <1>1, LogicIsValue
<1>4. Wrap(imm * HalfSize) \in Value
  <2>1. imm * HalfSize \in Int
    BY WordFacts
  <2> QED BY <2>1, WrapFacts
<1> QED BY <1>2, <1>3, <1>4, LessIsValue DEF ImmediateResult, ImmediateOps, OverflowOps

\* An address of the region an address is in.
LEMMA RegionFacts ==
  ASSUME NEW a \in Value, NEW imm \in 0..(JumpRegion \div 4) - 1
  PROVE  LET t == (a - (a % JumpRegion)) + 4 * imm
         IN  t \in Value /\ t \div JumpRegion = a \div JumpRegion /\ t % JumpRegion = 4 * imm
<1> DEFINE R == JumpRegion
<1>1. R \in Nat \ {0} /\ R % 4 = 0 /\ WordSize % R = 0
  BY EmulatorAssumption
<1>2. a \in Int /\ a >= 0 /\ a < WordSize /\ WordSize \in Int
  BY ValueIsInt, WordFacts
<1> HIDE DEF R
<1>3. PICK q \in Int, r \in 0..R - 1 : a = q * R + r /\ a % R = r /\ a \div R = q
  BY <1>1, <1>2, Remainder
<1>4. PICK k \in Int : WordSize = k * R
  <2> DEFINE W == WordSize
  <2>0. W \in Int
    BY <1>2
  <2> HIDE DEF W
  <2>1. PICK k \in Int, s \in 0..R - 1 : W = k * R + s /\ W % R = s /\ W \div R = k
    BY <1>1, <2>0, Remainder
  <2>2. k * R \in Int
    BY <1>1
  <2> QED BY <1>1, <2>1, <2>2 DEF W
<1>5. 4 * imm \in 0..R - 1
  BY <1>1 DEF R
<1>6. (q * R + 4 * imm) % R = 4 * imm /\ (q * R + 4 * imm) \div R = q
  BY <1>1, <1>5, Division
<1>7. q * R \in Int /\ q * R >= 0 /\ (q + 1) * R <= WordSize
  <2>1. q * R \in Int /\ k * R \in Int /\ (q + 1) * R = q * R + R
    BY <1>1
  <2>2. q \in Nat
    <3>1. a \div R \in 0..a
      BY <1>1, <1>2, Quotient
    <3> QED BY <1>3, <3>1
  <2>3. q + 1 <= k
    <3>1. ASSUME k <= q PROVE FALSE
      <4>1. k \in Nat
        <5>1. ASSUME k < 0 PROVE FALSE
          <6>1. 1 * R <= (-k) * R /\ (-k) * R = -(k * R)
            BY <1>1, <5>1, Products
          <6> QED BY <1>1, <1>2, <1>4, <2>1, <6>1
        <5> QED BY <5>1
      <4>2. k * R <= q * R
        BY <1>1, <2>2, <3>1, <4>1, Products
      <4> QED BY <1>2, <1>3, <1>4, <2>1, <4>2
    <3> QED BY <3>1
  <2>4. (q + 1) * R <= k * R
    BY <1>1, <2>2, <2>3, Products
  <2>5. 0 * R <= q * R
    BY <1>1, <2>2, Products
  <2> QED BY <1>1, <1>4, <2>1, <2>4, <2>5
<1>8. (a - (a % R)) + 4 * imm = q * R + 4 * imm
  BY <1>3, <1>5, <1>7
<1>9. q * R + 4 * imm \in Value
  <2>1. (q + 1) * R = q * R + R
    BY <1>1
  <2> QED BY <1>1, <1>2, <1>5, <1>7, <2>1 DEF Value
<1> QED BY <1>3, <1>6, <1>8, <1>9 DEF R

-----------------------------------------------------------------------------
(***************************************************************************)
(* Type correctness.                                                       *)
(***************************************************************************)
IsInstruction(instr) ==
  instr.word \in Word /\ instr.imm \in 0..ImmBound(instr.word.op) - 1

LEMMA FetchedFacts ==
  ASSUME EmulatorTypeOK, NEW instr \in Fetchable
  PROVE  /\ IsInstruction(instr)
         /\ ~Outside(PC) => instr \in Instructions /\ PC \in 0..MemorySize - 1
<1>1. \A i \in Instructions : IsInstruction(i)
  BY EmulatorAssumption, WordsAssumption DEF IsInstruction
<1>2. IsInstruction(ZeroInstruction)
  BY AluAssumption DEF IsInstruction, ZeroInstruction, ZeroWord, Word, Ops, ShiftOps, ImmBound
<1>3. CASE Outside(PC)
  BY <1>2, <1>3 DEF Fetchable
<1>4. CASE ~Outside(PC)
  <2>1. PC \in 0..MemorySize - 1
    BY <1>4, MemoryAssumption, ValueIsInt DEF Outside, EmulatorTypeOK
  <2>2. instr \in Instructions
    BY <1>4 DEF Fetchable, EmulatorTypeOK
  <2> QED BY <1>1, <2>1, <2>2
<1> QED BY <1>3, <1>4

\* The operands of an instruction.
LEMMA OperandFacts ==
  ASSUME EmulatorTypeOK, NEW instr, IsInstruction(instr)
  PROVE  /\ Cleared \in [0..31 -> Value] /\ Cleared[0] = 0
         /\ \A r \in 1..31 : Cleared[r] = registers[r]
         /\ Rs(instr) \in Value /\ Rt(instr) \in Value
         /\ instr.word \in Word /\ instr.word.op \in Ops
         /\ instr.word.rs \in 0..31 /\ instr.word.rt \in 0..31 /\ instr.word.rd \in 0..31
         /\ Dest(instr.word) \in 0..31
<1>1. 0 \in Value
  BY WordFacts DEF Value
<1>2. /\ Cleared \in [0..31 -> Value] /\ Cleared[0] = 0
      /\ \A r \in 1..31 : Cleared[r] = registers[r]
  BY <1>1 DEF Cleared, EmulatorTypeOK
<1>3. /\ instr.word \in Word /\ instr.word.op \in Ops
      /\ instr.word.rs \in 0..31 /\ instr.word.rt \in 0..31 /\ instr.word.rd \in 0..31
  BY DEF IsInstruction, Word
<1>4. Dest(instr.word) \in 0..31
  BY <1>3 DEF Dest
<1> QED BY <1>2, <1>3, <1>4 DEF Rs, Rt

LEMMA NextPCIsValue ==
  ASSUME EmulatorTypeOK
  PROVE  NextPC \in Value /\ Wrap(NextPC + 4) \in Value
<1>1. \A a \in Value : Wrap(a + 4) \in Value
  <2>1. \A a \in Value : a + 4 \in Int
    BY ValueIsInt
  <2> QED BY <2>1, WrapFacts
<1> QED BY <1>1 DEF NextPC, EmulatorTypeOK

ProgramOK(known) ==
  DOMAIN known \subseteq 0..MemorySize - 1 /\ \A a \in DOMAIN known : known[a] \in Instructions

LEMMA FetchKeepsTypes ==
  ASSUME EmulatorTypeOK, NEW instr \in Fetchable
  PROVE  /\ ProgramOK(IF Outside(PC) THEN program ELSE WithFetched(instr))
         /\ din < MaxDin => din + 1 \in 0..MaxDin
<1>1. ProgramOK(program) /\ din \in 0..MaxDin
  BY DEF ProgramOK, EmulatorTypeOK
<1>2. ~Outside(PC) => ProgramOK(WithFetched(instr))
  BY <1>1, FetchedFacts DEF ProgramOK, WithFetched
<1> QED BY <1>1, <1>2, EmulatorAssumption

LEMMA StoreKeepsProgram ==
  ASSUME NEW known, ProgramOK(known), NEW address, NEW size
  PROVE  ProgramOK(WithoutOverwritten(known, address, size))
BY DEF ProgramOK, WithoutOverwritten

ReturnedInfoOK(i) == i.pc \in Value /\ i.nextPC \in Value /\ i.accessAddress \in Value

LEMMA ReturnedFacts ==
  ASSUME EmulatorTypeOK, NEW instr, NEW next \in Value, NEW access \in Value
  PROVE  /\ ReturnedInfoOK(Returned(instr, next, access))
         /\ ReturnedInfoOK([Returned(instr, next, access) EXCEPT !.nextPC = ExceptionAddress])
         /\ ReturnedInfoOK([[Returned(instr, next, access) EXCEPT !.isOverflow = TRUE]
                      EXCEPT !.nextPC = ExceptionAddress])
BY EmulatorAssumption DEF ReturnedInfoOK, Returned, EmulatorTypeOK

\* What every kind of execution but a store leaves of the types to show.
LEMMA TypesAfter ==
  ASSUME EmulatorTypeOK, NEW instr \in Fetchable,
         BeginExecution(instr), UNCHANGED memory,
         registers' \in [0..31 -> Value],
         PC' \in Value, savedBranch' \in Value, encounteredBranch' \in BOOLEAN,
         ReturnedInfoOK(info')
  PROVE  EmulatorTypeOK'
<1>1. ProgramOK(program') /\ din' \in 0..MaxDin
  BY FetchKeepsTypes DEF BeginExecution
<1> QED BY <1>1 DEF EmulatorTypeOK, ProgramOK, ReturnedInfoOK

LEMMA GoOnKeepsTypes ==
  ASSUME EmulatorTypeOK, NEW instr, NEW access \in Value, GoOn(instr, access)
  PROVE  /\ PC' \in Value /\ savedBranch' \in Value /\ encounteredBranch' \in BOOLEAN
         /\ ReturnedInfoOK(info')
BY NextPCIsValue, ReturnedFacts DEF GoOn, EmulatorTypeOK

LEMMA TrapKeepsTypes ==
  ASSUME EmulatorTypeOK, NEW returned, Trap(returned),
         ReturnedInfoOK([returned EXCEPT !.nextPC = ExceptionAddress])
  PROVE  /\ PC' \in Value /\ savedBranch' \in Value /\ encounteredBranch' \in BOOLEAN
         /\ ReturnedInfoOK(info')
BY EmulatorAssumption DEF Trap, EmulatorTypeOK

LEMMA ComputedIsValue ==
  ASSUME EmulatorTypeOK, NEW instr, IsInstruction(instr),
         instr.word.op \in (ShiftOps \cup RegisterOps \cup ImmediateOps) \ OverflowOps
  PROVE  Computed(instr) \in Value
<1> DEFINE op == instr.word.op
<1>1. Rs(instr) \in Value /\ Rt(instr) \in Value
  BY OperandFacts
<1>2. CASE op \in ImmediateOps
  <2>1. instr.imm \in 0..HalfSize - 1
    BY <1>2 DEF IsInstruction, ImmBound, ImmediateOps, ShiftOps
  <2> QED BY <1>1, <1>2, <2>1, ImmediateResultIsValue DEF Computed
<1>3. CASE op \notin ImmediateOps
  <2>1. op \in ShiftOps => instr.imm \in 0..4 * ByteBits - 1
    BY DEF IsInstruction, ImmBound, ShiftOps
  <2>2. instr.imm \in Nat
    BY AluAssumption, WordFacts, EmulatorAssumption DEF IsInstruction
  <2> QED BY <1>1, <1>3, <2>1, <2>2, RegisterResultIsValue DEF Computed
<1> QED BY <1>2, <1>3

LEMMA SummedIsValue ==
  ASSUME EmulatorTypeOK, NEW instr, IsInstruction(instr), instr.word.op \in OverflowOps
  PROVE  /\ Summed(instr) \in [0..31 -> Value]
         /\ Restored(instr) \in [0..31 -> Value]
<1>1. /\ Rs(instr) \in Int /\ Rt(instr) \in Int
      /\ Cleared \in [0..31 -> Value] /\ Dest(instr.word) \in 0..31
  BY OperandFacts, ValueIsInt
<1>2. instr.word.op = "ADDI" => SignExt(instr.imm) \in Int
  BY SignExtIsValue, ValueIsInt DEF IsInstruction, ImmBound, ShiftOps
<1>3. /\ Wrap(Rs(instr) + Rt(instr)) \in Value /\ Wrap(Rs(instr) - Rt(instr)) \in Value
      /\ instr.word.op = "ADDI" => Wrap(Rs(instr) + SignExt(instr.imm)) \in Value
  <2>1. /\ Rs(instr) + Rt(instr) \in Int /\ Rs(instr) - Rt(instr) \in Int
        /\ instr.word.op = "ADDI" => Rs(instr) + SignExt(instr.imm) \in Int
    BY <1>1, <1>2
  <2> QED BY <2>1, WrapFacts
<1>4. Summed(instr) \in [0..31 -> Value]
  BY <1>1, <1>3 DEF Summed, OverflowOps
<1> QED BY <1>1, <1>4 DEF Restored

LEMMA AccessAddressIsValue ==
  ASSUME EmulatorTypeOK, NEW instr, IsInstruction(instr), instr.word.op \in MemOps
  PROVE  AccessAddress(instr) \in Value
<1>1. Rs(instr) \in Int
  BY OperandFacts, ValueIsInt
<1>2. SignExt(instr.imm) \in Int
  BY SignExtIsValue, ValueIsInt
     DEF IsInstruction, ImmBound, ShiftOps, MemOps, LoadOps, StoreOps
<1>3. Rs(instr) + SignExt(instr.imm) \in Int
  BY <1>1, <1>2
<1> QED BY <1>3, WrapFacts DEF AccessAddress

LEMMA TargetIsValue ==
  ASSUME EmulatorTypeOK, NEW instr, IsInstruction(instr), instr.word.op \in BranchOps \cup JumpOps
  PROVE  Target(instr) \in Value
<1>1. Rs(instr) \in Value /\ NextPC \in Value
  BY OperandFacts, NextPCIsValue
<1>2. CASE instr.word.op \in BranchOps
  <2>1. SignExt(instr.imm) \in Int /\ NextPC \in Int
    BY <1>1, <1>2, SignExtIsValue, ValueIsInt
       DEF IsInstruction, ImmBound, ShiftOps, BranchOps, CompareBranchOps, SignBranchOps
  <2>2. NextPC + SignExt(instr.imm) * 4 \in Int
    BY <2>1
  <2> QED BY <1>2, <2>2, WrapFacts
          DEF Target, BranchTarget, BranchOps, CompareBranchOps, SignBranchOps
<1>3. CASE instr.word.op \in {"J", "JAL"}
  <2>1. instr.imm \in 0..(JumpRegion \div 4) - 1
    BY <1>3 DEF IsInstruction, ImmBound, ShiftOps
  <2>2. JumpTarget(instr) \in Value
    BY <1>1, <2>1, RegionFacts DEF JumpTarget
  <2> QED BY <1>3, <2>2 DEF Target
<1>4. CASE instr.word.op = "JR"
  BY <1>1, <1>4 DEF Target
<1> QED BY <1>2, <1>3, <1>4 DEF JumpOps

\* Each kind of execution keeps the types.
LEMMA EmulatorTypesStay == EmulatorTypeOK /\ [EmulatorNext]_emulatorVars => EmulatorTypeOK'
<1> SUFFICES ASSUME EmulatorTypeOK, [EmulatorNext]_emulatorVars PROVE EmulatorTypeOK'
  OBVIOUS
<1>1. CASE UNCHANGED emulatorVars
  BY <1>1 DEF emulatorVars, EmulatorTypeOK
<1>2. CASE EmulatorNext
  <2> PICK instr \in Fetchable : ExecuteInstruction(instr)
    BY <1>2 DEF EmulatorNext
  <2>1. IsInstruction(instr)
    BY FetchedFacts
  <2>2. /\ Cleared \in [0..31 -> Value] /\ 0 \in Value
        /\ Rs(instr) \in Value /\ Rt(instr) \in Value
        /\ instr.word.rt \in 0..31 /\ Dest(instr.word) \in 0..31
    BY <2>1, OperandFacts, WordFacts DEF Value
  <2>3. NextPC \in Value /\ Wrap(NextPC + 4) \in Value
    BY NextPCIsValue
  <2>4. CASE ExecuteHalt(instr)
    BY <2>2, <2>4, GoOnKeepsTypes, TypesAfter DEF ExecuteHalt
  <2>5. CASE ExecuteCompute(instr)
    <3>1. Computed(instr) \in Value
      BY <2>1, <2>5, ComputedIsValue DEF ExecuteCompute
    <3>2. registers' \in [0..31 -> Value]
      BY <2>2, <2>5, <3>1 DEF ExecuteCompute
    <3> QED BY <2>2, <2>5, <3>2, GoOnKeepsTypes, TypesAfter DEF ExecuteCompute
  <2>6. CASE ExecuteSum(instr)
    <3>1. registers' \in [0..31 -> Value]
      BY <2>1, <2>6, SummedIsValue DEF ExecuteSum
    <3> QED BY <2>2, <2>6, <3>1, GoOnKeepsTypes, TypesAfter DEF ExecuteSum
  <2>7. CASE ExecuteOverflow(instr)
    <3>1. registers' \in [0..31 -> Value]
      BY <2>1, <2>7, SummedIsValue DEF ExecuteOverflow
    <3>2. ReturnedInfoOK([[Returned(instr, NextPC, 0) EXCEPT !.isOverflow = TRUE]
                    EXCEPT !.nextPC = ExceptionAddress])
      BY <2>2, <2>3, ReturnedFacts
    <3> QED BY <2>7, <3>1, <3>2, TrapKeepsTypes, TypesAfter DEF ExecuteOverflow
  <2>8. CASE ExecuteIllegal(instr)
    <3>1. ReturnedInfoOK([Returned(instr, NextPC, 0) EXCEPT !.nextPC = ExceptionAddress])
      BY <2>2, <2>3, ReturnedFacts
    <3> QED BY <2>2, <2>8, <3>1, TrapKeepsTypes, TypesAfter DEF ExecuteIllegal
  <2>9. CASE ExecuteBranch(instr)
    <3>1. registers' \in [0..31 -> Value]
      BY <2>2, <2>3, <2>9 DEF ExecuteBranch
    <3>2. CASE IsTaken(instr)
      <4>1. Target(instr) \in Value
        BY <2>1, <2>9, TargetIsValue DEF ExecuteBranch
      <4>2. ReturnedInfoOK(Returned(instr, NextPC, 0))
        BY <2>2, <2>3, ReturnedFacts
      <4> QED BY <2>3, <2>9, <3>1, <3>2, <4>1, <4>2, TypesAfter DEF ExecuteBranch
    <3>3. CASE ~IsTaken(instr)
      BY <2>2, <2>9, <3>1, <3>3, GoOnKeepsTypes, TypesAfter DEF ExecuteBranch
    <3> QED BY <3>2, <3>3
  <2>10. CASE ExecuteLoad(instr)
    <3> DEFINE address == AccessAddress(instr)
               size    == AccessSize(instr.word.op)
    <3>1. address \in Value /\ size \in Sizes
      BY <2>1, <2>10, AccessAddressIsValue
         DEF ExecuteLoad, MemOps, LoadOps, AccessSize, Sizes
    <3>2. GetMemValue(memory, address, size) \in Value
      BY <3>1, GetIsValue, ValueIsInt DEF EmulatorTypeOK
    <3>3. registers' \in [0..31 -> Value]
      BY <2>2, <2>10, <3>2 DEF ExecuteLoad
    <3> QED BY <2>10, <3>1, <3>3, GoOnKeepsTypes, TypesAfter DEF ExecuteLoad
  <2>11. CASE ExecuteStore(instr)
    <3> DEFINE address == AccessAddress(instr)
               size    == AccessSize(instr.word.op)
    <3>1. address \in Value /\ size \in Sizes
      BY <2>1, <2>11, AccessAddressIsValue
         DEF ExecuteStore, MemOps, StoreOps, AccessSize, Sizes
    <3>2. memory' \in Memory
      <4>1. address \in Int /\ Rt(instr) \in Int
        BY <2>2, <3>1, ValueIsInt
      <4>2. memory' = SetMemValue(memory, address, Rt(instr), size)
        BY <2>11 DEF ExecuteStore
      <4> HIDE DEF address, size
      <4> QED BY <3>1, <4>1, <4>2, SetIsMemory DEF EmulatorTypeOK
    <3>3. ProgramOK(program') /\ din' \in 0..MaxDin
      BY <2>11, FetchKeepsTypes, StoreKeepsProgram DEF ExecuteStore
    <3>4. /\ PC' \in Value /\ savedBranch' \in Value /\ encounteredBranch' \in BOOLEAN
          /\ ReturnedInfoOK(info')
      BY <2>11, <3>1, GoOnKeepsTypes DEF ExecuteStore
    <3>5. registers' \in [0..31 -> Value]
      BY <2>2, <2>11 DEF ExecuteStore
    <3> QED BY <3>2, <3>3, <3>4, <3>5 DEF EmulatorTypeOK, ProgramOK, ReturnedInfoOK
  <2> QED BY <2>4, <2>5, <2>6, <2>7, <2>8, <2>9, <2>10, <2>11 DEF ExecuteInstruction
<1> QED BY <1>1, <1>2

LEMMA EmulatorStartsTyped == EmulatorInit => EmulatorTypeOK
<1> SUFFICES ASSUME EmulatorInit PROVE EmulatorTypeOK
  OBVIOUS
<1>1. 0 \in Value /\ 0 \in 0..MaxDin
  BY WordFacts, EmulatorAssumption DEF Value
<1>2. memory \in Memory
  BY ConstructedIsMemory, EmulatorAssumption DEF EmulatorInit
<1>3. DOMAIN program = {}
  BY DEF EmulatorInit
<1> QED BY <1>1, <1>2, <1>3 DEF EmulatorInit, EmulatorTypeOK, DefaultInfo

\* Registers hold words, the memory bytes, and the program counter, the pending target and
\* the returned addresses stay below 2^32, whatever program executeInstruction is given.
THEOREM EmulatorTypeCorrect == EmulatorSpec => []EmulatorTypeOK
BY EmulatorStartsTyped, EmulatorTypesStay, PTL DEF EmulatorSpec

-----------------------------------------------------------------------------
(***************************************************************************)
(* Every execution, in one place: what it returns and where it goes.       *)
(***************************************************************************)
LEMMA ReturnedFields ==
  ASSUME NEW instr, NEW next, NEW access, instr.word.op # "ILLEGAL",
         NEW i, i = Returned(instr, next, access)
  PROVE  /\ ~i.isOverflow /\ i.isValid
         /\ i.instructionID = din /\ i.word = instr.word /\ i.imm = instr.imm
         /\ i.nextPC = next
BY DEF Returned

LEMMA EachExecution ==
  ASSUME NEW instr, ExecuteInstruction(instr)
  PROVE  /\ din' = din + 1
         /\ info'.instructionID = din /\ info'.word = instr.word /\ info'.imm = instr.imm
         /\ info'.nextPC = PC'
         /\ ~Excepts(info') => PC' = NextPC
         /\ Excepts(info') <=> ExecuteOverflow(instr) \/ ExecuteIllegal(instr)
         /\ info'.isOverflow <=> ExecuteOverflow(instr)
<1> DEFINE Went == /\ info' = Returned(instr, NextPC, info'.accessAddress)
                   /\ PC' = NextPC /\ din' = din + 1
                   /\ instr.word.op # "ILLEGAL" /\ ~ExecuteOverflow(instr)
<1>1. CASE Went
  <2>1. ~ExecuteIllegal(instr)
    BY <1>1 DEF ExecuteIllegal
  <2>2. /\ ~info'.isOverflow /\ info'.isValid
        /\ info'.instructionID = din /\ info'.word = instr.word /\ info'.imm = instr.imm
        /\ info'.nextPC = NextPC
    <3>1. PICK access : info' = Returned(instr, NextPC, access)
      BY <1>1
    <3>2. instr.word.op # "ILLEGAL"
      BY <1>1
    <3> HIDE DEF Went
    <3> QED BY <3>1, <3>2, ReturnedFields
  <2> QED BY <1>1, <2>1, <2>2 DEF Excepts
<1>2. CASE ExecuteHalt(instr)
  <2>1. Went
    BY <1>2 DEF ExecuteHalt, GoOn, BeginExecution, ExecuteOverflow, Returned, OverflowOps
  <2> QED BY <1>1, <2>1
<1>3. CASE ExecuteCompute(instr)
  <2>1. Went
    BY <1>3 DEF ExecuteCompute, GoOn, BeginExecution, ExecuteOverflow, Returned,
                ShiftOps, RegisterOps, ImmediateOps, OverflowOps
  <2> QED BY <1>1, <2>1
<1>4. CASE ExecuteSum(instr)
  <2>1. Went
    BY <1>4 DEF ExecuteSum, GoOn, BeginExecution, ExecuteOverflow, Returned, OverflowOps
  <2> QED BY <1>1, <2>1
<1>5. CASE ExecuteBranch(instr)
  <2>1. Went
    BY <1>5 DEF ExecuteBranch, GoOn, BeginExecution, ExecuteOverflow, Returned,
                BranchOps, CompareBranchOps, SignBranchOps, JumpOps, OverflowOps
  <2> QED BY <1>1, <2>1
<1>6. CASE ExecuteLoad(instr)
  <2>1. Went
    BY <1>6 DEF ExecuteLoad, GoOn, BeginExecution, ExecuteOverflow, Returned, LoadOps, OverflowOps
  <2> QED BY <1>1, <2>1
<1>7. CASE ExecuteStore(instr)
  <2>1. Went
    BY <1>7 DEF ExecuteStore, GoOn, ExecuteOverflow, Returned, StoreOps, OverflowOps
  <2> QED BY <1>1, <2>1
<1>8. CASE ExecuteOverflow(instr)
  BY <1>8 DEF ExecuteOverflow, Trap, BeginExecution, Returned, Excepts
<1>9. CASE ExecuteIllegal(instr)
  <2>1. ~ExecuteOverflow(instr)
    BY <1>9 DEF ExecuteIllegal, ExecuteOverflow, OverflowOps
  <2> QED BY <1>9, <2>1 DEF ExecuteIllegal, Trap, BeginExecution, Returned, Excepts
<1> QED BY <1>2, <1>3, <1>4, <1>5, <1>6, <1>7, <1>8, <1>9 DEF ExecuteInstruction

\* The nextPC an instruction returns is the program counter it left behind, exceptions
\* included.
THEOREM NextPCIsRight == EmulatorSpec => []NextPCIsWhereExecutionGoes
<1>1. EmulatorInit => NextPCIsWhereExecutionGoes
  BY DEF EmulatorInit, NextPCIsWhereExecutionGoes
<1>2. NextPCIsWhereExecutionGoes /\ [EmulatorNext]_emulatorVars => NextPCIsWhereExecutionGoes'
  BY EachExecution DEF EmulatorNext, emulatorVars, NextPCIsWhereExecutionGoes
<1> QED BY <1>1, <1>2, PTL DEF EmulatorSpec

-----------------------------------------------------------------------------
(***************************************************************************)
(* No executed instruction looks like a bubble.  Only the first one has    *)
(* instructionID 0, and it is executed at address 0 with no branch         *)
(* pending: it returns nextPC 4, or it excepts.                            *)
(***************************************************************************)
BeforeFirst == din \in Nat /\ (din = 0 => PC = 0 /\ ~encounteredBranch)

BubbleInv == BeforeFirst /\ NeverABubble

\* The cycle simulator's test for bubbles, a comparison with a default InstructionInfo,
\* never takes an instruction that was executed for one.
THEOREM NoInstructionIsABubble == EmulatorSpec => []NeverABubble
<1>1. EmulatorInit => BubbleInv
  BY DEF EmulatorInit, BubbleInv, BeforeFirst, NeverABubble
<1>2. BubbleInv /\ [EmulatorNext]_emulatorVars => BubbleInv'
  <2> SUFFICES ASSUME BubbleInv, [EmulatorNext]_emulatorVars PROVE BubbleInv'
    OBVIOUS
  <2>1. CASE UNCHANGED emulatorVars
    BY <2>1 DEF emulatorVars, BubbleInv, BeforeFirst, NeverABubble
  <2>2. CASE EmulatorNext
    <3> PICK instr \in Fetchable : ExecuteInstruction(instr)
      BY <2>2 DEF EmulatorNext
    <3>1. din' = din + 1 /\ din \in Nat
      BY EachExecution DEF BubbleInv, BeforeFirst
    <3>2. ASSUME info' = DefaultInfo PROVE FALSE
      <4>1. info'.instructionID = 0 /\ info'.nextPC = 0 /\ ~Excepts(info')
        BY <3>2 DEF DefaultInfo, Excepts
      <4>2. din = 0 /\ NextPC = 0
        BY <4>1, EachExecution
      <4>3. NextPC = Wrap(4)
        BY <4>2 DEF BubbleInv, BeforeFirst, NextPC
      <4>4. Wrap(4) = 4
        BY WrapFacts, WordFacts
      <4> QED BY <4>2, <4>3, <4>4
    <3> QED BY <3>1, <3>2 DEF BubbleInv, BeforeFirst, NeverABubble
  <2> QED BY <2>1, <2>2
<1>3. BubbleInv => NeverABubble
  BY DEF BubbleInv
<1> QED BY <1>1, <1>2, <1>3, PTL DEF EmulatorSpec

-----------------------------------------------------------------------------
\* An instruction that excepts leaves registers and memory as it found them and forgets the
\* pending branch: what add, addi and sub wrote to the destination is taken back.
THEOREM PreciseInEmulator == EmulatorSpec => ExceptionsArePrecise
<1> DEFINE Precise == Excepts(info') =>
                        /\ \A r \in 1..31 : registers'[r] = registers[r]
                        /\ memory' = memory
                        /\ PC' = ExceptionAddress /\ ~encounteredBranch'
<1>1. EmulatorTypeOK /\ [EmulatorNext]_emulatorVars => [Precise]_emulatorVars
  <2> SUFFICES ASSUME EmulatorTypeOK, EmulatorNext, Excepts(info')
               PROVE  Precise
    OBVIOUS
  <2> PICK instr \in Fetchable : ExecuteInstruction(instr)
    BY DEF EmulatorNext
  <2>1. IsInstruction(instr)
    BY FetchedFacts
  <2>2. /\ Cleared \in [0..31 -> Value] /\ \A r \in 1..31 : Cleared[r] = registers[r]
    BY <2>1, OperandFacts
  <2>3. CASE ExecuteOverflow(instr)
    <3>1. Summed(instr) \in [0..31 -> Value]
      BY <2>1, <2>3, SummedIsValue DEF ExecuteOverflow
    <3>2. \A r \in 0..31 : Restored(instr)[r] = Cleared[r]
      BY <2>2, <3>1 DEF Restored, Summed
    <3> QED BY <2>2, <2>3, <3>2 DEF ExecuteOverflow, Trap
  <2>4. CASE ExecuteIllegal(instr)
    BY <2>2, <2>4 DEF ExecuteIllegal, Trap
  <2> QED BY <2>3, <2>4, EachExecution
<1> QED BY <1>1, EmulatorTypeCorrect, PTL DEF EmulatorSpec, ExceptionsArePrecise

-----------------------------------------------------------------------------
(***************************************************************************)
(* The overflow tests.  On the operands themselves they are right.         *)
(***************************************************************************)
LEMMA SignedFacts ==
  \A x \in Value : /\ Signed(x) \in Int /\ Representable(Signed(x))
                   /\ SignBit(x) <=> Signed(x) < 0
BY WordFacts, ValueIsInt DEF Signed, SignBit, Representable

LEMMA AddIsTested ==
  ASSUME NEW a \in Value, NEW b \in Value
  PROVE  LET s == Wrap(a + b)
             n == Signed(a) + Signed(b)
         IN  /\ AddOverflow(SignBit(a), SignBit(b), SignBit(s)) <=> ~Representable(n)
             /\ Representable(n) => Signed(s) = n
<1>1. /\ a \in Int /\ a >= 0 /\ a < WordSize /\ b \in Int /\ b >= 0 /\ b < WordSize
      /\ WordSize = 2 * SignedMax /\ SignedMax \in Nat
  BY ValueIsInt, WordFacts
<1>2. /\ a + b < WordSize => Wrap(a + b) = a + b
      /\ a + b >= WordSize => Wrap(a + b) = a + b - WordSize
  BY <1>1, WrapFacts
<1> QED BY <1>1, <1>2 DEF AddOverflow, SignBit, Signed, Representable

LEMMA SubIsTested ==
  ASSUME NEW a \in Value, NEW b \in Value
  PROVE  LET s == Wrap(a - b)
             n == Signed(a) - Signed(b)
         IN  /\ SubOverflow(SignBit(a), SignBit(b), SignBit(s)) <=> ~Representable(n)
             /\ Representable(n) => Signed(s) = n
<1>1. /\ a \in Int /\ a >= 0 /\ a < WordSize /\ b \in Int /\ b >= 0 /\ b < WordSize
      /\ WordSize = 2 * SignedMax /\ SignedMax \in Nat
  BY ValueIsInt, WordFacts
<1>2. /\ a - b >= 0 => Wrap(a - b) = a - b
      /\ a - b < 0 => Wrap(a - b) = a - b + WordSize
  BY <1>1, WrapFacts
<1> QED BY <1>1, <1>2 DEF SubOverflow, SignBit, Signed, Representable

\* Only the two kinds of executed sums return the word of a sum.
LEMMA SumsAre ==
  ASSUME NEW instr, ExecuteInstruction(instr), IsSum(info')
  PROVE  /\ info'.word = instr.word /\ info'.imm = instr.imm
         /\ instr.word.op \in OverflowOps
         /\ \/ ~Overflows(instr) /\ ~info'.isOverflow /\ registers' = Summed(instr)
            \/ Overflows(instr) /\ info'.isOverflow
<1>1. info'.word = instr.word /\ info'.imm = instr.imm /\ instr.word.op \in OverflowOps
  BY EachExecution DEF IsSum
<1>2. ExecuteSum(instr) \/ ExecuteOverflow(instr)
  BY <1>1 DEF ExecuteInstruction, ExecuteHalt, ExecuteCompute, ExecuteIllegal, ExecuteBranch,
              ExecuteLoad, ExecuteStore, OverflowOps, BranchOps, CompareBranchOps,
              SignBranchOps, JumpOps, LoadOps, StoreOps
<1>3. info'.isOverflow <=> ExecuteOverflow(instr)
  BY EachExecution
<1> QED BY <1>1, <1>2, <1>3 DEF ExecuteSum, ExecuteOverflow

\* The sum, its signs and its register, when the destination is not an operand.
LEMMA UnaliasedSum ==
  ASSUME EmulatorTypeOK, NEW instr, IsInstruction(instr),
         instr.word.op \in OverflowOps, ~Aliased(instr)
  PROVE  /\ Overflows(instr) <=> ~Representable(Exactly(instr, Cleared))
         /\ Representable(Exactly(instr, Cleared)) =>
              Signed(Summed(instr)[Dest(instr.word)]) = Exactly(instr, Cleared)
<1> DEFINE w == instr.word
           a == Cleared[w.rs]
           b == Cleared[w.rt]
           c == SignExt(instr.imm)
<1>1. /\ a \in Value /\ b \in Value /\ Rs(instr) = a /\ Rt(instr) = b
      /\ Cleared \in [0..31 -> Value]
      /\ w.rs \in 0..31 /\ w.rt \in 0..31 /\ w.rd \in 0..31
  BY OperandFacts DEF Rs, Rt
<1>2. CASE w.op = "ADD"
  <2>1. Dest(w) = w.rd /\ w.rd # w.rs /\ w.rd # w.rt
    BY <1>2 DEF Aliased, Reads, ReadsRs, ReadsRt, Dest, RegisterOps, ShiftOps
  <2>2. Summed(instr) = [Cleared EXCEPT ![w.rd] = Wrap(a + b)]
    BY <1>1, <1>2, <2>1 DEF Summed
  <2>3. /\ Summed(instr)[w.rs] = a /\ Summed(instr)[w.rt] = b
        /\ Summed(instr)[w.rd] = Wrap(a + b)
    BY <1>1, <2>1, <2>2
  <2>4. Overflows(instr) <=> AddOverflow(SignBit(a), SignBit(b), SignBit(Wrap(a + b)))
    BY <1>2, <2>3, Zenon DEF Overflows, OverflowsIn
  <2>5. Exactly(instr, Cleared) = Signed(a) + Signed(b)
    BY <1>2 DEF Exactly
  <2> QED BY <1>1, <2>1, <2>3, <2>4, <2>5, AddIsTested
<1>3. CASE w.op = "ADDI"
  <2>1. Dest(w) = w.rt /\ w.rt # w.rs
    BY <1>3 DEF Aliased, Reads, ReadsRs, Dest, RegisterOps, ImmediateOps, ShiftOps
  <2>2. Summed(instr) = [Cleared EXCEPT ![w.rt] = Wrap(a + c)]
    BY <1>1, <1>3, <2>1 DEF Summed
  <2>3. Summed(instr)[w.rs] = a /\ Summed(instr)[w.rt] = Wrap(a + c)
    BY <1>1, <2>1, <2>2
  <2>4. Overflows(instr) <=> AddOverflow(SignBit(a), SignBit(c), SignBit(Wrap(a + c)))
    BY <1>3, <2>3, Zenon DEF Overflows, OverflowsIn
  <2>5. Exactly(instr, Cleared) = Signed(a) + Signed(c)
    BY <1>3 DEF Exactly
  <2>6. c \in Value
    BY <1>3, SignExtIsValue DEF IsInstruction, ImmBound, ShiftOps
  <2> QED BY <1>1, <2>1, <2>3, <2>4, <2>5, <2>6, AddIsTested
<1>4. CASE w.op = "SUB"
  <2>1. Dest(w) = w.rd /\ w.rd # w.rs /\ w.rd # w.rt
    BY <1>4 DEF Aliased, Reads, ReadsRs, ReadsRt, Dest, RegisterOps, ShiftOps
  <2>2. Summed(instr) = [Cleared EXCEPT ![w.rd] = Wrap(a - b)]
    BY <1>1, <1>4, <2>1 DEF Summed
  <2>3. /\ Summed(instr)[w.rs] = a /\ Summed(instr)[w.rt] = b
        /\ Summed(instr)[w.rd] = Wrap(a - b)
    BY <1>1, <2>1, <2>2
  <2>4. Overflows(instr) <=> SubOverflow(SignBit(a), SignBit(b), SignBit(Wrap(a - b)))
    BY <1>4, <2>3, Zenon DEF Overflows, OverflowsIn
  <2>5. Exactly(instr, Cleared) = Signed(a) - Signed(b)
    BY <1>4 DEF Exactly
  <2> QED BY <1>1, <2>1, <2>3, <2>4, <2>5, SubIsTested
<1> QED BY <1>2, <1>3, <1>4 DEF OverflowOps

\* An add, addi or sub whose destination is not one of its operands traps exactly when its
\* result is out of the signed range, and otherwise leaves the exact sum, whatever the width
\* of a word.
THEOREM SumsAreTested == EmulatorSpec => OverflowUnlessAliased
<1> DEFINE Right == IsSum(info') /\ ~Aliased(info') => SumsRightly
<1>1. EmulatorTypeOK /\ [EmulatorNext]_emulatorVars => [Right]_emulatorVars
  <2> SUFFICES ASSUME EmulatorTypeOK, EmulatorNext, IsSum(info'), ~Aliased(info')
               PROVE  SumsRightly
    OBVIOUS
  <2> PICK instr \in Fetchable : ExecuteInstruction(instr)
    BY DEF EmulatorNext
  <2>1. IsInstruction(instr)
    BY FetchedFacts
  <2>2. /\ info'.word = instr.word /\ info'.imm = instr.imm /\ instr.word.op \in OverflowOps
        /\ \/ ~Overflows(instr) /\ ~info'.isOverflow /\ registers' = Summed(instr)
           \/ Overflows(instr) /\ info'.isOverflow
    BY SumsAre
  <2>3. ~Aliased(instr)
    BY <2>2 DEF Aliased
  <2>4. Exactly(info', Cleared) = Exactly(instr, Cleared)
    BY <2>2 DEF Exactly
  <2> QED BY <2>1, <2>2, <2>3, <2>4, UnaliasedSum DEF SumsRightly
<1> QED BY <1>1, EmulatorTypeCorrect, PTL DEF EmulatorSpec, OverflowUnlessAliased

\* The test is blind where the destination is an operand: the sign it compares with is that
\* of the sum itself.  Such an add or addi never traps, however large its sum.
AliasedSumIsMissed ==
  info'.word.op \in {"ADD", "ADDI"} /\ Aliased(info') => ~info'.isOverflow

\* add and addi into one of their operands execute without a trap in every program.
THEOREM AliasedSumNeverTraps == EmulatorSpec => [][AliasedSumIsMissed]_emulatorVars
<1>1. [EmulatorNext]_emulatorVars => [AliasedSumIsMissed]_emulatorVars
  <2> SUFFICES ASSUME EmulatorNext, info'.word.op \in {"ADD", "ADDI"}, Aliased(info')
               PROVE  ~info'.isOverflow
    BY DEF AliasedSumIsMissed
  <2> PICK instr \in Fetchable : ExecuteInstruction(instr)
    BY DEF EmulatorNext
  <2>1. IsSum(info')
    BY DEF IsSum, OverflowOps
  <2>2. /\ info'.word = instr.word
        /\ Overflows(instr) \/ ~info'.isOverflow
    BY <2>1, SumsAre
  <2> DEFINE w == instr.word
             rs == SignBit(Summed(instr)[w.rs])
             rt == SignBit(Summed(instr)[w.rt])
             rd == SignBit(Summed(instr)[w.rd])
  <2>3. CASE w.op = "ADD"
    <3>1. w.rd = w.rs \/ w.rd = w.rt
      BY <2>2, <2>3 DEF Aliased, Reads, ReadsRs, ReadsRt, Dest, RegisterOps, ShiftOps,
                        ImmediateOps, MemOps, LoadOps, StoreOps, BranchOps, CompareBranchOps,
                        SignBranchOps
    <3>2. Overflows(instr) <=> AddOverflow(rs, rt, rd)
      BY <2>3 DEF Overflows, OverflowsIn
    <3>3. ~AddOverflow(rs, rt, rd)
      BY <3>1 DEF AddOverflow
    <3> QED BY <2>2, <3>2, <3>3
  <2>4. CASE w.op = "ADDI"
    <3>1. w.rt = w.rs
      BY <2>2, <2>4 DEF Aliased, Reads, ReadsRs, ReadsRt, Dest, RegisterOps, ShiftOps,
                        ImmediateOps, MemOps, LoadOps, StoreOps, BranchOps, CompareBranchOps,
                        SignBranchOps
    <3>2. Overflows(instr) <=> AddOverflow(rs, SignBit(SignExt(instr.imm)), rt)
      BY <2>4 DEF Overflows, OverflowsIn
    <3>3. ~AddOverflow(rs, SignBit(SignExt(instr.imm)), rt)
      BY <3>1 DEF AddOverflow
    <3> QED BY <2>2, <3>2, <3>3
  <2> QED BY <2>2, <2>3, <2>4
<1> QED BY <1>1, PTL DEF EmulatorSpec

-----------------------------------------------------------------------------
(***************************************************************************)
(* Branch delay slots.                                                     *)
(***************************************************************************)
LEMMA FourTurns ==
  ASSUME NEW x \in Int, NEW n \in Nat \ {0}
  PROVE  (x + 4 * n) % n = x % n
<1>1. \A k \in Int : (x + k * n) % n = x % n
  BY ModShift
<1> QED BY <1>1

\* A branch's target, counted from the delay slot.
LEMMA OffsetFacts ==
  ASSUME EmulatorTypeOK, NEW imm \in 0..HalfSize - 1
  PROVE  Wrap(NextPC + SignExt(imm) * 4)
           = (NextPC + Architecture!Offset(imm)) % WordSize
<1> DEFINE x == NextPC + Architecture!Offset(imm)
           y == NextPC + SignExt(imm) * 4
<1>1. NextPC \in Int /\ imm \in Int
  BY NextPCIsValue, ValueIsInt
<1>2. WordSize \in Nat \ {0} /\ HalfSize \in Nat /\ HalfSize \div 2 \in Int
  BY WordFacts
<1>3. CASE imm >= HalfSize \div 2
  <2>1. y = x + 4 * WordSize /\ x \in Int
    BY <1>1, <1>2, <1>3 DEF SignExt, Architecture!Offset
  <2> HIDE DEF x
  <2>2. (x + 4 * WordSize) % WordSize = x % WordSize
    BY <1>2, <2>1, FourTurns
  <2> QED BY <2>1, <2>2 DEF Wrap, x
<1>4. CASE ~(imm >= HalfSize \div 2)
  <2>1. y = x
    BY <1>1, <1>2, <1>4 DEF SignExt, Architecture!Offset
  <2> QED BY <2>1 DEF Wrap
<1> QED BY <1>3, <1>4

LEMMA StepsKeepPosition ==
  ASSUME EmulatorTypeOK, NEW instr \in Fetchable, ExecuteInstruction(instr)
  PROVE  Architecture!Step
<1> DEFINE op == instr.word.op
<1>1. IsInstruction(instr)
  BY FetchedFacts
<1>2. info'.word.op = op /\ info'.imm = instr.imm
  BY EachExecution
<1>3. ASSUME PC' = NextPC, encounteredBranch' = FALSE, op \notin JumpOps \cup {"ILLEGAL"}
      PROVE  Architecture!Step
  BY <1>2, <1>3 DEF Architecture!Step, Architecture!Sequential, Architecture!Jumps, JumpOps,
                    NextPC, Wrap
<1>4. CASE ExecuteHalt(instr)
  BY <1>3, <1>4 DEF ExecuteHalt, GoOn, JumpOps
<1>5. CASE ExecuteCompute(instr)
  BY <1>3, <1>5 DEF ExecuteCompute, GoOn, ShiftOps, RegisterOps, ImmediateOps, JumpOps
<1>6. CASE ExecuteSum(instr)
  BY <1>3, <1>6 DEF ExecuteSum, GoOn, OverflowOps, JumpOps
<1>7. CASE ExecuteOverflow(instr) \/ ExecuteIllegal(instr)
  <2>1. op \in Architecture!Trapping
    BY <1>7 DEF ExecuteOverflow, ExecuteIllegal, OverflowOps, Architecture!Trapping
  <2>2. PC' = ExceptionAddress /\ encounteredBranch' = FALSE
    BY <1>7 DEF ExecuteOverflow, ExecuteIllegal, Trap
  <2> QED BY <1>2, <2>1, <2>2 DEF Architecture!Step, Architecture!Exception, Wrap
<1>8. CASE ExecuteBranch(instr)
  <2>1. CASE ~IsTaken(instr)
    <3>1. op \notin JumpOps \cup {"ILLEGAL"}
      BY <1>8, <2>1 DEF ExecuteBranch, IsTaken, JumpOps, BranchOps, CompareBranchOps, SignBranchOps
    <3> QED BY <1>3, <1>8, <2>1, <3>1 DEF ExecuteBranch, GoOn
  <2>2. CASE IsTaken(instr)
    <3>1. PC' = NextPC /\ encounteredBranch' = TRUE /\ savedBranch' = Target(instr)
      BY <1>8, <2>2 DEF ExecuteBranch
    <3>2. CASE op \in BranchOps
      <4>1. instr.imm \in 0..HalfSize - 1
        BY <1>1, <3>2 DEF IsInstruction, ImmBound, ShiftOps, BranchOps, CompareBranchOps, SignBranchOps
      <4>2. Target(instr) = (NextPC + Architecture!Offset(instr.imm)) % WordSize
        BY <3>2, <4>1, OffsetFacts DEF Target, BranchTarget, BranchOps, CompareBranchOps, SignBranchOps
      <4> HIDE DEF Architecture!Offset
      <4> QED BY <1>2, <3>1, <3>2, <4>2
              DEF Architecture!Step, Architecture!Branch, Architecture!Relative, BranchOps,
                  CompareBranchOps, SignBranchOps, NextPC
    <3>3. CASE op \in {"J", "JAL"}
      <4>1. instr.imm \in 0..(JumpRegion \div 4) - 1
        BY <1>1, <3>3 DEF IsInstruction, ImmBound, ShiftOps
      <4>2. Target(instr) = JumpTarget(instr) /\ NextPC \in Value
        BY <3>3, NextPCIsValue DEF Target
      <4>3. /\ JumpTarget(instr) \div JumpRegion = NextPC \div JumpRegion
            /\ JumpTarget(instr) % JumpRegion = 4 * instr.imm
        BY <4>1, <4>2, RegionFacts DEF JumpTarget
      <4> HIDE DEF JumpTarget
      <4> QED BY <1>2, <3>1, <3>3, <4>2, <4>3
              DEF Architecture!Step, Architecture!Jump, NextPC
    <3>4. CASE op = "JR"
      <4>1. Target(instr) \in 0..WordSize - 1
        BY <1>1, <3>4, OperandFacts DEF Target, Value
      <4> QED BY <1>2, <3>1, <3>4, <4>1
              DEF Architecture!Step, Architecture!JumpRegister, NextPC
    <3> QED BY <1>8, <3>2, <3>3, <3>4 DEF ExecuteBranch, JumpOps
  <2> QED BY <2>1, <2>2
<1>9. CASE ExecuteLoad(instr)
  BY <1>3, <1>9 DEF ExecuteLoad, GoOn, LoadOps, JumpOps
<1>10. CASE ExecuteStore(instr)
  BY <1>3, <1>10 DEF ExecuteStore, GoOn, StoreOps, JumpOps
<1> QED BY <1>4, <1>5, <1>6, <1>7, <1>8, <1>9, <1>10 DEF ExecuteInstruction

\* executeInstruction, with its one flag and one saved address, implements branch delay
\* slots: a branch takes effect behind the instruction that follows it, also when that is a
\* branch itself or excepts.
THEOREM BranchesHaveDelaySlots == EmulatorSpec => HasDelaySlots
<1>1. EmulatorInit => Architecture!Start
  <2>1. Wrap(4) = 4
    BY WordFacts, WrapFacts
  <2> QED BY <2>1 DEF EmulatorInit, Architecture!Start
<1>2. EmulatorTypeOK /\ [EmulatorNext]_emulatorVars => [Architecture!Step]_Architecture!position
  <2> SUFFICES ASSUME EmulatorTypeOK, [EmulatorNext]_emulatorVars
               PROVE  Architecture!Step \/ UNCHANGED Architecture!position
    OBVIOUS
  <2>1. CASE UNCHANGED emulatorVars
    BY <2>1 DEF emulatorVars, Architecture!position
  <2>2. CASE EmulatorNext
    BY <2>2, StepsKeepPosition DEF EmulatorNext
  <2> QED BY <2>1, <2>2
<1> QED BY <1>1, <1>2, EmulatorTypeCorrect, PTL
        DEF EmulatorSpec, HasDelaySlots, Architecture!DelaySlotSpec

-----------------------------------------------------------------------------
(***************************************************************************)
(* What loads read of what a store left.                                   *)
(***************************************************************************)
\* The place values are powers of ByteSize.
LEMMA PowerFacts ==
  /\ \A n \in 0..4 : Power(n) \in Nat \ {0}
  /\ \A n, k \in 0..4 : n + k <= 4 => Power(n + k) = Power(k) * Power(n)
  /\ \A size \in Sizes : \A i \in 0..size - 1 : Place(i, size) = Power(size - 1 - i)
<1> DEFINE B == ByteSize
<1>1. B \in Nat \ {0} /\ HalfSize = B * B /\ WordSize = (B * B) * (B * B)
  BY AluAssumption DEF HalfSize, WordSize
<1>2. /\ Power(0) = 1 /\ Power(1) = B /\ Power(2) = B * B /\ Power(3) = B * (B * B)
      /\ Power(4) = (B * B) * (B * B)
  BY <1>1 DEF Power
<1>3. B * B \in Nat \ {0} /\ B * (B * B) \in Nat \ {0} /\ (B * B) * (B * B) \in Nat \ {0}
  BY <1>1
<1>4. \A n \in 0..4 : n = 0 \/ n = 1 \/ n = 2 \/ n = 3 \/ n = 4
  OBVIOUS
<1>5. ASSUME NEW n \in 0..4
      PROVE  Power(n) \in Nat \ {0}
  BY <1>2, <1>3, <1>1, <1>4
<1>6. ASSUME NEW n \in 0..4, NEW k \in 0..4, n + k <= 4
      PROVE  Power(n + k) = Power(k) * Power(n)
  <2>1. /\ B * 1 = B /\ 1 * B = B /\ (B * B) * 1 = B * B /\ 1 * (B * B) = B * B
        /\ (B * B) * B = B * (B * B) /\ B * (B * (B * B)) = (B * B) * (B * B)
        /\ (B * (B * B)) * B = (B * B) * (B * B)
        /\ (B * (B * B)) * 1 = B * (B * B) /\ 1 * (B * (B * B)) = B * (B * B)
        /\ ((B * B) * (B * B)) * 1 = (B * B) * (B * B) /\ 1 * ((B * B) * (B * B)) = (B * B) * (B * B)
        /\ 1 * 1 = 1
    BY <1>1
  <2>2. CASE n = 0
    <3>1. Power(n + k) = Power(k) /\ Power(n) = 1 /\ Power(k) \in Nat
      BY <1>2, <1>5, <2>2
    <3> QED BY <3>1
  <2>3. CASE k = 0
    <3>1. Power(n + k) = Power(n) /\ Power(k) = 1 /\ Power(n) \in Nat
      BY <1>2, <1>5, <2>3
    <3> QED BY <3>1
  <2>4. CASE n = 1 /\ k = 1
    BY <1>2, <2>4
  <2>5. CASE n = 1 /\ k = 2
    BY <1>2, <2>1, <2>5
  <2>6. CASE n = 1 /\ k = 3
    BY <1>2, <2>1, <2>6
  <2>7. CASE n = 2 /\ k = 1
    BY <1>2, <2>1, <2>7
  <2>8. CASE n = 2 /\ k = 2
    BY <1>2, <2>8
  <2>9. CASE n = 3 /\ k = 1
    BY <1>2, <2>1, <2>9
  <2> QED BY <1>4, <1>6, <2>2, <2>3, <2>4, <2>5, <2>6, <2>7, <2>8, <2>9
<1>7. ASSUME NEW size \in Sizes, NEW i \in 0..size - 1
      PROVE  Place(i, size) = Power(size - 1 - i)
  <2>1. size - 1 - i = 0 \/ size - 1 - i = 1 \/ size - 1 - i = 2 \/ size - 1 - i = 3
    BY DEF Sizes
  <2>2. B * B * B = B * (B * B)
    BY <1>1
  <2> QED BY <1>2, <2>1, <2>2 DEF Place
<1> QED BY <1>5, <1>6, <1>7

\* The lowest bytes of a number, the most significant first, make up what it leaves modulo
\* their power.
LEMMA BytesOf ==
  ASSUME NEW w \in Nat
  PROVE  LET byte(k) == (w \div Power(k)) % ByteSize
         IN  /\ w % Power(1) = byte(0) * Power(0)
             /\ w % Power(2) = byte(1) * Power(1) + byte(0) * Power(0)
             /\ w % Power(4) = byte(3) * Power(3) + byte(2) * Power(2)
                                + byte(1) * Power(1) + byte(0) * Power(0)
<1> DEFINE byte(k) == (w \div Power(k)) % ByteSize
<1>1. Power(0) = 1 /\ Power(1) = ByteSize
  BY DEF Power
<1>2. ASSUME NEW k \in 0..3
      PROVE  w % Power(k + 1) = (w % Power(k)) + byte(k) * Power(k)
  <2>1. k \in 0..4 /\ 1 \in 0..4 /\ k + 1 <= 4
    OBVIOUS
  <2>2. Power(k) \in Nat \ {0} /\ ByteSize \in Nat \ {0}
    BY <2>1, PowerFacts, AluAssumption
  <2>3. Power(k + 1) = ByteSize * Power(k)
    BY <1>1, <2>1, PowerFacts, Zenon
  <2> DEFINE p == Power(k)
  <2>4. w % (ByteSize * p) = (w % p) + ((w \div p) % ByteSize) * p
    <3> HIDE DEF p
    <3>1. p \in Nat \ {0} /\ ByteSize \in Nat \ {0}
      BY <2>2 DEF p
    <3> QED BY <3>1, DivideTwice
  <2> QED BY <2>3, <2>4, Zenon
<1>3. w % Power(0) = 0
  BY <1>1
<1>4. \A k \in 0..3 : byte(k) \in Nat /\ Power(k) \in Nat /\ byte(k) * Power(k) \in Nat
  <2>1. \A k \in 0..3 : Power(k) \in Nat \ {0} /\ w \div Power(k) \in Int
    <3>1. \A k \in 0..3 : k \in 0..4
      OBVIOUS
    <3>2. \A k \in 0..3 : Power(k) \in Nat \ {0}
      BY <3>1, PowerFacts, Zenon
    <3>3. \A n \in Nat \ {0} : w \div n \in Int
      OBVIOUS
    <3> QED BY <3>2, <3>3, Zenon
  <2>2. \A x \in Int : x % ByteSize \in Nat
    BY AluAssumption
  <2>3. \A k \in 0..3 : byte(k) \in Nat
    BY <2>1, <2>2
  <2> HIDE DEF byte
  <2> QED BY <2>1, <2>3
<1> HIDE DEF byte
<1>5. /\ w % Power(1) = (w % Power(0)) + byte(0) * Power(0)
      /\ w % Power(2) = (w % Power(1)) + byte(1) * Power(1)
      /\ w % Power(3) = (w % Power(2)) + byte(2) * Power(2)
      /\ w % Power(4) = (w % Power(3)) + byte(3) * Power(3)
  <2>1. 0 \in 0..3 /\ 1 \in 0..3 /\ 2 \in 0..3 /\ 3 \in 0..3
        /\ 0 + 1 = 1 /\ 1 + 1 = 2 /\ 2 + 1 = 3 /\ 3 + 1 = 4
    OBVIOUS
  <2> QED BY <1>2, <2>1
<1>6. /\ byte(0) * Power(0) \in Nat /\ byte(1) * Power(1) \in Nat
      /\ byte(2) * Power(2) \in Nat /\ byte(3) * Power(3) \in Nat
  BY <1>4
<1>7. /\ w % Power(1) = byte(0) * Power(0)
      /\ w % Power(2) = byte(1) * Power(1) + byte(0) * Power(0)
      /\ w % Power(4) = byte(3) * Power(3) + byte(2) * Power(2)
                         + byte(1) * Power(1) + byte(0) * Power(0)
  BY <1>3, <1>5, <1>6
<1> QED BY <1>7 DEF byte

\* A load behind a store of which it reads a part.
LEMMA StoreThenLoad ==
  ASSUME NEW m \in Memory, NEW address \in Value, NEW value \in Value, NEW size \in Sizes,
         NEW part \in Sizes, NEW o \in 0..size - part, ~IsAccessViolation(address, o + part)
  PROVE  GetMemValue(SetMemValue(m, address, value, size), AddressOf(address, o), part)
           = PartOf(value, size, o, part)
<1> DEFINE after == SetMemValue(m, address, value, size)
           at    == AddressOf(address, o)
           n     == size - o - part
           w     == value \div Power(n)
           byte(k) == (w \div Power(k)) % ByteSize
<1>1. size \in 1..4 /\ part \in 1..4 /\ o \in Nat /\ o + part \in 1..4 /\ o + part <= size
      /\ n \in 0..4 /\ n + part <= 4
  BY DEF Sizes
<1>2. /\ address + (o + part) <= MemorySize /\ address \in Nat
      /\ \A i \in 0..o + part - 1 : AddressOf(address, i) = address + i
  BY <1>1, Inside, ValueIsInt
<1>3. MemorySize \in Nat /\ MemorySize < WordSize /\ WordSize \in Nat
  BY MemoryAssumption, WordFacts
<1>4. at = address + o
  BY <1>1, <1>2
<1>5. ASSUME NEW j \in 0..part - 1
      PROVE  AddressOf(at, j) = address + (o + j) /\ address + (o + j) \in 0..MemorySize - 1
  <2>1. address + (o + j) \in 0..MemorySize - 1
    BY <1>1, <1>2, <1>3
  <2>2. at + j = address + (o + j)
    BY <1>1, <1>2, <1>4
  <2>3. AddressOf(at, j) = Wrap(address + (o + j))
    BY <2>2 DEF AddressOf
  <2>4. Wrap(address + (o + j)) = address + (o + j)
    BY <1>3, <2>1, WrapFacts
  <2> QED BY <2>1, <2>3, <2>4
<1>6. Reached(at, part) = 0..part - 1
  <2>1. \A j \in 0..part - 1 : \A i \in 0..j : i \in 0..part - 1
    BY <1>1
  <2>2. \A j \in 0..part - 1 : AddressOf(at, j) < MemorySize
    BY <1>3, <1>5
  <2> QED BY <2>1, <2>2 DEF Reached
<1>7. value \in Nat /\ Power(n) \in Nat \ {0} /\ w \in Nat
  <2>1. value \in Nat /\ Power(n) \in Nat \ {0}
    <3>1. value \in Nat
      BY ValueIsInt
    <3> HIDE DEF n
    <3>2. Power(n) \in Nat \ {0}
      BY <1>1, PowerFacts, Zenon
    <3> QED BY <3>1, <3>2
  <2> HIDE DEF n
  <2>2. value \div Power(n) \in Nat
    BY <2>1, Quotient
  <2> QED BY <2>1, <2>2
<1>8. ASSUME NEW j \in 0..part - 1
      PROVE  after[AddressOf(at, j)] * Place(j, part) = byte(part - 1 - j) * Power(part - 1 - j)
  <2> DEFINE k == part - 1 - j
             b == address + (o + j)
  <2>1. k \in 0..4 /\ n + k <= 4 /\ size - 1 - (o + j) = n + k /\ o + j \in 0..size - 1
    BY <1>1
  <2>2. o + j \in Reached(address, size)
    <3>1. \A i \in 0..o + j : i \in 0..o + part - 1
      BY <1>1
    <3>2. \A i \in 0..o + part - 1 : address + i < MemorySize
      BY <1>1, <1>2, <1>3
    <3> QED BY <1>2, <2>1, <3>1, <3>2 DEF Reached
  <2>3. b \in 0..MemorySize - 1
    BY <1>5
  <2>4. after[b] = (value \div Place(o + j, size)) % ByteSize
    <3>1. HasBytes(m)
      BY DEF Memory, HasBytes
    <3> QED BY <1>1, <2>2, <2>3, <3>1, StoredByte
  <2>5. Place(o + j, size) = Power(n + k)
    BY <2>1, PowerFacts
  <2>6. Power(n + k) = Power(k) * Power(n) /\ Power(k) \in Nat \ {0}
    <3> HIDE DEF n, k
    <3> QED BY <1>1, <2>1, PowerFacts
  <2>7. value \div (Power(k) * Power(n)) = w \div Power(k)
    <3> HIDE DEF n, k
    <3> QED BY <1>7, <2>6, DivideTwice
  <2>8. Place(j, part) = Power(k)
    BY PowerFacts
  <2>9. after[b] = byte(k)
    <3> HIDE DEF after, b, w, n, k
    <3> QED BY <2>4, <2>5, <2>6, <2>7
  <2> HIDE DEF after, byte, at
  <2> QED BY <1>5, <2>8, <2>9
<1>9. \A j : j \notin 0..part - 1 => j \notin Reached(at, part)
  BY <1>6
<1> DEFINE term(j) == IF j \in Reached(at, part)
                      THEN after[AddressOf(at, j)] * Place(j, part) ELSE 0
<1>10. GetMemValue(after, at, part) = term(0) + term(1) + term(2) + term(3)
  BY DEF GetMemValue
<1>11. /\ \A j \in 0..part - 1 : term(j) = byte(part - 1 - j) * Power(part - 1 - j)
       /\ \A j : j \notin 0..part - 1 => term(j) = 0
  BY <1>6, <1>8
<1> HIDE DEF term, byte
<1>12. /\ w % Power(1) = byte(0) * Power(0)
       /\ w % Power(2) = byte(1) * Power(1) + byte(0) * Power(0)
       /\ w % Power(4) = byte(3) * Power(3) + byte(2) * Power(2)
                          + byte(1) * Power(1) + byte(0) * Power(0)
  <2> HIDE DEF w
  <2> QED BY <1>7, BytesOf DEF byte
<1>13. \A k \in 0..3 : byte(k) * Power(k) \in Nat
  <2>1. \A k \in 0..3 : k \in 0..4
    OBVIOUS
  <2>2. \A k \in 0..3 : Power(k) \in Nat \ {0}
    BY <2>1, PowerFacts, Zenon
  <2>3. \A k \in 0..3 : w \div Power(k) \in Int
    <3> HIDE DEF w
    <3>1. \A d \in Nat \ {0} : w \div d \in Int
      BY <1>7
    <3> QED BY <2>2, <3>1, Zenon
  <2>4. \A x \in Int : x % ByteSize \in Nat
    BY AluAssumption
  <2>5. \A k \in 0..3 : byte(k) \in Nat
    <3> HIDE DEF w
    <3> QED BY <2>3, <2>4 DEF byte
  <2> QED BY <2>2, <2>5
<1>14. PartOf(value, size, o, part) = w % Power(part)
  BY DEF PartOf
<1> HIDE DEF after, at, w
<1> DEFINE Same == GetMemValue(after, at, part) = PartOf(value, size, o, part)
<1>15. ASSUME part = 1 PROVE Same
  <2>1. term(0) = byte(0) * Power(0) /\ term(1) = 0 /\ term(2) = 0 /\ term(3) = 0
    BY <1>11, <1>15
  <2>2. byte(0) * Power(0) \in Nat
    BY <1>13
  <2> QED BY <1>10, <1>12, <1>14, <1>15, <2>1, <2>2
<1>16. ASSUME part = 2 PROVE Same
  <2>1. /\ term(0) = byte(1) * Power(1) /\ term(1) = byte(0) * Power(0)
        /\ term(2) = 0 /\ term(3) = 0
    BY <1>11, <1>16
  <2>2. byte(0) * Power(0) \in Nat /\ byte(1) * Power(1) \in Nat
    BY <1>13
  <2> QED BY <1>10, <1>12, <1>14, <1>16, <2>1, <2>2
<1>17. ASSUME part = 4 PROVE Same
  <2>1. /\ term(0) = byte(3) * Power(3) /\ term(1) = byte(2) * Power(2)
        /\ term(2) = byte(1) * Power(1) /\ term(3) = byte(0) * Power(0)
    BY <1>11, <1>17
  <2> QED BY <1>10, <1>12, <1>14, <1>17, <2>1
<1> QED BY <1>15, <1>16, <1>17 DEF Sizes, after, at

\* A load of any size sees what the last store left, byte, half word or word, and a store
\* changes no other byte; across the end of the memory this holds of the bytes inside.
THEOREM StoresAreSeen == EmulatorSpec => LoadsSeeStores
<1> DEFINE Sees ==
      LET address == info'.accessAddress
          size    == AccessSize(info'.word.op)
          value   == Cleared[info'.word.rt]
      IN  /\ \A part \in Sizes : \A o \in 0..size - part :
               ~IsAccessViolation(address, o + part) =>
                 GetMemValue(memory', AddressOf(address, o), part)
                   = PartOf(value, size, o, part)
          /\ \A b \in 0..MemorySize - 1 : b \notin address..address + size - 1 =>
               memory'[b] = memory[b]
<1>1. EmulatorTypeOK /\ [EmulatorNext]_emulatorVars
        => [info'.word.op \in StoreOps => Sees]_emulatorVars
  <2> SUFFICES ASSUME EmulatorTypeOK, EmulatorNext, info'.word.op \in StoreOps PROVE Sees
    OBVIOUS
  <2>1. PICK instr \in Fetchable : ExecuteInstruction(instr)
    BY DEF EmulatorNext
  <2>2. info'.word = instr.word
    BY <2>1, EachExecution
  <2>3. ExecuteStore(instr)
    BY <2>1, <2>2 DEF ExecuteInstruction, ExecuteHalt, ExecuteCompute, ExecuteSum,
       ExecuteOverflow, ExecuteIllegal, ExecuteBranch, ExecuteLoad, ShiftOps, RegisterOps,
       ImmediateOps, OverflowOps, BranchOps, CompareBranchOps, SignBranchOps, JumpOps,
       LoadOps, StoreOps
  <2> DEFINE address == AccessAddress(instr)
             size    == AccessSize(instr.word.op)
             value   == Rt(instr)
  <2>4. info'.accessAddress = address /\ memory' = SetMemValue(memory, address, value, size)
    BY <2>3 DEF ExecuteStore, GoOn, Returned
  <2>5. address \in Value /\ value \in Value /\ size \in Sizes /\ memory \in Memory
    <3>1. IsInstruction(instr)
      BY FetchedFacts
    <3>2. address \in Value /\ value \in Value
      <4>1. instr.word.op \in MemOps
        BY <2>2 DEF MemOps
      <4> QED BY <3>1, <4>1, OperandFacts, AccessAddressIsValue
    <3>3. size \in Sizes
      BY <2>2 DEF AccessSize, StoreOps, Sizes
    <3> QED BY <3>2, <3>3 DEF EmulatorTypeOK
  <2>6. AccessSize(info'.word.op) = size /\ Cleared[info'.word.rt] = value
    BY <2>2 DEF Rt
  <2> HIDE DEF address, size, value
  <2>7. ASSUME NEW part \in Sizes, NEW o \in 0..size - part, ~IsAccessViolation(address, o + part)
        PROVE  GetMemValue(memory', AddressOf(address, o), part) = PartOf(value, size, o, part)
    BY <2>4, <2>5, <2>7, StoreThenLoad
  <2>8. ASSUME NEW b \in 0..MemorySize - 1, b \notin address..address + size - 1
        PROVE  memory'[b] = memory[b]
    <3>1. size \in 1..4 /\ HasBytes(memory) /\ ~Covers(address, size, b)
      BY <2>5, <2>8 DEF Sizes, Memory, HasBytes, Covers
    <3>2. SetMemValue(memory, address, value, size)[b] = memory[b]
      BY <2>5, <3>1, KeptByte, Zenon
    <3> QED BY <2>4, <3>2
  <2> QED BY <2>4, <2>6, <2>7, <2>8
<1> QED BY <1>1, EmulatorTypeCorrect, PTL DEF EmulatorSpec, LoadsSeeStores

-----------------------------------------------------------------------------
(***************************************************************************)
(* The memory a program starts in, byte by byte, as the two loops of the   *)
(* construction build it up.                                               *)
(***************************************************************************)
\* Byte b behind the first n words of the image.
ByteAfter(image, n, b) ==
  LET covering == {k \in 1..n : b \in image[k].address..image[k].address + 3}
  IN  IF covering = {} THEN 0
      ELSE LET k == CHOOSE k \in covering : \A j \in covering : j <= k
           IN  PartOf(image[k].value, 4, b - image[k].address, 1)

\* A word of the image replaces the four bytes it covers.
LEMMA ByteAfterWord ==
  ASSUME NEW image, NEW n \in Nat \ {0}, NEW b
  PROVE  ByteAfter(image, n, b)
           = IF b \in image[n].address..image[n].address + 3
             THEN PartOf(image[n].value, 4, b - image[n].address, 1)
             ELSE ByteAfter(image, n - 1, b)
<1> DEFINE covering(i) == {k \in 1..i : b \in image[k].address..image[k].address + 3}
           last(i) == CHOOSE k \in covering(i) : \A j \in covering(i) : j <= k
<1>1. n \in 1..n /\ 1..n - 1 \subseteq 1..n /\ \A k \in 1..n : k = n \/ k \in 1..n - 1
  OBVIOUS
<1>2. CASE b \in image[n].address..image[n].address + 3
  <2>1. n \in covering(n)
    BY <1>1, <1>2
  <2>2. \A k \in covering(n) : (\A j \in covering(n) : j <= k) <=> k = n
    <3>1. \A k \in covering(n) : k \in 1..n /\ k <= n
      OBVIOUS
    <3> HIDE DEF covering
    <3>2. \A k \in covering(n) : n <= k => k = n
      BY <3>1
    <3> QED BY <2>1, <3>1, <3>2
  <2> HIDE DEF covering
  <2>3. last(n) = n
    BY <2>1, <2>2
  <2> USE DEF covering
  <2> QED BY <1>2, <2>1, <2>3 DEF ByteAfter
<1>3. CASE b \notin image[n].address..image[n].address + 3
  <2>1. covering(n) = covering(n - 1)
    BY <1>1, <1>3
  <2> DEFINE byte(S) == IF S = {} THEN 0
                        ELSE LET k == CHOOSE k \in S : \A j \in S : j <= k
                             IN  PartOf(image[k].value, 4, b - image[k].address, 1)
  <2>2. \A i : ByteAfter(image, i, b) = byte(covering(i))
    BY DEF ByteAfter
  <2> HIDE DEF byte, covering
  <2>3. ByteAfter(image, n, b) = ByteAfter(image, n - 1, b)
    BY <2>1, <2>2
  <2> QED BY <1>3, <2>3
<1> QED BY <1>2, <1>3

\* The memory behind the first n words of the image.
ImageAfter(image, n) == [b \in 0..MemorySize - 1 |-> ByteAfter(image, n, b)]

\* Writing the next word of the image.
LEMMA WordIsWritten ==
  ASSUME NEW image \in Seq([address : Value, value : Value]), NEW n \in 1..Len(image),
         ~IsAccessViolation(image[n].address, 4)
  PROVE  SetMemValue(ImageAfter(image, n - 1), image[n].address, image[n].value, 4)
           = ImageAfter(image, n)
<1> DEFINE address == image[n].address
           value   == image[n].value
           m       == ImageAfter(image, n - 1)
<1>1. address \in Value /\ value \in Value
  BY ImageIsWritten
<1>2. HasBytes(m) /\ 4 \in 1..4 /\ address \in Int
  BY <1>1, ValueIsInt DEF ImageAfter, HasBytes
<1>3. /\ address + 4 <= MemorySize /\ Reached(address, 4) = 0..3
  BY <1>1, <1>2, Inside
<1>4. ASSUME NEW b \in 0..MemorySize - 1
      PROVE  SetMemValue(m, address, value, 4)[b] = ByteAfter(image, n, b)
  <2>1. n \in Nat \ {0}
    OBVIOUS
  <2>2. ByteAfter(image, n, b) = IF b \in address..address + 3
                                 THEN PartOf(value, 4, b - address, 1)
                                 ELSE ByteAfter(image, n - 1, b)
    BY <2>1, ByteAfterWord
  <2>3. CASE b \in address..address + 3
    <3> DEFINE i == b - address
    <3>1. i \in 0..3 /\ b = address + i
      BY <1>2, <2>3
    <3> HIDE DEF i, m, address, value
    <3>2. SetMemValue(m, address, value, 4)[b] = (value \div Place(i, 4)) % ByteSize
      BY <1>1, <1>2, <1>3, <3>1, StoredByte
    <3>3. Place(i, 4) = Power(4 - i - 1)
      <4>1. i \in 0..4 - 1 /\ 4 \in Sizes /\ 4 - 1 - i = 4 - i - 1
        BY <3>1 DEF Sizes
      <4>2. Place(i, 4) = Power(4 - 1 - i)
        BY <4>1, PowerFacts, Zenon
      <4> QED BY <4>1, <4>2
    <3>4. PartOf(value, 4, i, 1) = (value \div Place(i, 4)) % ByteSize
      <4>1. Power(1) = ByteSize
        BY DEF Power
      <4> QED BY <3>3, <4>1, Zenon DEF PartOf
    <3> QED BY <2>2, <2>3, <3>2, <3>4 DEF i
  <2>4. CASE b \notin address..address + 3
    <3>1. m[b] = ByteAfter(image, n - 1, b)
      BY DEF ImageAfter
    <3> HIDE DEF m, address, value
    <3>2. ~Covers(address, 4, b)
      BY <1>2, <2>4 DEF Covers
    <3>3. SetMemValue(m, address, value, 4)[b] = m[b]
      BY <1>1, <1>2, <3>2, KeptByte, Zenon
    <3> QED BY <2>2, <2>4, <3>1, <3>3
  <2> QED BY <2>3, <2>4
<1>5. SetMemValue(m, address, value, 4)
        = [b \in 0..MemorySize - 1 |-> SetMemValue(m, address, value, 4)[b]]
  BY <1>2 DEF SetMemValue, HasBytes
<1> QED BY <1>4, <1>5 DEF ImageAfter

\* prepareMemory leaves the words of the image, and then clears the word at address 0.
LEMMA PreparedBytes ==
  ASSUME NEW image \in Images, NEW b \in 0..MemorySize - 1
  PROVE  PrepareMemory(Zeros, image)[b] = IF b < 4 THEN 0 ELSE ImageByte(image, b)
<1>1. /\ image \in Seq([address : Value, value : Value])
      /\ \A n \in 1..Len(image) : ~IsAccessViolation(image[n].address, 4)
  BY EmulatorAssumption
<1>2. Zeros \in Memory /\ Len(image) \in Nat
  BY <1>1, AluAssumption DEF Zeros, Memory, Byte
<1>3. PICK after :
        /\ after[0] = Zeros
        /\ \A n \in 1..Len(image) :
             after[n] = SetMemValue(after[n - 1], image[n].address, image[n].value, 4)
        /\ PrepareMemory(Zeros, image) = SetMemValue(after[Len(image)], 0, 0, 4)
  BY <1>1, <1>2, PreparedInSteps
<1> DEFINE expected == [n \in 0..Len(image) |-> ImageAfter(image, n)]
<1>4. after[0] = expected[0]
  <2>1. 0 \in 0..Len(image) /\ 1..0 = {}
    BY <1>2
  <2>2. \A c : ByteAfter(image, 0, c) = 0
    BY <2>1 DEF ByteAfter
  <2> QED BY <1>3, <2>1, <2>2 DEF ImageAfter, Zeros
<1>5. ASSUME NEW n \in 1..Len(image), after[n - 1] = expected[n - 1]
      PROVE  after[n] = expected[n]
  <2>1. n \in 0..Len(image) /\ n - 1 \in 0..Len(image)
    BY <1>2
  <2> QED BY <1>1, <1>3, <1>5, <2>1, WordIsWritten
<1>6. after[Len(image)] = ImageAfter(image, Len(image))
  <2>1. after[Len(image)] = expected[Len(image)]
    <3> HIDE DEF expected
    <3> QED BY <1>2, <1>4, <1>5, Agree
  <2> QED BY <1>2, <2>1
<1> DEFINE m == ImageAfter(image, Len(image))
<1>7. m[b] = ImageByte(image, b) /\ HasBytes(m)
  BY DEF ImageAfter, ByteAfter, ImageByte, HasBytes
<1>8. 0 \in Value /\ 4 \in 1..4 /\ ~IsAccessViolation(0, 4)
  <2>1. 0 \in Value
    BY WordFacts DEF Value
  <2>2. \A i \in 0..3 : AddressOf(0, i) < MemorySize
    <3>1. \A i \in 0..3 : 0 + i \in Int /\ 0 + i >= 0 /\ 0 + i < WordSize
      BY WordFacts
    <3>2. \A i \in 0..3 : AddressOf(0, i) = 0 + i
      BY <3>1, WrapFacts DEF AddressOf
    <3> QED BY <3>2, MemoryAssumption
  <2>3. \A i \in 0..3 : \A j \in 0..i : j \in 0..3
    OBVIOUS
  <2>4. Reached(0, 4) = 0..4 - 1
    BY <2>2, <2>3 DEF Reached
  <2> QED BY <2>1, <2>4 DEF IsAccessViolation
<1>9. SetMemValue(m, 0, 0, 4)[b] = IF b < 4 THEN 0 ELSE ImageByte(image, b)
  <2> HIDE DEF m
  <2>1. CASE b < 4
    <3>1. b \in 0..3 /\ b = 0 + b /\ b \in Reached(0, 4)
      BY <1>8, <2>1 DEF IsAccessViolation
    <3>2. Place(b, 4) \in Nat \ {0}
      BY <3>1, PlaceFacts DEF Sizes
    <3>3. (0 \div Place(b, 4)) % ByteSize = 0
      <4>1. \A d \in Nat \ {0} : 0 \div d = 0
        OBVIOUS
      <4> QED BY <3>2, <4>1, AluAssumption
    <3> QED BY <1>7, <1>8, <2>1, <3>1, <3>3, StoredByte
  <2>2. CASE ~(b < 4)
    <3>1. ~Covers(0, 4, b)
      BY <2>2 DEF Covers
    <3>2. SetMemValue(m, 0, 0, 4)[b] = m[b]
      BY <1>7, <1>8, <3>1, KeptByte, Zenon
    <3> QED BY <1>7, <2>2, <3>2
  <2> QED BY <2>1, <2>2
<1> QED BY <1>3, <1>6, <1>9

\* loadFromFile leaves the file's bytes, as far as the memory reaches, over what it finds.
LEMMA LoadedBytes ==
  ASSUME NEW m \in Memory, NEW file \in Files, NEW b \in 0..MemorySize - 1
  PROVE  LoadFromFile(m, file)[b] = IF b < Len(file) THEN file[b + 1] ELSE m[b]
<1>1. file \in Seq(Byte) /\ Len(file) \in Nat /\ Len(file) < SignedMax
  BY EmulatorAssumption
<1>2. PICK after :
        /\ after[0] = m
        /\ \A n \in 1..Len(file) : after[n] = SetMemValue(after[n - 1], n - 1, file[n], 1)
        /\ LoadFromFile(m, file) = after[Len(file)]
  BY <1>1, LoadedInSteps
<1> DEFINE loaded(n) == [c \in 0..MemorySize - 1 |-> IF c < n THEN file[c + 1] ELSE m[c]]
           expected == [n \in 0..Len(file) |-> loaded(n)]
<1>3. after[0] = expected[0]
  BY <1>1, <1>2 DEF Memory
<1>4. ASSUME NEW n \in 1..Len(file)
      PROVE  SetMemValue(loaded(n - 1), n - 1, file[n], 1) = loaded(n)
  <2> DEFINE p == n - 1
             x == loaded(p)
             byte == file[n]
  <2>1. p \in Nat /\ p \in Value /\ 1 \in 1..4 /\ n = p + 1
    BY <1>1, WordFacts DEF Value
  <2>2. byte \in Byte
    BY <1>1, Element
  <2>3. HasBytes(x)
    BY DEF HasBytes
  <2>4. ASSUME NEW c \in 0..MemorySize - 1
        PROVE  SetMemValue(x, p, byte, 1)[c] = IF c < n THEN file[c + 1] ELSE m[c]
    <3>1. CASE c = p
      <4>1. 0 \in Reached(p, 1) /\ c = p + 0
        <5>1. p \in Int /\ p >= 0 /\ p < WordSize /\ p + 0 = p
          BY <2>1, ValueIsInt
        <5>2. Wrap(p) = p
          BY <5>1, WrapFacts
        <5>3. AddressOf(p, 0) = p /\ p < MemorySize
          BY <3>1, <5>1, <5>2, MemoryAssumption DEF AddressOf
        <5>4. 0 \in 0..1 - 1 /\ 0..0 = {0}
          OBVIOUS
        <5> QED BY <3>1, <5>1, <5>3, <5>4 DEF Reached
      <4>2. SetMemValue(x, p, byte, 1)[c] = (byte \div Place(0, 1)) % ByteSize
        <5> HIDE DEF x, byte, p
        <5> QED BY <2>1, <2>3, <4>1, StoredByte
      <4>3. Place(0, 1) = 1
        BY DEF Place
      <4>4. (byte \div 1) % ByteSize = byte
        <5> HIDE DEF byte
        <5> QED BY <2>2, AluAssumption DEF Byte
      <4> QED BY <2>1, <3>1, <4>2, <4>3, <4>4
    <3>2. CASE c # p
      <4>1. ~Covers(p, 1, c)
        BY <2>1, <3>2 DEF Covers
      <4>2. SetMemValue(x, p, byte, 1)[c] = x[c]
        <5> HIDE DEF x, byte, p
        <5> QED BY <2>1, <2>3, <4>1, KeptByte, Zenon
      <4>3. x[c] = IF c < p THEN file[c + 1] ELSE m[c]
        OBVIOUS
      <4>4. c < p <=> c < n
        BY <2>1, <3>2
      <4> QED BY <4>2, <4>3, <4>4
    <3> QED BY <3>1, <3>2
  <2>5. SetMemValue(x, p, byte, 1)
          = [c \in 0..MemorySize - 1 |-> SetMemValue(x, p, byte, 1)[c]]
    BY <2>3 DEF SetMemValue, HasBytes
  <2> QED BY <2>4, <2>5
<1> HIDE DEF loaded
<1>5. ASSUME NEW n \in 1..Len(file), after[n - 1] = expected[n - 1]
      PROVE  after[n] = expected[n]
  <2>1. n \in 0..Len(file) /\ n - 1 \in 0..Len(file)
    BY <1>1
  <2> QED BY <1>2, <1>4, <1>5, <2>1
<1>6. after[Len(file)] = loaded(Len(file))
  <2>1. after[Len(file)] = expected[Len(file)]
    <3> HIDE DEF expected
    <3> QED BY <1>1, <1>3, <1>5, Agree
  <2> QED BY <1>1, <2>1
<1> QED BY <1>2, <1>6 DEF loaded

\* A program starts in the memory it was given: its file from address 0, behind it the words
\* of the image, the last one at an address counting, and zero elsewhere.  The word at address
\* 0 is the exception: where the file does not reach, it is cleared.
THEOREM ProgramsStartAsLoaded == EmulatorSpec => []StartsAsLoaded
<1>1. EmulatorInit => StartsAsLoaded
  <2> SUFFICES ASSUME NEW image \in Images, NEW file \in Files,
                      memory = Constructed(image, file), NEW b \in 0..MemorySize - 1
               PROVE  memory[b] = IF b < Len(file) THEN file[b + 1]
                                  ELSE IF b < 4 THEN 0 ELSE ImageByte(image, b)
    BY DEF EmulatorInit, StartsAsLoaded
  <2>1. Zeros \in Memory
    BY AluAssumption DEF Zeros, Memory, Byte
  <2>2. image \in Seq([address : Value, value : Value])
    BY EmulatorAssumption
  <2>3. PrepareMemory(Zeros, image) \in Memory
    BY <2>1, <2>2, PreparedIsMemory
  <2> QED BY <2>3, PreparedBytes, LoadedBytes DEF Constructed
<1>2. EmulatorTypeOK /\ StartsAsLoaded /\ [EmulatorNext]_emulatorVars => StartsAsLoaded'
  <2>1. ASSUME EmulatorTypeOK, EmulatorNext PROVE din' # 0
    <3>1. din' = din + 1
      BY <2>1, EachExecution DEF EmulatorNext
    <3> QED BY <2>1, <3>1 DEF EmulatorTypeOK
  <2>2. UNCHANGED emulatorVars => (StartsAsLoaded => StartsAsLoaded')
    BY DEF emulatorVars, StartsAsLoaded
  <2> QED BY <2>1, <2>2 DEF StartsAsLoaded
<1> QED BY <1>1, <1>2, EmulatorTypeCorrect, PTL DEF EmulatorSpec
=============================================================================
