------------------------- MODULE EmulatorProperties -------------------------
(***************************************************************************)
(* What executeInstruction must get right.                                 *)
(***************************************************************************)
EXTENDS Emulator

\* Type invariant: registers hold words, the memory bytes, and addresses are words.
EmulatorTypeOK ==
  /\ registers \in [0..31 -> Value]
  /\ memory \in Memory
  /\ PC \in Value /\ savedBranch \in Value
  /\ encounteredBranch \in BOOLEAN
  /\ din \in 0..MaxDin
  /\ DOMAIN program \subseteq 0..MemorySize - 1
  /\ \A a \in DOMAIN program : program[a] \in Instructions
  /\ info.pc \in Value /\ info.nextPC \in Value /\ info.accessAddress \in Value

-----------------------------------------------------------------------------
\* One flag and one saved address give every branch exactly one delay slot, also when the
\* slot holds a branch or an instruction that excepts.
Architecture == INSTANCE DelaySlots
  WITH AddressSize <- WordSize, ImmediateSize <- HalfSize,
       HandlerAddress <- ExceptionAddress, Region <- JumpRegion,
       pc <- PC,
       npc <- IF encounteredBranch THEN savedBranch ELSE Wrap(PC + 4),
       executed <- [op |-> info.word.op, imm |-> info.imm]

HasDelaySlots == Architecture!DelaySlotSpec

\* An instruction that excepts leaves the registers (but $zero) and the memory as it found
\* them, and no branch behind it is taken.
Excepts(i) == i.isOverflow \/ ~i.isValid

ExceptionsArePrecise ==
  [][Excepts(info') =>
       /\ \A r \in 1..31 : registers'[r] = registers[r]
       /\ memory' = memory
       /\ PC' = ExceptionAddress /\ ~encounteredBranch']_emulatorVars

-----------------------------------------------------------------------------
\* The sum or difference that instruction i stands for, in the integers.
Exactly(i, regs) ==
  LET rs == Signed(regs[i.word.rs])
      rt == Signed(regs[i.word.rt])
  IN  CASE i.word.op = "ADD"  -> rs + rt
        [] i.word.op = "ADDI" -> rs + Signed(SignExt(i.imm))
        [] i.word.op = "SUB"  -> rs - rt

Representable(n) == -SignedMax <= n /\ n < SignedMax

IsSum(i) == i.word.op \in OverflowOps

\* The destination of a sum is one of its operands.
Aliased(i) == Reads(i.word, Dest(i.word))

\* A sum traps exactly when it is out of the signed range, and otherwise it is exact.
SumsRightly ==
  IF Representable(Exactly(info', Cleared))
  THEN /\ ~info'.isOverflow
       /\ Dest(info'.word) # 0 =>
            Signed(registers'[Dest(info'.word)]) = Exactly(info', Cleared)
  ELSE info'.isOverflow

\* The overflow tests are right where they see the operands: the destination, which is
\* written first, is not one of them.
OverflowUnlessAliased == [][IsSum(info') /\ ~Aliased(info') => SumsRightly]_emulatorVars

-----------------------------------------------------------------------------
\* The cycle simulator takes an info that equals a default one for a bubble: no executed
\* instruction, a nop at address 0 included, may look like that.
NeverABubble == din > 0 => info # DefaultInfo

\* nextPC is corrected when an exception redirects PC after it was filled in.
NextPCIsWhereExecutionGoes == din > 0 => info.nextPC = PC

-----------------------------------------------------------------------------
\* The part of a word-sized value that a load of the given size reads at offset o of a
\* stored value of size bytes: the most significant byte is at the lowest address.
Power(n) == IF n = 0 THEN 1 ELSE IF n = 1 THEN ByteSize
            ELSE IF n = 2 THEN HalfSize ELSE IF n = 3 THEN ByteSize * HalfSize ELSE WordSize

PartOf(value, size, o, part) == (value \div Power(size - o - part)) % Power(part)

\* A load of any size sees what the last store left, byte, half word or word, and a store
\* changes no other byte; across the end of the memory this holds of the bytes inside.
LoadsSeeStores ==
  [][info'.word.op \in StoreOps =>
       LET address == info'.accessAddress
           size    == AccessSize(info'.word.op)
           value   == Cleared[info'.word.rt]
       IN  /\ \A part \in Sizes : \A o \in 0..size - part :
                ~IsAccessViolation(address, o + part) =>
                  GetMemValue(memory', AddressOf(address, o), part)
                    = PartOf(value, size, o, part)
           /\ \A b \in 0..MemorySize - 1 : b \notin address..address + size - 1 =>
                memory'[b] = memory[b]]_emulatorVars

\* A program starts in the memory it was given: the file from address 0, behind it the words
\* of init_mem_image, of which the last one at an address counts, and zero elsewhere.  But
\* the image says nothing of the word at address 0, which prepareMemory clears when it goes
\* once more through its loop at the end.
ImageByte(image, b) ==
  LET covering == {n \in 1..Len(image) : b \in image[n].address..image[n].address + 3}
  IN  IF covering = {} THEN 0
      ELSE LET n == CHOOSE k \in covering : \A j \in covering : j <= k
           IN  PartOf(image[n].value, 4, b - image[n].address, 1)

StartsAsLoaded ==
  din = 0 =>
    \E image \in Images, file \in Files :
      \A b \in 0..MemorySize - 1 :
        memory[b] = IF b < Len(file) THEN file[b + 1]
                    ELSE IF b < 4 THEN 0 ELSE ImageByte(image, b)
-----------------------------------------------------------------------------
\* What the comments on add, sub and addi say (emulator.cpp:118, 162 and 189): "check for
\* overflow".  The test is about the sum whatever its destination.
OverflowIsChecked == [][IsSum(info') => SumsRightly]_emulatorVars
=============================================================================
