# A verification of the pipeline timing simulator

The repository is a timing simulator of a five-stage MIPS pipeline. `sim_cycle` executes a
program with a functional emulator and, around it, computes in which cycle each instruction is
in which stage: bubbles for hazards, stalls for cache misses, squashed instructions for
exceptions. It prints the pipeline once per simulated cycle and, at the end, the registers, the
memory and the statistics. `sim_funct` runs the same emulator without a pipeline. This directory
holds TLA+ models of the control, the statistics, the caches, the emulator with its memory, of
their composition and of the dumps, the TLC configurations that check them and the proofs that
TLAPS checks.

## Inventory of the system

| Component | State | Operations | Interaction |
|---|---|---|---|
| Cycle simulator, control (`src/cycle.cpp`) | `pipeInsInfo` (an instruction per stage), `pipeState` (the words to print), five stall signals, two cache delays, `handlingHalt`, `handlingException`, `squashStage` | `runCycles`, one iteration per cycle: `stall`, or `squash` + fetch + `propagate`; `updateCacheDelays`; `detectHazards`; `handleHalt`; `handleException` | calls `executeInstruction` when a fetch is due and `Cache::access` for the instruction in IF and the one in MEM |
| Cycle simulator, statistics (`src/cycle.cpp`) | `cycleCount`, `loadStalls`, `loadStallDepLut`; hits and misses of the caches | `seenLoadStall`, `appendLoadStall`, `finalizeSimulator` | written by the control, read by nobody before the end |
| Cache (`src/cache.cpp`) | `lru`, `valid` and `tag` per set and way, `hits`, `misses` | constructor, `access`, `updateLRU`, `findLRU` | two instances, instruction and data; stores no data |
| Emulator (`src/emulator.cpp`) | registers, `PC`, `encounteredBranch`, `savedBranch`, `din` | `executeInstruction` | runs one whole instruction when it is *fetched*, ahead of the pipeline that displays it |
| Memory store (`src/MemoryStore.cpp`) | an array of bytes | `getMemValue`, `setMemValue`, `loadFromFile` | called by the emulator, which ignores the errors |
| Functional simulator (`src/funct.cpp`) | none of its own | `runInstructions`, `runTillHalt` | the same emulator without a pipeline |
| Dumps (`src/Utilities.cpp`, `src/RegisterInfo.h`) | none | `dumpPipeState`, `printInstr`, `dumpSimStats`, `dumpRegisterState`, `dumpMemoryState` | called by the simulators |
| Main programs (`src/sim_cycle.cpp`, `src/sim_funct.cpp`, `src/test_memory.cpp`) | none | parsing of arguments and of the cache configuration | create and run the rest |

`test/`, `all_test.sh` and `bin/` (tests, scripts and an assembler) are not part of the program.

The program has one thread. What is hard in it is not concurrency between threads but that
between the stages of the simulated machine: up to five instructions are under way, stalls of
different stages overlap, and a decision (a stall signal, `squashStage`, a pause in fetching)
taken at the end of one cycle acts in a later one, when the stages may have moved on or not.
The emulator executes an instruction when it enters IF, so the pipeline always knows what will
happen (an overflow, the way a branch goes) and must hide it until the stage that would find
out. `PROJECT.json` lists the hazards at their lines.

What makes each part correct:

- *Control*: instructions stay in order and none is lost or duplicated; the squash hits the
  excepting instruction; nothing is fetched behind HALT or behind an exception not yet
  detected; the stalls are exactly those the register dependences and the misses call for; HALT
  drains and is seen.
- *Statistics*: each event is counted once, although a stalled instruction is looked at in every
  cycle it waits; the cycles add up.
- *Cache*: hits and misses are those of an LRU cache; its tables stay well formed.
- *Emulator*: every branch has one delay slot, whatever is in it; an exception leaves registers
  and memory as they were; sums trap exactly when they overflow; no instruction's info looks like
  that of a bubble.
- *Memory*: a load of any size sees the stores of any size, up to and across the end; a program
  starts in the memory it was given.
- *The whole*: the cycle simulator executes what the functional one does, and asks its caches
  for the addresses of the program in program order.
- *Dumps*: a word is shown as it was executed, a register under its name, a range completely.

## Modules

| Module | Models | State and actions |
|---|---|---|
| `InstructionCount` | `Emulator::din` | `din`, which the emulator counts and the control follows; shared by `Pipeline` and `Emulator`, so that their composition has one |
| `Isa` | the instruction set of `emulator.h` and `executeInstruction` | no state: a word is a mnemonic and three register fields; `Reads` and `Dest` say which registers an instruction reads and writes |
| `Hazards` | the mnemonic tables and tests of `detectHazards` | no state |
| `Pipeline` | `runCycles` and `runTillHalt` | the static variables of `cycle.cpp`; one step is one iteration of `runCycles`: `StallMEM`, `StallID`, `StallIF` (the cases of `stall`), `Advance` (squash, fetch, propagate) and `ReachHalt` (the `break`); `Halted` is the end of `runTillHalt` |
| `PipelineProperties` | | the properties of the control and its inductive invariant |
| `InOrder` | | what a pipeline promises to its program: issue and retire in order, once each, precise exceptions |
| `CycleStats` | the statistics | extends every action of `Pipeline` with the counters it updates; `history` records what happened |
| `Cache` | `Cache::access` for a set index and a tag | the tables; `Hit` and `Miss` |
| `AddressedCache`, `BitFields` | the constructor's arithmetic; `extractBits` and `log2` | drives `Cache` by address |
| `LruCache` | | what an LRU cache promises: a set holds a tag until as many others as it has ways have been used since; its state is, per set, the tags held, each with the others used since |
| `Alu` | the arithmetic of `executeInstruction` | no state: the result of each mnemonic and the overflow tests, for a byte of any width |
| `MemoryStore` | `getOrSetValue`, `prepareMemory`, `loadFromFile` | a memory is a function from addresses to bytes; reading and writing stop at the byte that throws |
| `Emulator` | `Emulator` and `executeInstruction` | registers, memory, `PC`, pending branch, `din`, and the `InstructionInfo` returned last; one action per exit of `executeInstruction` (HALT, computed, sum, overflow, illegal, branch, load, store), each of them the whole call, fetch included |
| `EmulatorProperties`, `DelaySlots` | | the properties of the emulator; `DelaySlots` is the machine with one delay slot and precise exceptions that it has to implement |
| `FunctSim` | `funct.cpp` | the loop of `runTillHalt` over `ExecuteInstruction` |
| `CycleSim` | `initSimulator` to `finalizeSimulator` | `CycleStats` and `FunctSim`'s emulator, joined over `din`, and two instances of `AddressedCache`: each action of `CycleStats` is joined with the call of the emulator and the cache accesses it makes |
| `Disassembly` | `printInstr` and the two opcode tables | no state: a word is its bit fields; what the decoder executes and what is printed |
| `Dumps`, `DumpProperties` | `dumpPipeState`, `dumpRegisterState`, `dumpMemoryState`, `printMemArray` | one step writes an instruction, a register or a word of memory; their properties |
| `MCPipeline`, `MCCycleStats`, `MCCache`, `MCEmulator`, `MCCycleSim`, `MCDumps`, `MCWords` | | programs, addresses and ranges for TLC |
| `Induction`, `PipelineProofs`, `StatsProofs`, `CacheProofs`, `MemoryProofs`, `EmulatorProofs`, `CycleSimProofs`, `DumpProofs` | | theorems; `Induction` has what the others share: arithmetic, powers of two, and an induction the provers can use |

The operators whose name ends in `Mutant` are versions of an operator with a plausible slip. No
specification uses them; they show that a property notices the slip.

### Correspondence of a cycle

`runCycles` performs six numbered steps per cycle. Step 1 (update the stages by the stall
signals of the *last* cycle) is what tells the actions of `Pipeline` apart; steps 2 to 6 are the
same for all of them and are `EndCycle`: the delays are set by `updateCacheDelays`, the signals
from the delays and the hazards, then the delays are decremented, then `handleHalt` and
`handleException` look at the new contents of the stages. The order matters and is kept: the
signal is set from the delay before the decrement, and the exception is looked for in ID and EX
after the move. In `ReachHalt` the loop is left before step 2.

What is abstracted:

- In `Pipeline`, the *program* is the sequence of words the emulator executes, chosen freely, word by word,
  from `Words`, so taken and untaken branches need no addresses. Whether a sum overflows and
  whether an access hits are free choices too. The last word the bound `MaxDin` admits is HALT:
  programs that never halt keep the simulator running for ever and are not considered.
- An `InstructionInfo` is its word, its number, its overflow flag and `fetched`. The code tells
  an executed instruction from a bubble by comparing 21 fields with a default one. They always
  differ: the first instruction has `nextPC` 4 and each later one a number that is not 0 (until
  `din` wraps at 2^32). `NeverABubble` checks that they differ, on the emulator's own infos.
  `executeInstruction` returns from HALT before decoding, hence `Decoded`.
- `EX_stall` and `WB_stall` are never raised, and `stall(EX)` never called: they have no
  variable. `runCycles` is only called with 1; a call for more cycles is left out.
- Mnemonics `HALT` and `ILLEGAL` stand for 0xfeedfeed and for every word that reaches a
  `default` of the decoder.

### Correspondence of the emulator

`ExecuteInstruction(instr)` is one call of `executeInstruction`. The fetch and the update of
`PC` come first in the code (`BeginExecution`, `GoOn`, `NextPC`), then `$zero` is cleared (`Cleared`), HALT
returns before anything is decoded, and every other exit fills in the `InstructionInfo`. The
order is kept where it shows: a sum is written to its destination before the overflow test
reads the operands' signs (`Summed`, `OverflowsIn`), the old value is then put back
(`Restored`), and a trap overwrites the `nextPC` filled in at the fetch (`Trap`).

What is abstracted:

- *Encoding.* An instruction is its mnemonic, register fields and immediate, not the bits of a
  word in memory. What a fetch finds at an address is chosen from `Instructions` when the address
  is first fetched and kept in `program`; a store forgets the instructions it overwrites, so what
  it wrote there may be any instruction. Outside the memory a fetch finds 0, the nop
  (`Outside`), as `getMemValue` leaves its result. The loads read `memory`, independently of that
  choice. `Disassembly` has the decoding of the bits.
- *Width.* The number of values of a byte is a parameter; a word is four bytes. TLC takes bytes of
  two bits, so that a program reaches the ends of the signed range in two
  instructions; the theorems hold of every width. `&` on words is the constant operator `And`
  of which `AluAssumption` says what the code's results need; the other bitwise operators are
  defined from it. Shifts of `int32_t` are those of the values of the word.
- *Memory.* `startAddr` is 0 in both simulators. `loadAddress` and `storeAddress`, one of which the
  info sets, are one field `accessAddress`. The assertion of `prepareMemory` that its writes
  succeed restricts the images to those inside the memory, and a file is shorter than the `int`
  in which `loadFromFile` counts its bytes can express.
- In `CycleSim` the infos in the stages have no addresses; the emulator's infos are kept in
  `executed` and found by their numbers. `lookedUp` records the addresses the caches were given.
  Both are history for the properties.

## Runs

| Run | Configuration | Question |
|---|---|---|
| `pipeline_hazards` | `MCPipelineHazards.cfg` | do the hazard tables stall exactly when a register is not ready, and do stalls keep the order? |
| `pipeline_exceptions` | `MCPipelineExceptions.cfg` | are exceptions precise, is the control an in-order machine, does HALT drain? |
| `cycle_stats` | `MCCycleStats.cfg` | are accesses counted once and do the cycles add up? |
| `load_stalls` | `MCLoadStalls.cfg` | does the table of five pairs suffice to count each load stall once? |
| `cache` | `MCCache.cfg` | is `access` LRU, by address, also with a number of sets that is no power of two? |
| `emulator` | `MCEmulator.cfg` | does every branch have its delay slot, are traps precise, are sums tested right where they can be, do loads see stores of any size? |
| `cycle_sim` | `MCCycleSim.cfg` | does the cycle simulator execute what the functional one does, and ask its caches for the right addresses? |
| `dumps` | `MCDumps.cfg` | is every opcode shown as it executes, and is every register and every word of a range dumped once? |
| `overflow_detected`, `register_names` | `MCOverflow.cfg`, `MCRegisterNames.cfg` | comments the code does not keep (below) |
| `load_stall_pair_order`, `load_stall_dependence` | `MCUserThenLoad.cfg`, `MCPairIsADependence.cfg` | two sentences of a comment that the code does not keep (below) |

Bounds, and why they are enough:

- *Latencies 2* (1 or 0 for the instruction cache in the statistics runs, to save states): a miss
  then outlasts one cycle, so a stall can begin, go on and end while another kind of stall is
  pending. A longer one repeats the same step.
- *`MaxDin`* 5 for hazards, 7 for exceptions, 8 for load stalls: hazards relate instructions in
  ID, EX and MEM, three neighbours; five fill the pipeline. An exception followed by another one
  and by HALT, with a load that misses in front, fits in 7. Seven loads make six load-stall
  pairs, one more than the table holds.
- *Words*: for the hazards one word per class of the tables, on register 1. The theorem
  `ExactStalls` covers every word. For exceptions one word of each kind.
- *Cache*: three ways of three sets (of which the address split uses two, since it rounds down),
  four tags per set so that there are evictions, and `MaxAccesses` 7: fill a set, hit, evict, and
  come back to what was evicted.
- *Emulator*: all programs of four instructions (`MaxDin`) over 17, from four initial memories, with
  words of eight bits and a memory of 32 bytes: one instruction to make a value, a branch, its
  delay slot (a branch, a trap or an access), and what comes next; 216,649 states. The addresses
  reach across the end of the memory and around the end of the word. The initial memories have
  images with words that overlap, and files longer and shorter than a word.
- *Cycle simulator*: six instructions over seven: a load and a store that depend on it, a branch
  that waits for it, a store into the program, and both exceptions; a data cache of one set of
  two ways, and an instruction cache of two direct-mapped sets of two words, so that both hit,
  miss and evict; 54,058 states.
- *Dumps*: all 64 opcodes and functs with three different registers, and ranges of whole rows,
  parts of a row, parts of a word, empty ones and ones that leave the memory.

Deadlock checking is on in the pipeline and dump runs: whatever the stages hold, the next cycle
exists. It is off where the model stops: `cache`, `emulator` and `overflow_detected` at the bound
on accesses or instructions (or behind HALT), and `cycle_sim`, in which a program may loop, at the
bound on the instructions it executes.

*Fairness.* `FairSpec` adds weak fairness of `Next`: `runTillHalt` is a loop without waiting,
so it takes its next iteration. No fairness is assumed about a choice of the environment;
`Termination` says that under every pattern of misses and exceptions a program that executes
HALT within the bound makes the simulator return.

## Properties

Control (`PipelineProperties`):

- `ProgramOrder`, `RefinesInOrder`: order, no loss, no duplicate; retirement and squashing as in
  `InOrder`. The refinement maps the window of instructions to what is in IF to MEM, and the
  retired instruction to what is in WB.
- `HaltNotMissed`: the test for HALT in WB is only in the branch without a stall, while stalls
  move instructions to WB too. A HALT in MEM is never moved by a stall, because everything
  behind it is a bubble, and a bubble neither misses nor has a hazard.
- `SquashHitsException`, `PauseMatchesException`, `NothingBehindHaltOrException`: exceptions are
  precise, with the squash possibly many cycles after the detection.
- `LoadUseInterlock`, `BranchInterlock`, `StallsExactlyOnDependence`: the tables of mnemonics,
  against the registers `executeInstruction` reads and writes. `jr`, which no table covers for a
  result in EX, is not counted as a branch, and `$ra` written by `jal` is excepted.
- `StallsAreGrounded`: signals and delays belong to an instruction in their stage, so that the
  delay of one access never overwrites that of another.
- `ShowsThePipeline`: `pipeState`, updated in parallel, agrees with `pipeInsInfo`.
- `Termination`.

Statistics (`CycleStats`): `EveryFetchLookedUpOnce`, `EveryMemOpLookedUpOnce`,
`LoadStallsCountEachPairOnce`, `MissesFreezeForTheirLatency` (the cycles MEM is held are the
latencies of the data misses) and `CyclesAccountedFor` (the cycles of a finished run are its
instructions, four to drain, one or two per exception, and the cycles a stage was held).

Cache: `LruRanksTheWays` (so `findLRU` never reaches its `assert(0)`), `FreeWaysGoFirst`
(`findLRU` does not look at `valid`), `NoTagTwice`, `IsLru` (refinement of `LruCache`, with what
each access returned: a tag is held with the tags used since, which are those in the ways ranked
above its own), `BlockIsResident` (the address split: a block is resident as a whole, and nothing
but the block where it is).

Emulator (`EmulatorProperties`):

- `HasDelaySlots`: refinement of `DelaySlots`, with the address behind the next instruction read
  from the pending branch. A branch or a trap in a delay slot is covered.
- `ExceptionsArePrecise`: a trap restores the destination it has already written, and forgets a
  pending branch. `$zero` is excepted: a trapping instruction may leave it dirty, and it is
  cleared before it is read.
- `OverflowUnlessAliased`: traps and results of `add`, `sub`, `addi` against sums in the integers.
- `LoadsSeeStores`: what `getMemValue` of any size returns at every offset of a store, against the
  digits of the stored value, and that nothing else changed; across the end of the memory too.
- `NeverABubble`, `NextPCIsWhereExecutionGoes`: the info that is handed to the pipeline.
- `StartsAsLoaded`: the constructor. The loop of `prepareMemory` takes a turn too many, which
  clears the word at address 0; `loadFromFile` writes over it as far as the file reaches, so what
  the image says of that word is never seen.

Cycle simulator (`CycleSim`): `AgreesWithFunctSim` (the emulator's part of a run is a run of
`FunctSim`, so the registers and the memory dumped are the same) and `CachesSeeProgramOrder` (the
emulator is ahead of MEM by up to four instructions and any number of stalls, yet the data cache
gets the address of each access once and in order: the address of the k-th load or store executed is
the k-th the cache is given).

Dumps (`DumpProperties`): `ShowsWhatExecutes` and `ShowsOperands` (two copies of the opcode tables;
`ll` and `sc`, which are printed and which the emulator takes for illegal, are excepted),
`EveryRegisterDumped`, `RowsAreLabelled` and `RangeDumped`.

## Findings

The third and the fourth concern the comment on `seenLoadStall`, `src/cycle.cpp:392-394`.

1. `add`, `sub` and `addi` write the destination and then compare the signs of their sources with
   the sign of the result, under the comment "check for overflow" (`src/emulator.cpp:118`, 162,
   189). Where the destination is a source, the comparison reads the result in place of the
   source. `sub` of a positive `$1` from 0 into `$1` traps although it does not overflow; `add` and `addi`
   into a source never trap, whatever the sum (theorem `AliasedSumNeverTraps`).
   (`OverflowIsChecked`)
2. `RegisterInfo` gives `t` ten elements and puts them in front of `s`, over registers numbered
   with eight `$t`, eight `$s` and two more `$t`. The dump shows registers 16 to 25 under other
   names than the instructions do. (`LinesNameTheirRegister`)
3. The comment says that `din1` is the using and `din2` the loading instruction. All three calls
   pass the load first. The result is unaffected, because they all do. (`UserThenLoad`)
4. The comment says "`din1` depends on `din2`". With `lw $1`, `addi $1`, `beq $1, $2` the branch
   depends on the `addi` only, yet the pair of the load in MEM and the branch in ID is recorded
   and "Load-use stalls" incremented. The timing is right: the branch waits one cycle for the
   `addi`. (`PairIsADependence`)

## Proofs

`PipelineProofs` proves, for every set of words of the instruction set, all latencies and every
bound, each safety property of the control that the runs check, and `Spec => RefinesInOrder`. The
only assumptions are that the words are well formed, the latencies natural numbers and the
bound a positive number.

The properties are not inductive one by one. That the squash hits the excepting instruction
(`SquashHitsException`) needs that a marked stage does not move before the squash: a hazard or
a miss that holds it must be that of a real instruction (`StallsAreGrounded`), and nothing but
bubbles may be behind it (`NothingBehindHaltOrException`), which needs the pause to last exactly
as long as it should (`PauseMatchesException`). `PipelineInv` is their conjunction with three
facts: `StagesOK` (an info is a bubble or an instruction with a number below `din`),
`HazardsDetected` (`ID_stall` is what `detectHazards` says of the current stages) and `HaltSeen`.
Its preservation is proved action by action over lemmas about the four ways the stages move.
`TablesMatchIsa` compares the hazard tables with the registers read and written, mnemonic by
mnemonic; `ExactStalls`, `LoadsInterlocked` and `BranchesInterlocked` follow from it and the invariant. `Refinement` shows
that each action is a cycle of `InOrder` or a stutter.

`CacheProofs` proves, for every geometry and every sequence of accesses, that the tables keep
their types, that `lru` ranks the ways, that free ways are ranked below those in use and that no
tag is in two ways. The core is `UpdateRanks`: `updateLRU` turns a permutation of the ranks into
a permutation, with the way used on top and the others in their order. From it follows the
refinement of `LruCache` (`CacheIsLru`): the tags used since a tag are those of the ways ranked
above it, `NumWays` of them would need more ranks than there are, and the way a miss evicts, rank
0, is the one whose tag all others were used since.

The address split is proved for every size and width for which both logarithms exist and the
fields fit in an address (`SplitFits`). The index stays within the sets that exist
(`SplitStaysInTables`), also when their number is not a power of two, so the cache driven by
address is the cache of the tables and LRU (`AddressedIsLru`). `BlocksAreResident` needs one more
hypothesis, that a block is a power of two of words (`PowerOfTwoWords`): for another size the code
rounds the number of offset bits down, and a tag and an index then name less than a block. The
hypothesis says nothing of the size of the cache. It rests on the lemma `BlockNumber`: tag and
index are the digits of the block's number.

`StatsProofs` proves the laws of the statistics, for every program, both latencies and every
outcome of the lookups. Counting restricts nothing (`StatsFollowControl`), so the control's
invariant holds. `CountsOK` adds what each lookup, miss and held cycle contributed so far; it
rests on `StallsAreGrounded`, without which a stall could belong to no access. For
`CyclesAccountedFor` the law must be stated of every cycle and not only the last: `CycleInv` says
how many cycles HALT has been draining (`HaltAge`), how many a pause has still to last
(`PauseLeft`), and that the cycles so far are the sum.

It also proves that a table of five pairs is enough (`EachPairCountedOnce`). The pairs of the instruction in ID are
with the two instructions that were in EX and MEM when it entered ID, since only bubbles follow
them while it waits; so at most two pairs are detected for it, and those that were are the last
one or two of the table (`Remembers`). An instruction that has left ID is never looked at again.
The two pairs of one cycle are two uses of the lemma `OnePair`.

`MemoryProofs` and `EmulatorProofs` prove, for every width of a byte, size of the memory and set of
instructions, type correctness, the delay slots, precise exceptions, the overflow tests where
destination and sources differ, and the infos. `AluAssumption` is about the constants only: a byte
has an even number of values, a power of two; the powers of two the shifts use are positive
numbers; and `And` is a word with the product of the operands' bits in each place. What the
overflow tests say is arithmetic on signs (`AddIsTested`, `SubIsTested`).

`StoresAreSeen` proves `LoadsSeeStores`: `setMemValue` writes digit after digit, most significant
first (`MemoryProofs` has what each step leaves), and the lemmas on digits say that the bytes
`getMemValue` puts together again are the `PartOf` the value that was stored.
`ProgramsStartAsLoaded` follows the two loops of the constructor: after n entries of the image a
byte is that of the last of the n that covers it. A file must be shorter than `SignedMax`.

Where a step of a loop is a recursive function on numbers (`getOrSetValue`, `prepareMemory`,
powers of two), `Induction` supplies a first-order induction (the least number of a non-empty
set) in place of the induction theorems the provers cannot instantiate.

`CycleSimProofs` proves that each part of the composition behaves as it does alone:

- It is `CycleStats` with its free choices made (`SimKeepsStatistics`), so everything above holds
  of it; it refines `InOrder` (`SimRefinesInOrder`).
- The emulator in it takes the steps of `FunctSim` (`CycleSimRunsFunctSim`) and so of `Emulator`
  (`SimRunsTheEmulator`). That needs that nothing is fetched when HALT has been executed
  (`HaltIsHandled`), proved inductive together with `PipelineInv`. Every theorem about
  `EmulatorSpec` is then one about the cycle simulator.
- Each cache takes the steps of `Cache` (`CachesRunAsAlone`), with the hits and misses that
  `CycleStats` counts. `CachesAssumption` is about the geometries only: the sizes are positive, the
  splits fit, and the tags of all addresses are in the set of tags. The theorems of `CacheProofs`
  are stated of any cache; that they hold of these two is their instance with `IC` and `DC`, a
  step left to the reader, as tlapm 1.4.5 does not offer the theorems of an instantiated module.

`CachesAskedInOrder` is the property that ties them together. Its invariant `LookUpInv` says that
an info in IF, ID or EX has the word of the call with its number, and that the data cache has been
asked, in order, for all loads and stores executed but those still in these three stages
(`Waiting`); with the control's invariant (order, nothing lost in a stall, nothing behind an
exception) the oldest of those is the one that leaves EX.

`DumpProofs` proves the laws of the dumps for every range and length of a row, and for every word
of `Bits`. `MemoryDumpInv` relates the words shown to the two counters of `printMemArray`, and
`RegisterDumpInv` the registers shown to the member and the index the loop is at. The tables of
mnemonics and operands are compared entry by entry (`MnemonicsShown`, `OperandsShown`).

Every safety property, action property and refinement a run checks is also a theorem. Model-checked
only:

- `Termination`, which is liveness under fairness.
- The findings, which are counterexamples.

## Not modelled

- The undefined behaviour of `std::log2(0)` for blocks of less than a word (the test of question
  1 has blocks of one byte; it works where the conversion of minus infinity gives 0), and
  geometries without a set: `AddressAssumption` excludes them.
- The layout of the dumps, file output and the labels of the statistics; `Cache::dump`.
- `sim_cycle.cpp`, `sim_funct.cpp`: parsing of arguments and of the cache configuration, then
  calls in sequence of what is modelled. `test_memory.cpp`: a manual test that prints.
- When `jr`, or a branch on `$ra` behind `jal`, ought to wait in ID: the code has no rule for them
  and no text of the repository gives one.
- That a program reaches HALT: a matter of the program. `Termination` is conditional on it.

## Plan

1. The encoding of instructions in words, so that a store into the program changes it as the
   decoder reads it, and `Disassembly` and `Emulator` share one decoder.
2. The part of `Termination` that is not temporal: a number that becomes smaller in every cycle
   once HALT has been fetched, and bounds the cycles between two fetches before.
