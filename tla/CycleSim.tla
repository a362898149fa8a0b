------------------------------ MODULE CycleSim ------------------------------
(***************************************************************************)
(* The cycle simulator as a whole: the control and the statistics of       *)
(* cycle.cpp driven by an Emulator and two Caches.  What module Pipeline   *)
(* chooses freely is computed here: the emulator decides which instruction *)
(* comes next, which addresses it accesses and whether it excepts, and the *)
(* caches decide whether an access hits.                                   *)
(*                                                                         *)
(* The infos of module Pipeline do not carry addresses.  The infos the     *)
(* emulator returned are kept in executed, and an info in a stage is found *)
(* there by its number.                                                    *)
(***************************************************************************)
EXTENDS CycleStats, FunctSim

CONSTANTS
  ICacheSize, ICacheBlock, ICacheWays, ICacheSets,
  DCacheSize, DCacheBlock, DCacheWays, DCacheSets,
  AddressBits, CacheTags

VARIABLES
  icLru, icValid, icTag, icLast,
  dcLru, dcValid, dcTag, dcLast,
  executed,    \* the infos executeInstruction returned, in order
  lookedUp     \* the addresses each cache was asked for, in order (not in the code)

emulatorState == <<registers, memory, PC, encounteredBranch, savedBranch, program, info>>
icTables == <<icLru, icValid, icTag, icLast>>
dcTables == <<dcLru, dcValid, dcTag, dcLast>>
simVars  == <<statsVars, emulatorState, icTables, dcTables, executed, lookedUp>>

IC == INSTANCE AddressedCache
  WITH NumSets <- ICacheSets, NumWays <- ICacheWays, CacheSize <- ICacheSize,
       BlockSize <- ICacheBlock, Tags <- CacheTags, MaxAccesses <- MaxDin, Addresses <- {},
       lru <- icLru, valid <- icValid, tag <- icTag, last <- icLast,
       hits <- icHits, misses <- icMisses

DC == INSTANCE AddressedCache
  WITH NumSets <- DCacheSets, NumWays <- DCacheWays, CacheSize <- DCacheSize,
       BlockSize <- DCacheBlock, Tags <- CacheTags, MaxAccesses <- MaxDin, Addresses <- {},
       lru <- dcLru, valid <- dcValid, tag <- dcTag, last <- dcLast,
       hits <- dcHits, misses <- dcMisses

\* Addresses are as wide as the words of the emulator, and the split of either cache fits.
ASSUME CachesAssumption ==
  /\ {ICacheSets, ICacheWays, DCacheSets, DCacheWays} \subseteq Nat \ {0}
  /\ IC!SplitFits /\ DC!SplitFits
  /\ 0 \in CacheTags
  /\ \A address \in Value : {IC!TagOf(address), DC!TagOf(address)} \subseteq CacheTags

-----------------------------------------------------------------------------
\* initSimulator
SimInit ==
  /\ StatsInit
  /\ EmulatorInit
  /\ IC!CacheInit /\ DC!CacheInit
  /\ executed = << >>
  /\ lookedUp = [ic |-> << >>, dc |-> << >>]

\* The instruction info of module Pipeline for one the emulator returned.
PipelineInfo(returned) ==
  [fetched |-> TRUE, id |-> returned.instructionID, word |-> returned.word,
   isOverflow |-> returned.isOverflow]

\* The address that comes with the info in a stage.
DataAddressMutant(i) == executed'[Len(executed')].accessAddress
DataAddress(i) == executed'[i.id + 1].accessAddress

\* updateCacheDelays' lookups: what has just been fetched by its pc, and what has just
\* entered MEM by its load or store address.
LookUpFetch(i, hit) ==
  IF AccessesICache(i)
  THEN /\ IC!AccessAddress(info'.pc)
       /\ hit = icLast'.hit
  ELSE /\ UNCHANGED icTables
       /\ ~hit

LookUpData(i, hit) ==
  IF AccessesDCache(i)
  THEN /\ DC!AccessAddress(DataAddress(i))
       /\ hit = dcLast'.hit
  ELSE /\ UNCHANGED dcTables
       /\ ~hit

RecordLookUps(fetched, entered) ==
  lookedUp' =
    [ic |-> IF AccessesICache(fetched) THEN Append(lookedUp.ic, info'.pc) ELSE lookedUp.ic,
     dc |-> IF AccessesDCache(entered) THEN Append(lookedUp.dc, DataAddress(entered))
                                       ELSE lookedUp.dc]

\* The emulator while nothing is fetched.
NotFetching == UNCHANGED <<emulatorState, executed>>

SimStallMEM ==
  /\ CountStallMEM
  /\ NotFetching /\ UNCHANGED <<icTables, dcTables, lookedUp>>

SimStallID(dHit) ==
  /\ NotFetching
  /\ CountStallID(dHit)
  /\ LookUpData(memInstr', dHit) /\ UNCHANGED icTables
  /\ RecordLookUps(NOP, memInstr')

SimStallIF(dHit) ==
  /\ NotFetching
  /\ CountStallIF(dHit)
  /\ LookUpData(memInstr', dHit) /\ UNCHANGED icTables
  /\ RecordLookUps(NOP, memInstr')

\* The call of executeInstruction, and the info that enters IF.
Handling == handlingHalt \/ handlingException

FetchInstruction ==
  IF Handling THEN NotFetching
  ELSE /\ \E instr \in Fetchable : ExecuteInstruction(instr)
       /\ executed' = Append(executed, info')

Fetched == IF Handling THEN NOP ELSE PipelineInfo(info')

SimAdvance(iHit, dHit) ==
  /\ FetchInstruction
  /\ CountAdvance(Fetched, iHit, dHit)
  /\ LookUpFetch(Fetched, iHit)
  /\ LookUpData(memInstr', dHit)
  /\ RecordLookUps(Fetched, memInstr')

SimReachHalt ==
  /\ FetchInstruction
  /\ CountReachHalt(Fetched)
  /\ UNCHANGED <<icTables, dcTables, lookedUp>>

\* finalizeSimulator dumps what is there when runTillHalt has returned.
SimHalted ==
  /\ StatsHalted
  /\ NotFetching /\ UNCHANGED <<icTables, dcTables, lookedUp>>

SimNext ==
  \/ SimStallMEM
  \/ \E dHit \in BOOLEAN : SimStallID(dHit) \/ SimStallIF(dHit)
  \/ \E iHit, dHit \in BOOLEAN : SimAdvance(iHit, dHit)
  \/ SimReachHalt
  \/ SimHalted

SimSpec == SimInit /\ [][SimNext]_simVars

-----------------------------------------------------------------------------
\* Whatever the pipeline does with stalls, pauses and squashes, the emulator takes the
\* steps of the functional simulator, not one behind HALT: both leave the same registers
\* and memory and report the same number of instructions.
AgreesWithFunctSim == FunctSpec

\* The emulator runs ahead of MEM, and stalls hold instructions in their stages: the
\* instruction cache is still asked for every pc, and the data cache for the address of
\* every load and store, once each and in program order.
MemOpsExecuted == {k \in 1..Len(executed) : executed[k].word.op \in MemOps}

\* The position of k among them.
Rank(k) == Cardinality({j \in MemOpsExecuted : j <= k})

CachesSeeProgramOrder ==
  /\ lookedUp.ic = [k \in 1..Len(executed) |-> executed[k].pc]
  /\ Len(lookedUp.dc) <= Cardinality(MemOpsExecuted)
  /\ \A k \in MemOpsExecuted :
       Rank(k) <= Len(lookedUp.dc) => lookedUp.dc[Rank(k)] = executed[k].accessAddress
  /\ status = "HALT" => Len(lookedUp.dc) = Cardinality(MemOpsExecuted)
=============================================================================
