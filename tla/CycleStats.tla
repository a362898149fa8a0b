----------------------------- MODULE CycleStats -----------------------------
(***************************************************************************)
(* The statistics the cycle simulator reports (finalizeSimulator of        *)
(* cycle.cpp): cycles, load stalls, hits and misses.  They are counted     *)
(* beside the control of module Pipeline, whose steps these extend, and    *)
(* nothing in the control reads them.                                      *)
(*                                                                         *)
(* The variable history is not in the code: it records what happened, for  *)
(* the properties to hold the statistics against.                          *)
(***************************************************************************)
EXTENDS Pipeline, Sequences, FiniteSets

VARIABLES
  cycleCount, loadStalls,
  loadStallDepLut,                       \* the last load-stall pairs counted
  icHits, icMisses, dcHits, dcMisses,    \* Cache::hits and Cache::misses, per cache
  history

stats     == <<cycleCount, loadStalls, loadStallDepLut, icHits, icMisses, dcHits, dcMisses>>
statsVars == <<vars, stats, history>>

One(b) == IF b THEN 1 ELSE 0

-----------------------------------------------------------------------------
\* appendLoadStall keeps the last five pairs.
LutCapacityMutant == 1
LutCapacity == 5

Entries(lut) == {lut[k] : k \in 1..Len(lut)}

\* seenLoadStall, and appendLoadStall of a pair not seen, when the pair's hazard is there.
AfterPairMutant(lut, hazard, pair) ==
  IF ~hazard \/ pair \in Entries(lut) THEN lut ELSE Append(lut, pair)
AfterPair(lut, hazard, pair) ==
  IF ~hazard \/ pair \in Entries(lut) THEN lut
  ELSE Append(IF Len(lut) = LutCapacity THEN Tail(lut) ELSE lut, pair)

IsNewPair(lut, hazard, pair) == hazard /\ pair \notin Entries(lut)

\* The two pairs detectHazards may count in a cycle.
ExPair  == <<exInstr.id, idInstr.id>>
MemPair == <<memInstr.id, idInstr.id>>
ExHazard  == LoadInEX(Decoded(idInstr), Decoded(exInstr))
MemHazard == LoadInMEM(Decoded(idInstr), Decoded(memInstr))

CountLoadStalls ==
  LET lut == AfterPair(loadStallDepLut, ExHazard', ExPair')
  IN  /\ loadStallDepLut' = AfterPair(lut, MemHazard', MemPair')
      /\ loadStalls' = loadStalls + One(IsNewPair(loadStallDepLut, ExHazard', ExPair'))
                                  + One(IsNewPair(lut, MemHazard', MemPair'))

CountICache(i, hit) ==
  /\ icHits'   = icHits + One(AccessesICache(i) /\ hit)
  /\ icMisses' = icMisses + One(AccessesICache(i) /\ ~hit)

CountDCache(i, hit) ==
  /\ dcHits'   = dcHits + One(AccessesDCache(i) /\ hit)
  /\ dcMisses' = dcMisses + One(AccessesDCache(i) /\ ~hit)

CountCycle == cycleCount' = cycleCount + 1

-----------------------------------------------------------------------------
(***************************************************************************)
(* history: how many loads and stores, illegal words and overflows were    *)
(* executed, how many cycles held MEM (frozen) or only ID or IF (held),    *)
(* and every load-stall pair ever detected.                                *)
(***************************************************************************)
Executed(h, info) ==
  [h EXCEPT !.memOps    = @ + One(info.fetched /\ Decoded(info).op \in MemOps),
            !.illegals  = @ + One(~IsValid(info)),
            !.overflows = @ + One(info.isOverflow)]

WithPairs(h) ==
  [h EXCEPT !.pairs = @ \cup (IF ExHazard' THEN {ExPair'} ELSE {})
                        \cup (IF MemHazard' THEN {MemPair'} ELSE {})]

StatsInit ==
  /\ Init
  /\ cycleCount = 0 /\ loadStalls = 0 /\ loadStallDepLut = <<>>
  /\ icHits = 0 /\ icMisses = 0 /\ dcHits = 0 /\ dcMisses = 0
  /\ history = [memOps |-> 0, illegals |-> 0, overflows |-> 0, frozen |-> 0, held |-> 0,
                pairs |-> {}]

CountStallMEM ==
  /\ StallMEM
  /\ CountCycle /\ CountLoadStalls
  /\ UNCHANGED <<icHits, icMisses, dcHits, dcMisses>>
  /\ history' = WithPairs([history EXCEPT !.frozen = @ + 1])

CountStallID(dHit) ==
  /\ StallID(dHit)
  /\ CountCycle /\ CountLoadStalls /\ CountDCache(memInstr', dHit)
  /\ UNCHANGED <<icHits, icMisses>>
  /\ history' = WithPairs([history EXCEPT !.held = @ + 1])

CountStallIF(dHit) ==
  /\ StallIF(dHit)
  /\ CountCycle /\ CountLoadStalls /\ CountDCache(memInstr', dHit)
  /\ UNCHANGED <<icHits, icMisses>>
  /\ history' = WithPairs([history EXCEPT !.held = @ + 1])

CountAdvance(info, iHit, dHit) ==
  /\ Advance(info, iHit, dHit)
  /\ CountCycle /\ CountLoadStalls /\ CountICache(info, iHit) /\ CountDCache(memInstr', dHit)
  /\ history' = WithPairs(Executed(history, info))

CountReachHalt(info) ==
  /\ ReachHalt(info)
  /\ CountCycle
  /\ UNCHANGED <<loadStalls, loadStallDepLut, icHits, icMisses, dcHits, dcMisses, history>>

StatsHalted == Halted /\ UNCHANGED <<stats, history>>

StatsNext ==
  \/ CountStallMEM
  \/ \E dHit \in BOOLEAN : CountStallID(dHit) \/ CountStallIF(dHit)
  \/ \E info \in {NOP} \cup Executable :
       \/ \E iHit, dHit \in BOOLEAN : CountAdvance(info, iHit, dHit)
       \/ CountReachHalt(info)
  \/ StatsHalted

StatsSpec == StatsInit /\ [][StatsNext]_statsVars

-----------------------------------------------------------------------------
\* Type invariant: the pairs of the table are pairs of instruction numbers.
StatsTypeOK ==
  /\ cycleCount \in Nat /\ loadStalls \in Nat
  /\ icHits \in Nat /\ icMisses \in Nat /\ dcHits \in Nat /\ dcMisses \in Nat
  /\ loadStallDepLut \in Seq(Nat \X Nat) /\ Len(loadStallDepLut) <= LutCapacity
  /\ history.memOps \in Nat /\ history.illegals \in Nat /\ history.overflows \in Nat
  /\ history.frozen \in Nat /\ history.held \in Nat
  /\ history.pairs \subseteq Nat \X Nat

\* detectHazards sees the same hazard again in every cycle the instructions do not move:
\* the table of five keeps it from being counted twice, however long a miss lasts.
LoadStallsCountEachPairOnce == loadStalls = Cardinality(history.pairs)

\* updateCacheDelays looks every instruction up once, however long it stays in IF, and no
\* bubble (the instruction that halts the run included).
EveryFetchLookedUpOnce == icHits + icMisses = din

\* Every load and store is looked up once, when it enters MEM: those executed and not
\* looked up are the ones in IF, ID and EX.
IsMemOp(i) == i.fetched /\ Decoded(i).op \in MemOps

EveryMemOpLookedUpOnce ==
  dcHits + dcMisses + One(IsMemOp(ifInstr)) + One(IsMemOp(idInstr)) + One(IsMemOp(exInstr))
    = history.memOps

\* A data miss freezes the pipeline for exactly its latency: the cycles MEM was held, and
\* those it is still going to be, are the latencies of the misses.
MissesFreezeForTheirLatency ==
  history.frozen + (IF MEM_stall THEN dCacheDelay + 1 ELSE 0) = DCacheLatency * dcMisses

\* Every cycle of a run that halted issues an instruction, holds a stage, waits for an
\* exception (one cycle for an illegal word, two for an overflow) or drains HALT (four).
CyclesAccountedFor ==
  status = "HALT" =>
    cycleCount = din + 4 + history.illegals + 2 * history.overflows
                   + history.frozen + history.held
-----------------------------------------------------------------------------
\* What the comment on seenLoadStall says of a pair (cycle.cpp:392): "din1 is the using
\* instruction and din2 is the loading instruction", so the first is the later one.
UserThenLoad == \A p \in Entries(loadStallDepLut) : p[1] > p[2]

\* What the same comment says: "din1 depends on din2".  The branch in ID depends on the
\* load in MEM only if the instruction between them does not overwrite the register.
PairIsADependence ==
  MemPair \in Entries(loadStallDepLut) /\ MemHazard =>
    Dest(Decoded(exInstr)) # Decoded(memInstr).rt
=============================================================================
