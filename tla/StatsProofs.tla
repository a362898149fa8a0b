----------------------------- MODULE StatsProofs -----------------------------
(***************************************************************************)
(* Proofs about the statistics of the cycle simulator, for every program,  *)
(* every pair of miss latencies and every outcome of the lookups.  They    *)
(* rest on the invariant of the control (module PipelineProofs).           *)
(***************************************************************************)
EXTENDS CycleStats, PipelineProofs, SequenceTheorems, FiniteSetTheorems

-----------------------------------------------------------------------------
\* The statistics are counted beside the control: they keep it from nothing, and add nothing.
LEMMA StatsStepIsStep == [StatsNext]_statsVars => [Next]_vars
BY DEF StatsNext, CountStallMEM, CountStallID, CountStallIF, CountAdvance, CountReachHalt,
       StatsHalted, Next, statsVars

\* Every run with the counters is a run of the control: each theorem about Spec is one about
\* StatsSpec.
THEOREM StatsFollowControl == StatsSpec => Spec
<1>1. StatsInit => Init
  BY DEF StatsInit
<1> QED BY <1>1, StatsStepIsStep, PTL DEF StatsSpec, Spec

\* The cycle in which HALT reaches WB executes nothing and leaves nothing behind it.
LEMMA ReachHaltFacts ==
  ASSUME PipelineInv, NEW info, ReachHalt(info)
  PROVE  /\ info = NOP /\ din' = din /\ IsHalt(memInstr)
         /\ ifInstr = NOP /\ idInstr = NOP /\ exInstr = NOP
<1>1. IsHalt(memInstr)
  BY DEF ReachHalt, Propagate, IsHalt
<1>2. handlingHalt
  BY <1>1 DEF PipelineInv, HaltSeen
<1>3. info = NOP /\ din' = din
  BY <1>2 DEF ReachHalt, Fetch
<1>4. ~exInstr.fetched /\ ~idInstr.fetched /\ ~ifInstr.fetched
  BY <1>1 DEF PipelineInv, NothingBehindHaltOrException, NothingBehind
<1> QED BY <1>1, <1>3, <1>4 DEF PipelineInv, StagesOK, InfoOK

-----------------------------------------------------------------------------
(***************************************************************************)
(* Types, and what each kind of cycle adds to which count.                 *)
(***************************************************************************)
History == [memOps : Nat, illegals : Nat, overflows : Nat, frozen : Nat, held : Nat,
            pairs : SUBSET (Nat \X Nat)]

CountsOK == StatsTypeOK /\ history \in History

LEMMA OneFacts == \A b : One(b) \in {0, 1} /\ (b => One(b) = 1) /\ (~b => One(b) = 0)
BY DEF One

LEMMA PairsAreNumbers ==
  ASSUME TypeOK'
  PROVE  ExPair' \in Nat \X Nat /\ MemPair' \in Nat \X Nat
BY DEF TypeOK, Info, ExPair, MemPair

LEMMA LutStays ==
  ASSUME NEW S, NEW lut \in Seq(S), Len(lut) <= LutCapacity,
         NEW hazard, NEW pair \in S
  PROVE  /\ AfterPair(lut, hazard, pair) \in Seq(S)
         /\ Len(AfterPair(lut, hazard, pair)) <= LutCapacity
<1>1. CASE ~hazard \/ pair \in Entries(lut)
  BY <1>1 DEF AfterPair
<1>2. CASE ~(~hazard \/ pair \in Entries(lut))
  <2> DEFINE kept == IF Len(lut) = LutCapacity THEN Tail(lut) ELSE lut
  <2>1. kept \in Seq(S) /\ Len(kept) < LutCapacity
    <3>1. lut # << >> => Tail(lut) \in Seq(S) /\ Len(Tail(lut)) = Len(lut) - 1
      BY HeadTailProperties
    <3>2. Len(lut) \in Nat /\ (Len(lut) = 5 => lut # << >>)
      OBVIOUS
    <3>3. Len(lut) <= 5 /\ LutCapacity = 5
      BY DEF LutCapacity
    <3>4. CASE Len(lut) = 5
      <4>1. kept = Tail(lut)
        BY <3>3, <3>4
      <4>2. Tail(lut) \in Seq(S) /\ Len(Tail(lut)) = Len(lut) - 1
        BY <3>1, <3>2, <3>4
      <4> HIDE DEF kept
      <4> QED BY <3>3, <3>4, <4>1, <4>2
    <3>5. CASE Len(lut) # 5
      <4>1. kept = lut
        BY <3>3, <3>5
      <4>2. Len(lut) < LutCapacity
        <5>1. \A n \in Nat : n <= 5 /\ n # 5 => n < 5
          OBVIOUS
        <5> QED BY <3>2, <3>3, <3>5, <5>1, Zenon
      <4>3. lut \in Seq(S)
        OBVIOUS
      <4> HIDE DEF kept
      <4> QED BY <4>1, <4>2, <4>3, Zenon
    <3> QED BY <3>4, <3>5
  <2>2. AfterPair(lut, hazard, pair) = Append(kept, pair)
    BY <1>2 DEF AfterPair
  <2> HIDE DEF kept
  <2> QED BY <2>1, <2>2 DEF LutCapacity
<1> QED BY <1>1, <1>2

LEMMA WithPairsFacts ==
  ASSUME TypeOK', NEW h \in History
  PROVE  /\ WithPairs(h) \in History
         /\ WithPairs(h).memOps = h.memOps /\ WithPairs(h).illegals = h.illegals
         /\ WithPairs(h).overflows = h.overflows
         /\ WithPairs(h).frozen = h.frozen /\ WithPairs(h).held = h.held
BY PairsAreNumbers DEF WithPairs, History

LEMMA ExecutedFacts ==
  ASSUME NEW h \in History, NEW i
  PROVE  /\ Executed(h, i) \in History
         /\ Executed(h, i).memOps = h.memOps + One(IsMemOp(i))
         /\ Executed(h, i).illegals = h.illegals + One(~IsValid(i))
         /\ Executed(h, i).overflows = h.overflows + One(i.isOverflow)
         /\ Executed(h, i).frozen = h.frozen /\ Executed(h, i).held = h.held
<1> DEFINE a == One(IsMemOp(i))
           b == One(~IsValid(i))
           c == One(i.isOverflow)
<1>1. a \in Nat /\ b \in Nat /\ c \in Nat
  BY OneFacts
<1> DEFINE h1 == [h EXCEPT !.memOps = @ + a]
           h2 == [h1 EXCEPT !.illegals = @ + b]
           h3 == [h2 EXCEPT !.overflows = @ + c]
<1>2. Executed(h, i) = h3
  BY DEF Executed, IsMemOp
<1> HIDE DEF a, b, c
<1>4. /\ h1 \in History /\ h1.memOps = h.memOps + a
      /\ h1.illegals = h.illegals /\ h1.overflows = h.overflows
      /\ h1.frozen = h.frozen /\ h1.held = h.held
  BY <1>1 DEF History
<1> HIDE DEF h1
<1>5. /\ h2 \in History /\ h2.memOps = h.memOps + a
      /\ h2.illegals = h.illegals + b /\ h2.overflows = h.overflows
      /\ h2.frozen = h.frozen /\ h2.held = h.held
  BY <1>1, <1>4 DEF History
<1> HIDE DEF h2
<1>3. /\ h3 \in History /\ h3.memOps = h.memOps + a
      /\ h3.illegals = h.illegals + b /\ h3.overflows = h.overflows + c
      /\ h3.frozen = h.frozen /\ h3.held = h.held
  BY <1>1, <1>5 DEF History
<1> HIDE DEF h3
<1> QED BY <1>2, <1>3 DEF a, b, c

\* What a cycle adds to history.
Adds(memOps, illegals, overflows, frozen, held) ==
  /\ history' \in History
  /\ history'.memOps = history.memOps + memOps
  /\ history'.illegals = history.illegals + illegals
  /\ history'.overflows = history.overflows + overflows
  /\ history'.frozen = history.frozen + frozen
  /\ history'.held = history.held + held

CachesAsBefore == UNCHANGED <<icHits, icMisses, dcHits, dcMisses>>

\* The five kinds of cycles.
Froze == StallMEM /\ CountCycle /\ CachesAsBefore /\ Adds(0, 0, 0, 1, 0)
Held(dHit) ==
  /\ StallID(dHit) \/ StallIF(dHit)
  /\ CountCycle /\ CountDCache(memInstr', dHit) /\ UNCHANGED <<icHits, icMisses>>
  /\ Adds(0, 0, 0, 0, 1)
Issued(i, iHit, dHit) ==
  /\ Advance(i, iHit, dHit)
  /\ CountCycle /\ CountICache(i, iHit) /\ CountDCache(memInstr', dHit)
  /\ Adds(One(IsMemOp(i)), One(~IsValid(i)), One(i.isOverflow), 0, 0)
Ended(i) == ReachHalt(i) /\ CountCycle /\ CachesAsBefore /\ UNCHANGED history
Rested == UNCHANGED statsVars

LEMMA StatsMoves ==
  ASSUME PipelineInv, CountsOK, [StatsNext]_statsVars
  PROVE  \/ Froze
         \/ \E dHit \in BOOLEAN : Held(dHit)
         \/ \E i : \E iHit, dHit \in BOOLEAN : Issued(i, iHit, dHit)
         \/ \E i : Ended(i)
         \/ Rested
<1>0. TypeOK'
  BY StatsStepIsStep, InvStep DEF PipelineInv
<1>1. history \in History
  BY DEF CountsOK
<1>2. CASE CountStallMEM
  <2> DEFINE h == [history EXCEPT !.frozen = @ + 1]
  <2>1. /\ h \in History /\ h.frozen = history.frozen + 1 /\ h.memOps = history.memOps + 0
        /\ h.illegals = history.illegals + 0 /\ h.overflows = history.overflows + 0
        /\ h.held = history.held + 0
    BY <1>1 DEF History
  <2>2. history' = WithPairs(h)
    BY <1>2 DEF CountStallMEM
  <2> HIDE DEF h
  <2>3. Adds(0, 0, 0, 1, 0)
    BY <1>0, <2>1, <2>2, WithPairsFacts DEF Adds
  <2> QED BY <1>2, <2>3 DEF CountStallMEM, Froze, CachesAsBefore
<1>3. ASSUME NEW dHit \in BOOLEAN, CountStallID(dHit) \/ CountStallIF(dHit)
      PROVE  Held(dHit)
  <2> DEFINE h == [history EXCEPT !.held = @ + 1]
  <2>1. /\ h \in History /\ h.held = history.held + 1 /\ h.memOps = history.memOps + 0
        /\ h.illegals = history.illegals + 0 /\ h.overflows = history.overflows + 0
        /\ h.frozen = history.frozen + 0
    BY <1>1 DEF History
  <2>2. history' = WithPairs(h)
    BY <1>3 DEF CountStallID, CountStallIF
  <2> HIDE DEF h
  <2>3. Adds(0, 0, 0, 0, 1)
    BY <1>0, <2>1, <2>2, WithPairsFacts DEF Adds
  <2> QED BY <1>3, <2>3 DEF CountStallID, CountStallIF, Held
<1>4. ASSUME NEW i, NEW iHit \in BOOLEAN, NEW dHit \in BOOLEAN, CountAdvance(i, iHit, dHit)
      PROVE  Issued(i, iHit, dHit)
  <2> DEFINE h == Executed(history, i)
  <2>1. /\ h \in History /\ h.held = history.held + 0 /\ h.frozen = history.frozen + 0
        /\ h.memOps = history.memOps + One(IsMemOp(i))
        /\ h.illegals = history.illegals + One(~IsValid(i))
        /\ h.overflows = history.overflows + One(i.isOverflow)
    <3>1. history.held \in Nat /\ history.frozen \in Nat
      BY <1>1 DEF History
    <3>2. /\ h \in History /\ h.held = history.held /\ h.frozen = history.frozen
          /\ h.memOps = history.memOps + One(IsMemOp(i))
          /\ h.illegals = history.illegals + One(~IsValid(i))
          /\ h.overflows = history.overflows + One(i.isOverflow)
      BY <1>1, ExecutedFacts
    <3> HIDE DEF h
    <3> QED BY <3>1, <3>2
  <2>2. history' = WithPairs(h)
    BY <1>4 DEF CountAdvance
  <2> HIDE DEF h
  <2>3. Adds(One(IsMemOp(i)), One(~IsValid(i)), One(i.isOverflow), 0, 0)
    BY <1>0, <2>1, <2>2, WithPairsFacts DEF Adds
  <2> QED BY <1>4, <2>3 DEF CountAdvance, Issued
<1>5. ASSUME NEW i, CountReachHalt(i)
      PROVE  Ended(i)
  BY <1>5 DEF CountReachHalt, Ended, CachesAsBefore
<1>6. CASE StatsHalted
  BY <1>6 DEF StatsHalted, Halted, statsVars, Rested
<1>7. CASE UNCHANGED statsVars
  BY <1>7 DEF Rested
<1> QED BY <1>2, <1>3, <1>4, <1>5, <1>6, <1>7 DEF StatsNext

LEMMA CountsStart == StatsInit => CountsOK
<1>1. ASSUME StatsInit PROVE CountsOK
  <2>1. loadStallDepLut \in Seq(Nat \X Nat) /\ Len(loadStallDepLut) <= LutCapacity
    BY <1>1 DEF StatsInit, LutCapacity
  <2>2. history \in History
    BY <1>1 DEF StatsInit, History
  <2> QED BY <1>1, <2>1, <2>2 DEF StatsInit, CountsOK, StatsTypeOK, History
<1> QED BY <1>1

LEMMA CountsStay == PipelineInv /\ CountsOK /\ [StatsNext]_statsVars => CountsOK'
<1> SUFFICES ASSUME PipelineInv, CountsOK, [StatsNext]_statsVars PROVE CountsOK'
  OBVIOUS
<1>0. TypeOK'
  BY StatsStepIsStep, InvStep DEF PipelineInv
<1>1. cycleCount' \in Nat /\ history' \in History
  BY StatsMoves
     DEF Froze, Held, Issued, Ended, Rested, Adds, CountCycle, CountsOK, StatsTypeOK, statsVars,
         stats
<1>2. icHits' \in Nat /\ icMisses' \in Nat /\ dcHits' \in Nat /\ dcMisses' \in Nat
  <2>1. icHits \in Nat /\ icMisses \in Nat /\ dcHits \in Nat /\ dcMisses \in Nat
    BY DEF CountsOK, StatsTypeOK
  <2>2. ASSUME NEW i, NEW hit, CountICache(i, hit) PROVE icHits' \in Nat /\ icMisses' \in Nat
    BY <2>1, <2>2, OneFacts DEF CountICache
  <2>3. ASSUME NEW i, NEW hit, CountDCache(i, hit) PROVE dcHits' \in Nat /\ dcMisses' \in Nat
    BY <2>1, <2>3, OneFacts DEF CountDCache
  <2> QED BY <2>1, <2>2, <2>3, StatsMoves
          DEF Froze, Held, Issued, Ended, Rested, CachesAsBefore, statsVars, stats
<1>3. loadStalls' \in Nat /\ loadStallDepLut' \in Seq(Nat \X Nat) /\ Len(loadStallDepLut') <= LutCapacity
  <2>1. CASE CountLoadStalls
    <3> DEFINE lut == AfterPair(loadStallDepLut, ExHazard', ExPair')
    <3>1. lut \in Seq(Nat \X Nat) /\ Len(lut) <= LutCapacity
      BY <1>0, LutStays, PairsAreNumbers DEF CountsOK, StatsTypeOK
    <3>2. loadStallDepLut' = AfterPair(lut, MemHazard', MemPair')
      BY <2>1 DEF CountLoadStalls
    <3>3. loadStalls' \in Nat
      BY <2>1, OneFacts DEF CountLoadStalls, CountsOK, StatsTypeOK
    <3> HIDE DEF lut
    <3> QED BY <1>0, <3>1, <3>2, <3>3, LutStays, PairsAreNumbers
  <2>2. CASE UNCHANGED <<loadStalls, loadStallDepLut>>
    BY <2>2 DEF CountsOK, StatsTypeOK
  <2> QED BY <2>1, <2>2
          DEF StatsNext, CountStallMEM, CountStallID, CountStallIF, CountAdvance,
              CountReachHalt, StatsHalted, statsVars, stats
<1>4. history'.memOps \in Nat /\ history'.illegals \in Nat /\ history'.overflows \in Nat
      /\ history'.frozen \in Nat /\ history'.held \in Nat /\ history'.pairs \subseteq Nat \X Nat
  BY <1>1 DEF History
<1> QED BY <1>1, <1>2, <1>3, <1>4 DEF CountsOK, StatsTypeOK

LEMMA CountsHold == StatsSpec => [](PipelineInv /\ CountsOK)
<1>1. PipelineInv /\ [StatsNext]_statsVars => PipelineInv'
  BY StatsStepIsStep, InvStep
<1>2. StatsInit => PipelineInv
  BY InitInv DEF StatsInit
<1> QED BY <1>1, <1>2, CountsStart, CountsStay, PTL DEF StatsSpec

\* The counts are numbers, and the table of load-stall pairs never exceeds its capacity.
THEOREM StatsTypeCorrect == StatsSpec => []StatsTypeOK
<1>1. CountsOK => StatsTypeOK
  BY DEF CountsOK
<1> QED BY <1>1, CountsHold, PTL

-----------------------------------------------------------------------------
(***************************************************************************)
(* The caches are asked once for everything.                               *)
(***************************************************************************)
LEMMA LookupsAre ==
  ASSUME CountsOK, NEW i, NEW hit \in BOOLEAN
  PROVE  /\ CountICache(i, hit) => icHits' + icMisses' = icHits + icMisses + One(AccessesICache(i))
         /\ CountDCache(i, hit) => dcHits' + dcMisses' = dcHits + dcMisses + One(AccessesDCache(i))
<1>1. icHits \in Nat /\ icMisses \in Nat /\ dcHits \in Nat /\ dcMisses \in Nat
  BY DEF CountsOK, StatsTypeOK
<1>2. ASSUME NEW b
      PROVE  One(b /\ hit) + One(b /\ ~hit) = One(b)
  <2>1. CASE hit
    <3>1. (b /\ hit <=> b) /\ ~(b /\ ~hit)
      BY <2>1
    <3> QED BY <3>1 DEF One
  <2>2. CASE ~hit
    <3>1. ~(b /\ hit) /\ (b /\ ~hit <=> b)
      BY <2>2
    <3> QED BY <3>1 DEF One
  <2> QED BY <2>1, <2>2
<1>3. \A b : One(b) \in Nat
  BY OneFacts
<1>4. CountICache(i, hit) => icHits' + icMisses' = icHits + icMisses + One(AccessesICache(i))
  <2> DEFINE b == AccessesICache(i)
  <2>1. One(b /\ hit) + One(b /\ ~hit) = One(b) /\ One(b /\ hit) \in Nat /\ One(b /\ ~hit) \in Nat
    BY <1>2, <1>3
  <2> QED BY <1>1, <2>1 DEF CountICache
<1>5. CountDCache(i, hit) => dcHits' + dcMisses' = dcHits + dcMisses + One(AccessesDCache(i))
  <2> DEFINE b == AccessesDCache(i)
  <2>1. One(b /\ hit) + One(b /\ ~hit) = One(b) /\ One(b /\ hit) \in Nat /\ One(b /\ ~hit) \in Nat
    BY <1>2, <1>3
  <2> QED BY <1>1, <2>1 DEF CountDCache
<1> QED BY <1>4, <1>5

\* The instruction cache is asked once for every instruction executed, however long it
\* stays in IF, and never for a bubble.
THEOREM FetchesLookedUpOnce == StatsSpec => []EveryFetchLookedUpOnce
<1>1. StatsInit => EveryFetchLookedUpOnce
  BY DEF StatsInit, Init, EveryFetchLookedUpOnce
<1>2. PipelineInv /\ CountsOK /\ EveryFetchLookedUpOnce /\ [StatsNext]_statsVars
        => EveryFetchLookedUpOnce'
  <2> SUFFICES ASSUME PipelineInv, CountsOK, EveryFetchLookedUpOnce, [StatsNext]_statsVars
               PROVE  EveryFetchLookedUpOnce'
    OBVIOUS
  <2>1. CASE Froze
    BY <2>1 DEF Froze, CachesAsBefore, StallMEM, EveryFetchLookedUpOnce
  <2>2. ASSUME NEW dHit \in BOOLEAN, Held(dHit) PROVE EveryFetchLookedUpOnce'
    BY <2>2 DEF Held, StallID, StallIF, EveryFetchLookedUpOnce
  <2>3. ASSUME NEW i, NEW iHit \in BOOLEAN, NEW dHit \in BOOLEAN, Issued(i, iHit, dHit)
        PROVE  EveryFetchLookedUpOnce'
    <3>1. icHits' + icMisses' = din + One(AccessesICache(i))
      BY <2>3, LookupsAre DEF Issued, EveryFetchLookedUpOnce
    <3>2. Fetch(i) /\ TypeOK
      BY <2>3 DEF Issued, Advance, PipelineInv
    <3>3. din \in Nat
      BY <3>2, PipelineAssumption DEF TypeOK
    <3>4. (i = NOP /\ din' = din) \/ (i.fetched /\ din' = din + 1)
      BY <3>2, FetchFacts
    <3>5. One(AccessesICache(i)) = din' - din
      BY <3>3, <3>4, BubbleFacts, OneFacts DEF AccessesICache
    <3> QED BY <3>1, <3>3, <3>4, <3>5 DEF EveryFetchLookedUpOnce
  <2>4. ASSUME NEW i, Ended(i) PROVE EveryFetchLookedUpOnce'
    BY <2>4, ReachHaltFacts DEF Ended, CachesAsBefore, EveryFetchLookedUpOnce
  <2>5. CASE Rested
    BY <2>5 DEF Rested, statsVars, stats, vars, EveryFetchLookedUpOnce
  <2> QED BY <2>1, <2>2, <2>3, <2>4, <2>5, StatsMoves
<1> QED BY <1>1, <1>2, CountsHold, PTL DEF StatsSpec

\* What excepts is no load or store.
LEMMA ExceptingIsNoMemOp ==
  ASSUME NEW i, i.isOverflow => i.word.op \in OverflowOps
  PROVE  /\ Excepting(i) => ~IsMemOp(i)
         /\ IsMemOp(i) <=> AccessesDCache(i)
BY DEF Excepting, IsValid, IsMemOp, AccessesDCache, Decoded, IsHalt, OverflowOps, MemOps,
       LoadOps, StoreOps, ZeroWord

\* The data cache is asked once for every load and store executed that has left EX: none is
\* forgotten in a stall and none is asked for twice.
THEOREM MemOpsLookedUpOnce == StatsSpec => []EveryMemOpLookedUpOnce
<1>1. StatsInit => EveryMemOpLookedUpOnce
  <2>1. One(IsMemOp(NOP)) = 0
    BY BubbleFacts, OneFacts DEF IsMemOp
  <2> QED BY <2>1 DEF StatsInit, Init, EveryMemOpLookedUpOnce
<1>2. PipelineInv /\ CountsOK /\ EveryMemOpLookedUpOnce /\ [StatsNext]_statsVars
        => EveryMemOpLookedUpOnce'
  <2> SUFFICES ASSUME PipelineInv, CountsOK, EveryMemOpLookedUpOnce, [StatsNext]_statsVars
               PROVE  EveryMemOpLookedUpOnce'
    OBVIOUS
  <2> DEFINE Mem(i) == One(IsMemOp(i))
  <2>1. /\ dcHits + dcMisses + Mem(ifInstr) + Mem(idInstr) + Mem(exInstr) = history.memOps
        /\ dcHits + dcMisses \in Nat /\ history.memOps \in Nat
    BY DEF EveryMemOpLookedUpOnce, CountsOK, StatsTypeOK
  <2>2. SUFFICES dcHits' + dcMisses' + Mem(ifInstr') + Mem(idInstr') + Mem(exInstr')
                   = history'.memOps
    BY DEF EveryMemOpLookedUpOnce, IsMemOp, Decoded, IsHalt
  <2>3. \A i : Mem(i) \in Nat
    BY OneFacts
  <2>4. Mem(NOP) = 0
    BY BubbleFacts, OneFacts DEF IsMemOp
  <2>5. /\ One(AccessesDCache(NOP)) = 0
        /\ One(AccessesDCache(exInstr)) = Mem(exInstr)
        /\ exInstr.isOverflow => Mem(exInstr) = 0
        /\ ~IsValid(idInstr) => Mem(idInstr) = 0
    <3>1. InfoOK(exInstr) /\ InfoOK(idInstr)
      BY DEF PipelineInv, StagesOK
    <3>2. /\ Excepting(exInstr) => ~IsMemOp(exInstr)
          /\ IsMemOp(exInstr) <=> AccessesDCache(exInstr)
          /\ Excepting(idInstr) => ~IsMemOp(idInstr)
      BY <3>1, ExceptingIsNoMemOp DEF InfoOK
    <3> QED BY <3>2, BubbleFacts, OneFacts DEF Excepting
  <2> HIDE DEF Mem
  <2>6. CASE Froze
    <3>1. /\ dcHits' = dcHits /\ dcMisses' = dcMisses /\ history'.memOps = history.memOps
          /\ ifInstr' = ifInstr /\ idInstr' = idInstr /\ exInstr' = exInstr
      BY <2>1, <2>6 DEF Froze, CachesAsBefore, StallMEM, Adds
    <3> QED BY <2>1, <3>1
  <2>7. ASSUME NEW dHit \in BOOLEAN, Held(dHit)
        PROVE  dcHits' + dcMisses' + Mem(ifInstr') + Mem(idInstr') + Mem(exInstr')
                 = history'.memOps
    <3>1. /\ memInstr' = exInstr /\ ifInstr' = ifInstr /\ history'.memOps = history.memOps
          /\ \/ idInstr' = idInstr /\ exInstr' = NOP
             \/ idInstr' = NOP /\ exInstr' = idInstr
      BY <2>1, <2>7 DEF Held, StallID, StallIF, Adds
    <3>2. dcHits' + dcMisses' = dcHits + dcMisses + One(AccessesDCache(memInstr'))
      BY <2>7, LookupsAre DEF Held
    <3>3. dcHits' + dcMisses' = dcHits + dcMisses + Mem(exInstr)
      BY <2>5, <3>1, <3>2
    <3> QED BY <2>1, <2>3, <2>4, <3>1, <3>3
  <2>8. ASSUME NEW i, NEW iHit \in BOOLEAN, NEW dHit \in BOOLEAN, Issued(i, iHit, dHit)
        PROVE  dcHits' + dcMisses' + Mem(ifInstr') + Mem(idInstr') + Mem(exInstr')
                 = history'.memOps
    <3>1. Shift(i)
      BY <2>8, PropagateShifts DEF Issued, Advance
    <3>2. /\ ifInstr' = i /\ idInstr' = ifInstr
          /\ exInstr' = (IF IsValid(idInstr) THEN idInstr ELSE NOP)
          /\ memInstr' = (IF exInstr.isOverflow THEN NOP ELSE exInstr)
          /\ history'.memOps = history.memOps + Mem(i)
      BY <2>8, <3>1 DEF Shift, Issued, Adds, Mem
    <3>3. dcHits' + dcMisses' = dcHits + dcMisses + One(AccessesDCache(memInstr'))
      BY <2>8, LookupsAre DEF Issued
    <3>4. dcHits' + dcMisses' = dcHits + dcMisses + Mem(exInstr)
      BY <2>5, <3>2, <3>3
    <3>5. Mem(exInstr') = Mem(idInstr)
      BY <2>4, <2>5, <3>2
    <3> QED BY <2>1, <2>3, <3>2, <3>4, <3>5
  <2>9. ASSUME NEW i, Ended(i)
        PROVE  dcHits' + dcMisses' + Mem(ifInstr') + Mem(idInstr') + Mem(exInstr')
                 = history'.memOps
    <3>1. i = NOP /\ ifInstr = NOP /\ idInstr = NOP /\ exInstr = NOP
      BY <2>9, ReachHaltFacts DEF Ended
    <3>2. ifInstr' = i /\ idInstr' = ifInstr /\ exInstr' = Squashed("ID", idInstr)
      BY <2>9 DEF Ended, ReachHalt, Propagate
    <3>3. dcHits' = dcHits /\ dcMisses' = dcMisses /\ history' = history
      BY <2>9 DEF Ended, CachesAsBefore
    <3> QED BY <2>1, <2>3, <2>4, <3>1, <3>2, <3>3 DEF Squashed
  <2>10. CASE Rested
    BY <2>1, <2>10 DEF Rested, statsVars, stats, vars, stages
  <2> QED BY <2>6, <2>7, <2>8, <2>9, <2>10, StatsMoves
<1> QED BY <1>1, <1>2, CountsHold, PTL DEF StatsSpec

-----------------------------------------------------------------------------
(***************************************************************************)
(* A miss freezes the pipeline for its latency.                            *)
(***************************************************************************)
\* The frozen cycles still to come.
FreezeLeft == IF MEM_stall THEN dCacheDelay + 1 ELSE 0

LEMMA FreezeFacts ==
  ASSUME NEW iDelay, NEW dDelay \in Nat, NEW pending, EndCycle(iDelay, dDelay, pending)
  PROVE  FreezeLeft' = dDelay
<1>1. MEM_stall' = (dDelay > 0) /\ dCacheDelay' = Decremented(dDelay)
  BY DEF EndCycle, SetStalls
<1>2. CASE dDelay > 0
  <2>1. MEM_stall' /\ dCacheDelay' = dDelay - 1
    BY <1>1, <1>2 DEF Decremented
  <2> QED BY <2>1 DEF FreezeLeft
<1>3. CASE ~(dDelay > 0)
  <2>1. dDelay = 0
    BY <1>3
  <2>2. ~MEM_stall'
    BY <1>1, <1>3
  <2> QED BY <2>1, <2>2 DEF FreezeLeft
<1> QED BY <1>2, <1>3

\* An access that was just counted: a miss adds its latency to the cycles to come.
LEMMA MissFacts ==
  ASSUME PipelineInv, CountsOK, Running, ~MEM_stall, NEW i, NEW hit \in BOOLEAN,
         CountDCache(i, hit)
  PROVE  /\ UpdatedDCacheDelay(i, hit) \in Nat
         /\ DCacheLatency * dcMisses' = DCacheLatency * dcMisses + UpdatedDCacheDelay(i, hit)
<1>1. DCacheLatency \in Nat /\ dcMisses \in Nat
  BY PipelineAssumption DEF CountsOK, StatsTypeOK
<1>2. dCacheDelay = 0
  BY PipelineAssumption DEF PipelineInv, TypeOK, StallsAreGrounded
<1>3. CASE AccessesDCache(i) /\ ~hit
  <2>1. dcMisses' = dcMisses + 1
    BY <1>3, OneFacts DEF CountDCache
  <2>2. DCacheLatency * (dcMisses + 1) = DCacheLatency * dcMisses + DCacheLatency
    BY <1>1
  <2> QED BY <1>1, <1>3, <2>1, <2>2 DEF UpdatedDCacheDelay, DCacheDelayOf
<1>4. CASE ~(AccessesDCache(i) /\ ~hit)
  <2>1. dcMisses' = dcMisses
    <3>1. One(AccessesDCache(i) /\ ~hit) = 0
      BY <1>4 DEF One
    <3> QED BY <1>1, <3>1 DEF CountDCache
  <2>2. UpdatedDCacheDelay(i, hit) = 0
    BY <1>2, <1>4 DEF UpdatedDCacheDelay, DCacheDelayOf
  <2> QED BY <1>1, <2>1, <2>2
<1> QED BY <1>3, <1>4

\* The cycles in which MEM was held, with those in which it will be, are the latencies of
\* the misses: no miss is cut short, and none holds MEM a cycle longer.
THEOREM MissesFreeze == StatsSpec => []MissesFreezeForTheirLatency
<1>1. StatsInit => MissesFreezeForTheirLatency
  BY PipelineAssumption DEF StatsInit, Init, MissesFreezeForTheirLatency
<1>2. PipelineInv /\ CountsOK /\ MissesFreezeForTheirLatency /\ [StatsNext]_statsVars
        => MissesFreezeForTheirLatency'
  <2> SUFFICES ASSUME PipelineInv, CountsOK, MissesFreezeForTheirLatency, [StatsNext]_statsVars
               PROVE  MissesFreezeForTheirLatency'
    OBVIOUS
  <2>1. /\ history.frozen + FreezeLeft = DCacheLatency * dcMisses
        /\ history.frozen \in Nat /\ DCacheLatency * dcMisses \in Nat
        /\ dCacheDelay \in Nat
    BY PipelineAssumption
       DEF MissesFreezeForTheirLatency, FreezeLeft, CountsOK, StatsTypeOK, PipelineInv, TypeOK
  <2>2. SUFFICES history'.frozen + FreezeLeft' = DCacheLatency * dcMisses'
    BY DEF MissesFreezeForTheirLatency, FreezeLeft
  <2>3. CASE Froze
    <3>1. /\ history'.frozen = history.frozen + 1 /\ dcMisses' = dcMisses /\ MEM_stall
          /\ EndCycle(iCacheDelay, dCacheDelay, squashStage)
      BY <2>3 DEF Froze, Adds, CachesAsBefore, StallMEM
    <3>2. FreezeLeft' = dCacheDelay /\ FreezeLeft = dCacheDelay + 1
      BY <2>1, <3>1, FreezeFacts DEF FreezeLeft
    <3> QED BY <2>1, <3>1, <3>2
  <2>4. ASSUME NEW dHit \in BOOLEAN, NEW iDelay, NEW pending,
               Running, ~MEM_stall, CountDCache(memInstr', dHit),
               EndCycle(iDelay, UpdatedDCacheDelay(memInstr', dHit), pending),
               history'.frozen = history.frozen
        PROVE  history'.frozen + FreezeLeft' = DCacheLatency * dcMisses'
    <3> DEFINE d == UpdatedDCacheDelay(memInstr', dHit)
    <3>1. d \in Nat /\ DCacheLatency * dcMisses' = DCacheLatency * dcMisses + d
      BY <2>4, MissFacts
    <3>2. FreezeLeft' = d
      BY <2>4, <3>1, FreezeFacts
    <3>3. FreezeLeft = 0
      BY <2>4 DEF FreezeLeft
    <3> HIDE DEF d
    <3> QED BY <2>1, <2>4, <3>1, <3>2, <3>3
  <2>5. ASSUME NEW dHit \in BOOLEAN, Held(dHit)
        PROVE  history'.frozen + FreezeLeft' = DCacheLatency * dcMisses'
    <3>1. /\ Running /\ ~MEM_stall /\ CountDCache(memInstr', dHit)
          /\ EndCycle(iCacheDelay, UpdatedDCacheDelay(memInstr', dHit), squashStage)
          /\ history'.frozen = history.frozen
      BY <2>1, <2>5 DEF Held, StallID, StallIF, Adds
    <3> QED BY <2>4, <3>1
  <2>6. ASSUME NEW i, NEW iHit \in BOOLEAN, NEW dHit \in BOOLEAN, Issued(i, iHit, dHit)
        PROVE  history'.frozen + FreezeLeft' = DCacheLatency * dcMisses'
    <3>1. /\ Running /\ ~MEM_stall /\ CountDCache(memInstr', dHit)
          /\ EndCycle(UpdatedICacheDelay(i, iHit), UpdatedDCacheDelay(memInstr', dHit), "NONE")
          /\ history'.frozen = history.frozen
      BY <2>1, <2>6 DEF Issued, Advance, NoStall, Adds
    <3> QED BY <2>4, <3>1
  <2>7. ASSUME NEW i, Ended(i)
        PROVE  history'.frozen + FreezeLeft' = DCacheLatency * dcMisses'
    BY <2>1, <2>7 DEF Ended, ReachHalt, signals, CachesAsBefore, FreezeLeft
  <2>8. CASE Rested
    BY <2>1, <2>8 DEF Rested, statsVars, stats, vars, signals, FreezeLeft
  <2> QED BY <2>3, <2>5, <2>6, <2>7, <2>8, StatsMoves
<1> QED BY <1>1, <1>2, CountsHold, PTL DEF StatsSpec

-----------------------------------------------------------------------------
(***************************************************************************)
(* Every cycle is accounted for.  While the run goes on, the count is what *)
(* was issued and held, with the stages HALT has gone through and without  *)
(* the pause that an exception in IF or ID has still to come.              *)
(***************************************************************************)
HaltAge == IF IsHalt(idInstr) THEN 1
           ELSE IF IsHalt(exInstr) THEN 2
           ELSE IF IsHalt(memInstr) THEN 3 ELSE 0

PauseLeft == IF ~IsValid(ifInstr) THEN 1
             ELSE IF ifInstr.isOverflow THEN 2
             ELSE IF idInstr.isOverflow THEN 1 ELSE 0

Losses == history.illegals + 2 * history.overflows + history.frozen + history.held

CycleInv ==
  /\ Running => /\ cycleCount + PauseLeft = din + HaltAge + Losses
                /\ handlingHalt => \/ IsHalt(ifInstr) \/ IsHalt(idInstr)
                                   \/ IsHalt(exInstr) \/ IsHalt(memInstr)
  /\ status = "HALT" => cycleCount = din + 4 + Losses

\* Nothing about HALT and the pause changes in a stalled cycle.
LEMMA HeldFacts ==
  ASSUME PipelineInv, HoldMEM \/ HoldID \/ HoldIF
  PROVE  /\ HaltAge' = HaltAge /\ PauseLeft' = PauseLeft
         /\ \/ IsHalt(ifInstr) \/ IsHalt(idInstr) \/ IsHalt(exInstr) \/ IsHalt(memInstr)
            => \/ IsHalt(ifInstr') \/ IsHalt(idInstr') \/ IsHalt(exInstr') \/ IsHalt(memInstr')
<1>1. /\ idInstr.fetched => ~IsHalt(exInstr) /\ ~IsHalt(memInstr)
      /\ ifInstr.fetched => /\ ~IsHalt(idInstr) /\ ~IsHalt(exInstr) /\ ~IsHalt(memInstr)
                            /\ ~idInstr.isOverflow
  BY DEF PipelineInv, NothingBehindHaltOrException, NothingBehind, Excepting
<1>2. ~IsHalt(NOP) /\ IsValid(NOP) /\ ~NOP.isOverflow
  BY BubbleFacts
<1>3. CASE HoldMEM
  BY <1>3 DEF HoldMEM, HaltAge, PauseLeft, IsHalt, IsValid
<1>4. CASE HoldID
  BY <1>1, <1>2, <1>4 DEF HoldID, HaltAge, PauseLeft, IsHalt, IsValid
<1>5. CASE HoldIF
  BY <1>1, <1>2, <1>5 DEF HoldIF, HaltAge, PauseLeft, IsHalt, IsValid
<1> QED BY <1>3, <1>4, <1>5

\* An instruction is issued only when nothing is paused or draining.
LEMMA IssuedFacts ==
  ASSUME PipelineInv, Running, NEW i, Shift(i), i.fetched
  PROVE  /\ HaltAge = 0 /\ HaltAge' = 0 /\ PauseLeft = 0
         /\ PauseLeft' = One(~IsValid(i)) + 2 * One(i.isOverflow)
<1>1. ~handlingHalt /\ ~Excepting(ifInstr) /\ ~idInstr.isOverflow /\ IsValid(ifInstr)
  BY ShiftFacts DEF Excepting
<1>2. /\ ~IsHalt(ifInstr) /\ ~IsHalt(idInstr) /\ ~IsHalt(exInstr) /\ ~IsHalt(memInstr)
  BY <1>1 DEF PipelineInv, HaltSeen
<1>3. HaltAge = 0 /\ PauseLeft = 0
  BY <1>1, <1>2 DEF HaltAge, PauseLeft, Excepting
<1>4. HaltAge' = 0
  BY <1>2, BubbleFacts DEF Shift, HaltAge, IsHalt
<1>5. i.isOverflow => IsValid(i)
  BY ShiftFacts DEF IsValid, OverflowOps
<1>6. PauseLeft' = IF ~IsValid(i) THEN 1 ELSE IF i.isOverflow THEN 2 ELSE 0
  BY <1>1 DEF Shift, PauseLeft, IsValid, Excepting
<1>7. One(~IsValid(i)) = (IF ~IsValid(i) THEN 1 ELSE 0)
      /\ One(i.isOverflow) = (IF i.isOverflow THEN 1 ELSE 0)
  BY DEF One
<1>8. PauseLeft' = One(~IsValid(i)) + 2 * One(i.isOverflow)
  <2>1. CASE ~IsValid(i)
    <3>1. PauseLeft' = 1 /\ One(~IsValid(i)) = 1 /\ One(i.isOverflow) = 0
      BY <1>5, <1>6, <1>7, <2>1
    <3> QED BY <3>1
  <2>2. CASE IsValid(i) /\ i.isOverflow
    <3>1. PauseLeft' = 2 /\ One(~IsValid(i)) = 0 /\ One(i.isOverflow) = 1
      BY <1>6, <1>7, <2>2
    <3> QED BY <3>1
  <2>3. CASE IsValid(i) /\ ~i.isOverflow
    <3>1. PauseLeft' = 0 /\ One(~IsValid(i)) = 0 /\ One(i.isOverflow) = 0
      BY <1>6, <1>7, <2>3
    <3> QED BY <3>1
  <2> QED BY <2>1, <2>2, <2>3
<1> QED BY <1>3, <1>4, <1>8

\* A bubble is issued to drain HALT by one stage or to spend one cycle of the pause.
LEMMA BubbleIssuedFacts ==
  ASSUME PipelineInv, Running, Shift(NOP), ~IsHalt(memInstr), NEW i, i = NOP,
         handlingHalt => IsHalt(ifInstr) \/ IsHalt(idInstr) \/ IsHalt(exInstr) \/ IsHalt(memInstr)
  PROVE  \/ HaltAge' = HaltAge + 1 /\ PauseLeft = 0 /\ PauseLeft' = 0
         \/ HaltAge' = 0 /\ HaltAge = 0 /\ PauseLeft' = PauseLeft - 1
<1>1. /\ \A j \in {ifInstr, idInstr, exInstr, memInstr} :
           /\ ~j.fetched => j = NOP
           /\ IsHalt(j) => j.fetched /\ IsValid(j) /\ ~j.isOverflow
           /\ j.isOverflow => j.fetched /\ IsValid(j)
           /\ ~IsValid(j) => j.fetched
      /\ ~IsHalt(NOP) /\ IsValid(NOP) /\ ~NOP.isOverflow /\ ~NOP.fetched
  BY BubbleFacts, BlockFacts DEF PipelineInv, Excepting, IsHalt, IsValid
<1>2. /\ IsHalt(idInstr) => ~ifInstr.fetched
      /\ idInstr.isOverflow => ~ifInstr.fetched
      /\ IsHalt(exInstr) => ~ifInstr.fetched /\ ~idInstr.fetched
      /\ exInstr.isOverflow => ~ifInstr.fetched /\ ~idInstr.fetched
  BY DEF PipelineInv, NothingBehindHaltOrException, NothingBehind, Excepting
<1>3. handlingHalt \/ handlingException
  BY <1>1 DEF Shift, Fetch, EmulatorReturns, Executable
<1>4. handlingException <=> ifInstr.isOverflow \/ ~IsValid(ifInstr) \/ idInstr.isOverflow
  BY DEF PipelineInv, PauseMatchesException, Excepting
<1>5. /\ HaltAge' = IF IsHalt(ifInstr) THEN 1
                    ELSE IF IsHalt(idInstr) THEN 2
                    ELSE IF IsHalt(exInstr) THEN 3 ELSE 0
      /\ PauseLeft' = IF ifInstr.isOverflow THEN 1 ELSE 0
  BY <1>1 DEF Shift, HaltAge, PauseLeft, IsHalt, IsValid
<1>6. CASE IsHalt(ifInstr) \/ IsHalt(idInstr) \/ IsHalt(exInstr)
  <2>1. HaltAge' = HaltAge + 1
    BY <1>1, <1>2, <1>5, <1>6 DEF HaltAge
  <2>2. PauseLeft = 0 /\ PauseLeft' = 0
    BY <1>1, <1>2, <1>5, <1>6 DEF PauseLeft
  <2> QED BY <2>1, <2>2
<1>7. CASE ~(IsHalt(ifInstr) \/ IsHalt(idInstr) \/ IsHalt(exInstr))
  <2>1. HaltAge = 0 /\ HaltAge' = 0
    BY <1>5, <1>7 DEF HaltAge
  <2>2. handlingException
    BY <1>3, <1>7
  <2>3. PauseLeft' = PauseLeft - 1
    BY <1>1, <1>2, <1>4, <1>5, <2>2 DEF PauseLeft
  <2> QED BY <2>1, <2>3
<1> QED BY <1>6, <1>7

\* HALT, once fetched, is never lost on its way to WB.
LEMMA HaltKept ==
  ASSUME PipelineInv, NEW i, Shift(i), ~IsHalt(wbInstr'),
         IsHalt(ifInstr) \/ IsHalt(idInstr) \/ IsHalt(exInstr) \/ IsHalt(memInstr)
  PROVE  IsHalt(idInstr') \/ IsHalt(exInstr') \/ IsHalt(memInstr')
<1>1. \A j \in {idInstr, exInstr} : IsHalt(j) => IsValid(j) /\ ~j.isOverflow
  BY BlockFacts DEF PipelineInv, IsHalt, IsValid
<1> QED BY <1>1 DEF Shift

LEMMA CycleTypes ==
  ASSUME PipelineInv, CountsOK
  PROVE  /\ cycleCount \in Nat /\ din \in Nat /\ HaltAge \in Nat /\ PauseLeft \in Nat
         /\ Losses \in Nat
         /\ history.illegals \in Nat /\ history.overflows \in Nat
         /\ history.frozen \in Nat /\ history.held \in Nat
<1>1. din \in Nat
  BY PipelineAssumption DEF PipelineInv, TypeOK
<1>2. HaltAge \in Nat /\ PauseLeft \in Nat
  BY DEF HaltAge, PauseLeft
<1>3. /\ history.illegals \in Nat /\ history.overflows \in Nat
      /\ history.frozen \in Nat /\ history.held \in Nat /\ cycleCount \in Nat
  BY DEF CountsOK, StatsTypeOK
<1> QED BY <1>1, <1>2, <1>3 DEF Losses

LEMMA CycleStep ==
  ASSUME PipelineInv, CountsOK, CycleInv, [StatsNext]_statsVars
  PROVE  CycleInv'
<1> DEFINE HaltInFlight == \/ IsHalt(ifInstr) \/ IsHalt(idInstr)
                           \/ IsHalt(exInstr) \/ IsHalt(memInstr)
<1>1. /\ Running => /\ cycleCount + PauseLeft = din + HaltAge + Losses
                    /\ handlingHalt => HaltInFlight
      /\ status = "HALT" => cycleCount = din + 4 + Losses
  BY DEF CycleInv
<1>2. SUFFICES /\ Running' => /\ cycleCount' + PauseLeft' = din' + HaltAge' + Losses'
                              /\ handlingHalt' => HaltInFlight'
               /\ status' = "HALT" => cycleCount' = din' + 4 + Losses'
  BY DEF CycleInv
<1>3. /\ cycleCount \in Nat /\ din \in Nat /\ HaltAge \in Nat /\ PauseLeft \in Nat
      /\ Losses \in Nat
      /\ history.illegals \in Nat /\ history.overflows \in Nat
      /\ history.frozen \in Nat /\ history.held \in Nat
  BY CycleTypes
<1> DEFINE Goal == /\ Running' => /\ cycleCount' + PauseLeft' = din' + HaltAge' + Losses'
                                  /\ handlingHalt' => HaltInFlight'
                   /\ status' = "HALT" => cycleCount' = din' + 4 + Losses'
\* A stalled cycle: one more cycle, and one more frozen or held.
<1>4. ASSUME Running, Running', HoldMEM \/ HoldID \/ HoldIF, CountCycle, Losses' = Losses + 1,
             HandleHalt
      PROVE  Goal
  <2>1. HaltAge' = HaltAge /\ PauseLeft' = PauseLeft /\ (HaltInFlight => HaltInFlight')
    BY <1>4, HeldFacts DEF IsHalt
  <2>2. din' = din /\ cycleCount' = cycleCount + 1
    BY <1>4 DEF HoldMEM, HoldID, HoldIF, CountCycle
  <2>3. handlingHalt' => HaltInFlight'
    BY <1>1, <1>4, <2>1 DEF HandleHalt, IsHalt
  <2>4. cycleCount + 1 + PauseLeft = din + HaltAge + (Losses + 1)
    BY <1>1, <1>3, <1>4
  <2>5. status' # "HALT"
    BY <1>4 DEF Running
  <2> HIDE DEF HaltInFlight
  <2> QED BY <1>4, <2>1, <2>2, <2>3, <2>4, <2>5
<1>5. CASE Froze
  <2>1. Running /\ HoldMEM /\ HandleHalt /\ status' = status /\ CountCycle
    BY <1>5 DEF Froze, StallMEM, HoldMEM, EndCycle
  <2>2. Losses' = Losses + 1
    BY <1>3, <1>5 DEF Froze, Adds, Losses
  <2> QED BY <1>4, <2>1, <2>2 DEF Running
<1>6. ASSUME NEW dHit \in BOOLEAN, Held(dHit)
      PROVE  Goal
  <2>1. Running /\ (HoldID \/ HoldIF) /\ HandleHalt /\ status' = status /\ CountCycle
    <3>1. ID_stall => idInstr.fetched
      BY <1>6 DEF Held, StallID, StallIF, PipelineInv, StallsAreGrounded
    <3>2. IF_stall => ifInstr.fetched
      BY <1>6 DEF Held, StallID, StallIF, PipelineInv, StallsAreGrounded, AccessesICache
    <3> QED BY <1>6, <3>1, <3>2 DEF Held, StallID, StallIF, HoldID, HoldIF, EndCycle
  <2>2. Losses' = Losses + 1
    BY <1>3, <1>6 DEF Held, Adds, Losses
  <2> QED BY <1>4, <2>1, <2>2 DEF Running
<1>7. ASSUME NEW i, NEW iHit \in BOOLEAN, NEW dHit \in BOOLEAN, Issued(i, iHit, dHit)
      PROVE  Goal
  <2> DEFINE a == One(~IsValid(i))
             b == One(i.isOverflow)
  <2>1. /\ Running /\ Shift(i) /\ HandleHalt /\ status' = status /\ ~IsHalt(wbInstr')
        /\ cycleCount' = cycleCount + 1
    BY <1>7, PropagateShifts DEF Issued, Advance, EndCycle, CountCycle, IsHalt
  <2>2. a \in Nat /\ b \in Nat
    BY OneFacts
  <2>3. Losses' = Losses + a + 2 * b
    <3>1. /\ history'.illegals = history.illegals + a
          /\ history'.overflows = history.overflows + b
          /\ history'.frozen = history.frozen + 0 /\ history'.held = history.held + 0
      BY <1>7 DEF Issued, Adds
    <3> HIDE DEF a, b
    <3> QED BY <1>3, <2>2, <3>1 DEF Losses
  <2>4. handlingHalt' => HaltInFlight'
    BY <1>1, <2>1, HaltKept DEF HandleHalt, IsHalt
  <2>5. status' # "HALT"
    BY <2>1 DEF Running
  <2>6. CASE i.fetched
    <3>1. /\ HaltAge = 0 /\ HaltAge' = 0 /\ PauseLeft = 0 /\ PauseLeft' = a + 2 * b
      BY <2>1, <2>6, IssuedFacts
    <3>2. din' = din + 1
      BY <2>1, <2>6, ShiftFacts, BubbleFacts
    <3> HIDE DEF a, b
    <3>3. cycleCount' + PauseLeft' = din' + HaltAge' + Losses'
      BY <1>1, <1>3, <2>1, <2>2, <2>3, <3>1, <3>2
    <3> HIDE DEF HaltInFlight
    <3> QED BY <2>4, <2>5, <3>3
  <2>7. CASE i = NOP
    <3>1. a = 0 /\ b = 0 /\ Losses' = Losses
      <4>1. a = 0 /\ b = 0
        BY <2>7, BubbleFacts, OneFacts
      <4> HIDE DEF a, b
      <4> QED BY <1>3, <2>3, <4>1
    <3>2. din' = din
      BY <2>1, <2>7, ShiftFacts, BubbleFacts
    <3>3. \/ HaltAge' = HaltAge + 1 /\ PauseLeft = 0 /\ PauseLeft' = 0
          \/ HaltAge' = 0 /\ HaltAge = 0 /\ PauseLeft' = PauseLeft - 1
      <4>1. ~IsHalt(memInstr)
        BY <2>1 DEF Shift
      <4> QED BY <1>1, <2>1, <2>7, <4>1, BubbleIssuedFacts
    <3>4. PauseLeft' \in Nat
      BY DEF PauseLeft
    <3>5. cycleCount' + PauseLeft' = din' + HaltAge' + Losses'
      <4>1. cycleCount + PauseLeft = din + HaltAge + Losses
        BY <1>1, <2>1
      <4>2. cycleCount + 1 + PauseLeft' = din + HaltAge' + Losses
        <5>1. CASE HaltAge' = HaltAge + 1 /\ PauseLeft = 0 /\ PauseLeft' = 0
          BY <1>3, <4>1, <5>1
        <5>2. CASE HaltAge' = 0 /\ HaltAge = 0 /\ PauseLeft' = PauseLeft - 1
          BY <1>3, <4>1, <5>2
        <5> QED BY <3>3, <5>1, <5>2
      <4> QED BY <2>1, <3>1, <3>2, <4>2
    <3> HIDE DEF HaltInFlight
    <3> QED BY <2>4, <2>5, <3>5
  <2> QED BY <2>1, <2>6, <2>7, ShiftFacts
<1>8. ASSUME NEW i, Ended(i)
      PROVE  Goal
  <2>1. /\ IsHalt(memInstr) /\ din' = din
        /\ ifInstr = NOP /\ idInstr = NOP /\ exInstr = NOP
    BY <1>8, ReachHaltFacts DEF Ended
  <2>2. Running /\ status' = "HALT" /\ cycleCount' = cycleCount + 1 /\ Losses' = Losses
    BY <1>8 DEF Ended, ReachHalt, CountCycle, Losses
  <2>3. HaltAge = 3 /\ PauseLeft = 0
    BY <2>1, BubbleFacts DEF HaltAge, PauseLeft
  <2>4. cycleCount' = din' + 4 + Losses'
    BY <1>1, <1>3, <2>1, <2>2, <2>3
  <2> QED BY <2>2, <2>4 DEF Running
<1>9. CASE Rested
  BY <1>1, <1>9
     DEF Rested, statsVars, stats, vars, stages, exceptions, HaltAge, PauseLeft, Losses, Running,
         IsHalt, IsValid
<1> QED BY <1>5, <1>6, <1>7, <1>8, <1>9, StatsMoves

\* Every cycle of a run that has ended issued an instruction, held a stage, waited for an
\* exception or drained HALT.
THEOREM EveryCycleHasACause == StatsSpec => []CyclesAccountedFor
<1>1. StatsInit => CycleInv
  BY BubbleFacts
     DEF StatsInit, Init, CycleInv, HaltAge, PauseLeft, Losses, Running
<1>2. PipelineInv /\ CountsOK /\ CycleInv /\ [StatsNext]_statsVars => CycleInv'
  BY CycleStep
<1>3. PipelineInv /\ CountsOK /\ CycleInv => CyclesAccountedFor
  <2> SUFFICES ASSUME PipelineInv, CountsOK, CycleInv, status = "HALT" PROVE CyclesAccountedFor
    BY DEF CyclesAccountedFor
  <2>1. cycleCount = din + 4 + Losses
    BY DEF CycleInv
  <2> QED BY <2>1, CycleTypes DEF CyclesAccountedFor, Losses
<1> QED BY <1>1, <1>2, <1>3, CountsHold, PTL DEF StatsSpec

-----------------------------------------------------------------------------
(***************************************************************************)
(* Why a table of five load-stall pairs is enough to count every pair      *)
(* once, for every program and however long its misses last.               *)
(*                                                                         *)
(* What the table remembers of the instruction c in ID: of its pairs with  *)
(* the two instructions that were in EX and MEM when it entered ID, the    *)
(* ones detected so far are among the last two entries.                    *)
(***************************************************************************)
PairsOf(c, a, b) == {<<a, c>>, <<b, c>>}

Remembers(lut, pairs, c, a, b) ==
  \A p \in pairs : p[2] = c =>
    /\ p \in PairsOf(c, a, b)
    /\ \/ Len(lut) >= 1 /\ lut[Len(lut)] = p
       \/ Len(lut) >= 2 /\ lut[Len(lut) - 1] = p /\ lut[Len(lut)] \in PairsOf(c, a, b)

\* The pairs detected so far, with those of the given hazard.
Plus(pairs, hazard, pair) == pairs \cup (IF hazard THEN {pair} ELSE {})

\* The table appendLoadStall appends to, and the one it leaves.
Kept(lut) == IF Len(lut) = LutCapacity THEN Tail(lut) ELSE lut
Entered(lut, pair) == Append(Kept(lut), pair)

LEMMA EntryFacts ==
  ASSUME NEW lut, NEW i \in 1..Len(lut)
  PROVE  lut[i] \in Entries(lut)
BY DEF Entries

LEMMA KeptFacts ==
  ASSUME NEW S, NEW lut \in Seq(S)
  PROVE  /\ Kept(lut) \in Seq(S)
         /\ Len(lut) >= 1 => Len(Kept(lut)) >= 1 /\ Kept(lut)[Len(Kept(lut))] = lut[Len(lut)]
         /\ Entries(Kept(lut)) \subseteq Entries(lut)
<1> DEFINE kept == Kept(lut)
<1>1. CASE Len(lut) = 5
  <2>1. lut # << >>
    BY <1>1
  <2>2. /\ Tail(lut) \in Seq(S) /\ Len(Tail(lut)) = 4
        /\ \A i \in 1..4 : Tail(lut)[i] = lut[i + 1]
    <3>1. /\ Tail(lut) \in Seq(S) /\ Len(Tail(lut)) = Len(lut) - 1
          /\ \A i \in 1..Len(Tail(lut)) : Tail(lut)[i] = lut[i + 1]
      BY <2>1, HeadTailProperties, Zenon
    <3>2. Len(Tail(lut)) = 4
      BY <1>1, <3>1
    <3> QED BY <3>1, <3>2, Zenon
  <2>3. kept = Tail(lut)
    BY <1>1 DEF LutCapacity, Kept
  <2> HIDE DEF kept
  <2>4. kept \in Seq(S) /\ Len(kept) = 4 /\ kept[4] = lut[5]
    <3>1. 4 \in 1..4 /\ 4 + 1 = 5
      OBVIOUS
    <3>2. Tail(lut)[4] = lut[5]
      BY <2>2, <3>1, Zenon
    <3> QED BY <2>2, <2>3, <3>2, Zenon
  <2>5. Entries(kept) \subseteq Entries(lut)
    BY <1>1, <2>2, <2>3 DEF Entries
  <2> QED BY <1>1, <2>4, <2>5 DEF kept
<1>2. CASE Len(lut) # 5
  <2>1. kept = lut
    BY <1>2 DEF LutCapacity, Kept
  <2> HIDE DEF kept
  <2>2. Entries(kept) \subseteq Entries(lut) /\ kept \in Seq(S)
        /\ (Len(lut) >= 1 => Len(kept) >= 1 /\ kept[Len(kept)] = lut[Len(lut)])
    BY <2>1
  <2> QED BY <2>2 DEF kept
<1> QED BY <1>1, <1>2

\* Entering a new pair keeps the last entry, which becomes the last but one.
LEMMA NewEntry ==
  ASSUME NEW S, NEW lut \in Seq(S), NEW pair \in S
  PROVE  /\ Len(Entered(lut, pair)) >= 1
         /\ Entered(lut, pair)[Len(Entered(lut, pair))] = pair
         /\ Len(lut) >= 1 => /\ Len(Entered(lut, pair)) >= 2
                             /\ Entered(lut, pair)[Len(Entered(lut, pair)) - 1] = lut[Len(lut)]
         /\ Entries(Entered(lut, pair)) \subseteq Entries(lut) \cup {pair}
<1> DEFINE kept == Kept(lut)
           new  == Entered(lut, pair)
<1>1. /\ kept \in Seq(S)
      /\ Len(lut) >= 1 => Len(kept) >= 1 /\ kept[Len(kept)] = lut[Len(lut)]
      /\ Entries(kept) \subseteq Entries(lut)
  BY KeptFacts
<1>2. new = Append(kept, pair)
  BY DEF Entered
<1> HIDE DEF kept, new
<1>3. /\ Len(new) = Len(kept) + 1 /\ new[Len(kept) + 1] = pair
      /\ \A i \in 1..Len(kept) : new[i] = kept[i]
      /\ Len(kept) \in Nat /\ Len(new) \in Nat
  <2>1. /\ Len(Append(kept, pair)) = Len(kept) + 1
        /\ Append(kept, pair)[Len(kept) + 1] = pair
        /\ \A i \in 1..Len(kept) : Append(kept, pair)[i] = kept[i]
        /\ Len(kept) \in Nat /\ Len(Append(kept, pair)) \in Nat
    BY <1>1
  <2> QED BY <1>2, <2>1, Zenon
<1>4. Entries(new) \subseteq Entries(lut) \cup {pair}
  <2> SUFFICES ASSUME NEW i \in 1..Len(new) PROVE new[i] \in Entries(lut) \cup {pair}
    BY DEF Entries
  <2>1. CASE i \in 1..Len(kept)
    BY <1>1, <1>3, <2>1 DEF Entries
  <2>2. CASE i = Len(kept) + 1
    BY <1>3, <2>2
  <2>3. \A m \in Nat : \A j \in 1..(m + 1) : j \in 1..m \/ j = m + 1
    OBVIOUS
  <2>4. i \in 1..(Len(kept) + 1)
    BY <1>3, Zenon
  <2> QED BY <1>3, <2>1, <2>2, <2>3, <2>4, Zenon
<1>5. Len(new) >= 1 /\ new[Len(new)] = pair
  <2>1. \A m \in Nat : m + 1 >= 1
    OBVIOUS
  <2>2. Len(new) >= 1
    BY <1>3, <2>1, Zenon
  <2> QED BY <1>3, <2>2, Zenon
<1>6. Len(lut) >= 1 => Len(new) >= 2 /\ new[Len(new) - 1] = lut[Len(lut)]
  <2> SUFFICES ASSUME Len(lut) >= 1
               PROVE  Len(new) >= 2 /\ new[Len(new) - 1] = lut[Len(lut)]
    OBVIOUS
  <2>1. Len(kept) >= 1 /\ kept[Len(kept)] = lut[Len(lut)]
    BY <1>1
  <2>2. \A k, m \in Nat : k = m + 1 /\ m >= 1 => k - 1 = m /\ k >= 2 /\ m \in 1..m
    OBVIOUS
  <2>3. Len(new) - 1 = Len(kept) /\ Len(new) >= 2 /\ Len(kept) \in 1..Len(kept)
    BY <1>3, <2>1, <2>2, Zenon
  <2> QED BY <1>3, <2>1, <2>3, Zenon
<1> QED BY <1>4, <1>5, <1>6 DEF new

\* What one pair of detectHazards makes of the table, the pairs and the counter.
Counted(pairs, lut, pair, new, more, count) ==
  \/ new = lut /\ more = pairs /\ count = 0
  \/ pair \notin Entries(lut) /\ new = Entered(lut, pair) /\ more = pairs \cup {pair} /\ count = 1

LEMMA OnePairIsCounted ==
  ASSUME NEW pairs, NEW lut, NEW hazard, NEW pair, Entries(lut) \subseteq pairs
  PROVE  Counted(pairs, lut, pair, AfterPair(lut, hazard, pair), Plus(pairs, hazard, pair),
                 One(IsNewPair(lut, hazard, pair)))
<1>1. CASE ~hazard
  BY <1>1 DEF Counted, AfterPair, Plus, IsNewPair, One
<1>2. CASE hazard /\ pair \in Entries(lut)
  BY <1>2 DEF Counted, AfterPair, Plus, IsNewPair, One
<1>3. CASE hazard /\ pair \notin Entries(lut)
  BY <1>3 DEF Counted, AfterPair, Kept, Entered, Plus, IsNewPair, One
<1> QED BY <1>1, <1>2, <1>3

\* A table, the pairs ever detected, and a pair that may be detected now.
Before(pairs, lut, x, c, a, b, new, more, count) ==
  /\ pairs \in SUBSET (Nat \X Nat) /\ IsFiniteSet(pairs)
  /\ lut \in Seq(Nat \X Nat) /\ Len(lut) <= LutCapacity /\ Entries(lut) \subseteq pairs
  /\ x \in Nat /\ c \in Nat /\ a \in Nat /\ b \in Nat
  /\ Counted(pairs, lut, <<x, c>>, new, more, count)
  /\ count = 0 \/ (x \in {a, b} /\ Remembers(lut, pairs, c, a, b))

\* It is counted exactly if it was never detected before.
LEMMA OnePair ==
  ASSUME NEW pairs, NEW lut, NEW x, NEW c, NEW a, NEW b, NEW new, NEW more, NEW count,
         Before(pairs, lut, x, c, a, b, new, more, count)
  PROVE  /\ Entries(new) \subseteq more
         /\ Remembers(lut, pairs, c, a, b) => Remembers(new, more, c, a, b)
         /\ IsFiniteSet(more)
         /\ Cardinality(more) = Cardinality(pairs) + count
<1> DEFINE pair == <<x, c>>
<1> USE DEF Before
<1>0. pair \in Nat \X Nat /\ pair[2] = c /\ Cardinality(pairs) \in Nat
  BY FS_CardinalityType
<1>1. CASE new = lut /\ more = pairs /\ count = 0
  <2>1. Cardinality(pairs) + 0 = Cardinality(pairs)
    BY <1>0
  <2> QED BY <1>1, <2>1
<1>2. CASE pair \notin Entries(lut) /\ new = Entered(lut, pair) /\ more = pairs \cup {pair}
           /\ count = 1
  <2>3. /\ Len(new) >= 1 /\ new[Len(new)] = pair
        /\ Len(lut) >= 1 => Len(new) >= 2 /\ new[Len(new) - 1] = lut[Len(lut)]
        /\ Entries(new) \subseteq Entries(lut) \cup {pair}
    <3> HIDE DEF pair
    <3>1. /\ Len(Entered(lut, pair)) >= 1
          /\ Entered(lut, pair)[Len(Entered(lut, pair))] = pair
          /\ Len(lut) >= 1 =>
               /\ Len(Entered(lut, pair)) >= 2
               /\ Entered(lut, pair)[Len(Entered(lut, pair)) - 1] = lut[Len(lut)]
          /\ Entries(Entered(lut, pair)) \subseteq Entries(lut) \cup {pair}
      BY <1>0, NewEntry, Zenon
    <3> QED BY <1>2, <3>1, Zenon
  <2>4. Remembers(lut, pairs, c, a, b) /\ pair \in PairsOf(c, a, b)
    BY <1>2 DEF PairsOf
  <2>5. Len(lut) \in Nat
    OBVIOUS
  <2>6. pair \notin pairs
    <3> SUFFICES ASSUME pair \in pairs PROVE FALSE
      OBVIOUS
    <3>1. \/ Len(lut) >= 1 /\ lut[Len(lut)] = pair
          \/ Len(lut) >= 2 /\ lut[Len(lut) - 1] = pair
      BY <1>0, <2>4 DEF Remembers
    <3>3. pair \in Entries(lut)
      <4>1. CASE Len(lut) >= 1 /\ lut[Len(lut)] = pair
        <5>1. Len(lut) \in 1..Len(lut)
          BY <2>5, <4>1
        <5> QED BY <4>1, <5>1, EntryFacts, Zenon
      <4>2. CASE Len(lut) >= 2 /\ lut[Len(lut) - 1] = pair
        <5>1. Len(lut) - 1 \in 1..Len(lut)
          BY <2>5, <4>2
        <5> QED BY <4>2, <5>1, EntryFacts, Zenon
      <4> QED BY <3>1, <4>1, <4>2
    <3> QED BY <1>2, <3>3
  <2>7. Remembers(new, pairs \cup {pair}, c, a, b)
    <3> SUFFICES ASSUME NEW p \in pairs \cup {pair}, p[2] = c
                 PROVE  /\ p \in PairsOf(c, a, b)
                        /\ \/ Len(new) >= 1 /\ new[Len(new)] = p
                           \/ /\ Len(new) >= 2 /\ new[Len(new) - 1] = p
                              /\ new[Len(new)] \in PairsOf(c, a, b)
      BY DEF Remembers
    <3>1. CASE p = pair
      BY <2>3, <2>4, <3>1
    <3>2. CASE p \in pairs /\ p # pair
      <4>1. /\ p \in PairsOf(c, a, b)
            /\ \/ Len(lut) >= 1 /\ lut[Len(lut)] = p
               \/ /\ Len(lut) >= 2 /\ lut[Len(lut) - 1] = p
                  /\ lut[Len(lut)] \in PairsOf(c, a, b)
        BY <2>4, <3>2 DEF Remembers
      <4>2. Len(lut) >= 1 /\ lut[Len(lut)] \in PairsOf(c, a, b)
        BY <2>5, <4>1
      <4>3. lut[Len(lut)] # pair
        <5>1. Len(lut) \in 1..Len(lut)
          BY <2>5, <4>2
        <5> QED BY <1>2, <5>1, EntryFacts, Zenon
      <4>4. lut[Len(lut)] = p
        BY <2>4, <3>2, <4>1, <4>2, <4>3 DEF PairsOf
      <4> QED BY <2>3, <2>4, <4>1, <4>2, <4>4
    <3> QED BY <3>1, <3>2
  <2>8. IsFiniteSet(pairs \cup {pair}) /\ Cardinality(pairs \cup {pair}) = Cardinality(pairs) + 1
    BY <2>6, FS_AddElement
  <2>9. Entries(new) \subseteq pairs \cup {pair}
    BY <2>3
  <2> HIDE DEF pair
  <2> QED BY <1>2, <2>7, <2>8, <2>9
<1> QED BY <1>1, <1>2 DEF Counted

-----------------------------------------------------------------------------
(***************************************************************************)
(* The invariant.  An instruction's pairs are with the instructions that   *)
(* were in EX and MEM when it entered ID: while it waits there, only       *)
(* bubbles follow them.                                                    *)
(***************************************************************************)
Producers(a, b) == \A i \in {exInstr, memInstr} : i.fetched => i.id \in {a, b}

LoadStallInv ==
  /\ IsFiniteSet(history.pairs) /\ loadStalls = Cardinality(history.pairs)
  /\ Entries(loadStallDepLut) \subseteq history.pairs
  /\ \A p \in history.pairs : p[2] < din /\ (ifInstr.fetched => p[2] < ifInstr.id)
  /\ idInstr.fetched =>
       \E a, b \in Nat :
         /\ Producers(a, b)
         /\ Remembers(loadStallDepLut, history.pairs, idInstr.id, a, b)

\* A load-stall pair is of two instructions, none of them a bubble.
LEMMA HazardsAreOfInstructions ==
  ASSUME StagesOK
  PROVE  /\ ExHazard => idInstr.fetched /\ exInstr.fetched
         /\ MemHazard => idInstr.fetched /\ memInstr.fetched
<1>1. \A i \in {idInstr, exInstr, memInstr} : ~i.fetched => Decoded(i) = ZeroWord
  BY BubbleFacts DEF StagesOK, InfoOK
<1>2. \A x : ~LoadInEX(ZeroWord, x) /\ ~LoadInMEM(ZeroWord, x)
  BY NoHazardForBubble DEF DetectHazards
<1>3. \A x : ~LoadInEX(x, ZeroWord) /\ ~LoadInMEM(x, ZeroWord)
  BY DEF LoadInEX, LoadInMEM, LoadOps, ZeroWord
<1> QED BY <1>1, <1>2, <1>3 DEF ExHazard, MemHazard

\* When the stages have moved, and before the pairs are counted, the table remembers what
\* it must of the instruction that is in ID now.
LEMMA MovesRemember ==
  ASSUME PipelineInv, LoadStallInv, StagesOK', ProgramOrder', TypeOK',
         history.pairs \subseteq Nat \X Nat,
         HoldMEM \/ HoldID \/ HoldIF \/ (Running /\ \E i : Shift(i))
  PROVE  /\ \A p \in history.pairs : p[2] < din' /\ (ifInstr'.fetched => p[2] < ifInstr'.id)
         /\ idInstr'.fetched =>
              \E a, b \in Nat :
                /\ Producers(a, b)'
                /\ Remembers(loadStallDepLut, history.pairs, idInstr'.id, a, b)
<1>1. /\ \A p \in history.pairs : p[2] < din /\ (ifInstr.fetched => p[2] < ifInstr.id)
      /\ idInstr.fetched =>
           \E a, b \in Nat :
             /\ Producers(a, b)
             /\ Remembers(loadStallDepLut, history.pairs, idInstr.id, a, b)
  BY DEF LoadStallInv
<1>2. ~NOP.fetched
  BY BubbleFacts
<1>3. CASE HoldMEM
  <2>1. \A a, b : Producers(a, b)' <=> Producers(a, b)
    BY <1>3 DEF HoldMEM, Producers
  <2> QED BY <1>1, <1>3, <2>1 DEF HoldMEM
<1>4. CASE HoldID
  <2>1. \A a, b : Producers(a, b) => Producers(a, b)'
    BY <1>2, <1>4 DEF HoldID, Producers
  <2> QED BY <1>1, <1>4, <2>1 DEF HoldID
<1>5. CASE HoldIF
  BY <1>1, <1>2, <1>5 DEF HoldIF
<1>6. ASSUME Running, NEW i, Shift(i)
      PROVE  /\ \A p \in history.pairs :
                  p[2] < din' /\ (ifInstr'.fetched => p[2] < ifInstr'.id)
             /\ idInstr'.fetched =>
                  \E a, b \in Nat :
                    /\ Producers(a, b)'
                    /\ Remembers(loadStallDepLut, history.pairs, idInstr'.id, a, b)
  <2>1. /\ din \in Nat /\ ifInstr' = i /\ idInstr' = ifInstr
        /\ (i = NOP /\ din' = din) \/ (i.fetched /\ i.id = din /\ din' = din + 1)
    BY <1>6, ShiftFacts DEF Shift
  <2>2. ASSUME NEW p \in history.pairs
        PROVE  p[2] < din' /\ (ifInstr'.fetched => p[2] < ifInstr'.id)
    <3>1. p[2] \in Nat /\ p[2] < din
      BY <1>1
    <3> QED BY <1>2, <2>1, <3>1
  <2>3. ASSUME idInstr'.fetched
        PROVE  \E a, b \in Nat :
                 /\ Producers(a, b)'
                 /\ Remembers(loadStallDepLut, history.pairs, idInstr'.id, a, b)
    <3>1. exInstr'.id \in Nat /\ memInstr'.id \in Nat
      BY DEF TypeOK, Info
    <3>3. \A p \in history.pairs : p[2] # ifInstr.id
      <4> SUFFICES ASSUME NEW p \in history.pairs PROVE p[2] # ifInstr.id
        OBVIOUS
      <4>1. p[2] < ifInstr.id /\ p[2] \in Nat
        BY <1>1, <2>1, <2>3
      <4> QED BY <4>1
    <3>4. Remembers(loadStallDepLut, history.pairs, idInstr'.id, exInstr'.id, memInstr'.id)
      BY <2>1, <3>3 DEF Remembers
    <3>5. \A a, b : Producers(a, b)' <=>
             \A j \in {exInstr', memInstr'} : j.fetched => j.id \in {a, b}
      BY DEF Producers
    <3> QED BY <3>1, <3>4, <3>5
  <2> QED BY <2>2, <2>3
<1> QED BY <1>3, <1>4, <1>5, <1>6

\* Both pairs of a cycle.
LEMMA BothPairs ==
  ASSUME PipelineInv, CountsOK, LoadStallInv, [StatsNext]_statsVars,
         HoldMEM \/ HoldID \/ HoldIF \/ (Running /\ \E i : Shift(i)),
         CountLoadStalls,
         history'.pairs = Plus(Plus(history.pairs, ExHazard', ExPair'), MemHazard', MemPair')
  PROVE  LoadStallInv'
<1> DEFINE c      == idInstr'.id
           x      == exInstr'.id
           y      == memInstr'.id
           P      == history.pairs
           Q      == Plus(P, ExHazard', <<x, c>>)
           lut    == AfterPair(loadStallDepLut, ExHazard', <<x, c>>)
           first  == One(IsNewPair(loadStallDepLut, ExHazard', <<x, c>>))
           all    == Plus(Q, MemHazard', <<y, c>>)
           last   == AfterPair(lut, MemHazard', <<y, c>>)
           second == One(IsNewPair(lut, MemHazard', <<y, c>>))
<1>1. TypeOK' /\ StagesOK' /\ ProgramOrder'
  BY StatsStepIsStep, InvStep DEF PipelineInv
<1>2. /\ P \in SUBSET (Nat \X Nat) /\ IsFiniteSet(P)
      /\ loadStallDepLut \in Seq(Nat \X Nat) /\ Len(loadStallDepLut) <= LutCapacity
      /\ Entries(loadStallDepLut) \subseteq P /\ loadStalls = Cardinality(P)
  BY DEF CountsOK, StatsTypeOK, LoadStallInv
<1>3. c \in Nat /\ x \in Nat /\ y \in Nat
  BY <1>1 DEF TypeOK, Info
<1>4. /\ \A p \in P : p[2] < din' /\ (ifInstr'.fetched => p[2] < ifInstr'.id)
      /\ idInstr'.fetched =>
           \E a, b \in Nat :
             /\ Producers(a, b)'
             /\ Remembers(loadStallDepLut, P, c, a, b)
  BY <1>1, <1>2, MovesRemember
<1>5. /\ ExHazard' => idInstr'.fetched /\ exInstr'.fetched
      /\ MemHazard' => idInstr'.fetched /\ memInstr'.fetched
  <2>1. /\ (StagesOK => (ExHazard => idInstr.fetched /\ exInstr.fetched))'
        /\ (StagesOK => (MemHazard => idInstr.fetched /\ memInstr.fetched))'
    BY HazardsAreOfInstructions, PTL
  <2> QED BY <1>1, <2>1
<1>6. PICK a \in Nat, b \in Nat :
        idInstr'.fetched => /\ Producers(a, b)'
                            /\ Remembers(loadStallDepLut, P, c, a, b)
  <2>1. 0 \in Nat
    OBVIOUS
  <2> HIDE DEF c, P
  <2> QED BY <1>4, <2>1
<1>7. /\ ExHazard' => x \in {a, b} /\ Remembers(loadStallDepLut, P, c, a, b)
      /\ MemHazard' => y \in {a, b}
  BY <1>5, <1>6 DEF Producers
<1>8. /\ history'.pairs = all /\ loadStallDepLut' = last
      /\ loadStalls' = loadStalls + first + second
  BY DEF ExPair, MemPair, CountLoadStalls
<1>9. /\ Counted(P, loadStallDepLut, <<x, c>>, lut, Q, first)
      /\ Entries(lut) \subseteq Q => Counted(Q, lut, <<y, c>>, last, all, second)
  <2> HIDE DEF c, x, y, P
  <2> QED BY <1>2, OnePairIsCounted
<1>10. /\ lut \in Seq(Nat \X Nat) /\ Len(lut) <= LutCapacity
       /\ Q \in SUBSET (Nat \X Nat)
  <2> HIDE DEF c, x, y, P
  <2>1. <<x, c>> \in Nat \X Nat
    BY <1>3
  <2> QED BY <1>2, <2>1, LutStays DEF Plus
<1>11. first = 0 \/ (x \in {a, b} /\ Remembers(loadStallDepLut, P, c, a, b))
  <2>1. ~ExHazard' => first = 0
    BY DEF One, IsNewPair
  <2> QED BY <1>7, <2>1
<1>12. second = 0 \/ (MemHazard' /\ y \in {a, b} /\ Remembers(loadStallDepLut, P, c, a, b))
  <2>1. ~MemHazard' => second = 0
    BY DEF One, IsNewPair
  <2>2. MemHazard' => y \in {a, b} /\ Remembers(loadStallDepLut, P, c, a, b)
    BY <1>5, <1>6, <1>7
  <2> HIDE DEF second, c, y, P
  <2> QED BY <2>1, <2>2
<1>17. first \in {0, 1} /\ second \in {0, 1}
  BY DEF One
<1>18. \A p : p \in all <=> p \in P \/ (ExHazard' /\ p = <<x, c>>) \/ (MemHazard' /\ p = <<y, c>>)
  BY DEF Plus
<1> HIDE DEF c, x, y, P, Q, lut, first, all, last, second
<1>19. /\ Entries(lut) \subseteq Q
       /\ Remembers(loadStallDepLut, P, c, a, b) => Remembers(lut, Q, c, a, b)
       /\ IsFiniteSet(Q) /\ Cardinality(Q) = Cardinality(P) + first
  <2>1. Counted(P, loadStallDepLut, <<x, c>>, lut, Q, first)
    BY <1>9
  <2>2. Before(P, loadStallDepLut, x, c, a, b, lut, Q, first)
    BY <1>2, <1>3, <1>11, <2>1 DEF Before
  <2> QED BY <2>2, OnePair
<1>20. /\ Entries(last) \subseteq all
       /\ Remembers(lut, Q, c, a, b) => Remembers(last, all, c, a, b)
       /\ IsFiniteSet(all) /\ Cardinality(all) = Cardinality(Q) + second
  <2>1. second = 0 \/ (y \in {a, b} /\ Remembers(lut, Q, c, a, b))
    BY <1>12, <1>19
  <2>2. Counted(Q, lut, <<y, c>>, last, all, second)
    BY <1>9, <1>19
  <2>3. IsFiniteSet(Q) /\ Entries(lut) \subseteq Q
    BY <1>19
  <2>4. Before(Q, lut, y, c, a, b, last, all, second)
    BY <1>3, <1>10, <2>1, <2>2, <2>3 DEF Before
  <2> QED BY <2>4, OnePair
<1>13. /\ IsFiniteSet(history'.pairs) /\ loadStalls' = Cardinality(history'.pairs)
       /\ Entries(loadStallDepLut') \subseteq history'.pairs
  <2>1. Cardinality(P) \in Nat
    BY <1>2, FS_CardinalityType
  <2> QED BY <1>2, <1>8, <1>17, <1>19, <1>20, <2>1
<1>14. idInstr'.fetched => /\ Producers(a, b)'
                           /\ Remembers(loadStallDepLut', history'.pairs, idInstr'.id, a, b)
  BY <1>6, <1>8, <1>19, <1>20 DEF c
<1>15. ASSUME NEW p \in history'.pairs
       PROVE  p[2] < din' /\ (ifInstr'.fetched => p[2] < ifInstr'.id)
  <2>1. CASE p \in P
    BY <1>4, <2>1
  <2>2. CASE p \notin P
    <3>1. idInstr'.fetched /\ p[2] = idInstr'.id
      BY <1>5, <1>8, <1>18, <2>2 DEF c
    <3> QED BY <1>1, <3>1 DEF StagesOK, InfoOK, ProgramOrder, Behind
  <2> QED BY <2>1, <2>2
<1>16. idInstr'.fetched =>
         \E u, v \in Nat :
           /\ Producers(u, v)'
           /\ Remembers(loadStallDepLut', history'.pairs, idInstr'.id, u, v)
  BY <1>14
<1> QED BY <1>13, <1>15, <1>16 DEF LoadStallInv, Remembers, PairsOf, Producers, Entries

\* The pairs a step records are those of the hazards it detects.
LEMMA PairsRecorded ==
  ASSUME PipelineInv, CountsOK, [StatsNext]_statsVars
  PROVE  \/ /\ HoldMEM \/ HoldID \/ HoldIF \/ (Running /\ \E i : Shift(i))
            /\ CountLoadStalls
            /\ history'.pairs = Plus(Plus(history.pairs, ExHazard', ExPair'), MemHazard', MemPair')
         \/ /\ UNCHANGED <<loadStalls, loadStallDepLut, history, din>>
            /\ ~ifInstr'.fetched /\ ~idInstr'.fetched
         \/ UNCHANGED statsVars
<1>1. ASSUME NEW h \in History, history' = WithPairs(h), h.pairs = history.pairs
      PROVE  history'.pairs = Plus(Plus(history.pairs, ExHazard', ExPair'), MemHazard', MemPair')
  BY <1>1 DEF WithPairs, Plus, History
<1>2. history \in History
  BY DEF CountsOK
<1>3. CASE CountStallMEM
  <2> DEFINE h == [history EXCEPT !.frozen = @ + 1]
  <2>1. h \in History /\ h.pairs = history.pairs
    BY <1>2 DEF History
  <2>2. history' = WithPairs(h)
    BY <1>3 DEF CountStallMEM
  <2> HIDE DEF h
  <2>3. HoldMEM /\ CountLoadStalls
    BY <1>3 DEF CountStallMEM, StallMEM, HoldMEM
  <2> QED BY <1>1, <2>1, <2>2, <2>3
<1>4. ASSUME NEW dHit \in BOOLEAN, CountStallID(dHit) \/ CountStallIF(dHit)
      PROVE  /\ HoldID \/ HoldIF
             /\ CountLoadStalls
             /\ history'.pairs = Plus(Plus(history.pairs, ExHazard', ExPair'), MemHazard', MemPair')
  <2> DEFINE h == [history EXCEPT !.held = @ + 1]
  <2>1. h \in History /\ h.pairs = history.pairs
    BY <1>2 DEF History
  <2>2. history' = WithPairs(h) /\ CountLoadStalls
    BY <1>4 DEF CountStallID, CountStallIF
  <2> HIDE DEF h
  <2>3. CASE StallID(dHit)
    <3>1. HoldID
      BY <2>3 DEF StallID, HoldID, PipelineInv, StallsAreGrounded
    <3> QED BY <1>1, <2>1, <2>2, <3>1
  <2>4. CASE StallIF(dHit)
    <3>1. HoldIF
      BY <2>4 DEF StallIF, HoldIF, PipelineInv, StallsAreGrounded, AccessesICache
    <3> QED BY <1>1, <2>1, <2>2, <3>1
  <2> QED BY <1>4, <2>3, <2>4 DEF CountStallID, CountStallIF
<1>5. ASSUME NEW i, NEW iHit \in BOOLEAN, NEW dHit \in BOOLEAN, CountAdvance(i, iHit, dHit)
      PROVE  /\ Running /\ Shift(i) /\ CountLoadStalls
             /\ history'.pairs = Plus(Plus(history.pairs, ExHazard', ExPair'), MemHazard', MemPair')
  <2> DEFINE h == Executed(history, i)
  <2>1. h \in History
    BY <1>2, ExecutedFacts
  <2>2. h.pairs = history.pairs
    BY <1>2 DEF Executed, History
  <2>3. history' = WithPairs(h) /\ CountLoadStalls
    BY <1>5 DEF CountAdvance
  <2> HIDE DEF h
  <2>4. Running /\ Shift(i)
    BY <1>5, PropagateShifts DEF CountAdvance, Advance
  <2> QED BY <1>1, <2>1, <2>2, <2>3, <2>4
<1>6. ASSUME NEW i, CountReachHalt(i)
      PROVE  /\ UNCHANGED <<loadStalls, loadStallDepLut, history, din>>
             /\ ~ifInstr'.fetched /\ ~idInstr'.fetched
  <2>1. i = NOP /\ din' = din /\ ifInstr = NOP
    BY <1>6, ReachHaltFacts DEF CountReachHalt
  <2>2. ifInstr' = i /\ idInstr' = ifInstr
    BY <1>6 DEF CountReachHalt, ReachHalt, Propagate
  <2> QED BY <1>6, <2>1, <2>2, BubbleFacts DEF CountReachHalt
<1>7. CASE StatsHalted \/ UNCHANGED statsVars
  BY <1>7 DEF StatsHalted, Halted, statsVars
<1> QED BY <1>3, <1>4, <1>5, <1>6, <1>7 DEF StatsNext

-----------------------------------------------------------------------------
\* detectHazards counts every pair of a load and the instruction that awaits it exactly
\* once: a table of five is enough.
THEOREM EachPairCountedOnce == StatsSpec => []LoadStallsCountEachPairOnce
<1>1. StatsInit => LoadStallInv
  <2> SUFFICES ASSUME StatsInit PROVE LoadStallInv
    OBVIOUS
  <2>1. history.pairs = {} /\ loadStallDepLut = << >> /\ loadStalls = 0
    BY DEF StatsInit
  <2>2. ~idInstr.fetched
    BY BubbleFacts DEF StatsInit, Init
  <2>3. Entries(<< >>) = {}
    BY DEF Entries
  <2> QED BY <2>1, <2>2, <2>3, FS_EmptySet DEF LoadStallInv
<1>2. PipelineInv /\ CountsOK /\ LoadStallInv /\ [StatsNext]_statsVars => LoadStallInv'
  <2> SUFFICES ASSUME PipelineInv, CountsOK, LoadStallInv, [StatsNext]_statsVars
               PROVE  LoadStallInv'
    OBVIOUS
  <2>1. CASE /\ UNCHANGED <<loadStalls, loadStallDepLut, history, din>>
             /\ ~ifInstr'.fetched /\ ~idInstr'.fetched
    BY <2>1 DEF LoadStallInv, Entries
  <2>2. CASE UNCHANGED statsVars
    BY <2>2 DEF statsVars, stats, vars, stages, LoadStallInv, Entries, Remembers, Producers,
                PairsOf
  <2> QED BY <2>1, <2>2, BothPairs, PairsRecorded
<1>3. LoadStallInv => LoadStallsCountEachPairOnce
  BY DEF LoadStallInv, LoadStallsCountEachPairOnce
<1> QED BY <1>1, <1>2, <1>3, CountsHold, PTL DEF StatsSpec
=============================================================================
