--------------------------- MODULE PipelineProofs ---------------------------
(***************************************************************************)
(* Proofs about the control of the cycle simulator, for every program,     *)
(* every pair of miss latencies and every bound on the program's length.   *)
(***************************************************************************)
EXTENDS PipelineProperties, TLAPS

-----------------------------------------------------------------------------
\* A bubble is an info that asks nothing of the pipeline.
LEMMA BubbleFacts ==
  /\ NOP \in Info
  /\ ~NOP.fetched /\ ~NOP.isOverflow /\ NOP.word = ZeroWord
  /\ ~IsHalt(NOP) /\ IsValid(NOP) /\ ~Excepting(NOP)
  /\ Decoded(NOP) = ZeroWord
  /\ ~AccessesICache(NOP) /\ ~AccessesDCache(NOP)
BY DEF NOP, Info, ZeroWord, IsHalt, IsValid, Excepting, Decoded, AccessesICache,
       AccessesDCache

\* What runCycles propagates into IF is a bubble, or an instruction numbered din.
LEMMA FetchFacts ==
  ASSUME TypeOK, NEW info, Fetch(info)
  PROVE  /\ info \in Info
         /\ din' \in 0..MaxDin
         /\ \/ info = NOP /\ din' = din
            \/ info.fetched /\ info.id = din /\ din' = din + 1
         /\ info.isOverflow => info.word.op \in OverflowOps
         /\ info.fetched => ~handlingHalt /\ ~handlingException
<1>1. CASE handlingHalt \/ handlingException
  <2>1. info = NOP /\ din' = din
    BY <1>1 DEF Fetch
  <2>2. din \in 0..MaxDin
    BY DEF TypeOK
  <2> QED BY <2>1, <2>2, BubbleFacts
<1>2. CASE ~(handlingHalt \/ handlingException)
  <2>1. EmulatorReturns(info)
    BY <1>2 DEF Fetch
  <2>2. din \in 0..MaxDin
    BY DEF TypeOK
  <2>3. din' = din + 1 /\ din' \in 0..MaxDin
    BY <2>1, <2>2, PipelineAssumption DEF EmulatorReturns
  <2>4. info \in Executable
    BY <2>1 DEF EmulatorReturns
  <2>5. /\ info \in Info
        /\ info.fetched /\ info.id = din
    <3>0. din \in Nat
      BY <2>2, PipelineAssumption
    <3>1. info \in Info
      BY <3>0, <2>4 DEF Executable, Info
    <3>2. info.fetched \in {TRUE} /\ info.id \in {din}
      BY <2>4 DEF Executable
    <3> QED BY <3>1, <3>2
  <2>6. info.isOverflow => info.word.op \in OverflowOps
    BY <2>1 DEF EmulatorReturns
  <2> QED BY <1>2, <2>3, <2>5, <2>6
<1> QED BY <1>1, <1>2

-----------------------------------------------------------------------------
(***************************************************************************)
(* The four ways the stages move in a cycle, with what the invariant says  *)
(* of the moment: a stall happens only under a fetched instruction, and    *)
(* what is squashed is what excepted.                                      *)
(***************************************************************************)
HoldMEM ==
  /\ UNCHANGED <<ifInstr, idInstr, exInstr, memInstr, din>>
  /\ wbInstr' = NOP

HoldID ==
  /\ idInstr.fetched
  /\ UNCHANGED <<ifInstr, idInstr, din>>
  /\ exInstr' = NOP /\ memInstr' = exInstr /\ wbInstr' = memInstr

HoldIF ==
  /\ ifInstr.fetched /\ ~ID_stall
  /\ UNCHANGED <<ifInstr, din>>
  /\ idInstr' = NOP /\ exInstr' = idInstr /\ memInstr' = exInstr /\ wbInstr' = memInstr

Shift(info) ==
  /\ NoStall
  /\ Fetch(info)
  /\ ifInstr' = info /\ idInstr' = ifInstr
  /\ exInstr' = (IF IsValid(idInstr) THEN idInstr ELSE NOP)
  /\ memInstr' = (IF exInstr.isOverflow THEN NOP ELSE exInstr)
  /\ wbInstr' = memInstr

LEMMA PropagateShifts ==
  ASSUME PipelineInv, Running, NEW info, NoStall, Fetch(info), Propagate(info)
  PROVE  Shift(info)
<1>1. squashStage = "ID" <=> ~IsValid(idInstr)
  BY DEF PipelineInv, SquashHitsException
<1>2. squashStage = "EX" <=> exInstr.isOverflow
  BY DEF PipelineInv, SquashHitsException
<1> QED BY <1>1, <1>2 DEF Shift, Propagate, Squashed

LEMMA StageMoves ==
  ASSUME PipelineInv, Next
  PROVE  \/ Running /\ (HoldMEM \/ HoldID \/ HoldIF \/ \E info : Shift(info))
         \/ UNCHANGED vars
<1>1. CASE StallMEM
  BY <1>1 DEF StallMEM, HoldMEM
<1>2. ASSUME NEW dHit \in BOOLEAN, StallID(dHit)
      PROVE  Running /\ HoldID
  <2>1. idInstr.fetched
    BY <1>2 DEF StallID, PipelineInv, StallsAreGrounded
  <2> QED BY <1>2, <2>1 DEF StallID, HoldID
<1>3. ASSUME NEW dHit \in BOOLEAN, StallIF(dHit)
      PROVE  Running /\ HoldIF
  <2>1. ifInstr.fetched
    BY <1>3 DEF StallIF, PipelineInv, StallsAreGrounded, AccessesICache
  <2> QED BY <1>3, <2>1 DEF StallIF, HoldIF
<1>4. ASSUME NEW info, NEW iHit \in BOOLEAN, NEW dHit \in BOOLEAN, Advance(info, iHit, dHit)
      PROVE  Running /\ Shift(info)
  BY <1>4, PropagateShifts DEF Advance
<1>5. ASSUME NEW info, ReachHalt(info)
      PROVE  Running /\ Shift(info)
  BY <1>5, PropagateShifts DEF ReachHalt
<1> QED BY <1>1, <1>2, <1>3, <1>4, <1>5 DEF Next, Halted

-----------------------------------------------------------------------------
\* The delays stay within the miss latencies.
LEMMA DelayFacts ==
  ASSUME TypeOK, NEW i, NEW hit \in BOOLEAN
  PROVE  /\ UpdatedICacheDelay(i, hit) \in 0..ICacheLatency
         /\ UpdatedDCacheDelay(i, hit) \in 0..DCacheLatency
BY PipelineAssumption
   DEF TypeOK, UpdatedICacheDelay, UpdatedDCacheDelay, ICacheDelayOf, DCacheDelayOf

LEMMA EndCycleTypes ==
  ASSUME TypeOK, NEW iDelay \in 0..ICacheLatency, NEW dDelay \in 0..DCacheLatency,
         NEW pending \in {"NONE", "ID", "EX"},
         EndCycle(iDelay, dDelay, pending)
  PROVE  /\ IF_stall' \in BOOLEAN /\ ID_stall' \in BOOLEAN /\ MEM_stall' \in BOOLEAN
         /\ iCacheDelay' \in 0..ICacheLatency /\ dCacheDelay' \in 0..DCacheLatency
         /\ handlingHalt' \in BOOLEAN /\ handlingException' \in BOOLEAN
         /\ squashStage' \in {"NONE", "ID", "EX"}
         /\ status' \in {"SUCCESS", "HALT"}
<1>1. IF_stall' \in BOOLEAN /\ ID_stall' \in BOOLEAN /\ MEM_stall' \in BOOLEAN
  BY DEF EndCycle, SetStalls, DetectHazards
<1>2. iCacheDelay' \in 0..ICacheLatency /\ dCacheDelay' \in 0..DCacheLatency
  BY PipelineAssumption DEF EndCycle, SetStalls, Decremented
<1>3. handlingHalt' \in BOOLEAN
  BY DEF EndCycle, HandleHalt, TypeOK
<1>4. handlingException' \in BOOLEAN /\ squashStage' \in {"NONE", "ID", "EX"}
  BY DEF EndCycle, HandleException, TypeOK
<1>5. status' \in {"SUCCESS", "HALT"}
  BY DEF EndCycle, TypeOK
<1> QED BY <1>1, <1>2, <1>3, <1>4, <1>5

LEMMA TypeStep ==
  ASSUME PipelineInv, Next
  PROVE  TypeOK'
<1> DEFINE W == Words \cup {ZeroWord}
<1> USE DEF PipelineInv
<1>1. TypeOK
  OBVIOUS
<1>2. NOP \in Info
  BY BubbleFacts
<1> DEFINE Stages ==
      /\ ifInstr' \in Info /\ idInstr' \in Info /\ exInstr' \in Info
      /\ memInstr' \in Info /\ wbInstr' \in Info /\ din' \in 0..MaxDin
<1>3. Stages
  <2>1. CASE HoldMEM \/ HoldID \/ HoldIF
    BY <1>1, <1>2, <2>1 DEF HoldMEM, HoldID, HoldIF, TypeOK
  <2>2. ASSUME NEW info, Shift(info)
        PROVE  Stages
    <3>1. info \in Info /\ din' \in 0..MaxDin
      BY <1>1, <2>2, FetchFacts DEF Shift
    <3> QED BY <1>1, <1>2, <2>2, <3>1 DEF Shift, TypeOK
  <2>3. CASE UNCHANGED vars
    BY <1>1, <2>3 DEF vars, stages, TypeOK
  <2> QED BY <2>1, <2>2, <2>3, StageMoves
<1> DEFINE Flags ==
      /\ IF_stall' \in BOOLEAN /\ ID_stall' \in BOOLEAN /\ MEM_stall' \in BOOLEAN
      /\ iCacheDelay' \in 0..ICacheLatency /\ dCacheDelay' \in 0..DCacheLatency
      /\ handlingHalt' \in BOOLEAN /\ handlingException' \in BOOLEAN
      /\ squashStage' \in {"NONE", "ID", "EX"}
      /\ status' \in {"SUCCESS", "HALT"}
<1>4. Flags /\ pipeState' \in [if : W, id : W, ex : W, mem : W, wb : W]
  <2>0. pipeState \in [if : W, id : W, ex : W, mem : W, wb : W] /\ ZeroWord \in W
    BY <1>1 DEF TypeOK
  <2>1. CASE StallMEM
    <3>1. Flags
      BY <1>1, <2>1, EndCycleTypes DEF StallMEM, TypeOK
    <3>2. pipeState' \in [if : W, id : W, ex : W, mem : W, wb : W]
      BY <2>0, <2>1 DEF StallMEM
    <3> QED BY <3>1, <3>2
  <2>2. ASSUME NEW dHit \in BOOLEAN, StallID(dHit)
        PROVE  Flags /\ pipeState' \in [if : W, id : W, ex : W, mem : W, wb : W]
    <3>1. Flags
      BY <1>1, <2>2, EndCycleTypes, DelayFacts DEF StallID, TypeOK
    <3>2. pipeState' \in [if : W, id : W, ex : W, mem : W, wb : W]
      BY <2>0, <2>2 DEF StallID
    <3> QED BY <3>1, <3>2
  <2>3. ASSUME NEW dHit \in BOOLEAN, StallIF(dHit)
        PROVE  Flags /\ pipeState' \in [if : W, id : W, ex : W, mem : W, wb : W]
    <3>1. Flags
      BY <1>1, <2>3, EndCycleTypes, DelayFacts DEF StallIF, TypeOK
    <3>2. pipeState' \in [if : W, id : W, ex : W, mem : W, wb : W]
      BY <2>0, <2>3 DEF StallIF
    <3> QED BY <3>1, <3>2
  <2>4. ASSUME NEW info, Fetch(info), Propagate(info)
        PROVE  pipeState' \in [if : W, id : W, ex : W, mem : W, wb : W]
    <3>1. info.word \in W
      BY <1>1, <2>4, FetchFacts DEF Info
    <3> QED BY <2>0, <2>4, <3>1 DEF Propagate, SquashedWord
  <2>5. ASSUME NEW info, NEW iHit \in BOOLEAN, NEW dHit \in BOOLEAN, Advance(info, iHit, dHit)
        PROVE  Flags
    BY <1>1, <2>5, EndCycleTypes, DelayFacts DEF Advance
  <2>6. ASSUME NEW info, ReachHalt(info)
        PROVE  Flags
    BY <1>1, <2>6 DEF ReachHalt, TypeOK, signals
  <2>7. CASE UNCHANGED vars
    BY <1>1, <2>7 DEF vars, stages, signals, exceptions, TypeOK
  <2> QED BY <2>1, <2>2, <2>3, <2>4, <2>5, <2>6, <2>7 DEF Next, Advance, ReachHalt, Halted
<1> QED BY <1>3, <1>4 DEF TypeOK

-----------------------------------------------------------------------------
\* What the invariant says of the moment the stages shift.
LEMMA ShiftFacts ==
  ASSUME PipelineInv, Running, NEW info, Shift(info)
  PROVE  /\ info \in Info
         /\ din \in Nat
         /\ \/ info = NOP /\ din' = din
            \/ info.fetched /\ info.id = din /\ din' = din + 1
         /\ info.isOverflow => info.word.op \in OverflowOps
         /\ info.fetched => /\ ~handlingHalt /\ ~Excepting(ifInstr) /\ ~idInstr.isOverflow
<1>1. TypeOK
  BY DEF PipelineInv
<1>2. handlingException <=> Excepting(ifInstr) \/ idInstr.isOverflow
  BY DEF PipelineInv, PauseMatchesException
<1>3. din \in Nat
  BY <1>1, PipelineAssumption DEF TypeOK
<1> QED BY <1>1, <1>2, <1>3, FetchFacts DEF Shift

LEMMA StagesStep ==
  ASSUME PipelineInv, Next
  PROVE  StagesOK'
<1>1. TypeOK /\ StagesOK
  BY DEF PipelineInv
<1>2. din \in Nat
  BY <1>1, PipelineAssumption DEF TypeOK
<1>3. ASSUME NEW i \in Info, InfoOK(i), din' \in {din, din + 1}
      PROVE  InfoOK(i)'
  BY <1>2, <1>3 DEF InfoOK, Info
<1>4. InfoOK(NOP)'
  BY BubbleFacts DEF InfoOK
<1>5. CASE HoldMEM \/ HoldID \/ HoldIF
  BY <1>1, <1>3, <1>4, <1>5 DEF HoldMEM, HoldID, HoldIF, TypeOK, StagesOK, InfoOK
<1>6. ASSUME Running, NEW info, Shift(info)
      PROVE  StagesOK'
  <2>1. InfoOK(info)' /\ din' \in {din, din + 1}
    BY <1>2, <1>4, <1>6, ShiftFacts DEF InfoOK
  <2> QED BY <1>1, <1>3, <1>4, <1>6, <2>1 DEF Shift, TypeOK, StagesOK, InfoOK
<1>7. CASE UNCHANGED vars
  BY <1>1, <1>7 DEF vars, stages, StagesOK, InfoOK
<1> QED BY <1>5, <1>6, <1>7, StageMoves

LEMMA OrderStep ==
  ASSUME PipelineInv, Next
  PROVE  ProgramOrder'
<1>1. TypeOK /\ StagesOK /\ ProgramOrder
  BY DEF PipelineInv
<1>2. ~NOP.fetched
  BY BubbleFacts
<1>3. CASE HoldMEM \/ HoldID \/ HoldIF
  BY <1>1, <1>2, <1>3 DEF HoldMEM, HoldID, HoldIF, ProgramOrder, Behind
<1>4. ASSUME Running, NEW info, Shift(info)
      PROVE  ProgramOrder'
  <2>1. info.fetched => info.id = din
    BY <1>2, <1>4, ShiftFacts
  <2> QED BY <1>1, <1>2, <1>4, <2>1 DEF Shift, ProgramOrder, Behind, StagesOK, InfoOK
<1>5. CASE UNCHANGED vars
  BY <1>1, <1>5 DEF vars, stages, ProgramOrder, Behind
<1> QED BY <1>3, <1>4, <1>5, StageMoves

LEMMA HazardsStep ==
  ASSUME PipelineInv, Next
  PROVE  HazardsDetected'
<1>1. HazardsDetected
  BY DEF PipelineInv
<1>2. ASSUME NEW iDelay, NEW dDelay, NEW pending, EndCycle(iDelay, dDelay, pending)
      PROVE  HazardsDetected'
  BY <1>2 DEF EndCycle, SetStalls, HazardsDetected
<1>3. ASSUME NEW info, ReachHalt(info)
      PROVE  HazardsDetected'
  BY <1>3 DEF ReachHalt, HazardsDetected, Running
<1>4. CASE Halted
  BY <1>1, <1>4 DEF Halted, vars, stages, signals, HazardsDetected, Running
<1> QED BY <1>2, <1>3, <1>4 DEF Next, StallMEM, StallID, StallIF, Advance

\* A word that waits for a register is not a bubble's: the signal needs an instruction.
LEMMA NoHazardForBubble ==
  ASSUME NEW e, NEW m
  PROVE  ~DetectHazards(ZeroWord, e, m)
BY DEF DetectHazards, LoadInEX, LoadInMEM, HasArithmeticHazard, HasLoadBranchHazard,
       HasLoadUseHazard, BranchUses, ZeroWord, CompareBranchOps, SignBranchOps, RsUseOps,
       RtUseOps

LEMMA GroundedStep ==
  ASSUME PipelineInv, Next
  PROVE  StallsAreGrounded'
<1> USE DEF Running
<1>1. TypeOK /\ StagesOK /\ StallsAreGrounded /\ iCacheDelay \in Nat /\ dCacheDelay \in Nat
  BY PipelineAssumption DEF PipelineInv, TypeOK
<1>2. Running' => (ID_stall' => idInstr'.fetched)
  <2>1. Running' => (ID_stall' <=> DetectHazards(Decoded(idInstr), Decoded(exInstr), Decoded(memInstr))')
    BY HazardsStep DEF HazardsDetected
  <2>2. ~idInstr'.fetched => Decoded(idInstr)' = ZeroWord
    BY StagesStep, BubbleFacts DEF StagesOK, InfoOK, Decoded, IsHalt
  <2> QED BY <2>1, <2>2, NoHazardForBubble
<1>3. ASSUME NEW iDelay \in Nat, NEW dDelay \in Nat, NEW pending,
             EndCycle(iDelay, dDelay, pending)
      PROVE  /\ iCacheDelay' > 0 => IF_stall'
             /\ dCacheDelay' > 0 => MEM_stall'
             /\ IF_stall' => iDelay > 0
             /\ MEM_stall' => dDelay > 0
  <2>1. /\ IF_stall' = (iDelay > 0) /\ iCacheDelay' = Decremented(iDelay)
        /\ MEM_stall' = (dDelay > 0) /\ dCacheDelay' = Decremented(dDelay)
    BY <1>3 DEF EndCycle, SetStalls
  <2>2. \A delay \in Nat : Decremented(delay) > 0 => delay > 0
    BY DEF Decremented
  <2> QED BY <2>1, <2>2
<1>4. ASSUME NEW i, NEW hit \in BOOLEAN
      PROVE  /\ UpdatedICacheDelay(i, hit) \in Nat
             /\ UpdatedDCacheDelay(i, hit) \in Nat
             /\ ~AccessesICache(i) => UpdatedICacheDelay(i, hit) = iCacheDelay
             /\ ~AccessesDCache(i) => UpdatedDCacheDelay(i, hit) = dCacheDelay
  BY <1>1, PipelineAssumption
     DEF UpdatedICacheDelay, UpdatedDCacheDelay, ICacheDelayOf, DCacheDelayOf
<1>5. CASE StallMEM
  <2>1. Running /\ EndCycle(iCacheDelay, dCacheDelay, squashStage)
    BY <1>5 DEF StallMEM
  <2>2. ifInstr' = ifInstr /\ memInstr' = memInstr
    BY <1>5 DEF StallMEM
  <2> QED BY <1>1, <1>2, <1>3, <2>1, <2>2
          DEF StallsAreGrounded, AccessesICache, AccessesDCache, Decoded, IsHalt
<1>6. ASSUME NEW dHit \in BOOLEAN, StallID(dHit) \/ StallIF(dHit)
      PROVE  StallsAreGrounded'
  <2>1. /\ Running /\ ~MEM_stall
        /\ EndCycle(iCacheDelay, UpdatedDCacheDelay(memInstr', dHit), squashStage)
    BY <1>6 DEF StallID, StallIF
  <2>2. ifInstr' = ifInstr
    BY <1>6 DEF StallID, StallIF
  <2>3. MEM_stall' => AccessesDCache(memInstr')
    BY <1>1, <1>3, <1>4, <2>1 DEF StallsAreGrounded
  <2>4. IF_stall' => AccessesICache(ifInstr')
    BY <1>1, <1>3, <1>4, <2>1, <2>2 DEF StallsAreGrounded
  <2> QED BY <1>1, <1>2, <1>3, <1>4, <2>1, <2>3, <2>4
          DEF StallsAreGrounded, AccessesICache, AccessesDCache, Decoded, IsHalt
<1>7. ASSUME NEW info, NEW iHit \in BOOLEAN, NEW dHit \in BOOLEAN, Advance(info, iHit, dHit)
      PROVE  StallsAreGrounded'
  <2>1. /\ Running /\ ~MEM_stall /\ ~IF_stall
        /\ EndCycle(UpdatedICacheDelay(info, iHit), UpdatedDCacheDelay(memInstr', dHit), "NONE")
    BY <1>7 DEF Advance, NoStall
  <2>2. ifInstr' = info
    BY <1>7 DEF Advance, Propagate
  <2>3. MEM_stall' => AccessesDCache(memInstr')
    BY <1>1, <1>3, <1>4, <2>1 DEF StallsAreGrounded
  <2>4. IF_stall' => AccessesICache(ifInstr')
    BY <1>1, <1>3, <1>4, <2>1, <2>2 DEF StallsAreGrounded
  <2> QED BY <1>1, <1>2, <1>3, <1>4, <2>1, <2>3, <2>4
          DEF StallsAreGrounded, AccessesICache, AccessesDCache, Decoded, IsHalt
<1>8. ASSUME NEW info, ReachHalt(info)
      PROVE  StallsAreGrounded'
  BY <1>8 DEF ReachHalt, StallsAreGrounded
<1>9. CASE Halted
  BY <1>9 DEF Halted, vars, StallsAreGrounded
<1> QED BY <1>5, <1>6, <1>7, <1>8, <1>9 DEF Next

LEMMA HaltStep ==
  ASSUME PipelineInv, Next
  PROVE  HaltSeen' /\ HaltNotMissed'
<1>1. /\ StagesOK /\ HaltSeen /\ HaltNotMissed /\ NothingBehindHaltOrException
      /\ handlingHalt \in BOOLEAN
  BY DEF PipelineInv, TypeOK
<1>2. ~IsHalt(NOP)
  BY BubbleFacts
<1>3. HaltSeen'
  <2>1. ASSUME NEW iDelay, NEW dDelay, NEW pending, EndCycle(iDelay, dDelay, pending)
        PROVE  /\ handlingHalt => handlingHalt'
               /\ IsHalt(ifInstr') => handlingHalt'
    BY <2>1 DEF EndCycle, HandleHalt, IsHalt
  <2>2. CASE StallMEM
    BY <1>1, <1>2, <2>1, <2>2 DEF StallMEM, HaltSeen, IsHalt
  <2>3. ASSUME NEW dHit \in BOOLEAN, StallID(dHit) \/ StallIF(dHit)
        PROVE  HaltSeen'
    BY <1>1, <1>2, <2>1, <2>3 DEF StallID, StallIF, HaltSeen, IsHalt
  <2>4. ASSUME NEW info, NEW iHit \in BOOLEAN, NEW dHit \in BOOLEAN, Advance(info, iHit, dHit)
        PROVE  HaltSeen'
    BY <1>1, <1>2, <2>1, <2>4 DEF Advance, Propagate, Squashed, HaltSeen, IsHalt
  <2>5. ASSUME NEW info, ReachHalt(info)
        PROVE  HaltSeen'
    <3>1. handlingHalt /\ info = NOP
      BY <1>1, <1>2, <2>5 DEF ReachHalt, Propagate, Fetch, HaltSeen, IsHalt
    <3> QED BY <3>1, <2>5 DEF ReachHalt, HaltSeen
  <2>6. CASE Halted
    BY <1>1, <2>6 DEF Halted, vars, stages, exceptions, HaltSeen, IsHalt
  <2> QED BY <2>2, <2>3, <2>4, <2>5, <2>6 DEF Next
<1>4. HaltNotMissed'
  <2>1. CASE StallMEM
    BY <1>2, <2>1 DEF StallMEM, HaltNotMissed, IsHalt
  <2>3. ASSUME NEW dHit \in BOOLEAN, StallID(dHit) \/ StallIF(dHit)
        PROVE  HaltNotMissed'
    <3>1. Running /\ (idInstr.fetched \/ ifInstr.fetched) /\ wbInstr' = memInstr
      BY <2>3 DEF StallID, StallIF, PipelineInv, StallsAreGrounded, AccessesICache
    <3> QED BY <1>1, <3>1
            DEF NothingBehindHaltOrException, NothingBehind, HaltNotMissed, IsHalt
  <2>4. ASSUME NEW info, NEW iHit \in BOOLEAN, NEW dHit \in BOOLEAN, Advance(info, iHit, dHit)
        PROVE  HaltNotMissed'
    BY <2>4 DEF Advance, HaltNotMissed
  <2>5. ASSUME NEW info, ReachHalt(info)
        PROVE  HaltNotMissed'
    BY <2>5 DEF ReachHalt, HaltNotMissed
  <2>6. CASE Halted
    BY <1>1, <2>6 DEF Halted, vars, stages, HaltNotMissed, IsHalt
  <2> QED BY <2>1, <2>3, <2>4, <2>5, <2>6 DEF Next
<1> QED BY <1>3, <1>4

-----------------------------------------------------------------------------
\* A bubble neither halts nor excepts, and no overflowing instruction is illegal.
LEMMA BlockFacts ==
  ASSUME StagesOK, NEW i \in {ifInstr, idInstr, exInstr, memInstr, wbInstr}
  PROVE  /\ ~i.fetched => ~IsHalt(i) /\ ~Excepting(i) /\ i = NOP
         /\ i.isOverflow => IsValid(i) /\ ~IsHalt(i)
<1>1. InfoOK(i)
  BY DEF StagesOK
<1> QED BY <1>1, BubbleFacts DEF InfoOK, IsValid, IsHalt, OverflowOps

LEMMA BlockStep ==
  ASSUME PipelineInv, Next
  PROVE  NothingBehindHaltOrException'
<1> DEFINE Blocks(i) == IsHalt(i) \/ Excepting(i)
<1>1. /\ StagesOK /\ HaltSeen /\ NothingBehindHaltOrException
      /\ IsValid(exInstr) /\ ~Excepting(memInstr)
  BY DEF PipelineInv, SquashHitsException
<1>2. ~NOP.fetched /\ ~Blocks(NOP)
  BY BubbleFacts
<1>3. /\ Blocks(idInstr)  => ~ifInstr.fetched
      /\ Blocks(exInstr)  => ~idInstr.fetched /\ ~ifInstr.fetched
      /\ Blocks(memInstr) => ~exInstr.fetched /\ ~idInstr.fetched /\ ~ifInstr.fetched
  BY <1>1 DEF NothingBehindHaltOrException, NothingBehind
<1>4. SUFFICES
        /\ Blocks(idInstr')  => ~ifInstr'.fetched
        /\ Blocks(exInstr')  => ~idInstr'.fetched /\ ~ifInstr'.fetched
        /\ Blocks(memInstr') => ~exInstr'.fetched /\ ~idInstr'.fetched /\ ~ifInstr'.fetched
  BY DEF NothingBehindHaltOrException, NothingBehind, IsHalt, Excepting, IsValid
<1> HIDE DEF Blocks
<1>5. CASE HoldMEM
  BY <1>3, <1>5 DEF HoldMEM
<1>6. CASE HoldID
  BY <1>2, <1>3, <1>6 DEF HoldID
<1>7. CASE HoldIF
  BY <1>2, <1>3, <1>7 DEF HoldIF
<1>8. ASSUME Running, NEW info, Shift(info)
      PROVE  /\ Blocks(idInstr')  => ~ifInstr'.fetched
             /\ Blocks(exInstr')  => ~idInstr'.fetched /\ ~ifInstr'.fetched
             /\ Blocks(memInstr') => ~exInstr'.fetched /\ ~idInstr'.fetched /\ ~ifInstr'.fetched
  <2>1. info.fetched => ~handlingHalt /\ ~Excepting(ifInstr) /\ ~idInstr.isOverflow
    BY <1>2, <1>8, ShiftFacts
  <2>2. Blocks(ifInstr) => ~info.fetched
    BY <1>1, <2>1 DEF Blocks, HaltSeen
  <2>3. Blocks(idInstr) /\ IsValid(idInstr) => ~info.fetched
    BY <1>1, <2>1 DEF Blocks, HaltSeen, Excepting
  <2>4. Blocks(exInstr) /\ ~exInstr.isOverflow => ~info.fetched
    BY <1>1, <2>1 DEF Blocks, HaltSeen, Excepting
  <2> QED BY <1>2, <1>3, <1>8, <2>2, <2>3, <2>4 DEF Shift
<1>9. CASE UNCHANGED vars
  BY <1>3, <1>9 DEF vars, stages
<1> QED BY <1>5, <1>6, <1>7, <1>8, <1>9, StageMoves

LEMMA ExceptionStep ==
  ASSUME PipelineInv, Next
  PROVE  SquashHitsException' /\ PauseMatchesException'
<1>1. /\ StagesOK /\ NothingBehindHaltOrException
      /\ IsValid(exInstr) /\ ~Excepting(memInstr) /\ ~Excepting(wbInstr)
  BY DEF PipelineInv, SquashHitsException
<1>2. Running => /\ squashStage = "ID" <=> ~IsValid(idInstr)
                 /\ squashStage = "EX" <=> exInstr.isOverflow
                 /\ handlingException <=> Excepting(ifInstr) \/ idInstr.isOverflow
  BY DEF PipelineInv, SquashHitsException, PauseMatchesException
<1>3. /\ ~NOP.isOverflow /\ IsValid(NOP) /\ ~Excepting(NOP)
      /\ squashStage \in {"NONE", "ID", "EX"} /\ handlingException \in BOOLEAN
  BY BubbleFacts DEF PipelineInv, TypeOK
\* Nothing behind an excepting instruction, and no instruction excepts twice.
<1>4. /\ Excepting(ifInstr) => ifInstr.fetched
      /\ Excepting(idInstr) => ~ifInstr.fetched
      /\ exInstr.isOverflow => ~ifInstr.fetched /\ ~idInstr.fetched
      /\ ~idInstr.fetched => ~Excepting(idInstr)
      /\ ifInstr.isOverflow => IsValid(ifInstr)
      /\ idInstr.isOverflow => IsValid(idInstr)
  BY <1>1, BlockFacts DEF NothingBehindHaltOrException, NothingBehind, Excepting
\* The pause and a pending squash exclude each other.
<1>5. Running /\ handlingException => IsValid(idInstr) /\ ~exInstr.isOverflow
  BY <1>2, <1>4 DEF Excepting
<1> DEFINE Settled == IsValid(exInstr') /\ ~Excepting(memInstr') /\ ~Excepting(wbInstr')
<1>6. Settled
  <2>1. CASE HoldMEM
    BY <1>1, <1>3, <2>1 DEF HoldMEM
  <2>2. CASE HoldID
    BY <1>1, <1>3, <1>4, <2>2 DEF HoldID, Excepting
  <2>3. CASE HoldIF
    BY <1>1, <1>3, <1>4, <2>3 DEF HoldIF, Excepting
  <2>4. ASSUME NEW info, Shift(info)
        PROVE  Settled
    BY <1>1, <1>3, <2>4 DEF Shift, Excepting
  <2>5. CASE UNCHANGED vars
    BY <1>1, <2>5 DEF vars, stages
  <2> QED BY <2>1, <2>2, <2>3, <2>4, <2>5, StageMoves
<1> DEFINE Outcome ==
      /\ squashStage' = "ID" <=> ~IsValid(idInstr')
      /\ squashStage' = "EX" <=> exInstr'.isOverflow
      /\ handlingException' <=> Excepting(ifInstr') \/ idInstr'.isOverflow
<1>7. Running' => Outcome
  <2>1. ASSUME NEW iDelay, NEW dDelay, NEW pending, EndCycle(iDelay, dDelay, pending)
        PROVE  LET raised   == handlingException \/ Excepting(ifInstr')
                   illegal  == raised /\ ~IsValid(idInstr')
                   overflow == raised /\ ~illegal /\ exInstr'.isOverflow
               IN  /\ handlingException' = (raised /\ ~illegal /\ ~overflow)
                   /\ squashStage' = IF illegal THEN "ID"
                                     ELSE IF overflow THEN "EX" ELSE pending
    BY <2>1 DEF EndCycle, HandleException, Excepting, IsValid
  <2>2. CASE StallMEM
    <3>1. /\ Running /\ ifInstr' = ifInstr /\ idInstr' = idInstr /\ exInstr' = exInstr
          /\ EndCycle(iCacheDelay, dCacheDelay, squashStage)
      BY <2>2 DEF StallMEM
    <3> QED BY <1>2, <1>3, <1>5, <2>1, <3>1
  <2>3. ASSUME NEW dHit \in BOOLEAN, StallID(dHit)
        PROVE  Outcome
    <3>1. /\ Running /\ idInstr.fetched
          /\ ifInstr' = ifInstr /\ idInstr' = idInstr /\ exInstr' = NOP
          /\ EndCycle(iCacheDelay, UpdatedDCacheDelay(memInstr', dHit), squashStage)
      BY <2>3 DEF StallID, PipelineInv, StallsAreGrounded
    <3> QED BY <1>2, <1>3, <1>4, <1>5, <2>1, <3>1
  <2>4. ASSUME NEW dHit \in BOOLEAN, StallIF(dHit)
        PROVE  Outcome
    <3>1. /\ Running /\ ifInstr.fetched
          /\ ifInstr' = ifInstr /\ idInstr' = NOP /\ exInstr' = idInstr
          /\ EndCycle(iCacheDelay, UpdatedDCacheDelay(memInstr', dHit), squashStage)
      BY <2>4 DEF StallIF, PipelineInv, StallsAreGrounded, AccessesICache
    <3> QED BY <1>2, <1>3, <1>4, <1>5, <2>1, <3>1 DEF Excepting
  <2>5. ASSUME NEW info, NEW iHit \in BOOLEAN, NEW dHit \in BOOLEAN, Advance(info, iHit, dHit)
        PROVE  Outcome
    <3>1. /\ Running /\ Shift(info)
          /\ EndCycle(UpdatedICacheDelay(info, iHit), UpdatedDCacheDelay(memInstr', dHit), "NONE")
      BY <2>5, PropagateShifts DEF Advance
    <3>2. /\ ifInstr' = info /\ idInstr' = ifInstr
          /\ exInstr' = (IF IsValid(idInstr) THEN idInstr ELSE NOP)
      BY <3>1 DEF Shift
    <3>3. CASE handlingException
      <4>1. info = NOP
        BY <3>1, <3>3 DEF Shift, Fetch
      <4>2. exInstr' = idInstr
        BY <1>5, <3>1, <3>2, <3>3
      <4> QED BY <1>2, <1>3, <1>4, <1>5, <2>1, <3>1, <3>2, <3>3, <4>1, <4>2 DEF Excepting
    <3>4. CASE ~handlingException
      <4>1. ~Excepting(ifInstr) /\ ~idInstr.isOverflow
        BY <1>2, <3>1, <3>4
      <4>2. IsValid(idInstr') /\ ~idInstr'.isOverflow /\ ~exInstr'.isOverflow
        BY <1>3, <3>2, <4>1 DEF Excepting
      <4>3. /\ handlingException' <=> Excepting(ifInstr')
            /\ squashStage' = "NONE"
        BY <2>1, <3>1, <3>4, <4>2
      <4> QED BY <4>2, <4>3
    <3> QED BY <3>3, <3>4
  <2>6. ASSUME NEW info, ReachHalt(info)
        PROVE  ~Running'
    BY <2>6 DEF ReachHalt, Running
  <2>7. CASE Halted
    BY <2>7 DEF Halted, vars, Running
  <2> QED BY <2>2, <2>3, <2>4, <2>5, <2>6, <2>7 DEF Next
<1> QED BY <1>6, <1>7
        DEF SquashHitsException, PauseMatchesException, Excepting, IsValid, Running

-----------------------------------------------------------------------------
LEMMA InitInv == Init => PipelineInv
<1> SUFFICES ASSUME Init PROVE PipelineInv
  OBVIOUS
<1> USE BubbleFacts DEF Init
<1>1. TypeOK
  <2>1. 0 \in 0..ICacheLatency /\ 0 \in 0..DCacheLatency /\ 0 \in 0..MaxDin
    BY PipelineAssumption
  <2> QED BY <2>1 DEF TypeOK
<1>2. StagesOK /\ ProgramOrder
  BY DEF StagesOK, InfoOK, ProgramOrder, Behind
<1>3. HazardsDetected
  BY NoHazardForBubble DEF HazardsDetected
<1>4. StallsAreGrounded
  BY DEF StallsAreGrounded
<1>5. HaltSeen /\ HaltNotMissed /\ NothingBehindHaltOrException
  BY DEF HaltSeen, HaltNotMissed, NothingBehindHaltOrException
<1>6. SquashHitsException /\ PauseMatchesException
  BY DEF SquashHitsException, PauseMatchesException
<1> QED BY <1>1, <1>2, <1>3, <1>4, <1>5, <1>6 DEF PipelineInv

LEMMA InvStep == PipelineInv /\ [Next]_vars => PipelineInv'
<1>1. CASE Next
  BY <1>1, TypeStep, StagesStep, OrderStep, HazardsStep, GroundedStep, HaltStep, BlockStep,
     ExceptionStep DEF PipelineInv
<1>2. CASE UNCHANGED vars
  BY <1>2 DEF vars, stages, signals, exceptions, PipelineInv, TypeOK, StagesOK, InfoOK,
     ProgramOrder, Behind, HazardsDetected, StallsAreGrounded, HaltSeen, HaltNotMissed,
     NothingBehindHaltOrException, NothingBehind, SquashHitsException,
     PauseMatchesException, Running, IsHalt, IsValid, Excepting, Decoded, AccessesICache,
     AccessesDCache
<1> QED BY <1>1, <1>2

\* The control of the cycle simulator keeps its inductive invariant.
THEOREM Invariance == Spec => []PipelineInv
BY InitInv, InvStep, PTL DEF Spec

\* Type correctness: in particular no delay underflows and none exceeds the miss latency.
THEOREM TypeCorrect == Spec => []TypeOK
<1>1. PipelineInv => TypeOK
  BY DEF PipelineInv
<1> QED BY <1>1, Invariance, PTL

\* No stall, bubble or squash duplicates or reorders an instruction.
THEOREM InProgramOrder == Spec => []ProgramOrder
<1>1. PipelineInv => ProgramOrder
  BY DEF PipelineInv
<1> QED BY <1>1, Invariance, PTL

\* runCycles sees HALT in WB: no stall moves it past the test.
THEOREM HaltIsSeen == Spec => []HaltNotMissed
<1>1. PipelineInv => HaltNotMissed
  BY DEF PipelineInv
<1> QED BY <1>1, Invariance, PTL

\* Squashing is precise: late as it is, it hits the excepting instruction.
THEOREM PreciseSquash == Spec => []SquashHitsException
<1>1. PipelineInv => SquashHitsException
  BY DEF PipelineInv
<1> QED BY <1>1, Invariance, PTL

\* Nothing is ever in the pipeline behind an excepting instruction or behind HALT.
THEOREM NothingFollows == Spec => []NothingBehindHaltOrException
<1>1. PipelineInv => NothingBehindHaltOrException
  BY DEF PipelineInv
<1> QED BY <1>1, Invariance, PTL

\* Fetching pauses exactly while an excepting instruction awaits its detection.
THEOREM PausesForException == Spec => []PauseMatchesException
<1>1. PipelineInv => PauseMatchesException
  BY DEF PipelineInv
<1> QED BY <1>1, Invariance, PTL

\* A stall always stands for an access or a hazard of an instruction in its stage.
THEOREM GroundedStalls == Spec => []StallsAreGrounded
<1>1. PipelineInv => StallsAreGrounded
  BY DEF PipelineInv
<1> QED BY <1>1, Invariance, PTL

-----------------------------------------------------------------------------
\* The mnemonic tables of detectHazards say, word by word, what executeInstruction's
\* reads and writes call for.
LEMMA TablesMatchIsa ==
  ASSUME NEW d \in Word, NEW e \in Word, NEW m \in Word
  PROVE  DetectHazards(d, e, m) <=> MustWait(d, e, m)
<1>1. ASSUME NEW l \in Word, l.op \in LoadOps
      PROVE  /\ HasLoadUseHazard(d, l) \/ HasLoadBranchHazard(d, l) <=> AwaitsLoad(d, l)
             /\ HasLoadBranchHazard(d, l) <=> d.op \in BranchOps /\ AwaitsLoad(d, l)
  BY <1>1 DEF Word, Ops, HasLoadUseHazard, HasLoadBranchHazard, BranchUses, RsUseOps, RtUseOps,
     AwaitsLoad, Reads, ReadsRs, ReadsRt, ShiftOps, RegisterOps, ImmediateOps, LoadOps,
     StoreOps, MemOps, BranchOps, CompareBranchOps, SignBranchOps, JumpOps
<1>2. HasArithmeticHazard(d, e) <=> d.op \in BranchOps /\ AwaitsResult(d, e)
  BY DEF Word, Ops, HasArithmeticHazard, RtCheckOps, RdCheckOps, BranchUses, AwaitsResult,
     Dest, Reads, ReadsRs, ReadsRt, ShiftOps, RegisterOps, ImmediateOps, LoadOps, StoreOps,
     MemOps, BranchOps, CompareBranchOps, SignBranchOps, JumpOps
<1>3. LoadInEX(d, e) <=> AwaitsLoad(d, e)
  BY <1>1 DEF LoadInEX, AwaitsLoad
<1>4. LoadInMEM(d, m) <=> d.op \in BranchOps /\ AwaitsLoad(d, m)
  BY <1>1 DEF LoadInMEM, AwaitsLoad
<1> QED BY <1>2, <1>3, <1>4 DEF DetectHazards, MustWait

LEMMA DecodedIsWord ==
  ASSUME NEW i \in Info
  PROVE  Decoded(i) \in Word
BY WordsAssumption DEF Info, Decoded, ZeroWord, Word, Ops, ShiftOps

\* ID_stall is raised exactly when the instruction in ID has to wait for a register.
THEOREM ExactStalls == Spec => []StallsExactlyOnDependence
<1>1. PipelineInv => StallsExactlyOnDependence
  BY DecodedIsWord, TablesMatchIsa
     DEF PipelineInv, TypeOK, HazardsDetected, StallsExactlyOnDependence
<1> QED BY <1>1, Invariance, PTL

\* What leaves ID in a cycle without ID_stall does not have to wait.
LEMMA Released ==
  ASSUME PipelineInv, Running, ~ID_stall
  PROVE  ~MustWait(Decoded(idInstr), Decoded(exInstr), Decoded(memInstr))
BY DecodedIsWord, TablesMatchIsa DEF PipelineInv, TypeOK, HazardsDetected

\* A bubble reads no register but $zero and is no branch.
LEMMA BubbleReads ==
  /\ \A r : r # 0 => ~Reads(Decoded(NOP), r)
  /\ Decoded(NOP).op \notin LoadOps \cup BranchOps
  /\ Dest(Decoded(NOP)) = 0
BY BubbleFacts DEF ZeroWord, Reads, ReadsRs, ReadsRt, Dest, LoadOps, BranchOps,
   CompareBranchOps, SignBranchOps, ShiftOps, RegisterOps, ImmediateOps, MemOps, StoreOps

LEMMA InterlockStep ==
  ASSUME PipelineInv, LoadUseInterlock, BranchInterlock, Next
  PROVE  LoadUseInterlock' /\ BranchInterlock'
<1> DEFINE LoadUse(e, m) == m.op \in LoadOps /\ m.rt # 0 => ~Reads(e, m.rt)
           Branch(b, m, w) ==
             b.op \in BranchOps =>
               /\ m.op # "JAL" /\ Dest(m) # 0 => ~Reads(b, Dest(m))
               /\ w.op \in LoadOps /\ w.rt # 0 => ~Reads(b, w.rt)
           Bubble == Decoded(NOP)
<1>1. /\ LoadUse(Decoded(exInstr), Decoded(memInstr))
      /\ Branch(Decoded(exInstr), Decoded(memInstr), Decoded(wbInstr))
  BY DEF LoadUseInterlock, BranchInterlock
<1>2. SUFFICES
        /\ LoadUse(Decoded(exInstr'), Decoded(memInstr'))
        /\ Branch(Decoded(exInstr'), Decoded(memInstr'), Decoded(wbInstr'))
  BY DEF LoadUseInterlock, BranchInterlock, Decoded, IsHalt
<1>3. \A x, y : LoadUse(Bubble, x) /\ LoadUse(x, Bubble) /\ Branch(Bubble, x, y)
  BY BubbleReads DEF LoadOps
<1>4. ASSUME Running, ~ID_stall
      PROVE  /\ LoadUse(Decoded(idInstr), Decoded(exInstr))
             /\ Branch(Decoded(idInstr), Decoded(exInstr), Decoded(memInstr))
  BY <1>4, Released DEF MustWait, AwaitsLoad, AwaitsResult
<1>6. CASE HoldMEM
  <2>1. Branch(Decoded(exInstr), Decoded(memInstr), Bubble)
    BY <1>1, BubbleReads
  <2> QED BY <1>1, <1>6, <2>1 DEF HoldMEM
<1>7. CASE HoldID
  BY <1>3, <1>7 DEF HoldID
<1>8. CASE Running /\ HoldIF
  BY <1>4, <1>8 DEF HoldIF
<1>9. ASSUME Running, NEW info, Shift(info)
      PROVE  /\ LoadUse(Decoded(exInstr'), Decoded(memInstr'))
             /\ Branch(Decoded(exInstr'), Decoded(memInstr'), Decoded(wbInstr'))
  <2>1. ~ID_stall
    BY <1>9 DEF Shift, NoStall
  <2>2. Branch(Decoded(idInstr), Bubble, Decoded(memInstr))
    BY <1>4, <1>9, <2>1, BubbleReads
  <2> QED BY <1>3, <1>4, <1>9, <2>1, <2>2 DEF Shift
<1>10. CASE UNCHANGED vars
  BY <1>1, <1>10 DEF vars, stages
<1> QED BY <1>6, <1>7, <1>8, <1>9, <1>10, StageMoves

\* Both interlocks together, since a load that a branch awaits moves from one to the other.
LEMMA InterlocksHold == Spec => [](LoadUseInterlock /\ BranchInterlock)
<1>1. Init => LoadUseInterlock /\ BranchInterlock
  BY BubbleReads DEF Init, LoadUseInterlock, BranchInterlock
<1>2. PipelineInv /\ LoadUseInterlock /\ BranchInterlock /\ [Next]_vars
        => LoadUseInterlock' /\ BranchInterlock'
  <2>1. CASE UNCHANGED vars
    BY <2>1 DEF vars, stages, LoadUseInterlock, BranchInterlock, Decoded, IsHalt
  <2> QED BY <2>1, InterlockStep
<1> QED BY <1>1, <1>2, Invariance, PTL DEF Spec

\* An instruction executes only when the loads it reads have left MEM.
THEOREM LoadsInterlocked == Spec => []LoadUseInterlock
BY InterlocksHold, PTL

\* A branch leaves ID only when what it compares is computed or loaded.
THEOREM BranchesInterlocked == Spec => []BranchInterlock
BY InterlocksHold, PTL

\* dumpPipeState shows the word of the instruction in each stage.
LEMMA ShowsStep ==
  ASSUME PipelineInv, ShowsThePipeline, Next
  PROVE  ShowsThePipeline'
<1>1. NOP.word = ZeroWord
  BY BubbleFacts
<1>2. CASE StallMEM
  BY <1>1, <1>2 DEF StallMEM, ShowsThePipeline
<1>3. ASSUME NEW dHit \in BOOLEAN, StallID(dHit)
      PROVE  ShowsThePipeline'
  BY <1>1, <1>3 DEF StallID, ShowsThePipeline
<1>4. ASSUME NEW dHit \in BOOLEAN, StallIF(dHit)
      PROVE  ShowsThePipeline'
  BY <1>1, <1>4 DEF StallIF, ShowsThePipeline
<1>5. ASSUME NEW info, Propagate(info)
      PROVE  ShowsThePipeline'
  BY <1>1, <1>5 DEF Propagate, Squashed, SquashedWord, ShowsThePipeline
<1>6. CASE Halted
  BY <1>6 DEF Halted, vars, stages, ShowsThePipeline
<1> QED BY <1>2, <1>3, <1>4, <1>5, <1>6 DEF Next, Advance, ReachHalt

\* pipeState, which dumpPipeState prints, is updated beside pipeInsInfo and never disagrees
\* with it: every stage is shown with the word of the instruction that is in it.
THEOREM DumpShowsThePipeline == Spec => []ShowsThePipeline
<1>1. Init => ShowsThePipeline
  BY BubbleFacts DEF Init, ShowsThePipeline
<1>2. PipelineInv /\ ShowsThePipeline /\ [Next]_vars => ShowsThePipeline'
  <2>1. CASE UNCHANGED vars
    BY <2>1 DEF vars, stages, ShowsThePipeline
  <2> QED BY <2>1, ShowsStep
<1> QED BY <1>1, <1>2, Invariance, PTL DEF Spec

-----------------------------------------------------------------------------
(***************************************************************************)
(* The refinement of module InOrder.  A cycle retires what is in MEM,      *)
(* drops what it squashes and issues what it fetches.                      *)
(***************************************************************************)
InStage(i) == {j \in {i} : j.fetched}

LEMMA InFlightIs == InFlight = InStage(ifInstr) \cup InStage(idInstr) \cup InStage(exInstr) \cup InStage(memInstr)
BY DEF InFlight, InStage

\* The fetched instructions in two stages differ; none has been issued again.
LEMMA Distinct ==
  ASSUME PipelineInv
  PROVE  /\ din \in Nat
         /\ \A i \in InFlight : i.id \in Nat /\ i.id < din
         /\ memInstr.fetched => memInstr \notin InStage(exInstr) \cup InStage(idInstr) \cup InStage(ifInstr)
         /\ exInstr.fetched  => exInstr \notin InStage(memInstr) \cup InStage(idInstr) \cup InStage(ifInstr)
         /\ idInstr.fetched  => idInstr \notin InStage(memInstr) \cup InStage(exInstr) \cup InStage(ifInstr)
         /\ ifInstr.fetched  => ifInstr \notin InStage(memInstr) \cup InStage(exInstr) \cup InStage(idInstr)
<1>1. TypeOK /\ StagesOK /\ ProgramOrder
  BY DEF PipelineInv
<1>2. din \in Nat
  BY <1>1, PipelineAssumption DEF TypeOK
<1>3. \A i \in {ifInstr, idInstr, exInstr, memInstr} : i.id \in Nat
  BY <1>1 DEF TypeOK, Info
<1>4. \A i \in InFlight : i.id < din
  BY <1>1 DEF InFlight, StagesOK, InfoOK
<1>5. \A i \in InFlight : i.id \in Nat
  BY <1>3 DEF InFlight
<1>6. /\ memInstr.fetched => memInstr \notin InStage(exInstr) \cup InStage(idInstr) \cup InStage(ifInstr)
      /\ exInstr.fetched  => exInstr \notin InStage(memInstr) \cup InStage(idInstr) \cup InStage(ifInstr)
      /\ idInstr.fetched  => idInstr \notin InStage(memInstr) \cup InStage(exInstr) \cup InStage(ifInstr)
      /\ ifInstr.fetched  => ifInstr \notin InStage(memInstr) \cup InStage(exInstr) \cup InStage(idInstr)
  BY <1>1, <1>3 DEF ProgramOrder, Behind, InStage
<1> QED BY <1>2, <1>4, <1>5, <1>6

\* MEM holds what may retire: the oldest instruction, and not an excepting one.
LEMMA MemRetires ==
  ASSUME PipelineInv
  PROVE  /\ Abstract!AtMostOneOf(Abstract!Retirable, InStage(memInstr))
         /\ Abstract!AtMostOneOf(Abstract!Retirable, {})
<1>1. /\ ProgramOrder /\ ~Excepting(memInstr)
      /\ memInstr.id \in Nat
  BY DEF PipelineInv, SquashHitsException, TypeOK, Info
<1>2. ASSUME memInstr.fetched
      PROVE  memInstr \in Abstract!Retirable
  <2>1. memInstr \in InFlight
    BY <1>2 DEF InFlight
  <2>2. \A j \in InFlight : memInstr.id <= j.id
    BY <1>1, <1>2, Distinct DEF InFlight, ProgramOrder, Behind
  <2> QED BY <1>1, <2>1, <2>2
          DEF Abstract!Retirable, Abstract!Oldest, Abstract!Excepts, Excepting, IsValid
<1>3. InStage(memInstr) = IF memInstr.fetched THEN {memInstr} ELSE {}
  BY DEF InStage
<1> QED BY <1>2, <1>3 DEF Abstract!AtMostOneOf

\* A stalled cycle issues and drops nothing; it retires what is in MEM, if that moves.
LEMMA HoldRefines ==
  ASSUME PipelineInv, Running, Running', HoldMEM \/ HoldID \/ HoldIF
  PROVE  Abstract!CycleStep
<1> DEFINE R == {i \in {wbInstr'} : i.fetched}
<1>1. ~NOP.fetched
  BY BubbleFacts
<1>2. din' = din
  BY DEF HoldMEM, HoldID, HoldIF
<1>3. /\ R = {} \/ (R = InStage(memInstr) /\ ~IsHalt(memInstr))
      /\ InFlight' = InFlight \ R
  <2>1. CASE HoldMEM
    BY <1>1, <2>1 DEF HoldMEM, InFlight
  <2>2. CASE HoldID \/ HoldIF
    <3>1. ~IsHalt(memInstr)
      BY <2>2 DEF HoldID, HoldIF, PipelineInv, NothingBehindHaltOrException, NothingBehind
    <3>2. R = InStage(memInstr)
      BY <2>2 DEF HoldID, HoldIF, InStage
    <3>3. InFlight' = InStage(ifInstr) \cup InStage(idInstr) \cup InStage(exInstr)
      BY <1>1, <2>2 DEF HoldID, HoldIF, InFlight, InStage
    <3> QED BY <3>1, <3>2, <3>3, InFlightIs, Distinct DEF InStage
  <2> QED BY <2>1, <2>2
<1>4. Abstract!AtMostOneOf(Abstract!Retirable, R)
  BY <1>3, MemRetires
<1>5. InFlight \ (InFlight' \cup R) = {} /\ InFlight' \ InFlight = {}
  BY <1>3
<1>6. InFlight' = (InFlight \ (R \cup {})) \cup {}
  BY <1>3
<1>7. ~ \E i \in R : Abstract!Halts(i)
  BY <1>3 DEF InStage, Abstract!Halts, IsHalt
<1>8. Abstract!AtMostOneOf(Abstract!Droppable, {})
  BY DEF Abstract!AtMostOneOf
<1> QED BY <1>2, <1>4, <1>5, <1>6, <1>7, <1>8 DEF Abstract!CycleStep, Abstract!Cycle, Running

\* What squash drops when the stages shift.
Dropped == {i \in InStage(exInstr) : i.isOverflow} \cup {i \in InStage(idInstr) : ~IsValid(i)}

\* A cycle that shifts the stages retires what is in MEM, drops what is squashed and
\* issues what is fetched.
LEMMA ShiftRefines ==
  ASSUME PipelineInv, Running, NEW info, Shift(info),
         status' = "HALT" <=> IsHalt(wbInstr'), status' \in {"SUCCESS", "HALT"}
  PROVE  Abstract!CycleStep
<1> DEFINE R == {i \in {wbInstr'} : i.fetched}
           D == Dropped
           I == InStage(info)
<1>1. /\ ~NOP.fetched /\ IsValid(NOP) /\ ~NOP.isOverflow
      /\ StagesOK /\ HaltSeen /\ NothingBehindHaltOrException
      /\ IsValid(exInstr) /\ ~Excepting(memInstr)
  BY BubbleFacts DEF PipelineInv, SquashHitsException
<1>2. /\ \/ info = NOP /\ din' = din
         \/ info.fetched /\ info.id = din /\ din' = din + 1
      /\ info.fetched => ~handlingHalt /\ ~Excepting(ifInstr) /\ ~idInstr.isOverflow
  BY ShiftFacts
<1>3. R = InStage(memInstr)
  BY DEF Shift, InStage
<1>4. \A i : i \in D => i \in InFlight /\ (i = exInstr \/ i = idInstr)
  BY DEF Dropped, InStage, InFlight
<1>5. info.fetched => info \notin InFlight
  BY <1>1, <1>2, Distinct
<1>6. InFlight' = (InFlight \ (R \cup D)) \cup I
  <2>1. InFlight' = InStage(info) \cup InStage(ifInstr) \cup (InStage(idInstr) \ D) \cup (InStage(exInstr) \ D)
    <3>1. InStage(exInstr') = InStage(idInstr) \ D
      <4>1. CASE IsValid(idInstr)
        <5>1. idInstr.fetched => ~exInstr.isOverflow
          BY <1>1 DEF NothingBehindHaltOrException, NothingBehind, Excepting
        <5> QED BY <4>1, <5>1 DEF Shift, Dropped, InStage
      <4>2. CASE ~IsValid(idInstr)
        BY <1>1, <4>2 DEF Shift, Dropped, InStage
      <4> QED BY <4>1, <4>2
    <3>2. InStage(memInstr') = InStage(exInstr) \ D
      BY <1>1 DEF Shift, Dropped, InStage
    <3>3. InFlight' = InStage(ifInstr') \cup InStage(idInstr') \cup InStage(exInstr') \cup InStage(memInstr')
      BY InFlightIs DEF InFlight, InStage
    <3> QED BY <3>1, <3>2, <3>3 DEF Shift
  <2>2. InStage(ifInstr) \cap D = {}
    BY Distinct DEF Dropped, InStage
  <2>3. InStage(memInstr) \cap (InStage(ifInstr) \cup InStage(idInstr) \cup InStage(exInstr)) = {}
    BY Distinct DEF InStage
  <2> QED BY <1>3, <2>1, <2>2, <2>3, InFlightIs
<1>7. D \cap R = {}
  BY <1>3, Distinct DEF Dropped, InStage
<1>8. InFlight \ (InFlight' \cup R) = D
  BY <1>4, <1>5, <1>6, <1>7 DEF InStage
<1>9. InFlight' \ InFlight = I
  BY <1>5, <1>6 DEF InStage
<1>10. Abstract!AtMostOneOf(Abstract!Droppable, D)
  <2>1. exInstr.fetched /\ exInstr.isOverflow => ~idInstr.fetched
    BY <1>1 DEF NothingBehindHaltOrException, NothingBehind, Excepting
  <2>2. D = {} \/ \E i \in D : D = {i}
    BY <2>1 DEF Dropped, InStage
  <2>3. D \subseteq Abstract!Droppable
    BY <1>4 DEF Dropped, Abstract!Droppable, Abstract!Excepts, IsValid
  <2> QED BY <2>2, <2>3 DEF Abstract!AtMostOneOf
<1>11. I # {} => Abstract!MayIssueBehind(InFlight \ D)
  <2>1. SUFFICES ASSUME info.fetched, NEW i \in InFlight \ D
                 PROVE  ~Abstract!Excepts(i) /\ ~Abstract!Halts(i)
    BY DEF InStage, Abstract!MayIssueBehind
  <2>2. ~IsHalt(i)
    BY <1>1, <1>2, <2>1 DEF HaltSeen, InFlight
  <2>3. ~Excepting(i)
    BY <1>1, <1>2, <2>1 DEF InFlight, Dropped, InStage, Excepting
  <2> QED BY <2>2, <2>3 DEF Abstract!Excepts, Abstract!Halts, Excepting, IsHalt, IsValid
<1>12. \/ I = {} /\ din' = din
       \/ /\ \E i \in I : I = {i} /\ i.id = din
          /\ din' = din + 1
  BY <1>1, <1>2 DEF InStage
<1>13. (status' = "HALT") = (\E i \in R : Abstract!Halts(i))
  <2>1. IsHalt(memInstr) => memInstr.fetched
    BY <1>1, BlockFacts
  <2>2. wbInstr' = memInstr
    BY DEF Shift
  <2> QED BY <1>3, <2>1, <2>2 DEF InStage, Abstract!Halts, IsHalt
<1>14. Abstract!AtMostOneOf(Abstract!Retirable, R)
  BY <1>3, MemRetires
<1> HIDE DEF D, I
<1> QED BY <1>6, <1>8, <1>9, <1>10, <1>11, <1>12, <1>13, <1>14
        DEF Abstract!CycleStep, Abstract!Cycle, Running

\* The cycle simulator's control keeps the promise of an in-order machine with precise
\* exceptions: every cycle is a cycle of module InOrder.
THEOREM Refinement == Spec => RefinesInOrder
<1>1. Init => Abstract!Start
  BY BubbleFacts DEF Init, Abstract!Start, InFlight
<1>2. PipelineInv /\ TypeOK' /\ [Next]_vars => Abstract!CycleStep \/ UNCHANGED Abstract!promise
  <2> SUFFICES ASSUME PipelineInv, TypeOK', [Next]_vars
               PROVE  Abstract!CycleStep \/ UNCHANGED Abstract!promise
    OBVIOUS
  <2>1. CASE StallMEM
    BY <2>1, HoldRefines DEF StallMEM, HoldMEM, EndCycle, Running
  <2>2. ASSUME NEW dHit \in BOOLEAN, StallID(dHit)
        PROVE  Abstract!CycleStep
    <3>1. HoldID
      BY <2>2 DEF StallID, HoldID, PipelineInv, StallsAreGrounded
    <3> QED BY <2>2, <3>1, HoldRefines DEF StallID, EndCycle, Running
  <2>3. ASSUME NEW dHit \in BOOLEAN, StallIF(dHit)
        PROVE  Abstract!CycleStep
    <3>1. HoldIF
      BY <2>3 DEF StallIF, HoldIF, PipelineInv, StallsAreGrounded, AccessesICache
    <3> QED BY <2>3, <3>1, HoldRefines DEF StallIF, EndCycle, Running
  <2>4. ASSUME NEW info, NEW iHit \in BOOLEAN, NEW dHit \in BOOLEAN, Advance(info, iHit, dHit)
        PROVE  Abstract!CycleStep
    BY <2>4, PropagateShifts, ShiftRefines DEF Advance, EndCycle, Running, IsHalt
  <2>5. ASSUME NEW info, ReachHalt(info)
        PROVE  Abstract!CycleStep
    BY <2>5, PropagateShifts, ShiftRefines DEF ReachHalt, IsHalt
  <2>6. CASE UNCHANGED vars
    BY <2>6 DEF vars, stages, Abstract!promise, InFlight
  <2> QED BY <2>1, <2>2, <2>3, <2>4, <2>5, <2>6 DEF Next, Halted
<1> QED BY <1>1, <1>2, Invariance, TypeCorrect, PTL
        DEF Spec, RefinesInOrder, Abstract!Promise
=============================================================================
