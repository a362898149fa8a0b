---------------------------- MODULE CycleSimProofs ----------------------------
(***************************************************************************)
(* Proofs about the whole cycle simulator, for every program, memory and   *)
(* pair of caches: it behaves as its control and its statistics do with a  *)
(* freely chosen emulator and caches, so that what is proved of those      *)
(* holds of it, and it executes what the functional simulator executes.    *)
(***************************************************************************)
EXTENDS CycleSim, StatsProofs, EmulatorProofs

-----------------------------------------------------------------------------
\* What the emulator and the caches decide is among what module CycleStats chooses from.
LEMMA SimStepIsStatsStep == [SimNext]_simVars => [StatsNext]_statsVars
<1> SUFFICES ASSUME [SimNext]_simVars PROVE [StatsNext]_statsVars
  OBVIOUS
<1>1. CASE SimStallMEM
  BY <1>1 DEF SimStallMEM, StatsNext
<1>2. ASSUME NEW dHit \in BOOLEAN, SimStallID(dHit) \/ SimStallIF(dHit)
      PROVE  StatsNext
  BY <1>2 DEF SimStallID, SimStallIF, StatsNext
<1>3. ASSUME NEW i, Fetch(i)
      PROVE  i \in {NOP} \cup Executable
  BY <1>3 DEF Fetch, EmulatorReturns
<1>4. ASSUME NEW iHit \in BOOLEAN, NEW dHit \in BOOLEAN, SimAdvance(iHit, dHit)
      PROVE  StatsNext
  <2>1. CountAdvance(Fetched, iHit, dHit)
    BY <1>4 DEF SimAdvance
  <2>2. Fetched \in {NOP} \cup Executable
    BY <1>3, <2>1 DEF CountAdvance, Advance
  <2> QED BY <2>1, <2>2 DEF StatsNext
<1>5. CASE SimReachHalt
  <2>1. CountReachHalt(Fetched)
    BY <1>5 DEF SimReachHalt
  <2>2. Fetched \in {NOP} \cup Executable
    BY <1>3, <2>1 DEF CountReachHalt, ReachHalt
  <2> QED BY <2>1, <2>2 DEF StatsNext
<1>6. CASE SimHalted
  BY <1>6 DEF SimHalted, StatsNext
<1>7. CASE UNCHANGED simVars
  BY <1>7 DEF simVars
<1> QED BY <1>1, <1>2, <1>4, <1>5, <1>6, <1>7 DEF SimNext

\* The whole simulator implements its control and statistics: every theorem about
\* StatsSpec, and with StatsFollowControl every theorem about Spec, is one about it.
THEOREM SimKeepsStatistics == SimSpec => StatsSpec
<1>1. SimInit => StatsInit
  BY DEF SimInit
<1> QED BY <1>1, SimStepIsStatsStep, PTL DEF SimSpec, StatsSpec

LEMMA SimInvariance == SimSpec => [](PipelineInv /\ CountsOK)
BY SimKeepsStatistics, CountsHold, PTL

\* The composition retires in order and precisely what the emulator executes.
THEOREM SimRefinesInOrder == SimSpec => RefinesInOrder
BY SimKeepsStatistics, StatsFollowControl, Refinement, PTL

-----------------------------------------------------------------------------
\* The emulator has executed HALT only when the control knows of it.
HaltIsHandled == Running /\ info.isHalt => handlingHalt

\* What the emulator returns of HALT is a HALT for the control.
LEMMA ReturnedHalt ==
  ASSUME NEW instr, ExecuteInstruction(instr)
  PROVE  info'.isHalt <=> info'.word.op = "HALT"
<1>1. \A next, access :
        LET returned == Returned(instr, next, access)
        IN  returned.isHalt <=> returned.word.op = "HALT"
  BY DEF Returned
<1>2. ASSUME NEW access, GoOn(instr, access)
      PROVE  info'.isHalt <=> info'.word.op = "HALT"
  BY <1>1, <1>2 DEF GoOn
<1>3. CASE ExecuteOverflow(instr)
  BY <1>3 DEF ExecuteOverflow, Trap, Returned
<1>4. CASE ExecuteIllegal(instr)
  BY <1>4 DEF ExecuteIllegal, Trap, Returned
<1>5. CASE ExecuteBranch(instr)
  <2>1. CASE IsTaken(instr)
    BY <1>1, <1>5, <2>1 DEF ExecuteBranch
  <2>2. CASE ~IsTaken(instr)
    BY <1>2, <1>5, <2>2 DEF ExecuteBranch
  <2> QED BY <2>1, <2>2
<1> QED BY <1>2, <1>3, <1>4, <1>5
        DEF ExecuteInstruction, ExecuteHalt, ExecuteCompute, ExecuteSum,
            ExecuteLoad, ExecuteStore

\* A cycle either leaves the emulator alone or has it execute one instruction, which is
\* the first behind no HALT.
LEMMA EmulatorMoves ==
  ASSUME PipelineInv, HaltIsHandled, [SimNext]_simVars
  PROVE  /\ \/ UNCHANGED emulatorState /\ din' = din
            \/ /\ Running /\ ~info.isHalt
               /\ \E instr \in Fetchable : ExecuteInstruction(instr)
         /\ HaltIsHandled'
<1> DEFINE Goal == /\ \/ UNCHANGED emulatorState /\ din' = din
                      \/ /\ Running /\ ~info.isHalt
                         /\ \E instr \in Fetchable : ExecuteInstruction(instr)
                   /\ HaltIsHandled'
<1>1. ASSUME NotFetching, Running, HandleHalt, din' = din
      PROVE  Goal
  <2>1. info' = info /\ UNCHANGED emulatorState
    BY <1>1 DEF NotFetching, emulatorState
  <2>2. HaltIsHandled'
    BY <1>1, <2>1 DEF HaltIsHandled, HandleHalt
  <2> QED BY <1>1, <2>1, <2>2
<1>2. CASE SimStallMEM
  BY <1>1, <1>2 DEF SimStallMEM, CountStallMEM, StallMEM, EndCycle
<1>3. ASSUME NEW dHit \in BOOLEAN, SimStallID(dHit) \/ SimStallIF(dHit)
      PROVE  Goal
  BY <1>1, <1>3
     DEF SimStallID, SimStallIF, CountStallID, CountStallIF, StallID, StallIF, EndCycle
<1>4. ASSUME NEW iHit \in BOOLEAN, NEW dHit \in BOOLEAN, SimAdvance(iHit, dHit)
      PROVE  Goal
  <2>1. /\ FetchInstruction /\ Fetch(Fetched) /\ Propagate(Fetched)
        /\ HandleHalt /\ Running
    BY <1>4 DEF SimAdvance, CountAdvance, Advance, EndCycle
  <2>2. CASE Handling
    <3>1. NotFetching /\ din' = din
      BY <2>1, <2>2 DEF FetchInstruction, Fetch, Handling
    <3> QED BY <1>1, <2>1, <3>1
  <2>3. CASE ~Handling
    <3>1. PICK instr \in Fetchable : ExecuteInstruction(instr)
      BY <2>1, <2>3 DEF FetchInstruction
    <3>2. ~info.isHalt
      BY <2>1, <2>3 DEF HaltIsHandled, Handling
    <3>3. info'.isHalt => handlingHalt'
      <4>1. ifInstr' = PipelineInfo(info')
        BY <2>1, <2>3 DEF Propagate, Fetched
      <4>2. info'.isHalt => IsHalt(ifInstr')
        BY <3>1, <4>1, ReturnedHalt DEF PipelineInfo, IsHalt
      <4> QED BY <2>1, <4>2 DEF HandleHalt, IsHalt
    <3> QED BY <2>1, <3>1, <3>2, <3>3 DEF HaltIsHandled
  <2> QED BY <2>2, <2>3
<1>5. CASE SimReachHalt
  <2>1. ReachHalt(Fetched) /\ FetchInstruction
    BY <1>5 DEF SimReachHalt, CountReachHalt
  <2>2. IsHalt(memInstr) /\ din' = din
    BY <2>1, ReachHaltFacts
  <2>3. Handling
    BY <2>2 DEF Handling, PipelineInv, HaltSeen
  <2>4. UNCHANGED emulatorState
    BY <2>1, <2>3 DEF FetchInstruction, NotFetching
  <2>5. HaltIsHandled'
    BY <2>1 DEF ReachHalt, HaltIsHandled, Running
  <2> QED BY <2>2, <2>4, <2>5
<1>6. CASE SimHalted \/ UNCHANGED simVars
  <2>1. UNCHANGED <<statsVars, emulatorState>>
    BY <1>6 DEF SimHalted, StatsHalted, Halted, NotFetching, simVars, statsVars
  <2> QED BY <2>1 DEF statsVars, vars, exceptions, emulatorState, HaltIsHandled, Running
<1> QED BY <1>2, <1>3, <1>4, <1>5, <1>6 DEF SimNext

\* However the pipeline stalls, pauses and squashes, the emulator takes the steps of the
\* functional simulator and none behind HALT.
THEOREM CycleSimRunsFunctSim == SimSpec => AgreesWithFunctSim
<1>1. SimInit => HaltIsHandled /\ EmulatorInit
  <2> SUFFICES ASSUME SimInit PROVE HaltIsHandled /\ EmulatorInit
    OBVIOUS
  <2>1. EmulatorInit
    BY DEF SimInit
  <2>2. info = DefaultInfo
    BY <2>1 DEF EmulatorInit
  <2>3. ~info.isHalt
    BY <2>2 DEF DefaultInfo
  <2> QED BY <2>1, <2>3 DEF HaltIsHandled
<1>2. PipelineInv /\ HaltIsHandled /\ [SimNext]_simVars => HaltIsHandled'
  BY EmulatorMoves
<1>3. PipelineInv /\ HaltIsHandled /\ [SimNext]_simVars => [FunctNext]_emulatorVars
  <2> SUFFICES ASSUME PipelineInv, HaltIsHandled, [SimNext]_simVars
               PROVE  [FunctNext]_emulatorVars
    OBVIOUS
  <2>1. CASE UNCHANGED emulatorState /\ din' = din
    BY <2>1 DEF emulatorState, emulatorVars
  <2>2. CASE /\ ~info.isHalt
             /\ \E instr \in Fetchable : ExecuteInstruction(instr)
    BY <2>2 DEF FunctNext, RunInstruction, functStatus
  <2> QED BY <2>1, <2>2, EmulatorMoves
<1> QED BY <1>1, <1>2, <1>3, SimInvariance, PTL DEF SimSpec, AgreesWithFunctSim, FunctSpec

-----------------------------------------------------------------------------
(***************************************************************************)
(* What the data cache is asked for.  A holds the numbers of the loads and *)
(* stores executed, W of those that have not entered MEM, asked the        *)
(* addresses the cache was asked for, and infos what was executed.         *)
(***************************************************************************)
IsSequence(s) == s \in Seq({s[k] : k \in 1..Len(s)})

LEMMA Appended ==
  ASSUME NEW s, IsSequence(s), NEW x
  PROVE  /\ IsSequence(Append(s, x))
         /\ Len(s) \in Nat /\ Len(Append(s, x)) = Len(s) + 1
         /\ Append(s, x)[Len(s) + 1] = x
         /\ \A k \in 1..Len(s) : Append(s, x)[k] = s[k]
         /\ DOMAIN Append(s, x) = 1..Len(s) + 1
<1> DEFINE S == {s[k] : k \in 1..Len(s)}
           T == S \cup {x}
           t == Append(s, x)
<1>1. s \in Seq(S)
  BY DEF IsSequence
<1>2. s \in Seq(T) /\ x \in T
  <2> HIDE DEF S
  <2>1. PICK n \in Nat : s \in [1..n -> S]
    BY <1>1, SeqDef
  <2>2. s \in [1..n -> T]
    BY <2>1
  <2> QED BY <2>2, SeqDef
<1> HIDE DEF S, T
<1>3. /\ t \in Seq(T) /\ Len(s) \in Nat /\ Len(t) = Len(s) + 1 /\ t[Len(s) + 1] = x
      /\ \A k \in 1..Len(s) : t[k] = s[k]
  BY <1>2
<1> HIDE DEF t
<1>4. IsSequence(t)
  <2>1. PICK n \in Nat : t \in [1..n -> T]
    BY <1>3, SeqDef
  <2>2. n = Len(t)
    BY <1>3, <2>1
  <2> DEFINE U == {t[k] : k \in 1..Len(t)}
  <2>3. t \in [1..n -> U]
    BY <2>1, <2>2
  <2>4. t \in Seq(U)
    <3> HIDE DEF U
    <3> QED BY <2>3, SeqDef
  <2> QED BY <2>4 DEF IsSequence
<1>5. DOMAIN t = 1..Len(t)
  BY <1>3
<1> QED BY <1>3, <1>4, <1>5 DEF t

RankIn(A, k) == Cardinality({j \in A : j <= k})

InOrderUpTo(A, W, asked, infos) ==
  /\ IsFiniteSet(A) /\ A \subseteq Nat /\ W \subseteq A
  /\ \A k \in A \ W, p \in W : k < p
  /\ IsSequence(asked) /\ Len(asked) = Cardinality(A \ W)
  /\ \A k \in A \ W : asked[RankIn(A, k)] = infos[k].accessAddress

\* Another load or store is executed, or another instruction.
LEMMA ExecutesOne ==
  ASSUME NEW A, NEW W, NEW asked, NEW infos, InOrderUpTo(A, W, asked, infos),
         NEW n \in Nat, \A k \in A : k < n, NEW later, \A k \in A : later[k] = infos[k],
         NEW new \in SUBSET {n}
  PROVE  InOrderUpTo(A \cup new, W \cup new, asked, later)
<1>1. CASE new = {}
  <2>1. A \cup new = A /\ W \cup new = W
    BY <1>1
  <2> QED BY <2>1 DEF InOrderUpTo
<1>2. CASE new = {n}
  <2>1. IsFiniteSet(A) /\ A \subseteq Nat /\ W \subseteq A
    BY DEF InOrderUpTo
  <2>2. IsFiniteSet(A \cup new)
    BY <1>2, <2>1, FS_AddElement
  <2>3. (A \cup new) \ (W \cup new) = A \ W
    BY <1>2, <2>1
  <2>4. \A k \in A \ W, p \in W \cup new : k < p
    BY <1>2, <2>1 DEF InOrderUpTo
  <2>5. \A k \in A : RankIn(A \cup new, k) = RankIn(A, k)
    <3> SUFFICES ASSUME NEW k \in A PROVE RankIn(A \cup new, k) = RankIn(A, k)
      OBVIOUS
    <3>1. {j \in A \cup new : j <= k} = {j \in A : j <= k}
      BY <1>2, <2>1
    <3> QED BY <3>1 DEF RankIn
  <2> QED BY <1>2, <2>1, <2>2, <2>3, <2>4, <2>5 DEF InOrderUpTo
<1> QED BY <1>1, <1>2

\* The oldest of those waiting enters MEM.
LEMMA EntersMEM ==
  ASSUME NEW A, NEW W, NEW asked, NEW infos, InOrderUpTo(A, W, asked, infos),
         NEW x \in W, \A p \in W \ {x} : x < p
  PROVE  InOrderUpTo(A, W \ {x}, Append(asked, infos[x].accessAddress), infos)
<1> DEFINE done == A \ W
           n    == Len(asked)
           a    == infos[x].accessAddress
           next == Append(asked, a)
<1>1. /\ IsFiniteSet(A) /\ A \subseteq Nat /\ W \subseteq A
      /\ \A k \in done, p \in W : k < p
      /\ IsSequence(asked) /\ n = Cardinality(done)
      /\ \A k \in done : asked[RankIn(A, k)] = infos[k].accessAddress
  BY DEF InOrderUpTo
<1>2. IsFiniteSet(done) /\ x \notin done
  BY <1>1, FS_Subset
<1>3. A \ (W \ {x}) = done \cup {x}
  BY <1>1
<1>4. /\ IsSequence(next) /\ n \in Nat /\ Len(next) = n + 1
      /\ next[n + 1] = a
      /\ \A k \in 1..n : next[k] = asked[k]
  <2> HIDE DEF a
  <2>1. /\ IsSequence(Append(asked, a))
        /\ Len(asked) \in Nat /\ Len(Append(asked, a)) = Len(asked) + 1
        /\ Append(asked, a)[Len(asked) + 1] = a
        /\ \A k \in 1..Len(asked) : Append(asked, a)[k] = asked[k]
    <3>1. IsSequence(asked)
      BY <1>1
    <3> QED BY <3>1, Appended
  <2> QED BY <2>1
<1>5. Cardinality(done \cup {x}) = n + 1
  BY <1>1, <1>2, FS_AddElement
<1>6. \A k \in done \cup {x}, p \in W \ {x} : k < p
  BY <1>1
<1>7. RankIn(A, x) = n + 1
  <2>1. {j \in A : j <= x} = done \cup {x}
    BY <1>1
  <2> QED BY <1>5, <2>1 DEF RankIn
<1>8. \A k \in done : RankIn(A, k) \in 1..n
  <2> SUFFICES ASSUME NEW k \in done PROVE RankIn(A, k) \in 1..n
    OBVIOUS
  <2> DEFINE S == {j \in A : j <= k}
  <2>1. S \subseteq done /\ k \in S
    <3>1. \A j \in W : ~(j <= k)
      <4> SUFFICES ASSUME NEW j \in W PROVE ~(j <= k)
        OBVIOUS
      <4>1. k < j
        BY <1>1
      <4>2. j \in Nat /\ k \in Nat
        BY <1>1
      <4> QED BY <4>1, <4>2
    <3>2. k \in A /\ k <= k
      BY <1>1
    <3> QED BY <3>1, <3>2
  <2> HIDE DEF S, done
  <2>2. IsFiniteSet(S) /\ Cardinality(S) <= n
    BY <1>1, <1>2, <2>1, FS_Subset
  <2>3. Cardinality(S) \in Nat /\ Cardinality(S) # 0
    BY <2>1, <2>2, FS_CardinalityType, FS_EmptySet
  <2> QED BY <1>4, <2>2, <2>3 DEF RankIn, S
<1> HIDE DEF done, n, next
<1>9. \A k \in done \cup {x} : next[RankIn(A, k)] = infos[k].accessAddress
  BY <1>1, <1>4, <1>7, <1>8
<1> QED BY <1>1, <1>3, <1>4, <1>5, <1>6, <1>9 DEF InOrderUpTo, next

\* What this says of the loads and stores the cache was asked for so far.
LEMMA InOrderMeans ==
  ASSUME NEW A, NEW W, NEW asked, NEW infos, InOrderUpTo(A, W, asked, infos)
  PROVE  /\ Len(asked) <= Cardinality(A)
         /\ \A k \in A : RankIn(A, k) <= Len(asked)
                           => asked[RankIn(A, k)] = infos[k].accessAddress
         /\ W = {} => Len(asked) = Cardinality(A)
<1> DEFINE done == A \ W
           n    == Len(asked)
<1>1. /\ IsFiniteSet(A) /\ A \subseteq Nat /\ W \subseteq A
      /\ \A k \in done, p \in W : k < p
      /\ n = Cardinality(done)
      /\ \A k \in done : asked[RankIn(A, k)] = infos[k].accessAddress
  BY DEF InOrderUpTo
<1>2. IsFiniteSet(done) /\ n <= Cardinality(A) /\ n \in Nat
  BY <1>1, FS_Subset, FS_CardinalityType
<1>3. ASSUME NEW k \in W
      PROVE  ~(RankIn(A, k) <= n)
  <2> DEFINE S == {j \in A : j <= k}
  <2>1. done \cup {k} \subseteq S /\ k \notin done /\ S \subseteq A
    BY <1>1, <1>3
  <2> HIDE DEF S, done
  <2>2. IsFiniteSet(S) /\ Cardinality(S) \in Nat
    BY <1>1, <2>1, FS_Subset, FS_CardinalityType
  <2>3. Cardinality(done \cup {k}) = n + 1
    BY <1>1, <1>2, <2>1, FS_AddElement
  <2>4. Cardinality(done \cup {k}) <= Cardinality(S)
    BY <2>1, <2>2, FS_Subset
  <2> QED BY <1>2, <2>2, <2>3, <2>4 DEF RankIn, S
<1>4. W = {} => done = A
  OBVIOUS
<1> QED BY <1>1, <1>2, <1>3, <1>4

\* The place in executed of a load or store in a stage.
PlaceOf(i) == IF IsMemOp(i) THEN {i.id + 1} ELSE {}

\* The loads and stores that have not entered MEM.
Waiting == PlaceOf(ifInstr) \cup PlaceOf(idInstr) \cup PlaceOf(exInstr)

LookUpInv ==
  /\ IsSequence(executed) /\ Len(executed) = din
  /\ lookedUp.ic = [k \in 1..Len(executed) |-> executed[k].pc]
  /\ \A i \in {ifInstr, idInstr, exInstr} : i.fetched => executed[i.id + 1].word = i.word
  /\ InOrderUpTo(MemOpsExecuted, Waiting, lookedUp.dc, executed)
  /\ status = "HALT" => Waiting = {}

\* The word of a load or store says so, undecoded as well as decoded.
LEMMA MemOpWord ==
  ASSUME NEW i
  PROVE  IsMemOp(i) <=> i.fetched /\ i.word.op \in MemOps
BY DEF IsMemOp, Decoded, IsHalt, MemOps, LoadOps, StoreOps, ZeroWord

\* What leaves EX is the oldest of those waiting, and the cache is asked for its address.
AskedNext(asked, infos) ==
  IF IsMemOp(exInstr) THEN Append(asked, infos[exInstr.id + 1].accessAddress) ELSE asked

LEMMA LeavesEX ==
  ASSUME PipelineInv, LookUpInv
  PROVE  InOrderUpTo(MemOpsExecuted, PlaceOf(ifInstr) \cup PlaceOf(idInstr),
                     AskedNext(lookedUp.dc, executed), executed)
<1>1. InOrderUpTo(MemOpsExecuted, Waiting, lookedUp.dc, executed)
  BY DEF LookUpInv
<1>2. CASE ~IsMemOp(exInstr)
  <2>1. Waiting = PlaceOf(ifInstr) \cup PlaceOf(idInstr)
    BY <1>2 DEF Waiting, PlaceOf
  <2> QED BY <1>1, <1>2, <2>1 DEF AskedNext
<1>3. CASE IsMemOp(exInstr)
  <2> DEFINE x == exInstr.id + 1
             rest == PlaceOf(ifInstr) \cup PlaceOf(idInstr)
  <2>1. ifInstr.id \in Nat /\ idInstr.id \in Nat /\ exInstr.id \in Nat
    BY DEF PipelineInv, TypeOK, Info
  <2>2. /\ idInstr.fetched => exInstr.id < idInstr.id
        /\ ifInstr.fetched => exInstr.id < ifInstr.id
    BY <1>3 DEF PipelineInv, ProgramOrder, Behind, IsMemOp
  <2>3. \A p \in rest : x < p
    BY <2>1, <2>2 DEF PlaceOf, IsMemOp
  <2>4. x \in Waiting /\ x \in Nat
    BY <1>3, <2>1 DEF Waiting, PlaceOf
  <2>5. Waiting \ {x} = rest
    <3>1. x \notin rest
      BY <2>3, <2>4
    <3>2. PlaceOf(exInstr) = {x}
      BY <1>3 DEF PlaceOf
    <3> QED BY <3>1, <3>2 DEF Waiting
  <2> HIDE DEF x, rest
  <2>6. InOrderUpTo(MemOpsExecuted, Waiting \ {x},
                    Append(lookedUp.dc, executed[x].accessAddress), executed)
    BY <1>1, <2>3, <2>4, <2>5, EntersMEM
  <2>7. AskedNext(lookedUp.dc, executed) = Append(lookedUp.dc, executed[x].accessAddress)
    BY <1>3 DEF AskedNext, x
  <2> QED BY <2>5, <2>6, <2>7 DEF rest
<1> QED BY <1>2, <1>3

\* A cycle that executes nothing and holds at least IF.
LEMMA HeldLookUps ==
  ASSUME PipelineInv, LookUpInv, NotFetching, din' = din, ifInstr' = ifInstr, status' = status,
         Running, memInstr' = exInstr,
         \/ idInstr' = idInstr /\ exInstr' = NOP
         \/ idInstr' = NOP /\ exInstr' = idInstr,
         RecordLookUps(NOP, memInstr')
  PROVE  LookUpInv'
<1>1. executed' = executed
  BY DEF NotFetching
<1>2. MemOpsExecuted' = MemOpsExecuted
  BY <1>1 DEF MemOpsExecuted
<1>3. PlaceOf(NOP) = {} /\ ~NOP.fetched
  BY BubbleFacts DEF PlaceOf, IsMemOp
<1>4. Waiting' = PlaceOf(ifInstr) \cup PlaceOf(idInstr)
  <2>1. Waiting' = PlaceOf(ifInstr') \cup PlaceOf(idInstr') \cup PlaceOf(exInstr')
    BY DEF Waiting, PlaceOf, IsMemOp, Decoded, IsHalt
  <2> QED BY <1>3, <2>1
<1>5. lookedUp'.dc = AskedNext(lookedUp.dc, executed)
  <2>1. IsMemOp(exInstr) <=> AccessesDCache(exInstr)
    BY DEF IsMemOp, AccessesDCache
  <2>2. lookedUp'.dc = IF AccessesDCache(exInstr)
                       THEN Append(lookedUp.dc, executed'[exInstr.id + 1].accessAddress)
                       ELSE lookedUp.dc
    BY DEF RecordLookUps, DataAddress
  <2> QED BY <1>1, <2>1, <2>2 DEF AskedNext
<1>6. lookedUp'.ic = lookedUp.ic
  BY BubbleFacts DEF RecordLookUps
<1>7. InOrderUpTo(MemOpsExecuted', Waiting', lookedUp'.dc, executed')
  BY <1>1, <1>2, <1>4, <1>5, LeavesEX
<1>8. InOrderUpTo(MemOpsExecuted, Waiting, lookedUp.dc, executed)'
  BY <1>7 DEF InOrderUpTo, RankIn, IsSequence
<1>9. /\ IsSequence(executed)' /\ Len(executed') = din'
      /\ lookedUp'.ic = [k \in 1..Len(executed') |-> executed'[k].pc]
  BY <1>1, <1>6 DEF LookUpInv, IsSequence
<1>10. \A i \in {ifInstr', idInstr', exInstr'} :
         i.fetched => executed'[i.id + 1].word = i.word
  BY <1>1, <1>3 DEF LookUpInv
<1>11. status' # "HALT"
  BY DEF Running
<1> QED BY <1>8, <1>9, <1>10, <1>11 DEF LookUpInv

\* A cycle in which every stage advances.
LEMMA AdvanceLookUps ==
  ASSUME PipelineInv, LookUpInv, NEW iHit \in BOOLEAN, NEW dHit \in BOOLEAN,
         SimAdvance(iHit, dHit)
  PROVE  LookUpInv'
<1> DEFINE new == PlaceOf(Fetched)
<1>1. /\ FetchInstruction /\ RecordLookUps(Fetched, memInstr')
      /\ Advance(Fetched, iHit, dHit)
  BY DEF SimAdvance, CountAdvance
<1>2. Shift(Fetched)
  BY <1>1, PropagateShifts DEF Advance
<1>3. /\ Fetch(Fetched) /\ ifInstr' = Fetched /\ idInstr' = ifInstr
      /\ exInstr' = (IF IsValid(idInstr) THEN idInstr ELSE NOP)
      /\ memInstr' = (IF exInstr.isOverflow THEN NOP ELSE exInstr)
  BY <1>2 DEF Shift
<1>4. status' # "HALT"
  BY <1>1 DEF Advance, EndCycle, Running
<1>5. /\ IsSequence(executed) /\ Len(executed) = din /\ din \in Nat
      /\ lookedUp.ic = [k \in 1..Len(executed) |-> executed[k].pc]
      /\ \A i \in {ifInstr, idInstr, exInstr} :
           /\ i.fetched => executed[i.id + 1].word = i.word
           /\ i.fetched => i.id + 1 \in 1..din
  <2>1. din \in Nat
    BY PipelineAssumption DEF PipelineInv, TypeOK
  <2>2. \A i \in {ifInstr, idInstr, exInstr} : i.fetched => i.id \in Nat /\ i.id < din
    BY DEF PipelineInv, TypeOK, Info, StagesOK, InfoOK
  <2> QED BY <2>1, <2>2 DEF LookUpInv
<1>6. \/ executed' = executed /\ din' = din /\ Fetched = NOP
      \/ /\ executed' = Append(executed, info') /\ din' = din + 1
         /\ Fetched.fetched /\ Fetched.id = din /\ Fetched.word = info'.word
  <2>1. CASE Handling
    BY <1>1, <1>3, <2>1 DEF FetchInstruction, NotFetching, Fetched, Handling, Fetch
  <2>2. CASE ~Handling
    <3>1. Fetched = PipelineInfo(info') /\ executed' = Append(executed, info')
      BY <1>1, <2>2 DEF FetchInstruction, Fetched
    <3>2. Fetched.fetched /\ Fetched.word = info'.word
      BY <3>1 DEF PipelineInfo
    <3>3. \/ Fetched = NOP /\ din' = din
          \/ Fetched.fetched /\ Fetched.id = din /\ din' = din + 1
      <4> HIDE DEF Fetched
      <4>1. TypeOK
        BY DEF PipelineInv
      <4> QED BY <4>1, <1>3, FetchFacts
    <3>4. Fetched # NOP
      BY <3>2, BubbleFacts
    <3> QED BY <3>1, <3>2, <3>3, <3>4
  <2> QED BY <2>1, <2>2
<1>7. /\ IsSequence(executed') /\ Len(executed') = din' /\ din' \in Nat
      /\ \A k \in 1..din : executed'[k] = executed[k]
      /\ Fetched.fetched => din' = din + 1 /\ executed'[din + 1] = info'
                            /\ Fetched.id = din /\ Fetched.word = info'.word
      /\ ~Fetched.fetched => din' = din
  <2>1. CASE executed' = executed /\ din' = din /\ Fetched = NOP
    BY <1>5, <2>1, BubbleFacts
  <2>2. CASE /\ executed' = Append(executed, info') /\ din' = din + 1
             /\ Fetched.fetched /\ Fetched.id = din /\ Fetched.word = info'.word
    BY <1>5, <2>2, Appended
  <2> QED BY <1>6, <2>1, <2>2
<1> HIDE DEF Fetched
<1>8. new \in SUBSET {din + 1}
  BY <1>7 DEF PlaceOf, IsMemOp
<1>9. MemOpsExecuted' = MemOpsExecuted \cup new
  <2>1. \A k \in 1..din : executed'[k].word.op \in MemOps <=> executed[k].word.op \in MemOps
    BY <1>7
  <2>2. CASE Fetched.fetched
    <3>1. new = IF info'.word.op \in MemOps THEN {din + 1} ELSE {}
      BY <1>7, <2>2, MemOpWord DEF PlaceOf
    <3>2. 1..din' = 1..din \cup {din + 1}
      BY <1>5, <1>7, <2>2
    <3>3. MemOpsExecuted' = {k \in 1..din' : executed'[k].word.op \in MemOps}
      BY <1>7 DEF MemOpsExecuted
    <3>4. MemOpsExecuted = {k \in 1..din : executed[k].word.op \in MemOps}
      BY <1>5 DEF MemOpsExecuted
    <3>5. executed'[din + 1].word.op \in MemOps <=> info'.word.op \in MemOps
      BY <1>7, <2>2
    <3> HIDE DEF new
    <3> QED BY <2>1, <3>1, <3>2, <3>3, <3>4, <3>5
  <2>3. CASE ~Fetched.fetched
    <3>1. new = {} /\ din' = din
      BY <1>7, <2>3 DEF PlaceOf, IsMemOp
    <3> HIDE DEF new
    <3> QED BY <1>5, <1>7, <2>1, <3>1 DEF MemOpsExecuted
  <2> QED BY <2>2, <2>3
<1>10. Waiting' = PlaceOf(ifInstr) \cup PlaceOf(idInstr) \cup new
  <2>1. Waiting' = PlaceOf(ifInstr') \cup PlaceOf(idInstr') \cup PlaceOf(exInstr')
    BY DEF Waiting, PlaceOf, IsMemOp, Decoded, IsHalt
  <2>2. PlaceOf(exInstr') = PlaceOf(idInstr)
    <3>1. CASE IsValid(idInstr)
      BY <1>3, <3>1
    <3>2. CASE ~IsValid(idInstr)
      <4>1. ~IsMemOp(idInstr) /\ ~IsMemOp(NOP)
        BY <3>2, MemOpWord, BubbleFacts DEF IsValid, MemOps, LoadOps, StoreOps
      <4> QED BY <1>3, <3>2, <4>1 DEF PlaceOf
    <3> QED BY <3>1, <3>2
  <2> QED BY <1>3, <2>1, <2>2
<1>11. lookedUp'.dc = AskedNext(lookedUp.dc, executed)
  <2>1. IsMemOp(exInstr) <=> AccessesDCache(memInstr')
    <3>1. CASE exInstr.isOverflow
      <4>1. exInstr.word.op \in OverflowOps
        BY <3>1 DEF PipelineInv, StagesOK, InfoOK
      <4>2. ~IsMemOp(exInstr)
        BY <4>1, MemOpWord DEF OverflowOps, MemOps, LoadOps, StoreOps
      <4> QED BY <1>3, <3>1, <4>2, BubbleFacts
    <3>2. CASE ~exInstr.isOverflow
      BY <1>3, <3>2 DEF IsMemOp, AccessesDCache
    <3> QED BY <3>1, <3>2
  <2>2. lookedUp'.dc = IF AccessesDCache(memInstr')
                       THEN Append(lookedUp.dc, executed'[memInstr'.id + 1].accessAddress)
                       ELSE lookedUp.dc
    BY <1>1 DEF RecordLookUps, DataAddress
  <2>3. IsMemOp(exInstr) => memInstr' = exInstr
    BY <1>3, <2>1, BubbleFacts
  <2>4. IsMemOp(exInstr) => executed'[exInstr.id + 1] = executed[exInstr.id + 1]
    BY <1>5, <1>7 DEF IsMemOp
  <2> QED BY <2>1, <2>2, <2>3, <2>4 DEF AskedNext
<1>12. InOrderUpTo(MemOpsExecuted', Waiting', lookedUp'.dc, executed')
  <2> DEFINE rest == PlaceOf(ifInstr) \cup PlaceOf(idInstr)
             asked == AskedNext(lookedUp.dc, executed)
  <2>1. InOrderUpTo(MemOpsExecuted, rest, asked, executed)
    BY LeavesEX
  <2>2. MemOpsExecuted \subseteq 1..din
    BY <1>5 DEF MemOpsExecuted
  <2>3. \A k \in MemOpsExecuted : k < din + 1 /\ executed'[k] = executed[k]
    BY <1>5, <1>7, <2>2
  <2>4. din + 1 \in Nat
    BY <1>5
  <2> HIDE DEF rest, asked, new
  <2>5. InOrderUpTo(MemOpsExecuted \cup new, rest \cup new, asked, executed')
    BY <1>8, <2>1, <2>3, <2>4, ExecutesOne
  <2> QED BY <1>9, <1>10, <1>11, <2>5 DEF rest, asked
<1>13. InOrderUpTo(MemOpsExecuted, Waiting, lookedUp.dc, executed)'
  BY <1>12 DEF InOrderUpTo, RankIn, IsSequence
<1>14. lookedUp'.ic = [k \in 1..Len(executed') |-> executed'[k].pc]
  <2>1. CASE Fetched.fetched
    <3>1. lookedUp'.ic = Append(lookedUp.ic, info'.pc)
      BY <1>1, <2>1 DEF RecordLookUps, AccessesICache
    <3> QED BY <1>5, <1>7, <2>1, <3>1
  <2>2. CASE ~Fetched.fetched
    <3>1. lookedUp'.ic = lookedUp.ic
      BY <1>1, <2>2 DEF RecordLookUps, AccessesICache
    <3> QED BY <1>5, <1>7, <2>2, <3>1
  <2> QED BY <2>1, <2>2
<1>15. \A i \in {ifInstr', idInstr', exInstr'} :
         i.fetched => executed'[i.id + 1].word = i.word
  BY <1>3, <1>5, <1>7, BubbleFacts
<1>16. IsSequence(executed)'
  BY <1>7 DEF IsSequence
<1> QED BY <1>4, <1>7, <1>13, <1>14, <1>15, <1>16 DEF LookUpInv

LEMMA LookUpsStart == SimInit => LookUpInv
<1> SUFFICES ASSUME SimInit PROVE LookUpInv
  OBVIOUS
<1>1. executed = << >> /\ lookedUp = [ic |-> << >>, dc |-> << >>] /\ StatsInit
  BY DEF SimInit
<1>2. /\ ifInstr = NOP /\ idInstr = NOP /\ exInstr = NOP /\ din = 0 /\ status = "SUCCESS"
  BY <1>1 DEF StatsInit, Init
<1>3. IsSequence(<< >>)
  BY DEF IsSequence
<1>4. MemOpsExecuted = {} /\ Waiting = {}
  BY <1>1, <1>2, BubbleFacts DEF MemOpsExecuted, Waiting, PlaceOf, IsMemOp
<1>5. InOrderUpTo({}, {}, << >>, executed)
  BY <1>3, FS_EmptySet DEF InOrderUpTo
<1> QED BY <1>1, <1>2, <1>3, <1>4, <1>5, BubbleFacts DEF LookUpInv

LEMMA LookUpsStay == PipelineInv /\ LookUpInv /\ [SimNext]_simVars => LookUpInv'
<1> SUFFICES ASSUME PipelineInv, LookUpInv, [SimNext]_simVars PROVE LookUpInv'
  OBVIOUS
<1>1. ASSUME UNCHANGED <<ifInstr, idInstr, exInstr, din, status, executed, lookedUp>>
      PROVE  LookUpInv'
  <2>1. UNCHANGED <<MemOpsExecuted, Waiting>>
    BY <1>1 DEF MemOpsExecuted, Waiting, PlaceOf, IsMemOp, Decoded, IsHalt
  <2>2. InOrderUpTo(MemOpsExecuted, Waiting, lookedUp.dc, executed)'
    BY <1>1, <2>1 DEF LookUpInv, InOrderUpTo, RankIn, IsSequence
  <2> QED BY <1>1, <2>1, <2>2 DEF LookUpInv, IsSequence
<1>2. CASE SimStallMEM
  BY <1>1, <1>2 DEF SimStallMEM, CountStallMEM, StallMEM, EndCycle, NotFetching
<1>3. ASSUME NEW dHit \in BOOLEAN, SimStallID(dHit) \/ SimStallIF(dHit)
      PROVE  LookUpInv'
  <2>1. /\ NotFetching /\ din' = din /\ ifInstr' = ifInstr /\ status' = status
        /\ Running /\ memInstr' = exInstr
        /\ \/ idInstr' = idInstr /\ exInstr' = NOP
           \/ idInstr' = NOP /\ exInstr' = idInstr
        /\ RecordLookUps(NOP, memInstr')
    BY <1>3 DEF SimStallID, SimStallIF, CountStallID, CountStallIF, StallID, StallIF, EndCycle
  <2> QED BY <2>1, HeldLookUps
<1>4. ASSUME NEW iHit \in BOOLEAN, NEW dHit \in BOOLEAN, SimAdvance(iHit, dHit)
      PROVE  LookUpInv'
  BY <1>4, AdvanceLookUps
<1>5. CASE SimReachHalt
  <2>1. ReachHalt(Fetched) /\ FetchInstruction /\ UNCHANGED lookedUp
    BY <1>5 DEF SimReachHalt, CountReachHalt
  <2>2. /\ Fetched = NOP /\ din' = din /\ IsHalt(memInstr)
        /\ ifInstr = NOP /\ idInstr = NOP /\ exInstr = NOP
    BY <2>1, ReachHaltFacts
  <2>3. Handling
    BY <2>2 DEF Handling, PipelineInv, HaltSeen
  <2>4. executed' = executed
    BY <2>1, <2>3 DEF FetchInstruction, NotFetching
  <2>5. ifInstr' = NOP /\ idInstr' = NOP /\ exInstr' = NOP
    BY <2>1, <2>2 DEF ReachHalt, Propagate, Squashed
  <2>6. Waiting = {} /\ Waiting' = {}
    BY <2>2, <2>5, BubbleFacts DEF Waiting, PlaceOf, IsMemOp, Decoded, IsHalt
  <2>7. UNCHANGED <<MemOpsExecuted, Waiting>>
    BY <2>4, <2>6 DEF MemOpsExecuted
  <2>8. InOrderUpTo(MemOpsExecuted, Waiting, lookedUp.dc, executed)'
    BY <2>1, <2>4, <2>7 DEF LookUpInv, InOrderUpTo, RankIn, IsSequence
  <2> QED BY <2>1, <2>2, <2>4, <2>5, <2>6, <2>8, BubbleFacts DEF LookUpInv, IsSequence
<1>6. CASE SimHalted
  BY <1>1, <1>6 DEF SimHalted, StatsHalted, Halted, NotFetching, vars, stages
<1>7. CASE UNCHANGED simVars
  BY <1>1, <1>7 DEF simVars, statsVars, vars, stages
<1> QED BY <1>2, <1>3, <1>4, <1>5, <1>6, <1>7 DEF SimNext

LEMMA LookUpsHold == SimSpec => []LookUpInv
BY LookUpsStart, LookUpsStay, SimInvariance, PTL DEF SimSpec

\* However long stalls and misses hold the instructions in their stages, and whatever is
\* squashed, the instruction cache is asked for the pc of everything executed and the data
\* cache for the address of every load and store, once each and in program order.
THEOREM CachesAskedInOrder == SimSpec => []CachesSeeProgramOrder
<1>1. LookUpInv => CachesSeeProgramOrder
  <2> SUFFICES ASSUME LookUpInv PROVE CachesSeeProgramOrder
    OBVIOUS
  <2>1. /\ Len(lookedUp.dc) <= Cardinality(MemOpsExecuted)
        /\ \A k \in MemOpsExecuted :
             RankIn(MemOpsExecuted, k) <= Len(lookedUp.dc)
               => lookedUp.dc[RankIn(MemOpsExecuted, k)] = executed[k].accessAddress
        /\ Waiting = {} => Len(lookedUp.dc) = Cardinality(MemOpsExecuted)
    BY InOrderMeans DEF LookUpInv
  <2> QED BY <2>1 DEF LookUpInv, CachesSeeProgramOrder, Rank, RankIn
<1> QED BY <1>1, LookUpsHold, PTL
-----------------------------------------------------------------------------
\* The emulator of the whole simulator behaves as the emulator alone does: every theorem
\* about EmulatorSpec is one about SimSpec.
THEOREM SimRunsTheEmulator == SimSpec => EmulatorSpec
<1>1. [FunctNext]_emulatorVars => [EmulatorNext]_emulatorVars
  BY DEF FunctNext, RunInstruction, functStatus, EmulatorNext
<1> QED BY <1>1, CycleSimRunsFunctSim, PTL DEF AgreesWithFunctSim, FunctSpec, EmulatorSpec

LEMMA SimEmulatorTyped == SimSpec => []EmulatorTypeOK
BY SimRunsTheEmulator, EmulatorTypeCorrect, PTL

\* The split of an address is the same arithmetic in both caches.
LEMMA SplitsInTables ==
  ASSUME NEW address \in Value
  PROVE  /\ IC!IndexOf(address) \in IC!Indices /\ IC!TagOf(address) \in CacheTags
         /\ DC!IndexOf(address) \in DC!Indices /\ DC!TagOf(address) \in CacheTags
<1>1. IC!TwoTo = TwoTo /\ DC!TwoTo = TwoTo
  BY DEF IC!TwoTo, DC!TwoTo, TwoTo
<1>2. /\ \A n : IC!FloorLog2(n) = FloorLog2(n)
      /\ \A a, start, end : IC!ExtractBits(a, start, end) = ExtractBits(a, start, end)
  BY <1>1 DEF IC!FloorLog2, FloorLog2, IC!ExtractBits, ExtractBits
<1>3. /\ \A n : DC!FloorLog2(n) = FloorLog2(n)
      /\ \A a, start, end : DC!ExtractBits(a, start, end) = ExtractBits(a, start, end)
  BY <1>1 DEF DC!FloorLog2, FloorLog2, DC!ExtractBits, ExtractBits
<1>4. address \in Nat
  BY WordFacts DEF Value
<1>5. ASSUME NEW sets \in Nat \ {0}, NEW block \in Nat, block >= 4, AddressBits \in Nat,
             NEW i, i = FloorLog2(sets), NEW o, o = FloorLog2(block \div 4),
             o + i + 2 < AddressBits,
             NEW t, t = AddressBits - o - i - 2
      PROVE  ExtractBits(address, AddressBits - 1 - t, AddressBits - t - i) \in 0..sets - 1
  <2>1. block \div 4 \in Nat \ {0}
    BY <1>5
  <2>2. i \in Nat /\ o \in Nat
    BY <1>5, <2>1, FloorLog2Is
  <2>3. t \in Nat /\ o + 2 \in Nat /\ AddressBits = t + (i + (o + 2))
    BY <1>5, <2>2
  <2> QED BY <1>4, <1>5, <2>3, FieldInTable
<1>6. IC!IndexOf(address) \in IC!Indices
  <2>1. /\ ICacheSets \in Nat \ {0} /\ ICacheSets = IC!numSets
        /\ ICacheBlock \in Nat /\ ICacheBlock >= 4 /\ AddressBits \in Nat
        /\ IC!numBlkOffsetBits + IC!numIdxBits + 2 < AddressBits
    BY CachesAssumption DEF IC!SplitFits
  <2>2. /\ IC!numIdxBits = FloorLog2(ICacheSets)
        /\ IC!numBlkOffsetBits = FloorLog2(ICacheBlock \div 4)
    BY <1>2, <2>1 DEF IC!numIdxBits, IC!numBlkOffsetBits
  <2>3. IC!numTagBits = AddressBits - IC!numBlkOffsetBits - IC!numIdxBits - 2
    BY DEF IC!numTagBits
  <2> HIDE DEF IC!numIdxBits, IC!numBlkOffsetBits, IC!numTagBits, IC!numSets
  <2>4. ExtractBits(address, AddressBits - 1 - IC!numTagBits,
                    AddressBits - IC!numTagBits - IC!numIdxBits) \in 0..ICacheSets - 1
    BY <1>5, <2>1, <2>2, <2>3
  <2> QED BY <1>2, <2>4 DEF IC!IndexOf, IC!Indices
<1>7. DC!IndexOf(address) \in DC!Indices
  <2>1. /\ DCacheSets \in Nat \ {0} /\ DCacheSets = DC!numSets
        /\ DCacheBlock \in Nat /\ DCacheBlock >= 4 /\ AddressBits \in Nat
        /\ DC!numBlkOffsetBits + DC!numIdxBits + 2 < AddressBits
    BY CachesAssumption DEF DC!SplitFits
  <2>2. /\ DC!numIdxBits = FloorLog2(DCacheSets)
        /\ DC!numBlkOffsetBits = FloorLog2(DCacheBlock \div 4)
    BY <1>3, <2>1 DEF DC!numIdxBits, DC!numBlkOffsetBits
  <2>3. DC!numTagBits = AddressBits - DC!numBlkOffsetBits - DC!numIdxBits - 2
    BY DEF DC!numTagBits
  <2> HIDE DEF DC!numIdxBits, DC!numBlkOffsetBits, DC!numTagBits, DC!numSets
  <2>4. ExtractBits(address, AddressBits - 1 - DC!numTagBits,
                    AddressBits - DC!numTagBits - DC!numIdxBits) \in 0..DCacheSets - 1
    BY <1>5, <2>1, <2>2, <2>3
  <2> QED BY <1>3, <2>4 DEF DC!IndexOf, DC!Indices
<1> QED BY <1>6, <1>7, CachesAssumption

\* The addresses that wait in the pipeline are words.
ExecutedTyped == \A k \in 1..Len(executed) : executed[k].accessAddress \in Value

LEMMA ExecutedStaysTyped ==
  ASSUME LookUpInv, ExecutedTyped, EmulatorTypeOK', [SimNext]_simVars
  PROVE  ExecutedTyped'
<1>1. ASSUME executed' = executed
      PROVE  ExecutedTyped'
  BY <1>1 DEF ExecutedTyped
<1>2. ASSUME FetchInstruction
      PROVE  ExecutedTyped'
  <2>1. executed' = executed \/ executed' = Append(executed, info')
    BY <1>2 DEF FetchInstruction, NotFetching
  <2>2. CASE executed' = Append(executed, info')
    <3>1. IsSequence(executed) /\ info'.accessAddress \in Value
      BY DEF LookUpInv, EmulatorTypeOK
    <3>2. /\ Len(executed') = Len(executed) + 1 /\ executed'[Len(executed) + 1] = info'
          /\ \A k \in 1..Len(executed) : executed'[k] = executed[k]
      BY <2>2, <3>1, Appended
    <3>3. Len(executed) \in Nat
      BY <3>1, Appended DEF IsSequence
    <3> QED BY <3>1, <3>2, <3>3 DEF ExecutedTyped
  <2> QED BY <1>1, <2>1, <2>2
<1> QED BY <1>1, <1>2
        DEF SimNext, SimStallMEM, SimStallID, SimStallIF, SimAdvance, SimReachHalt, SimHalted,
            NotFetching, simVars

\* A look-up is an access of the cache's tables, and between look-ups the tables and the
\* counts of the cache stay.
LEMMA FetchLookUp ==
  ASSUME EmulatorTypeOK', CountsOK, NEW i, NEW hit \in BOOLEAN,
         LookUpFetch(i, hit), CountICache(i, hit)
  PROVE  [IC!CacheNext]_(IC!cacheVars)
<1>1. CASE AccessesICache(i)
  <2>1. IC!AccessAddress(info'.pc) /\ info'.pc \in Value
    BY <1>1 DEF LookUpFetch, EmulatorTypeOK
  <2>2. IC!CacheNext
    BY <2>1, SplitsInTables DEF IC!AccessAddress, IC!CacheNext
  <2> QED BY <2>2
<1>2. CASE ~AccessesICache(i)
  <2>1. UNCHANGED icTables
    BY <1>2 DEF LookUpFetch
  <2>2. icHits' = icHits /\ icMisses' = icMisses
    <3>1. One(AccessesICache(i) /\ hit) = 0 /\ One(AccessesICache(i) /\ ~hit) = 0
      BY <1>2 DEF One
    <3>2. icHits' = icHits + 0 /\ icMisses' = icMisses + 0
      BY <3>1 DEF CountICache
    <3> QED BY <3>2 DEF CountsOK, StatsTypeOK
  <2> QED BY <2>1, <2>2 DEF icTables, IC!cacheVars
<1> QED BY <1>1, <1>2

LEMMA DataLookUp ==
  ASSUME LookUpInv', PipelineInv', ExecutedTyped', CountsOK, NEW hit \in BOOLEAN,
         LookUpData(memInstr', hit), CountDCache(memInstr', hit)
  PROVE  [DC!CacheNext]_(DC!cacheVars)
<1>1. CASE AccessesDCache(memInstr')
  <2>1. DC!AccessAddress(DataAddress(memInstr'))
    BY <1>1 DEF LookUpData
  <2>2. memInstr'.id + 1 \in 1..Len(executed')
    <3>1. memInstr'.fetched /\ memInstr'.id \in Nat /\ memInstr'.id < din'
      BY <1>1 DEF AccessesDCache, PipelineInv, TypeOK, Info, StagesOK, InfoOK
    <3>2. Len(executed') = din' /\ din' \in Nat
      BY PipelineAssumption DEF LookUpInv, PipelineInv, TypeOK
    <3> QED BY <3>1, <3>2
  <2>3. DataAddress(memInstr') \in Value
    BY <2>2 DEF DataAddress, ExecutedTyped
  <2>4. DC!CacheNext
    BY <2>1, <2>3, SplitsInTables DEF DC!AccessAddress, DC!CacheNext
  <2> QED BY <2>4
<1>2. CASE ~AccessesDCache(memInstr')
  <2>1. UNCHANGED dcTables
    BY <1>2 DEF LookUpData
  <2>2. dcHits' = dcHits /\ dcMisses' = dcMisses
    <3>1. One(AccessesDCache(memInstr') /\ hit) = 0 /\ One(AccessesDCache(memInstr') /\ ~hit) = 0
      BY <1>2 DEF One
    <3>2. dcHits' = dcHits + 0 /\ dcMisses' = dcMisses + 0
      BY <3>1 DEF CountDCache
    <3> QED BY <3>2 DEF CountsOK, StatsTypeOK
  <2> QED BY <2>1, <2>2 DEF dcTables, DC!cacheVars
<1> QED BY <1>1, <1>2

LEMMA CachesMove ==
  ASSUME LookUpInv', PipelineInv', ExecutedTyped', EmulatorTypeOK', CountsOK, [SimNext]_simVars
  PROVE  [IC!CacheNext]_(IC!cacheVars) /\ [DC!CacheNext]_(DC!cacheVars)
<1>1. ASSUME UNCHANGED <<icTables, icHits, icMisses>>
      PROVE  [IC!CacheNext]_(IC!cacheVars)
  BY <1>1 DEF icTables, IC!cacheVars
<1>2. ASSUME UNCHANGED <<dcTables, dcHits, dcMisses>>
      PROVE  [DC!CacheNext]_(DC!cacheVars)
  BY <1>2 DEF dcTables, DC!cacheVars
<1>3. CASE SimStallMEM \/ SimReachHalt \/ SimHalted \/ UNCHANGED simVars
  <2>1. UNCHANGED <<icTables, dcTables, icHits, icMisses, dcHits, dcMisses>>
    BY <1>3 DEF SimStallMEM, CountStallMEM, SimReachHalt, CountReachHalt, SimHalted,
                StatsHalted, stats, simVars, statsVars
  <2> QED BY <1>1, <1>2, <2>1
<1>4. ASSUME NEW dHit \in BOOLEAN, SimStallID(dHit) \/ SimStallIF(dHit)
      PROVE  [IC!CacheNext]_(IC!cacheVars) /\ [DC!CacheNext]_(DC!cacheVars)
  <2>1. /\ UNCHANGED <<icTables, icHits, icMisses>>
        /\ LookUpData(memInstr', dHit) /\ CountDCache(memInstr', dHit)
    BY <1>4 DEF SimStallID, SimStallIF, CountStallID, CountStallIF
  <2> QED BY <1>1, <2>1, DataLookUp
<1>5. ASSUME NEW iHit \in BOOLEAN, NEW dHit \in BOOLEAN, SimAdvance(iHit, dHit)
      PROVE  [IC!CacheNext]_(IC!cacheVars) /\ [DC!CacheNext]_(DC!cacheVars)
  <2>1. /\ LookUpFetch(Fetched, iHit) /\ CountICache(Fetched, iHit)
        /\ LookUpData(memInstr', dHit) /\ CountDCache(memInstr', dHit)
    BY <1>5 DEF SimAdvance, CountAdvance
  <2> QED BY <2>1, FetchLookUp, DataLookUp
<1> QED BY <1>3, <1>4, <1>5 DEF SimNext

\* Driven by the pipeline, each cache takes the steps of the cache alone, and the hits and
\* misses reported are the ones it counts: every theorem about CacheSpec (that it is LRU, for
\* one) is one about both caches of the simulator.
THEOREM CachesRunAsAlone == SimSpec => IC!CacheSpec /\ DC!CacheSpec
<1>1. SimInit => ExecutedTyped /\ IC!CacheInit /\ DC!CacheInit
  BY DEF SimInit, ExecutedTyped
<1>2. LookUpInv /\ ExecutedTyped /\ EmulatorTypeOK' /\ [SimNext]_simVars => ExecutedTyped'
  BY ExecutedStaysTyped
<1>3. LookUpInv' /\ PipelineInv' /\ ExecutedTyped' /\ EmulatorTypeOK' /\ CountsOK
        /\ [SimNext]_simVars
        => [IC!CacheNext]_(IC!cacheVars) /\ [DC!CacheNext]_(DC!cacheVars)
  BY CachesMove
<1> QED BY <1>1, <1>2, <1>3, LookUpsHold, SimInvariance, SimEmulatorTyped, PTL
        DEF SimSpec, IC!CacheSpec, DC!CacheSpec
=============================================================================
