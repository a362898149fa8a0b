------------------------------ MODULE Pipeline ------------------------------
(***************************************************************************)
(* The control of the cycle simulator: runCycles of cycle.cpp, called by   *)
(* runTillHalt until it returns HALT.  One step is one simulated cycle,    *)
(* that is one iteration of the loop of runCycles, with every function it  *)
(* calls.                                                                  *)
(*                                                                         *)
(* The environment of the loop is chosen freely: the instruction that      *)
(* Emulator::executeInstruction executes next, whether its sum overflows,  *)
(* and whether a cache access hits.  The statistics, which no step of the  *)
(* control reads, are in module CycleStats.                                *)
(*                                                                         *)
(* Operators whose name ends in Mutant are plausible slips in the code;    *)
(* no specification uses them.                                             *)
(***************************************************************************)
EXTENDS Hazards, InstructionCount

CONSTANTS
  ICacheLatency,  \* iCache->config.missLatency
  DCacheLatency   \* dCache->config.missLatency

ASSUME PipelineAssumption ==
  /\ ICacheLatency \in Nat
  /\ DCacheLatency \in Nat
  /\ MaxDin \in Nat \ {0}

VARIABLES
  ifInstr, idInstr, exInstr, memInstr, wbInstr,  \* pipeInsInfo
  pipeState,                                     \* the words dumpPipeState prints
  IF_stall, ID_stall, MEM_stall,                 \* the stall signals that are ever raised
  iCacheDelay, dCacheDelay,
  handlingHalt, handlingException, squashStage,
  status                                         \* what runCycles returned last

stages     == <<ifInstr, idInstr, exInstr, memInstr, wbInstr, pipeState>>
signals    == <<IF_stall, ID_stall, MEM_stall, iCacheDelay, dCacheDelay>>
exceptions == <<handlingHalt, handlingException, squashStage>>
vars       == <<stages, signals, exceptions, din, status>>

-----------------------------------------------------------------------------
(***************************************************************************)
(* InstructionInfo.  Field fetched tells an info that executeInstruction   *)
(* returned from a default-constructed one: operator== compares every      *)
(* field, and a returned info never equals NOP, since the first one has    *)
(* nextPC 4 and every later one a non-zero instructionID.                  *)
(***************************************************************************)
Info == [fetched : BOOLEAN, id : Nat, word : Words \cup {ZeroWord}, isOverflow : BOOLEAN]

NOP == [fetched |-> FALSE, id |-> 0, word |-> ZeroWord, isOverflow |-> FALSE]

IsHalt(i)  == i.word.op = "HALT"
IsValid(i) == i.word.op # "ILLEGAL"

\* The decoded fields of an info: executeInstruction returns from HALT before it decodes.
Decoded(i) == IF IsHalt(i) THEN ZeroWord ELSE i.word

\* What executeInstruction may return: it numbers what it executes.
Executable == [fetched : {TRUE}, id : {din}, word : Words, isOverflow : BOOLEAN]

(***************************************************************************)
(* executeInstruction, as runCycles sees it.  The last instruction the     *)
(* bound admits is HALT.                                                   *)
(***************************************************************************)
EmulatorReturns(info) ==
  /\ din < MaxDin
  /\ info \in Executable
  /\ info.isOverflow => info.word.op \in OverflowOps
  /\ din = MaxDin - 1 => IsHalt(info)
  /\ din' = din + 1

-----------------------------------------------------------------------------
\* Step 2: the delay of an access that hits or misses.
ICacheDelayOf(hit) == IF hit THEN 0 ELSE ICacheLatency
DCacheDelayOf(hit) == IF hit THEN 0 ELSE DCacheLatency

\* updateCacheDelays looks up an instruction in the cycle it is fetched, and a load or a
\* store in the cycle it enters MEM; a bubble is never looked up.
AccessesICacheMutant(i) == TRUE
AccessesICache(i) == i.fetched
AccessesDCacheMutant(i) == i.fetched /\ Decoded(i).op \in LoadOps
AccessesDCache(i) == i.fetched /\ Decoded(i).op \in MemOps

\* The delays after updateCacheDelays, when i has just been fetched or has just entered MEM.
UpdatedICacheDelay(i, hit) == IF AccessesICache(i) THEN ICacheDelayOf(hit) ELSE iCacheDelay
UpdatedDCacheDelay(i, hit) == IF AccessesDCache(i) THEN DCacheDelayOf(hit) ELSE dCacheDelay

\* Step 5: a pending delay shrinks by one each cycle.
DecrementedMutant(delay) == delay - 1
Decremented(delay) == IF delay > 0 THEN delay - 1 ELSE 0

\* Steps 3 to 5, from the delays after updateCacheDelays and the new contents of the stages.
SetStallsMutant(iDelay, dDelay) ==
  /\ IF_stall'    = (iDelay > 0 /\ dDelay = 0)
  /\ MEM_stall'   = (dDelay > 0)
  /\ ID_stall'    = DetectHazards(Decoded(idInstr)', Decoded(exInstr)', Decoded(memInstr)')
  /\ iCacheDelay' = Decremented(iDelay)
  /\ dCacheDelay' = Decremented(dDelay)
SetStallsLateMutant(iDelay, dDelay) ==
  /\ IF_stall'    = (iDelay > 0)
  /\ MEM_stall'   = (dDelay > 1)
  /\ ID_stall'    = DetectHazards(Decoded(idInstr)', Decoded(exInstr)', Decoded(memInstr)')
  /\ iCacheDelay' = Decremented(iDelay)
  /\ dCacheDelay' = Decremented(dDelay)
SetStalls(iDelay, dDelay) ==
  /\ IF_stall'    = (iDelay > 0)
  /\ MEM_stall'   = (dDelay > 0)
  /\ ID_stall'    = DetectHazards(Decoded(idInstr)', Decoded(exInstr)', Decoded(memInstr)')
  /\ iCacheDelay' = Decremented(iDelay)
  /\ dCacheDelay' = Decremented(dDelay)

HandleHaltMutant == handlingHalt' = IsHalt(idInstr)'
HandleHalt == handlingHalt' = (handlingHalt \/ IsHalt(ifInstr)')

Excepting(i) == i.isOverflow \/ ~IsValid(i)

(***************************************************************************)
(* handleException: an illegal word is detected in ID and an overflow in   *)
(* EX; detection ends the pause in fetching and marks the stage to squash. *)
(* pending is squashStage as the rest of the cycle left it.                *)
(***************************************************************************)
HandleExceptionMutant(pending) ==
  LET raised   == handlingException \/ Excepting(ifInstr)'
      illegal  == raised /\ ~IsValid(idInstr)'
      overflow == raised /\ ~illegal /\ idInstr'.isOverflow
  IN  /\ handlingException' = (raised /\ ~illegal /\ ~overflow)
      /\ squashStage' = IF illegal THEN "ID" ELSE IF overflow THEN "EX" ELSE pending
HandleExceptionStuckMutant(pending) ==
  LET raised   == handlingException \/ Excepting(ifInstr)'
      illegal  == raised /\ ~IsValid(idInstr)'
      overflow == raised /\ ~illegal /\ exInstr'.isOverflow
  IN  /\ handlingException' = raised
      /\ squashStage' = IF illegal THEN "ID" ELSE IF overflow THEN "EX" ELSE pending
HandleException(pending) ==
  LET raised   == handlingException \/ Excepting(ifInstr)'
      illegal  == raised /\ ~IsValid(idInstr)'
      overflow == raised /\ ~illegal /\ exInstr'.isOverflow
  IN  /\ handlingException' = (raised /\ ~illegal /\ ~overflow)
      /\ squashStage' = IF illegal THEN "ID" ELSE IF overflow THEN "EX" ELSE pending

\* Steps 2 to 6 of a cycle whose first step has updated the stages.
EndCycle(iDelay, dDelay, pending) ==
  /\ SetStalls(iDelay, dDelay)
  /\ HandleHalt
  /\ HandleException(pending)
  /\ UNCHANGED status

-----------------------------------------------------------------------------
Init ==
  /\ ifInstr = NOP /\ idInstr = NOP /\ exInstr = NOP /\ memInstr = NOP /\ wbInstr = NOP
  /\ pipeState = [if |-> ZeroWord, id |-> ZeroWord, ex |-> ZeroWord,
                  mem |-> ZeroWord, wb |-> ZeroWord]
  /\ IF_stall = FALSE /\ ID_stall = FALSE /\ MEM_stall = FALSE
  /\ iCacheDelay = 0 /\ dCacheDelay = 0
  /\ handlingHalt = FALSE /\ handlingException = FALSE /\ squashStage = "NONE"
  /\ din = 0
  /\ status = "SUCCESS"

Running == status = "SUCCESS"

\* stall(MEM): the younger stages and MEM hold, a bubble enters WB.
StallMEM ==
  /\ Running
  /\ MEM_stall
  /\ wbInstr' = NOP
  /\ pipeState' = [pipeState EXCEPT !.wb = ZeroWord]
  /\ UNCHANGED <<ifInstr, idInstr, exInstr, memInstr, din>>
  /\ EndCycle(iCacheDelay, dCacheDelay, squashStage)

\* stall(ID): IF and ID hold, a bubble enters EX, the older stages advance.
StallIDMutant(dHit) ==
  /\ Running
  /\ ~MEM_stall /\ ID_stall
  /\ wbInstr' = memInstr /\ memInstr' = exInstr
  /\ pipeState' = [pipeState EXCEPT !.wb = pipeState.mem, !.mem = pipeState.ex]
  /\ UNCHANGED <<ifInstr, idInstr, exInstr, din>>
  /\ EndCycle(iCacheDelay, UpdatedDCacheDelay(memInstr', dHit), squashStage)
StallID(dHit) ==
  /\ Running
  /\ ~MEM_stall /\ ID_stall
  /\ wbInstr' = memInstr /\ memInstr' = exInstr /\ exInstr' = NOP
  /\ pipeState' = [pipeState EXCEPT !.wb = pipeState.mem, !.mem = pipeState.ex, !.ex = ZeroWord]
  /\ UNCHANGED <<ifInstr, idInstr, din>>
  /\ EndCycle(iCacheDelay, UpdatedDCacheDelay(memInstr', dHit), squashStage)

\* stall(IF): IF holds, a bubble enters ID, the older stages advance.
StallIF(dHit) ==
  /\ Running
  /\ ~MEM_stall /\ ~ID_stall /\ IF_stall
  /\ wbInstr' = memInstr /\ memInstr' = exInstr /\ exInstr' = idInstr /\ idInstr' = NOP
  /\ pipeState' = [pipeState EXCEPT !.wb = pipeState.mem, !.mem = pipeState.ex,
                                    !.ex = pipeState.id, !.id = ZeroWord]
  /\ UNCHANGED <<ifInstr, din>>
  /\ EndCycle(iCacheDelay, UpdatedDCacheDelay(memInstr', dHit), squashStage)

\* What squash leaves of the info i, or of the word w, in the given stage.
Squashed(stage, i)     == IF squashStage = stage THEN NOP ELSE i
SquashedWord(stage, w) == IF squashStage = stage THEN ZeroWord ELSE w

\* squash, then propagate: every stage advances and info enters IF.
PropagateMutant(info) ==
  /\ wbInstr'  = memInstr
  /\ memInstr' = exInstr
  /\ exInstr'  = Squashed("ID", idInstr)
  /\ idInstr'  = ifInstr
  /\ ifInstr'  = info
  /\ pipeState' = [if |-> info.word, id |-> pipeState.if,
                   ex |-> SquashedWord("ID", pipeState.id), mem |-> pipeState.ex,
                   wb |-> pipeState.mem]
PropagateWordMutant(info) ==
  /\ wbInstr'  = memInstr
  /\ memInstr' = Squashed("EX", exInstr)
  /\ exInstr'  = Squashed("ID", idInstr)
  /\ idInstr'  = ifInstr
  /\ ifInstr'  = info
  /\ pipeState' = [if |-> info.word, id |-> pipeState.if, ex |-> pipeState.id,
                   mem |-> pipeState.ex, wb |-> pipeState.mem]
Propagate(info) ==
  /\ wbInstr'  = memInstr
  /\ memInstr' = Squashed("EX", exInstr)
  /\ exInstr'  = Squashed("ID", idInstr)
  /\ idInstr'  = ifInstr
  /\ ifInstr'  = info
  /\ pipeState' = [if |-> info.word, id |-> pipeState.if,
                   ex |-> SquashedWord("ID", pipeState.id),
                   mem |-> SquashedWord("EX", pipeState.ex), wb |-> pipeState.mem]

\* The info runCycles propagates: NOP while it handles a halt or an exception.
FetchMutant(info) ==
  IF handlingHalt THEN info = NOP /\ UNCHANGED din
                  ELSE EmulatorReturns(info)
Fetch(info) ==
  IF handlingHalt \/ handlingException THEN info = NOP /\ UNCHANGED din
                                       ELSE EmulatorReturns(info)

NoStall == ~IF_stall /\ ~ID_stall /\ ~MEM_stall

\* A cycle without a stall signal.
Advance(info, iHit, dHit) ==
  /\ Running
  /\ NoStall
  /\ Fetch(info)
  /\ Propagate(info)
  /\ ~IsHalt(wbInstr)'
  /\ EndCycle(UpdatedICacheDelay(info, iHit), UpdatedDCacheDelay(memInstr', dHit), "NONE")

\* The cycle in which HALT reaches WB: runCycles breaks out of its loop.
ReachHalt(info) ==
  /\ Running
  /\ NoStall
  /\ Fetch(info)
  /\ Propagate(info)
  /\ IsHalt(wbInstr)'
  /\ status' = "HALT"
  /\ squashStage' = "NONE"
  /\ UNCHANGED <<signals, handlingHalt, handlingException>>

\* runTillHalt has returned.
Halted == status = "HALT" /\ UNCHANGED vars

Next ==
  \/ StallMEM
  \/ \E dHit \in BOOLEAN : StallID(dHit) \/ StallIF(dHit)
  \/ \E info \in {NOP} \cup Executable :
       \/ \E iHit, dHit \in BOOLEAN : Advance(info, iHit, dHit)
       \/ ReachHalt(info)
  \/ Halted

Spec == Init /\ [][Next]_vars

\* runTillHalt calls runCycles in a loop that nothing interrupts.
FairSpec == Spec /\ WF_vars(Next)
=============================================================================
