------------------------- MODULE PipelineProperties -------------------------
(***************************************************************************)
(* What the control of the cycle simulator must get right.                 *)
(***************************************************************************)
EXTENDS Pipeline

\* Type invariant: the stages hold infos, the delays never exceed the miss latencies.
TypeOK ==
  /\ ifInstr \in Info /\ idInstr \in Info /\ exInstr \in Info /\ memInstr \in Info
  /\ wbInstr \in Info
  /\ LET W == Words \cup {ZeroWord}
     IN  pipeState \in [if : W, id : W, ex : W, mem : W, wb : W]
  /\ IF_stall \in BOOLEAN /\ ID_stall \in BOOLEAN /\ MEM_stall \in BOOLEAN
  /\ iCacheDelay \in 0..ICacheLatency /\ dCacheDelay \in 0..DCacheLatency
  /\ handlingHalt \in BOOLEAN /\ handlingException \in BOOLEAN
  /\ squashStage \in {"NONE", "ID", "EX"}
  /\ din \in 0..MaxDin
  /\ status \in {"SUCCESS", "HALT"}

-----------------------------------------------------------------------------
\* Every instruction in S was executed after i.
Behind(i, S) == \A j \in S : i.fetched /\ j.fetched => i.id < j.id

\* The stages hold instructions in program order, without duplicates: the older an
\* instruction, the later its stage (propagate and the four cases of stall).
ProgramOrder ==
  /\ Behind(wbInstr, {memInstr, exInstr, idInstr, ifInstr})
  /\ Behind(memInstr, {exInstr, idInstr, ifInstr})
  /\ Behind(exInstr, {idInstr, ifInstr})
  /\ Behind(idInstr, {ifInstr})

\* runCycles looks at WB only in the branch that propagates, while stall also moves MEM
\* to WB: HALT must never get to WB, and past the test, in a stalled cycle.
HaltNotMissed == IsHalt(wbInstr) => status = "HALT"

\* A stage holds no instruction that was executed after i.
NothingBehind(i, S) == \A j \in S : ~j.fetched

\* handleHalt, handleException and the fetch of NOPs: behind HALT, and behind an
\* excepting instruction not yet squashed, every younger stage is a bubble.
NothingBehindHaltOrException ==
  LET Blocks(i) == IsHalt(i) \/ Excepting(i)
  IN  /\ Blocks(idInstr)  => NothingBehind(idInstr, {ifInstr})
      /\ Blocks(exInstr)  => NothingBehind(exInstr, {idInstr, ifInstr})
      /\ Blocks(memInstr) => NothingBehind(memInstr, {exInstr, idInstr, ifInstr})

\* handleException marks the stage to squash cycles before squash runs, and stalls may
\* come in between: when it runs, the marked stage still holds the excepting instruction,
\* and no illegal word enters EX, nor an overflowing instruction MEM.
SquashHitsException ==
  /\ Running => /\ squashStage = "ID" <=> ~IsValid(idInstr)
                /\ squashStage = "EX" <=> exInstr.isOverflow
  /\ IsValid(exInstr)
  /\ ~Excepting(memInstr) /\ ~Excepting(wbInstr)

\* The pause in fetching is on exactly while an excepting instruction is on its way to
\* the stage that detects it: fetching never resumes early and is never left paused.
PauseMatchesException ==
  Running => (handlingException <=>
                \/ Excepting(ifInstr)
                \/ idInstr.isOverflow)

-----------------------------------------------------------------------------
\* Load-use interlock (hasLoadUseHazard, against the registers executeInstruction reads):
\* an instruction never executes while the load of one of its sources is still in MEM.
LoadUseInterlock ==
  LET load == Decoded(memInstr)
  IN  load.op \in LoadOps /\ load.rt # 0 => ~Reads(Decoded(exInstr), load.rt)

\* Branch interlock (hasArithmeticHazard and hasLoadBranchHazard, against the registers
\* executeInstruction reads and writes): a branch leaves ID, where it is decided, only
\* when an arithmetic source has left EX and a loaded one has left MEM.  jal writes $ra,
\* which no table covers: a branch in the delay slot of jal is not a program to run.
BranchInterlock ==
  Decoded(exInstr).op \in BranchOps =>
    LET branch == Decoded(exInstr)
        mem    == Decoded(memInstr)
        wb     == Decoded(wbInstr)
    IN  /\ mem.op # "JAL" /\ Dest(mem) # 0 => ~Reads(branch, Dest(mem))
        /\ wb.op \in LoadOps /\ wb.rt # 0 => ~Reads(branch, wb.rt)

\* What detectHazards is for, from the registers executeInstruction reads and writes: the
\* instruction d in ID has to wait for a load in EX, and a branch, decided in ID, also for
\* a computation in EX and for a load in MEM (jal aside, see BranchInterlock).
AwaitsLoad(d, l)    == l.op \in LoadOps /\ l.rt # 0 /\ Reads(d, l.rt)
AwaitsResult(d, e)  == e.op # "JAL" /\ Dest(e) # 0 /\ Reads(d, Dest(e))
MustWait(d, e, m) ==
  \/ AwaitsLoad(d, e)
  \/ d.op \in BranchOps /\ (AwaitsResult(d, e) \/ AwaitsLoad(d, m))

\* The mnemonic tables of detectHazards are neither short of an instruction nor too wide:
\* a cycle ends with ID_stall raised exactly when the instruction in ID has to wait.
StallsExactlyOnDependence ==
  Running => (ID_stall <=> MustWait(Decoded(idInstr), Decoded(exInstr), Decoded(memInstr)))

\* A pending cache delay keeps its stage stalled, the signal stands for an access of the
\* instruction in the stage, and a hazard stall for an instruction in ID; so a delay is
\* never overwritten by a second access and a bubble never stalls.
StallsAreGrounded ==
  Running =>
    /\ iCacheDelay > 0 => IF_stall
    /\ dCacheDelay > 0 => MEM_stall
    /\ IF_stall => AccessesICache(ifInstr)
    /\ MEM_stall => AccessesDCache(memInstr)
    /\ ID_stall => idInstr.fetched

\* dumpPipeState prints pipeState, which propagate, stall and squash update beside
\* pipeInsInfo: what is printed is the word of the instruction in each stage.
ShowsThePipeline ==
  pipeState = [if |-> ifInstr.word, id |-> idInstr.word, ex |-> exInstr.word,
               mem |-> memInstr.word, wb |-> wbInstr.word]

-----------------------------------------------------------------------------
(***************************************************************************)
(* The inductive strengthening that the proofs of module PipelineProofs    *)
(* use: the properties above that depend on each other, and what they need *)
(* to know of an info, of the hazard signal and of the pending halt.       *)
(***************************************************************************)
InfoOK(i) ==
  /\ i.fetched => i.id < din
  /\ ~i.fetched => i = NOP
  /\ i.isOverflow => i.word.op \in OverflowOps

StagesOK ==
  InfoOK(ifInstr) /\ InfoOK(idInstr) /\ InfoOK(exInstr) /\ InfoOK(memInstr) /\ InfoOK(wbInstr)

HazardsDetected ==
  Running => (ID_stall <=> DetectHazards(Decoded(idInstr), Decoded(exInstr), Decoded(memInstr)))

HaltSeen ==
  IsHalt(ifInstr) \/ IsHalt(idInstr) \/ IsHalt(exInstr) \/ IsHalt(memInstr) \/ IsHalt(wbInstr)
    => handlingHalt

PipelineInv ==
  /\ TypeOK
  /\ StagesOK
  /\ ProgramOrder
  /\ HazardsDetected
  /\ StallsAreGrounded
  /\ HaltSeen
  /\ HaltNotMissed
  /\ NothingBehindHaltOrException
  /\ SquashHitsException
  /\ PauseMatchesException

-----------------------------------------------------------------------------
\* The instructions past IF's fetch and not yet in WB.
InFlight == {i \in {ifInstr, idInstr, exInstr, memInstr} : i.fetched}

\* runCycles keeps the promise of an in-order machine with precise exceptions, whatever
\* stalls, bubbles and squashes it uses.
Abstract == INSTANCE InOrder
  WITH window  <- InFlight,
       retired <- {i \in {wbInstr} : i.fetched},
       issued  <- din,
       ended   <- status = "HALT"

RefinesInOrder == Abstract!Promise

\* runTillHalt returns: no combination of stalls, hazards and exceptions keeps the
\* pipeline from draining HALT (of a program that executes one).
Termination == <>(status = "HALT")
=============================================================================
