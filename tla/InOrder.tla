------------------------------ MODULE InOrder ------------------------------
(***************************************************************************)
(* What a pipeline promises to the program it runs, whatever it does with  *)
(* stalls and bubbles: instructions are issued one at a time, retire one   *)
(* at a time in the order they were issued, and each exactly once;         *)
(* exceptions are precise (an excepting instruction never retires, what    *)
(* was issued before it does, and nothing is issued behind it until it is  *)
(* dropped); nothing is issued behind HALT, and the run ends in the cycle  *)
(* HALT retires.                                                           *)
(***************************************************************************)
EXTENDS Naturals

VARIABLES
  window,   \* the instructions issued and neither retired nor dropped
  retired,  \* the instruction retired in the last cycle, as a set
  issued,   \* how many instructions were issued
  ended     \* HALT has retired

promise == <<window, retired, issued, ended>>

Halts(i)   == i.word.op = "HALT"
Excepts(i) == i.isOverflow \/ i.word.op = "ILLEGAL"

Oldest(i) == \A j \in window : i.id <= j.id

\* What may retire and what may be dropped in one cycle.
Retirable == {i \in window : Oldest(i) /\ ~Excepts(i)}
Droppable == {i \in window : Excepts(i)}

AtMostOneOf(S, T) == T = {} \/ \E i \in S : T = {i}

Start ==
  /\ window = {}
  /\ retired = {}
  /\ issued = 0
  /\ ended = FALSE

\* Nothing in S keeps the next instruction from being issued.
MayIssueBehind(S) == \A i \in S : ~Excepts(i) /\ ~Halts(i)

Cycle(drop, issue) ==
  /\ ~ended
  /\ AtMostOneOf(Retirable, retired')
  /\ AtMostOneOf(Droppable, drop)
  /\ window' = (window \ (retired' \cup drop)) \cup issue
  /\ issue # {} => MayIssueBehind(window \ drop)
  /\ \/ issue = {} /\ issued' = issued
     \/ /\ \E i \in issue : issue = {i} /\ i.id = issued
        /\ issued' = issued + 1
  /\ ended' = (\E i \in retired' : Halts(i))

CycleStep == Cycle(window \ (window' \cup retired'), window' \ window)

Promise == Start /\ [][CycleStep]_promise
=============================================================================
