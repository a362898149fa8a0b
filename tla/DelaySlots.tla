----------------------------- MODULE DelaySlots -----------------------------
(***************************************************************************)
(* What the architecture promises of the order in which a program's        *)
(* instructions execute: a branch takes effect behind the instruction that *)
(* follows it, whatever that one is; an exception takes effect at once and *)
(* forgets a branch.  The position is a pair: the address of the           *)
(* instruction to execute, and of the one behind it.                       *)
(***************************************************************************)
EXTENDS Integers

CONSTANTS
  AddressSize,      \* the number of addresses
  ImmediateSize,    \* the number of immediates, signed in two's complement
  HandlerAddress, Region

VARIABLES pc, npc, executed   \* executed: the mnemonic and the immediate executed last

position == <<pc, npc, executed>>

Relative == {"BEQ", "BNE", "BLEZ", "BGTZ"}
Jumps    == {"J", "JAL", "JR"}
Trapping == {"ADD", "ADDI", "SUB", "ILLEGAL"}

Offset(imm) == 4 * (IF imm >= ImmediateSize \div 2 THEN imm - ImmediateSize ELSE imm)

Start == pc = 0 /\ npc = 4

Sequential ==
  /\ executed'.op \notin Jumps \cup {"ILLEGAL"}
  /\ pc' = npc /\ npc' = (npc + 4) % AddressSize

\* The offset counts from the delay slot.
Branch ==
  /\ executed'.op \in Relative
  /\ pc' = npc /\ npc' = (npc + Offset(executed'.imm)) % AddressSize

Jump ==
  /\ executed'.op \in {"J", "JAL"}
  /\ pc' = npc
  /\ npc' \div Region = npc \div Region /\ npc' % Region = 4 * executed'.imm

JumpRegister ==
  /\ executed'.op = "JR"
  /\ pc' = npc /\ npc' \in 0..AddressSize - 1

Exception ==
  /\ executed'.op \in Trapping
  /\ pc' = HandlerAddress /\ npc' = (HandlerAddress + 4) % AddressSize

Step == Sequential \/ Branch \/ Jump \/ JumpRegister \/ Exception

DelaySlotSpec == Start /\ [][Step]_position
=============================================================================
