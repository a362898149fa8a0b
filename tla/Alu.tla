-------------------------------- MODULE Alu --------------------------------
(***************************************************************************)
(* The 32-bit arithmetic of Emulator::executeInstruction, on the values of *)
(* a word of four bytes.  The width of a byte, 8 bits in the code, is a    *)
(* parameter, so that TLC can go through all the values of a word.         *)
(*                                                                         *)
(* Operators whose name ends in Mutant are plausible slips in the code;    *)
(* no specification uses them.                                             *)
(***************************************************************************)
EXTENDS Integers

CONSTANTS
  ByteSize,    \* the number of values of a byte
  ByteBits,    \* the number of its bits
  And(_, _)    \* the operator & of the code on words

HalfSize == ByteSize * ByteSize     \* the values of a half word, and of an immediate
WordSize == HalfSize * HalfSize     \* the values of a word
SignedMax == WordSize \div 2        \* the first value whose sign bit is set

Value == 0..WordSize - 1

Bit(x, k) == (x \div 2^k) % 2

ASSUME AluAssumption ==
  /\ ByteBits \in Nat \ {0}
  /\ ByteSize \in Nat \ {0}
  /\ ByteSize = 2^ByteBits /\ ByteSize % 2 = 0
  /\ \A n \in 0..4 * ByteBits : 2^n \in Nat \ {0}
  /\ \A a, b \in Value :
       /\ And(a, b) \in Value
       /\ \A k \in 0..4 * ByteBits - 1 : Bit(And(a, b), k) = Bit(a, k) * Bit(b, k)

\* Unsigned arithmetic wraps.
Wrap(n) == n % WordSize

SignBit(x) == x >= SignedMax
Signed(x)  == IF SignBit(x) THEN x - WordSize ELSE x

\* signExt
SignExt(imm) == IF imm >= HalfSize \div 2 THEN imm + (WordSize - HalfSize) ELSE imm

\* The operators ~ and |.
Not(x)    == WordSize - 1 - x
Nor(a, b) == And(Not(a), Not(b))
Or(a, b)  == Not(Nor(a, b))

Less(a, b) == IF a < b THEN 1 ELSE 0

(***************************************************************************)
(* The value an instruction computes that has no overflow test, from the   *)
(* values a of rs and b of rt, its immediate imm and its shamt.            *)
(***************************************************************************)
RegisterResult(op, a, b, shamt) ==
  CASE op = "ADDU" -> Wrap(a + b)
    [] op = "SUBU" -> Wrap(a - b)
    [] op = "AND"  -> And(a, b)
    [] op = "OR"   -> Or(a, b)
    [] op = "NOR"  -> Nor(a, b)
    [] op = "SLT"  -> Less(Signed(a), Signed(b))
    [] op = "SLTU" -> Less(a, b)
    [] op = "SLL"  -> Wrap(b * 2^shamt)
    [] op = "SRL"  -> b \div 2^shamt

ImmediateResult(op, a, imm) ==
  CASE op = "ADDIU" -> Wrap(a + SignExt(imm))
    [] op = "ANDI"  -> And(a, imm)
    [] op = "ORI"   -> Or(a, imm)
    [] op = "SLTI"  -> Less(Signed(a), Signed(SignExt(imm)))
    [] op = "SLTIU" -> Less(a, SignExt(imm))
    [] op = "LUI"   -> Wrap(imm * HalfSize)

\* add and addi overflow when operands of one sign give a result of the other, sub when
\* the operands differ in sign and the result has that of the second.
AddOverflow(signA, signB, signResult) ==
  \/ signA /\ signB /\ ~signResult
  \/ ~signA /\ ~signB /\ signResult
SubOverflowMutant(signA, signB, signResult) == AddOverflow(signA, signB, signResult)
SubOverflow(signA, signB, signResult) ==
  \/ signA /\ ~signB /\ ~signResult
  \/ ~signA /\ signB /\ signResult
=============================================================================
