------------------------------- MODULE BitFields -------------------------------
(***************************************************************************)
(* extractBits and log2 (Utilities.cpp and cache.cpp), in a form proofs    *)
(* can follow.                                                             *)
(***************************************************************************)
EXTENDS Naturals

TwoTo[n \in Nat] == IF n = 0 THEN 1 ELSE 2 * TwoTo[n - 1]

\* The whole part of log2, as the cast of std::log2 to uint32_t leaves it.
FloorLog2(n) == CHOOSE k \in 0..n : TwoTo[k] <= n /\ n < TwoTo[k + 1]

\* extractBits: bits start down to end.
ExtractBits(address, start, end) == (address \div TwoTo[end]) % TwoTo[start - end + 1]
=============================================================================
