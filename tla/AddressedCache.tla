--------------------------- MODULE AddressedCache ---------------------------
(***************************************************************************)
(* Class Cache of cache.cpp accessed by address: the constructor's         *)
(* arithmetic and extractBits split an address into a tag, an index and an *)
(* offset, and drive the tables of module Cache.  The width of an address, *)
(* 32 in the code, is a parameter.                                         *)
(***************************************************************************)
EXTENDS Cache, BitFields

CONSTANTS
  CacheSize, BlockSize,   \* CacheConfig: in bytes
  AddressBits,            \* the width of an address
  Addresses               \* the addresses the program accesses

numSets          == CacheSize \div (BlockSize * NumWays)
numBlkOffsetBits == FloorLog2(BlockSize \div 4)
numIdxBits       == FloorLog2(numSets)
numTagBits       == AddressBits - numBlkOffsetBits - numIdxBits - 2

TagOf(address) == ExtractBits(address, AddressBits - 1, AddressBits - numTagBits)
IndexOfMutant(address) ==
  ExtractBits(address, AddressBits - numTagBits, AddressBits - numTagBits - numIdxBits + 1)
IndexOf(address) ==
  ExtractBits(address, AddressBits - 1 - numTagBits, AddressBits - numTagBits - numIdxBits)

\* A block holds a word and the cache a set: log2 of zero is not a number.
SplitFits ==
  /\ CacheSize \in Nat /\ BlockSize \in Nat /\ AddressBits \in Nat
  /\ BlockSize >= 4
  /\ NumSets = numSets
  /\ numBlkOffsetBits + numIdxBits + 2 < AddressBits

ASSUME AddressAssumption ==
  /\ SplitFits
  /\ Addresses \subseteq 0..TwoTo[AddressBits] - 1
  /\ \A address \in Addresses : TagOf(address) \in Tags

AccessAddress(address) == Access(IndexOf(address), TagOf(address))

AddressedNext == \E address \in Addresses : AccessAddress(address)

AddressedSpec == CacheInit /\ [][AddressedNext]_cacheVars

-----------------------------------------------------------------------------
\* Two addresses are in the same block of BlockSize bytes.
SameBlock(a, b) == a \div BlockSize = b \div BlockSize

WaysHolding(a) == Matching(IndexOf(a), TagOf(a))

\* The split keeps a block together and blocks apart, within the tables: after an access
\* every address of the block is in the cache, and of the addresses of the set only those
\* of the block are where it is.
BlockIsResident ==
  hits + misses > 0 =>
    \A used \in {b \in Addresses : IndexOf(b) = last.idx /\ TagOf(b) = last.tag} :
      \A a \in Addresses :
        SameBlock(a, used) <=>
          /\ IndexOf(a) = last.idx
          /\ WaysHolding(a) \cap WaysHolding(used) # {}
=============================================================================
