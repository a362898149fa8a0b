------------------------------- MODULE Cache -------------------------------
(***************************************************************************)
(* Class Cache of cache.cpp: the tables of a set-associative cache and     *)
(* Cache::access, for an address already split into the index of its set   *)
(* and its tag (module AddressedCache).                                      *)
(*                                                                         *)
(* Operators whose name ends in Mutant are plausible slips in the code;    *)
(* no specification uses them.                                             *)
(***************************************************************************)
EXTENDS Naturals, Sequences

CONSTANTS
  NumSets, NumWays,   \* numSets and numWays
  Tags,               \* the tags the accesses use
  MaxAccesses         \* bound on the number of accesses

ASSUME CacheAssumption ==
  /\ NumSets \in Nat \ {0}
  /\ NumWays \in Nat \ {0}
  /\ 0 \in Tags       \* the tag tables are filled with zeros
  /\ MaxAccesses \in Nat

VARIABLES
  lru, valid, tag, hits, misses,
  last   \* the set and the tag of the last access, and what it returned

cacheVars == <<lru, valid, tag, hits, misses, last>>

Indices == 0..NumSets - 1
Ways    == 0..NumWays - 1

-----------------------------------------------------------------------------
\* The constructor.  lru ranks the ways of a set from 0 (LRU) to NumWays - 1 (MRU).
CacheInit ==
  /\ lru   = [idx \in Indices |-> [way \in Ways |-> way]]
  /\ valid = [idx \in Indices |-> [way \in Ways |-> FALSE]]
  /\ tag   = [idx \in Indices |-> [way \in Ways |-> 0]]
  /\ hits = 0 /\ misses = 0
  /\ last = [idx |-> 0, tag |-> 0, hit |-> FALSE]

\* The ways of a set that hold tag t; access takes the first.
MatchingMutant(idx, t) == {way \in 0..NumWays - 2 : valid[idx][way] /\ tag[idx][way] = t}
Matching(idx, t) == {way \in Ways : valid[idx][way] /\ tag[idx][way] = t}

FirstOf(ways) == CHOOSE way \in ways : \A other \in ways : way <= other

\* updateLRU: the ways ranked above the one used move down, which becomes the MRU.
UpdatedLRUTopMutant(ranks, used) ==
  [way \in Ways |-> IF way = used THEN NumWays
                    ELSE IF ranks[way] > ranks[used] THEN ranks[way] - 1 ELSE ranks[way]]
UpdatedLRUReversedMutant(ranks, used) ==
  [way \in Ways |-> IF way = used THEN 0
                    ELSE IF ranks[way] < ranks[used] THEN ranks[way] + 1 ELSE ranks[way]]
UpdatedLRUMutant(ranks, used) ==
  [way \in Ways |-> IF way = used THEN NumWays - 1
                    ELSE IF ranks[way] > 0 THEN ranks[way] - 1 ELSE ranks[way]]
UpdatedLRUFifoMutant(ranks, used) ==
  IF ranks[used] > 0 THEN ranks
  ELSE [way \in Ways |-> IF way = used THEN NumWays - 1 ELSE ranks[way] - 1]
UpdatedLRU(ranks, used) ==
  [way \in Ways |-> IF way = used THEN NumWays - 1
                    ELSE IF ranks[way] > ranks[used] THEN ranks[way] - 1 ELSE ranks[way]]

\* findLRU, which asserts that some way is ranked 0.
FindLRU(idx) == FirstOf({way \in Ways : lru[idx][way] = 0})

Hit(idx, t) ==
  /\ Matching(idx, t) # {}
  /\ lru' = [lru EXCEPT ![idx] = UpdatedLRU(lru[idx], FirstOf(Matching(idx, t)))]
  /\ hits' = hits + 1
  /\ last' = [idx |-> idx, tag |-> t, hit |-> TRUE]
  /\ UNCHANGED <<valid, tag, misses>>

Miss(idx, t) ==
  /\ Matching(idx, t) = {}
  /\ lru'   = [lru EXCEPT ![idx] = UpdatedLRU(lru[idx], FindLRU(idx))]
  /\ valid' = [valid EXCEPT ![idx][FindLRU(idx)] = TRUE]
  /\ tag'   = [tag EXCEPT ![idx][FindLRU(idx)] = t]
  /\ misses' = misses + 1
  /\ last' = [idx |-> idx, tag |-> t, hit |-> FALSE]
  /\ UNCHANGED hits

\* access
Access(idx, t) ==
  /\ hits + misses < MaxAccesses
  /\ Hit(idx, t) \/ Miss(idx, t)

CacheNext == \E idx \in Indices, t \in Tags : Access(idx, t)

CacheSpec == CacheInit /\ [][CacheNext]_cacheVars

-----------------------------------------------------------------------------
CacheTypeOK ==
  /\ lru \in [Indices -> [Ways -> Ways]]
  /\ valid \in [Indices -> [Ways -> BOOLEAN]]
  /\ tag \in [Indices -> [Ways -> Tags]]
  /\ hits \in Nat /\ misses \in Nat
  /\ last \in [idx : Indices, tag : Tags, hit : BOOLEAN]

RanksTheWays(ranks) ==
  \A rank \in Ways :
    /\ \E way \in Ways : ranks[way] = rank
    /\ \A way, other \in Ways : ranks[way] = rank /\ ranks[other] = rank => way = other

\* lru ranks the ways of every set: each rank is given once, so findLRU's assert(0) is
\* never reached and exactly one way is the victim.
LruRanksTheWays == \A idx \in Indices : RanksTheWays(lru[idx])

\* findLRU does not look at valid: that nothing is evicted from a set with a free way is
\* because the free ways are ranked below the ones in use.
FreeWaysGoFirst ==
  \A idx \in Indices : \A used, free \in Ways :
    valid[idx][used] /\ ~valid[idx][free] => lru[idx][free] < lru[idx][used]

\* A tag is in at most one way of a set, so the first match access takes is the only one.
NoTagTwice ==
  \A idx \in Indices : \A way, other \in Ways :
    /\ valid[idx][way] /\ valid[idx][other]
    /\ tag[idx][way] = tag[idx][other]
    => way = other

-----------------------------------------------------------------------------
\* What lru means: the tags a set holds, each with the others used since it was.
InUse(idx) == {way \in Ways : valid[idx][way]}

UsedSince(idx) ==
  LET above(rank) == {way \in InUse(idx) : lru[idx][way] > rank}
  IN  [t \in {tag[idx][way] : way \in InUse(idx)} |->
         {tag[idx][way] : way \in above(lru[idx][FirstOf(Matching(idx, t))])}]

Promised == INSTANCE LruCache WITH since <- [idx \in Indices |-> UsedSince(idx)]

\* access is true LRU, in every set: it returns a hit for exactly the NumWays most recently
\* used tags, and the hits and misses reported are those of an LRU cache.
IsLru == Promised!LruSpec
=============================================================================
