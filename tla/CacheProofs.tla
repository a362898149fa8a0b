---------------------------- MODULE CacheProofs ----------------------------
(***************************************************************************)
(* Proofs about the cache: its tables, for every number of sets and of     *)
(* ways, every set of tags and any number of accesses, and how it splits   *)
(* an address.                                                             *)
(***************************************************************************)
EXTENDS AddressedCache, Integers, Induction, FiniteSetTheorems

-----------------------------------------------------------------------------
\* The first element of a set of one element is that element.
LEMMA FirstOfOne ==
  ASSUME NEW way \in Ways
  PROVE  FirstOf({way}) = way
<1>1. way <= way
  BY CacheAssumption DEF Ways
<1>2. \A w \in {way} : (\A other \in {way} : w <= other) <=> w = way
  BY <1>1
<1> QED BY <1>2 DEF FirstOf

\* updateLRU turns a ranking of the ways into a ranking, in which the way used is the MRU
\* and the others keep their order.
LEMMA UpdateRanks ==
  ASSUME NEW ranks \in [Ways -> Ways], RanksTheWays(ranks), NEW used \in Ways
  PROVE  /\ UpdatedLRU(ranks, used) \in [Ways -> Ways]
         /\ RanksTheWays(UpdatedLRU(ranks, used))
         /\ UpdatedLRU(ranks, used)[used] = NumWays - 1
         /\ \A way \in Ways \ {used} : UpdatedLRU(ranks, used)[way] < NumWays - 1
         /\ \A way, other \in Ways \ {used} :
              UpdatedLRU(ranks, used)[way] < UpdatedLRU(ranks, used)[other]
                <=> ranks[way] < ranks[other]
<1> DEFINE new == UpdatedLRU(ranks, used)
<1>0. NumWays \in Nat \ {0} /\ NumWays - 1 \in Ways
  BY CacheAssumption DEF Ways
<1>a. \A rank : rank \in Ways <=> rank \in Int /\ 0 <= rank /\ rank <= NumWays - 1
  BY <1>0 DEF Ways
<1>b. \A way \in Ways : ranks[way] \in Int /\ 0 <= ranks[way] /\ ranks[way] <= NumWays - 1
  BY <1>a
<1>1. \A way, other \in Ways : ranks[way] = ranks[other] => way = other
  <2>1. \A way \in Ways : ranks[way] \in Ways
    OBVIOUS
  <2> QED BY <2>1 DEF RanksTheWays
<1>2. \A way \in Ways :
        new[way] = IF way = used THEN NumWays - 1
                   ELSE IF ranks[way] > ranks[used] THEN ranks[way] - 1 ELSE ranks[way]
  BY DEF UpdatedLRU
<1>3. \A way \in Ways \ {used} :
        \/ ranks[way] > ranks[used] /\ new[way] = ranks[way] - 1
        \/ ranks[way] < ranks[used] /\ new[way] = ranks[way]
  BY <1>0, <1>1, <1>2, <1>b
<1>4. \A way \in Ways : new[way] \in Ways
  BY <1>0, <1>2, <1>3, <1>a, <1>b
<1>5. new \in [Ways -> Ways]
  BY <1>4 DEF UpdatedLRU
<1>6. new[used] = NumWays - 1
  BY <1>2
<1>7. \A way \in Ways \ {used} : new[way] < NumWays - 1
  BY <1>0, <1>3, <1>b
<1>8. \A way, other \in Ways \ {used} : new[way] < new[other] <=> ranks[way] < ranks[other]
  BY <1>0, <1>3, <1>b
<1>9. RanksTheWays(new)
  <2> SUFFICES ASSUME NEW rank \in Ways
               PROVE  /\ \E way \in Ways : new[way] = rank
                      /\ \A way, other \in Ways :
                           new[way] = rank /\ new[other] = rank => way = other
    BY DEF RanksTheWays
  <2>1. \E way \in Ways : new[way] = rank
    <3>1. CASE rank = NumWays - 1
      BY <3>1, <1>6
    <3>2. CASE rank < ranks[used]
      <4>1. PICK way \in Ways : ranks[way] = rank
        BY DEF RanksTheWays
      <4> QED BY <4>1, <3>2, <1>2, <1>0, <1>a, <1>b
    <3>3. CASE rank >= ranks[used] /\ rank < NumWays - 1
      <4>1. rank + 1 \in Ways
        BY <3>3, <1>0, <1>a, <1>b
      <4>2. PICK way \in Ways : ranks[way] = rank + 1
        BY <4>1 DEF RanksTheWays
      <4> QED BY <4>2, <3>3, <1>2, <1>0, <1>a, <1>b
    <3> QED BY <3>1, <3>2, <3>3, <1>0, <1>a, <1>b
  <2>2. ASSUME NEW way \in Ways, NEW other \in Ways, new[way] = rank, new[other] = rank
        PROVE  way = other
    <3>1. CASE way = used \/ other = used
      BY <3>1, <2>2, <1>0, <1>6, <1>7
    <3>2. CASE way # used /\ other # used
      <4>1. ~(ranks[way] < ranks[other]) /\ ~(ranks[other] < ranks[way])
        BY <3>2, <2>2, <1>8, <1>4, <1>a
      <4> QED BY <4>1, <1>1, <1>b
    <3> QED BY <3>1, <3>2
  <2> QED BY <2>1, <2>2
<1> HIDE DEF new
<1> QED BY <1>5, <1>6, <1>7, <1>8, <1>9 DEF new

-----------------------------------------------------------------------------
\* The tables as access finds and leaves them.
CacheInv == CacheTypeOK /\ LruRanksTheWays /\ FreeWaysGoFirst /\ NoTagTwice

\* findLRU returns the way ranked 0: its assert(0) is not reached.
LEMMA VictimIsLRU ==
  ASSUME CacheInv, NEW idx \in Indices
  PROVE  FindLRU(idx) \in Ways /\ lru[idx][FindLRU(idx)] = 0
<1>1. 0 \in Ways
  BY CacheAssumption DEF Ways
<1>2. PICK way \in Ways : lru[idx][way] = 0
  BY <1>1 DEF CacheInv, LruRanksTheWays, RanksTheWays
<1>3. {w \in Ways : lru[idx][w] = 0} = {way}
  BY <1>1, <1>2 DEF CacheInv, LruRanksTheWays, RanksTheWays
<1> QED BY <1>2, <1>3, FirstOfOne DEF FindLRU

\* The first match is a way of the set in use.
LEMMA MatchIsInUse ==
  ASSUME CacheInv, NEW idx \in Indices, NEW t, Matching(idx, t) # {}
  PROVE  FirstOf(Matching(idx, t)) \in Ways /\ valid[idx][FirstOf(Matching(idx, t))]
<1>1. PICK way \in Matching(idx, t) : TRUE
  OBVIOUS
<1>2. way \in Ways /\ valid[idx][way]
  BY <1>1 DEF Matching
<1>3. Matching(idx, t) = {way}
  BY <1>1 DEF Matching, CacheInv, NoTagTwice
<1> QED BY <1>2, <1>3, FirstOfOne

\* The constructor establishes the invariant.
LEMMA CacheInitInv == CacheInit => CacheInv
<1> SUFFICES ASSUME CacheInit PROVE CacheInv
  OBVIOUS
<1>1. 0 \in Indices /\ 0 \in Tags
  BY CacheAssumption DEF Indices
<1>2. CacheTypeOK
  BY <1>1 DEF CacheInit, CacheTypeOK
<1>3. LruRanksTheWays
  BY DEF CacheInit, LruRanksTheWays, RanksTheWays
<1>4. FreeWaysGoFirst /\ NoTagTwice
  BY DEF CacheInit, FreeWaysGoFirst, NoTagTwice
<1> QED BY <1>2, <1>3, <1>4 DEF CacheInv

\* An access that hits preserves the invariant: the way used was above the free ways.
LEMMA HitInv ==
  ASSUME CacheInv, NEW idx \in Indices, NEW t \in Tags, Hit(idx, t)
  PROVE  CacheInv'
<1> DEFINE used == FirstOf(Matching(idx, t))
           new  == UpdatedLRU(lru[idx], used)
<1>1. used \in Ways /\ valid[idx][used]
  BY MatchIsInUse DEF Hit
<1>2. lru[idx] \in [Ways -> Ways] /\ RanksTheWays(lru[idx])
  BY DEF CacheInv, CacheTypeOK, LruRanksTheWays
<1>3. lru' = [lru EXCEPT ![idx] = new] /\ UNCHANGED <<valid, tag>>
  BY DEF Hit
<1>4. /\ new \in [Ways -> Ways] /\ RanksTheWays(new)
      /\ new[used] = NumWays - 1
      /\ \A way \in Ways \ {used} : new[way] < NumWays - 1
      /\ \A way, other \in Ways \ {used} :
           new[way] < new[other] <=> lru[idx][way] < lru[idx][other]
  BY <1>1, <1>2, UpdateRanks
<1> HIDE DEF used, new
<1>5. /\ lru' \in [Indices -> [Ways -> Ways]]
      /\ lru'[idx] = new
      /\ \A i \in Indices \ {idx} : lru'[i] = lru[i]
  BY <1>3, <1>4 DEF CacheInv, CacheTypeOK
<1>6. CacheTypeOK'
  BY <1>3, <1>5 DEF CacheInv, CacheTypeOK, Hit
<1>7. LruRanksTheWays'
  <2>1. \A i \in Indices : RanksTheWays(lru'[i])
    BY <1>4, <1>5 DEF CacheInv, LruRanksTheWays
  <2> QED BY <2>1 DEF LruRanksTheWays, RanksTheWays
<1>8. FreeWaysGoFirst'
  <2> SUFFICES ASSUME NEW i \in Indices, NEW u \in Ways, NEW f \in Ways,
                      valid[i][u], ~valid[i][f]
               PROVE  lru'[i][f] < lru'[i][u]
    BY <1>3 DEF FreeWaysGoFirst
  <2>1. lru[i][f] < lru[i][u] /\ f # u
    BY DEF CacheInv, FreeWaysGoFirst
  <2>2. CASE i # idx
    BY <2>1, <2>2, <1>5
  <2>3. CASE i = idx
    BY <2>1, <2>3, <1>1, <1>4, <1>5
  <2> QED BY <2>2, <2>3
<1>9. NoTagTwice'
  BY <1>3 DEF CacheInv, NoTagTwice
<1> QED BY <1>6, <1>7, <1>8, <1>9 DEF CacheInv

\* An access that misses preserves the invariant: its tag was nowhere in the set, and it
\* takes the way of rank 0, which is free if any is.
LEMMA MissInv ==
  ASSUME CacheInv, NEW idx \in Indices, NEW t \in Tags, Miss(idx, t)
  PROVE  CacheInv'
<1> DEFINE used == FindLRU(idx)
           new  == UpdatedLRU(lru[idx], used)
<1>1. used \in Ways /\ lru[idx][used] = 0
  BY VictimIsLRU
<1>2. lru[idx] \in [Ways -> Ways] /\ RanksTheWays(lru[idx])
  BY DEF CacheInv, CacheTypeOK, LruRanksTheWays
<1>3. /\ lru' = [lru EXCEPT ![idx] = new]
      /\ valid' = [valid EXCEPT ![idx][used] = TRUE]
      /\ tag' = [tag EXCEPT ![idx][used] = t]
  BY DEF Miss
<1>4. /\ new \in [Ways -> Ways] /\ RanksTheWays(new)
      /\ new[used] = NumWays - 1
      /\ \A way \in Ways \ {used} : new[way] < NumWays - 1
      /\ \A way, other \in Ways \ {used} :
           new[way] < new[other] <=> lru[idx][way] < lru[idx][other]
  BY <1>1, <1>2, UpdateRanks
<1> HIDE DEF used, new
<1>5. /\ lru' \in [Indices -> [Ways -> Ways]]
      /\ lru'[idx] = new
      /\ \A i \in Indices \ {idx} : lru'[i] = lru[i]
  BY <1>3, <1>4 DEF CacheInv, CacheTypeOK
<1>6. /\ valid' \in [Indices -> [Ways -> BOOLEAN]]
      /\ tag' \in [Indices -> [Ways -> Tags]]
      /\ valid'[idx][used] = TRUE /\ tag'[idx][used] = t
      /\ \A way \in Ways \ {used} :
           valid'[idx][way] = valid[idx][way] /\ tag'[idx][way] = tag[idx][way]
      /\ \A i \in Indices \ {idx} : valid'[i] = valid[i] /\ tag'[i] = tag[i]
  BY <1>1, <1>3 DEF CacheInv, CacheTypeOK
<1>7. CacheTypeOK'
  BY <1>5, <1>6 DEF CacheInv, CacheTypeOK, Miss
<1>8. LruRanksTheWays'
  <2>1. \A i \in Indices : RanksTheWays(lru'[i])
    BY <1>4, <1>5 DEF CacheInv, LruRanksTheWays
  <2> QED BY <2>1 DEF LruRanksTheWays, RanksTheWays
<1>9. FreeWaysGoFirst'
  <2> SUFFICES ASSUME NEW i \in Indices, NEW u \in Ways, NEW f \in Ways,
                      valid'[i][u], ~valid'[i][f]
               PROVE  lru'[i][f] < lru'[i][u]
    BY DEF FreeWaysGoFirst
  <2>1. CASE i # idx
    BY <2>1, <1>5, <1>6 DEF CacheInv, FreeWaysGoFirst
  <2>2. CASE i = idx
    <3>1. f # used /\ ~valid[idx][f]
      BY <2>2, <1>6
    <3>2. CASE u = used
      BY <3>1, <3>2, <2>2, <1>4, <1>5
    <3>3. CASE u # used
      <4>1. valid[idx][u]
        BY <3>3, <2>2, <1>6
      <4>2. lru[idx][f] < lru[idx][u]
        BY <4>1, <3>1 DEF CacheInv, FreeWaysGoFirst
      <4> QED BY <4>2, <3>1, <3>3, <2>2, <1>4, <1>5
    <3> QED BY <3>2, <3>3
  <2> QED BY <2>1, <2>2
<1>10. NoTagTwice'
  <2> SUFFICES ASSUME NEW i \in Indices, NEW way \in Ways, NEW other \in Ways,
                      valid'[i][way], valid'[i][other], tag'[i][way] = tag'[i][other]
               PROVE  way = other
    BY DEF NoTagTwice
  <2>0. \A w \in Ways : valid[idx][w] => tag[idx][w] # t
    BY DEF Miss, Matching
  <2>1. CASE i # idx
    BY <2>1, <1>6 DEF CacheInv, NoTagTwice
  <2>2. CASE i = idx /\ (way = used \/ other = used)
    BY <2>0, <2>2, <1>6
  <2>3. CASE i = idx /\ way # used /\ other # used
    BY <2>3, <1>6 DEF CacheInv, NoTagTwice
  <2> QED BY <2>1, <2>2, <2>3
<1> QED BY <1>7, <1>8, <1>9, <1>10 DEF CacheInv

\* The tables keep their shape and their meaning however long the program runs: lru ranks
\* the ways of each set, its free ways below those in use, and no tag is held twice.
THEOREM CacheInvariance == CacheSpec => []CacheInv
<1>1. CacheInv /\ [CacheNext]_cacheVars => CacheInv'
  <2> SUFFICES ASSUME CacheInv, [CacheNext]_cacheVars PROVE CacheInv'
    OBVIOUS
  <2>1. CASE CacheNext
    <3>1. PICK idx \in Indices, t \in Tags : Access(idx, t)
      BY <2>1 DEF CacheNext
    <3> QED BY <3>1, HitInv, MissInv DEF Access
  <2>2. CASE UNCHANGED cacheVars
    BY <2>2 DEF cacheVars, CacheInv, CacheTypeOK, LruRanksTheWays, RanksTheWays,
               FreeWaysGoFirst, NoTagTwice
  <2> QED BY <2>1, <2>2
<1> QED BY <1>1, CacheInitInv, PTL DEF CacheSpec

\* Type correctness: ranks and tags stay within their tables.
THEOREM CacheTypeCorrect == CacheSpec => []CacheTypeOK
<1>1. CacheInv => CacheTypeOK
  BY DEF CacheInv
<1> QED BY <1>1, CacheInvariance, PTL

\* updateLRU and findLRU keep lru a ranking of the ways of each set, so that a victim
\* always exists and is the only way ranked 0.
THEOREM AlwaysRanked == CacheSpec => []LruRanksTheWays
<1>1. CacheInv => LruRanksTheWays
  BY DEF CacheInv
<1> QED BY <1>1, CacheInvariance, PTL

\* access never evicts a tag from a set that has a free way.
THEOREM FreeWaysFirst == CacheSpec => []FreeWaysGoFirst
<1>1. CacheInv => FreeWaysGoFirst
  BY DEF CacheInv
<1> QED BY <1>1, CacheInvariance, PTL

\* access never brings a tag into a second way of its set.
THEOREM OneWayPerTag == CacheSpec => []NoTagTwice
<1>1. CacheInv => NoTagTwice
  BY DEF CacheInv
<1> QED BY <1>1, CacheInvariance, PTL

-----------------------------------------------------------------------------
(* The refinement of LruCache: UsedSince(idx) changes as an access to an LRU  *)
(* set changes it.                                                            *)

\* The tags of the ways in use of set idx that are ranked above rank.
TagsAbove(idx, rank) == {tag[idx][way] : way \in {w \in InUse(idx) : lru[idx][w] > rank}}

\* access used way `used` of set idx for tag t: it held t, or was the LRU of a set without t.
Took(idx, t, used) ==
  /\ used \in Ways
  /\ lru' = [lru EXCEPT ![idx] = UpdatedLRU(lru[idx], used)]
  /\ valid'[idx][used] /\ tag'[idx][used] = t
  /\ \A way \in Ways \ {used} :
       valid'[idx][way] = valid[idx][way] /\ tag'[idx][way] = tag[idx][way]
  /\ \A i \in Indices \ {idx} : valid'[i] = valid[i] /\ tag'[i] = tag[i]
  /\ \/ valid[idx][used] /\ tag[idx][used] = t
     \/ /\ lru[idx][used] = 0
        /\ \A way \in Ways : valid[idx][way] => tag[idx][way] # t

\* The ways are NumWays.
LEMMA WaysAreFinite == IsFiniteSet(Ways) /\ Cardinality(Ways) = NumWays
<1>1. NumWays \in Nat \ {0} /\ 0 \in Int /\ NumWays - 1 \in Int
  BY CacheAssumption
<1>2. IsFiniteSet(0..NumWays - 1) /\ Cardinality(0..NumWays - 1) = NumWays - 1 - 0 + 1
  BY <1>1, FS_Interval
<1> QED BY <1>1, <1>2 DEF Ways

\* A set of ways has at most as many tags as ways, and as many if no two have the same.
LEMMA TagsOfWays ==
  ASSUME NEW S \in SUBSET Ways, NEW f
  PROVE  /\ IsFiniteSet({f[way] : way \in S})
         /\ Cardinality({f[way] : way \in S}) \in Nat
         /\ Cardinality({f[way] : way \in S}) <= Cardinality(S)
         /\ (\A way, other \in S : f[way] = f[other] => way = other)
              => Cardinality({f[way] : way \in S}) = Cardinality(S)
<1> DEFINE T == {f[way] : way \in S}
           g == [way \in S |-> f[way]]
<1>1. IsFiniteSet(S)
  BY WaysAreFinite, FS_Subset
<1>2. g \in Surjection(S, T)
  BY DEF Surjection
<1>3. /\ IsFiniteSet(T) /\ Cardinality(T) <= Cardinality(S)
      /\ Cardinality(T) = Cardinality(S) <=> g \in Injection(S, T)
  <2> HIDE DEF T, g
  <2> QED BY <1>1, <1>2, FS_Surjection
<1>4. (\A way, other \in S : f[way] = f[other] => way = other) => g \in Injection(S, T)
  BY DEF Injection, IsInjective
<1>5. Cardinality(T) \in Nat
  BY <1>3, FS_CardinalityType
<1> HIDE DEF g
<1> QED BY <1>3, <1>4, <1>5

\* UsedSince gives each tag in use the tags of the ways ranked above its own.
LEMMA UsedSinceRanks ==
  ASSUME CacheInv, NEW idx \in Indices
  PROVE  /\ UsedSince(idx) = [t \in DOMAIN UsedSince(idx) |-> UsedSince(idx)[t]]
         /\ DOMAIN UsedSince(idx) = {tag[idx][way] : way \in InUse(idx)}
         /\ \A way \in InUse(idx) :
              UsedSince(idx)[tag[idx][way]] = TagsAbove(idx, lru[idx][way])
<1> DEFINE above(rank) == {way \in InUse(idx) : lru[idx][way] > rank}
           rankOf(t) == lru[idx][FirstOf(Matching(idx, t))]
           value(t) == {tag[idx][way] : way \in above(rankOf(t))}
<1>1. UsedSince(idx) = [t \in {tag[idx][way] : way \in InUse(idx)} |-> value(t)]
  BY DEF UsedSince
<1>2. \A way \in InUse(idx) : rankOf(tag[idx][way]) = lru[idx][way]
  <2> SUFFICES ASSUME NEW way \in InUse(idx) PROVE rankOf(tag[idx][way]) = lru[idx][way]
    OBVIOUS
  <2>1. Matching(idx, tag[idx][way]) = {way}
    BY DEF Matching, InUse, CacheInv, NoTagTwice
  <2> QED BY <2>1, FirstOfOne DEF InUse
<1> HIDE DEF rankOf
<1>3. \A way \in InUse(idx) : value(tag[idx][way]) = TagsAbove(idx, lru[idx][way])
  BY <1>2 DEF TagsAbove
<1> HIDE DEF value
<1> QED BY <1>1, <1>3

\* The same after a step, as long as the invariant still holds.
SinceRanks(idx) ==
  /\ UsedSince(idx) = [t \in DOMAIN UsedSince(idx) |-> UsedSince(idx)[t]]
  /\ DOMAIN UsedSince(idx) = {tag[idx][way] : way \in InUse(idx)}
  /\ \A way \in InUse(idx) :
       UsedSince(idx)[tag[idx][way]] = TagsAbove(idx, lru[idx][way])

LEMMA SinceRanksNext ==
  ASSUME NEW idx \in Indices
  PROVE  CacheInv' => SinceRanks(idx)'
<1>1. CacheInv => SinceRanks(idx)
  BY UsedSinceRanks DEF SinceRanks
<1> QED BY <1>1, PTL

\* Hit and Miss are accesses in the sense of Took.
LEMMA AccessTakes ==
  ASSUME CacheInv, NEW idx \in Indices, NEW t \in Tags, Hit(idx, t) \/ Miss(idx, t)
  PROVE  /\ \E used \in Ways : Took(idx, t, used)
         /\ Hit(idx, t) <=> t \in DOMAIN UsedSince(idx)
<1>0. DOMAIN UsedSince(idx) = {tag[idx][way] : way \in InUse(idx)}
  BY UsedSinceRanks
<1>1. t \in DOMAIN UsedSince(idx) <=> Matching(idx, t) # {}
  BY <1>0 DEF InUse, Matching
<1>2. CASE Hit(idx, t)
  <2> DEFINE used == FirstOf(Matching(idx, t))
  <2>1. used \in Ways /\ valid[idx][used]
    BY <1>2, MatchIsInUse DEF Hit
  <2>2. PICK way \in Matching(idx, t) : TRUE
    BY <1>2 DEF Hit
  <2>3. Matching(idx, t) = {way} /\ way \in Ways
    BY <2>2 DEF Matching, CacheInv, NoTagTwice
  <2>4. used = way
    BY <2>3, FirstOfOne
  <2>5. tag[idx][used] = t
    BY <2>2, <2>4 DEF Matching
  <2>6. lru' = [lru EXCEPT ![idx] = UpdatedLRU(lru[idx], used)] /\ valid' = valid /\ tag' = tag
    BY <1>2 DEF Hit
  <2> HIDE DEF used
  <2>7. Took(idx, t, used)
    BY <2>1, <2>5, <2>6 DEF Took
  <2> QED BY <1>1, <1>2, <2>1, <2>7 DEF Hit
<1>3. CASE Miss(idx, t)
  <2> DEFINE used == FindLRU(idx)
  <2>1. used \in Ways /\ lru[idx][used] = 0
    BY VictimIsLRU
  <2>2. \A way \in Ways : valid[idx][way] => tag[idx][way] # t
    BY <1>3 DEF Miss, Matching
  <2>3. /\ lru' = [lru EXCEPT ![idx] = UpdatedLRU(lru[idx], used)]
        /\ valid' = [valid EXCEPT ![idx][used] = TRUE]
        /\ tag' = [tag EXCEPT ![idx][used] = t]
    BY <1>3 DEF Miss
  <2> HIDE DEF used
  <2>4. /\ valid \in [Indices -> [Ways -> BOOLEAN]]
        /\ tag \in [Indices -> [Ways -> Tags]]
    BY DEF CacheInv, CacheTypeOK
  <2>5. Took(idx, t, used)
    BY <2>1, <2>2, <2>3, <2>4 DEF Took
  <2> QED BY <1>1, <1>3, <2>1, <2>5 DEF Miss, Hit
<1> QED BY <1>2, <1>3

\* Where the ways used by an access and the others are ranked, in the terms of the ranks.
LEMMA TookRanks ==
  ASSUME CacheInv, NEW idx \in Indices, NEW t \in Tags, NEW used \in Ways, Took(idx, t, used)
  PROVE  /\ InUse(idx)' = InUse(idx) \cup {used}
         /\ \A way \in Ways : lru'[idx][way] \in Int /\ lru[idx][way] \in Int
         /\ \A way \in Ways \ {used} : lru'[idx][way] < lru'[idx][used]
         /\ \A way, other \in Ways \ {used} :
              lru'[idx][way] < lru'[idx][other] <=> lru[idx][way] < lru[idx][other]
         /\ \A i \in Indices \ {idx} : lru'[i] = lru[i]
<1> DEFINE new == UpdatedLRU(lru[idx], used)
<1>1. lru[idx] \in [Ways -> Ways] /\ RanksTheWays(lru[idx])
  BY DEF CacheInv, CacheTypeOK, LruRanksTheWays
<1>2. /\ new \in [Ways -> Ways]
      /\ new[used] = NumWays - 1
      /\ \A way \in Ways \ {used} : new[way] < NumWays - 1
      /\ \A way, other \in Ways \ {used} :
           new[way] < new[other] <=> lru[idx][way] < lru[idx][other]
  BY <1>1, UpdateRanks
<1> HIDE DEF new
<1>3. lru' = [lru EXCEPT ![idx] = new]
  BY DEF Took, new
<1>4. lru'[idx] = new /\ \A i \in Indices \ {idx} : lru'[i] = lru[i]
  BY <1>3 DEF CacheInv, CacheTypeOK
<1>5. Ways \subseteq Int
  BY CacheAssumption DEF Ways
<1>6. \A way \in Ways : new[way] \in Int /\ lru[idx][way] \in Int
  BY <1>1, <1>2, <1>5
<1>7. InUse(idx)' = InUse(idx) \cup {used}
  BY DEF Took, InUse
<1> QED BY <1>2, <1>4, <1>6, <1>7

\* Of the other tags in use, t has now been used since all, and the rest is as it was.
LEMMA TookAbove ==
  ASSUME CacheInv, NEW idx \in Indices, NEW t \in Tags, NEW used \in Ways, Took(idx, t, used)
  PROVE  /\ TagsAbove(idx, lru[idx][used])' = {}
         /\ \A way \in InUse(idx) \ {used} :
              TagsAbove(idx, lru[idx][way])' = TagsAbove(idx, lru[idx][way]) \cup {t}
<1>1. /\ InUse(idx)' = InUse(idx) \cup {used}
      /\ \A way \in Ways : lru'[idx][way] \in Int /\ lru[idx][way] \in Int
      /\ \A way \in Ways \ {used} : lru'[idx][way] < lru'[idx][used]
      /\ \A way, other \in Ways \ {used} :
           lru'[idx][way] < lru'[idx][other] <=> lru[idx][way] < lru[idx][other]
  BY TookRanks
<1>2. InUse(idx) \subseteq Ways
  BY DEF InUse
<1>3. TagsAbove(idx, lru[idx][used])' = {}
  <2>1. {w \in InUse(idx)' : lru'[idx][w] > lru'[idx][used]} = {}
    BY <1>1, <1>2
  <2> QED BY <2>1 DEF TagsAbove
<1>4. ASSUME NEW way \in InUse(idx) \ {used}
      PROVE  TagsAbove(idx, lru[idx][way])' = TagsAbove(idx, lru[idx][way]) \cup {t}
  <2> DEFINE others == {w \in InUse(idx) \ {used} : lru[idx][w] > lru[idx][way]}
  <2>1. {w \in InUse(idx)' : lru'[idx][w] > lru'[idx][way]} = others \cup {used}
    BY <1>1, <1>2, <1>4
  <2>2. \A w \in others : tag'[idx][w] = tag[idx][w]
    BY <1>2 DEF Took
  <2>3. tag'[idx][used] = t
    BY DEF Took
  <2>4. TagsAbove(idx, lru[idx][way])' = {tag'[idx][w] : w \in others \cup {used}}
    BY <2>1 DEF TagsAbove
  <2>5. TagsAbove(idx, lru[idx][way])' = {tag[idx][w] : w \in others} \cup {t}
    <3> HIDE DEF others
    <3> QED BY <2>2, <2>3, <2>4
  <2>6. CASE valid[idx][used] /\ tag[idx][used] = t
    <3>1. \A w : w \in InUse(idx) /\ lru[idx][w] > lru[idx][way]
                   => w \in others \/ tag[idx][w] = t
      BY <2>6
    <3>2. \A w \in others : w \in InUse(idx) /\ lru[idx][w] > lru[idx][way]
      OBVIOUS
    <3> HIDE DEF others
    <3> QED BY <2>5, <3>1, <3>2 DEF TagsAbove
  <2>7. CASE lru[idx][used] = 0
    <3>1. lru[idx][way] >= 0
      <4>1. lru[idx][way] \in Ways
        BY <1>2 DEF CacheInv, CacheTypeOK
      <4> QED BY <4>1, CacheAssumption DEF Ways
    <3>2. {w \in InUse(idx) : lru[idx][w] > lru[idx][way]} = others
      BY <3>1, <2>7, <1>1, <1>2
    <3> QED BY <2>5, <3>2 DEF TagsAbove
  <2> QED BY <2>6, <2>7 DEF Took
<1> QED BY <1>3, <1>4

\* An evicted tag has NumWays - 1 others above it, and t is not one of them.
LEMMA EvictedHasAllAbove ==
  ASSUME CacheInv, NEW idx \in Indices, NEW t \in Tags, NEW used \in Ways,
         lru[idx][used] = 0, valid[idx][used],
         \A way \in Ways : valid[idx][way] => tag[idx][way] # t
  PROVE  Cardinality(TagsAbove(idx, lru[idx][used]) \cup {t}) = NumWays
<1> DEFINE S == Ways \ {used}
           f == tag[idx]
           T == {f[way] : way \in S}
<1>0. lru[idx] \in [Ways -> Ways] /\ RanksTheWays(lru[idx])
  BY DEF CacheInv, CacheTypeOK, LruRanksTheWays
<1>1. \A way \in Ways : lru[idx][way] \in Nat
  BY <1>0, CacheAssumption DEF Ways
<1>2. \A way \in Ways : valid[idx][way]
  BY <1>1 DEF CacheInv, FreeWaysGoFirst
<1>3. \A way \in S : lru[idx][way] > 0
  <2>1. 0 \in Ways
    BY CacheAssumption DEF Ways
  <2>2. \A way \in Ways : lru[idx][way] = 0 => way = used
    BY <2>1, <1>0 DEF RanksTheWays
  <2> QED BY <1>1, <2>2
<1>4. {w \in InUse(idx) : lru[idx][w] > lru[idx][used]} = S
  BY <1>1, <1>2, <1>3 DEF InUse
<1>5. TagsAbove(idx, lru[idx][used]) = T
  BY <1>4 DEF TagsAbove
<1>6. Cardinality(S) = NumWays - 1 /\ S \in SUBSET Ways
  BY WaysAreFinite, FS_RemoveElement
<1>7. \A way, other \in S : f[way] = f[other] => way = other
  BY <1>2 DEF CacheInv, NoTagTwice
<1>8. IsFiniteSet(T) /\ Cardinality(T) = Cardinality(S)
  <2> HIDE DEF f, S
  <2> QED BY <1>6, <1>7, TagsOfWays
<1>9. t \notin T
  BY <1>2
<1>10. Cardinality(T \cup {t}) = Cardinality(T) + 1
  <2> HIDE DEF T
  <2> QED BY <1>8, <1>9, FS_AddElement
<1>11. NumWays \in Nat
  BY CacheAssumption
<1> HIDE DEF T, S, f
<1>12. Cardinality(T) = NumWays - 1
  BY <1>6, <1>8
<1>13. Cardinality(T \cup {t}) = NumWays
  BY <1>10, <1>11, <1>12
<1> QED BY <1>5, <1>13

\* A tag still in use has fewer than NumWays above it.
LEMMA HeldHasFewAbove ==
  ASSUME CacheInv, NEW idx \in Indices, NEW way \in InUse(idx)
  PROVE  Cardinality(TagsAbove(idx, lru[idx][way])) < NumWays
<1> DEFINE S == {w \in InUse(idx) : lru[idx][w] > lru[idx][way]}
           f == tag[idx]
<1>0. lru[idx] \in [Ways -> Ways] /\ way \in Ways
  BY DEF CacheInv, CacheTypeOK, InUse
<1>1. lru[idx][way] \in Int
  BY <1>0, CacheAssumption DEF Ways
<1>2. S \in SUBSET Ways /\ S \in SUBSET (Ways \ {way})
  BY <1>1 DEF InUse
<1>3. IsFiniteSet(Ways \ {way}) /\ Cardinality(Ways \ {way}) = NumWays - 1
  BY <1>0, WaysAreFinite, FS_RemoveElement
<1>4. TagsAbove(idx, lru[idx][way]) = {f[w] : w \in S}
  BY DEF TagsAbove
<1> HIDE DEF S, f
<1>5. Cardinality(S) <= NumWays - 1 /\ IsFiniteSet(S)
  BY <1>2, <1>3, FS_Subset
<1>6. Cardinality(S) \in Nat
  BY <1>5, FS_CardinalityType
<1>7. /\ Cardinality({f[w] : w \in S}) \in Nat
      /\ Cardinality({f[w] : w \in S}) <= Cardinality(S)
  BY <1>2, TagsOfWays
<1>8. NumWays \in Nat
  BY CacheAssumption
<1> QED BY <1>4, <1>5, <1>6, <1>7, <1>8

\* The same after a step, as long as the invariant still holds.
LEMMA HeldHasFewAboveNext ==
  ASSUME NEW idx \in Indices
  PROVE  CacheInv' => \A way \in InUse(idx)' :
           Cardinality(TagsAbove(idx, lru[idx][way])') < NumWays
<1>1. CacheInv => \A way \in InUse(idx) : Cardinality(TagsAbove(idx, lru[idx][way])) < NumWays
  BY HeldHasFewAbove
<1>2. (CacheInv => \A way \in InUse(idx) :
                      Cardinality(TagsAbove(idx, lru[idx][way])) < NumWays)'
  BY <1>1, PTL
<1> QED BY <1>2

\* An access to a set is one to the LRU set it stands for.
LEMMA TookTouches ==
  ASSUME CacheInv, CacheInv', NEW idx \in Indices, NEW t \in Tags, NEW used \in Ways,
         Took(idx, t, used)
  PROVE  UsedSince(idx)' = Promised!Touched(UsedSince(idx), t)
<1> DEFINE before == UsedSince(idx)
           after  == [u \in DOMAIN before \cup {t} |->
                        IF u = t THEN {} ELSE before[u] \cup {t}]
           kept   == {v \in DOMAIN after : Cardinality(after[v]) < NumWays}
           now    == UsedSince(idx)'
<1>1. /\ DOMAIN before = {tag[idx][way] : way \in InUse(idx)}
      /\ \A way \in InUse(idx) : before[tag[idx][way]] = TagsAbove(idx, lru[idx][way])
  BY UsedSinceRanks
<1>2. /\ now = [u \in DOMAIN now |-> now[u]]
      /\ DOMAIN now = {tag'[idx][way] : way \in InUse(idx)'}
      /\ \A way \in InUse(idx)' : now[tag'[idx][way]] = TagsAbove(idx, lru[idx][way])'
  BY SinceRanksNext DEF SinceRanks
<1> HIDE DEF before, now
<1>3. /\ InUse(idx)' = InUse(idx) \cup {used}
      /\ tag'[idx][used] = t
      /\ \A way \in InUse(idx) \ {used} : tag'[idx][way] = tag[idx][way]
  BY TookRanks DEF Took, InUse
<1>4. /\ TagsAbove(idx, lru[idx][used])' = {}
      /\ \A way \in InUse(idx) \ {used} :
           TagsAbove(idx, lru[idx][way])' = TagsAbove(idx, lru[idx][way]) \cup {t}
  BY TookAbove
<1>5. \A way \in InUse(idx) \ {used} : tag[idx][way] # t
  <2> SUFFICES ASSUME NEW way \in InUse(idx) \ {used}, tag[idx][way] = t PROVE FALSE
    OBVIOUS
  <2>1. way \in InUse(idx)' /\ used \in InUse(idx)' /\ tag'[idx][way] = tag'[idx][used]
    BY <1>3
  <2> QED BY <2>1 DEF InUse, CacheInv, NoTagTwice
<1>6. DOMAIN now = {tag[idx][way] : way \in InUse(idx) \ {used}} \cup {t}
  BY <1>2, <1>3
<1>7. \A u \in DOMAIN now : u \in DOMAIN after /\ now[u] = after[u]
  <2>1. t \in DOMAIN after /\ now[t] = after[t]
    BY <1>2, <1>3, <1>4
  <2>2. ASSUME NEW way \in InUse(idx) \ {used}
        PROVE  tag[idx][way] \in DOMAIN after /\ now[tag[idx][way]] = after[tag[idx][way]]
    <3>1. now[tag[idx][way]] = TagsAbove(idx, lru[idx][way]) \cup {t}
      BY <2>2, <1>2, <1>3, <1>4
    <3>2. tag[idx][way] \in DOMAIN before
      BY <2>2, <1>1
    <3>3. after[tag[idx][way]] = before[tag[idx][way]] \cup {t}
      BY <3>2, <2>2, <1>5
    <3>4. before[tag[idx][way]] = TagsAbove(idx, lru[idx][way])
      BY <2>2, <1>1
    <3> HIDE DEF after
    <3>5. now[tag[idx][way]] = after[tag[idx][way]]
      BY <3>1, <3>3, <3>4
    <3> QED BY <3>2, <3>5 DEF after
  <2> HIDE DEF after
  <2> QED BY <1>6, <2>1, <2>2
<1>8. \A u \in DOMAIN now : Cardinality(now[u]) < NumWays
  <2>1. \A way \in InUse(idx)' : Cardinality(now[tag'[idx][way]]) < NumWays
    BY <1>2, HeldHasFewAboveNext
  <2> QED BY <1>2, <2>1
<1>9. \A u \in DOMAIN after \ DOMAIN now : ~(Cardinality(after[u]) < NumWays)
  <2> SUFFICES ASSUME NEW u \in DOMAIN after \ DOMAIN now
               PROVE  ~(Cardinality(after[u]) < NumWays)
    OBVIOUS
  <2>1. u # t /\ u \in DOMAIN before
    BY <1>6
  <2>2. used \in InUse(idx) /\ u = tag[idx][used]
    BY <2>1, <1>1, <1>6
  <2>3. /\ lru[idx][used] = 0 /\ valid[idx][used]
        /\ \A way \in Ways : valid[idx][way] => tag[idx][way] # t
    BY <2>1, <2>2 DEF Took, InUse
  <2>4. after[u] = TagsAbove(idx, lru[idx][used]) \cup {t}
    BY <2>1, <2>2, <1>1
  <2>5. Cardinality(TagsAbove(idx, lru[idx][used]) \cup {t}) = NumWays
    BY <2>3, EvictedHasAllAbove
  <2>6. Cardinality(after[u]) = NumWays
    BY <2>4, <2>5
  <2> HIDE DEF after
  <2> QED BY <2>6, CacheAssumption
<1>10. kept = DOMAIN now
  <2> HIDE DEF after
  <2> QED BY <1>7, <1>8, <1>9
<1>11. now = [u \in kept |-> after[u]]
  <2> HIDE DEF after, kept
  <2> QED BY <1>2, <1>7, <1>10
<1>12. Promised!Touched(UsedSince(idx), t) = [u \in kept |-> after[u]]
  <2>1. \A S : Promised!Cardinality(S) = Cardinality(S)
    BY DEF Promised!Cardinality, Cardinality
  <2> QED BY <2>1 DEF Promised!Touched, before
<1> HIDE DEF after, kept
<1> QED BY <1>11, <1>12 DEF now

\* The constructor leaves every set empty.
LEMMA NothingUsedYet == CacheInit => \A idx \in Indices : UsedSince(idx) = << >>
<1> SUFFICES ASSUME CacheInit, NEW idx \in Indices PROVE UsedSince(idx) = << >>
  OBVIOUS
<1>1. InUse(idx) = {}
  BY DEF CacheInit, InUse
<1> QED BY <1>1 DEF UsedSince

\* A step of the cache is one of the LRU cache it stands for, or changes nothing of it.
LEMMA StepIsLru ==
  ASSUME CacheInv, CacheInv', [CacheNext]_cacheVars
  PROVE  [Promised!LruNext]_(Promised!lruVars)
<1>1. CASE CacheNext
  <2>1. PICK idx \in Indices, t \in Tags : Access(idx, t)
    BY <1>1 DEF CacheNext
  <2>2. /\ \E used \in Ways : Took(idx, t, used)
        /\ Hit(idx, t) <=> t \in DOMAIN UsedSince(idx)
    BY <2>1, AccessTakes DEF Access
  <2>3. PICK used \in Ways : Took(idx, t, used)
    BY <2>2
  <2>4. UsedSince(idx)' = Promised!Touched(UsedSince(idx), t)
    BY <2>3, TookTouches
  <2>5. ASSUME NEW i \in Indices \ {idx} PROVE UsedSince(i)' = UsedSince(i)
    <3>1. lru'[i] = lru[i] /\ valid'[i] = valid[i] /\ tag'[i] = tag[i]
      BY <2>3, TookRanks DEF Took
    <3> QED BY <3>1 DEF UsedSince, InUse, Matching, FirstOf
  <2> DEFINE since == [i \in Indices |-> UsedSince(i)]
  <2>6. since' = [since EXCEPT ![idx] = Promised!Touched(since[idx], t)]
    BY <2>4, <2>5
  <2>7. /\ last' = [idx |-> idx, tag |-> t, hit |-> t \in DOMAIN since[idx]]
        /\ hits' = IF last'.hit THEN hits + 1 ELSE hits
        /\ misses' = IF last'.hit THEN misses ELSE misses + 1
    <3>1. last' = [idx |-> idx, tag |-> t, hit |-> t \in DOMAIN since[idx]]
      <4>1. CASE Hit(idx, t)
        <5>1. (t \in DOMAIN since[idx]) = TRUE
          BY <4>1, <2>2
        <5> HIDE DEF since
        <5> QED BY <4>1, <5>1 DEF Hit
      <4>2. CASE Miss(idx, t)
        <5>1. (t \in DOMAIN since[idx]) = FALSE
          BY <4>2, <2>2 DEF Hit, Miss
        <5> HIDE DEF since
        <5> QED BY <4>2, <5>1 DEF Miss
      <4> QED BY <4>1, <4>2, <2>1 DEF Access
    <3> HIDE DEF since
    <3> QED BY <2>1, <3>1 DEF Access, Hit, Miss
  <2> HIDE DEF since
  <2>8. Promised!Use(idx, t)
    BY <2>6, <2>7 DEF Promised!Use, Promised!Held, since
  <2> QED BY <2>8 DEF Promised!LruNext, Indices
<1>2. CASE UNCHANGED cacheVars
  BY <1>2 DEF cacheVars, Promised!lruVars, UsedSince, InUse, Matching, FirstOf
<1> QED BY <1>1, <1>2

\* access is true LRU with as many ways as the set has: it hits exactly when fewer than
\* NumWays other tags of the set were used since the tag was, and counts accordingly.
THEOREM CacheIsLru == CacheSpec => IsLru
<1>1. CacheInit => Promised!LruInit
  BY NothingUsedYet DEF CacheInit, Promised!LruInit, Indices
<1>2. CacheInv /\ CacheInv' /\ [CacheNext]_cacheVars => [Promised!LruNext]_(Promised!lruVars)
  BY StepIsLru
<1> QED BY <1>1, <1>2, CacheInvariance, PTL DEF CacheSpec, IsLru, Promised!LruSpec

-----------------------------------------------------------------------------
(***************************************************************************)
(* The split of an address.                                                *)
(***************************************************************************)
\* The widths of the three fields of an address, and the offset within a word.
LEMMA Widths ==
  /\ numSets \in Nat \ {0}
  /\ numBlkOffsetBits \in Nat /\ numIdxBits \in Nat /\ numTagBits \in Nat
  /\ TwoTo[numIdxBits] \in Nat \ {0} /\ TwoTo[numIdxBits] <= NumSets
  /\ AddressBits = numTagBits + (numIdxBits + (numBlkOffsetBits + 2))
<1>1. numSets = NumSets /\ NumSets \in Nat \ {0}
  BY AddressAssumption, CacheAssumption DEF SplitFits
<1>2. BlockSize \div 4 \in Nat \ {0}
  BY AddressAssumption DEF SplitFits
<1>3. numBlkOffsetBits \in Nat
  BY <1>2, FloorLog2Is DEF numBlkOffsetBits
<1>4. numIdxBits \in Nat /\ TwoTo[numIdxBits] <= NumSets
  <2> HIDE DEF numSets
  <2> QED BY <1>1, FloorLog2Is DEF numIdxBits
<1>5. AddressBits \in Nat /\ numBlkOffsetBits + numIdxBits + 2 < AddressBits
  BY AddressAssumption DEF SplitFits
<1>6. /\ numTagBits \in Nat
      /\ AddressBits = numTagBits + (numIdxBits + (numBlkOffsetBits + 2))
  <2> HIDE DEF numIdxBits, numBlkOffsetBits
  <2> QED BY <1>3, <1>4, <1>5 DEF numTagBits
<1> QED BY <1>1, <1>3, <1>4, <1>6, TwoToFacts

\* The index and the tag, with the positions of their bits worked out.
LEMMA Fields ==
  ASSUME NEW a \in Addresses
  PROVE  /\ a \in 0..TwoTo[AddressBits] - 1
         /\ IndexOf(a) = (a \div TwoTo[numBlkOffsetBits + 2]) % TwoTo[numIdxBits]
         /\ TagOf(a) = (a \div TwoTo[numIdxBits + (numBlkOffsetBits + 2)]) % TwoTo[numTagBits]
<1> DEFINE i == numIdxBits
           o == numBlkOffsetBits
           T == numTagBits
           A == AddressBits
<1>1. i \in Nat /\ o \in Nat /\ T \in Nat /\ A = T + (i + (o + 2))
  BY Widths
<1>2. a \in 0..TwoTo[A] - 1
  BY AddressAssumption DEF SplitFits
<1>3. /\ IndexOf(a) = (a \div TwoTo[A - T - i]) % TwoTo[A - 1 - T - (A - T - i) + 1]
      /\ TagOf(a) = (a \div TwoTo[A - T]) % TwoTo[A - 1 - (A - T) + 1]
  BY DEF IndexOf, TagOf, ExtractBits
<1> HIDE DEF i, o, T, A
<1>4. /\ A - T - i = o + 2 /\ A - 1 - T - (A - T - i) + 1 = i
      /\ A - T = i + (o + 2) /\ A - 1 - (A - T) + 1 = T
  BY <1>1
<1>5. /\ IndexOf(a) = (a \div TwoTo[o + 2]) % TwoTo[i]
      /\ TagOf(a) = (a \div TwoTo[i + (o + 2)]) % TwoTo[T]
  BY <1>3, <1>4
<1> QED BY <1>2, <1>5 DEF i, o, T, A

\* Whatever the size of the cache, of which log2 may leave sets unused, the index is that of
\* a set.
LEMMA IndexInTable ==
  ASSUME NEW a \in Addresses
  PROVE  IndexOf(a) \in Indices
<1>1. TwoTo[AddressBits] \in Nat
  BY TwoToFacts, AddressAssumption DEF SplitFits
<1>2. a \in Nat
  BY <1>1, Fields
<1>3. IndexOf(a) \in 0..numSets - 1
  <2> HIDE DEF numSets, numTagBits, numBlkOffsetBits
  <2>1. numIdxBits = FloorLog2(numSets) /\ numTagBits \in Nat /\ numBlkOffsetBits + 2 \in Nat
        /\ numIdxBits \in Nat
    BY Widths DEF numIdxBits
  <2> HIDE DEF numIdxBits
  <2>2. AddressBits = numTagBits + (numIdxBits + (numBlkOffsetBits + 2))
    BY Widths
  <2> QED BY <1>2, <2>1, <2>2, Widths, FieldInTable DEF IndexOf
<1> QED BY <1>3, AddressAssumption DEF Indices, SplitFits

\* In blocks of a power of two words, the tag and the index number the block.
PowerOfTwoWords == \E k \in Nat : BlockSize = 4 * TwoTo[k]

LEMMA BlockNumber ==
  ASSUME PowerOfTwoWords, NEW a \in Addresses
  PROVE  /\ a \div BlockSize = TagOf(a) * TwoTo[numIdxBits] + IndexOf(a)
         /\ TagOf(a) \in Nat /\ IndexOf(a) \in 0..TwoTo[numIdxBits] - 1
<1> DEFINE i == numIdxBits
           o == numBlkOffsetBits
           T == numTagBits
           D == TwoTo[o + 2]
           b == a \div D
<1>1. /\ o + 2 \in Nat /\ i \in Nat /\ T \in Nat
      /\ AddressBits = T + (i + (o + 2))
  BY Widths
<1>2. BlockSize = D
  <2>1. PICK k \in Nat : BlockSize = 4 * TwoTo[k]
    BY DEF PowerOfTwoWords
  <2>2. BlockSize \div 4 = TwoTo[k] /\ TwoTo[k] \in Nat
    BY <2>1, TwoToFacts
  <2>3. o = k
    BY <2>2, FloorLog2OfPower DEF numBlkOffsetBits
  <2>4. TwoTo[k + 1] = 2 * TwoTo[k] /\ TwoTo[(k + 1) + 1] = 2 * TwoTo[k + 1]
    BY <2>1, TwoToFacts
  <2>5. (k + 1) + 1 = k + 2
    BY <2>1
  <2>6. TwoTo[k + 2] = 4 * TwoTo[k]
    BY <2>2, <2>4, <2>5
  <2> QED BY <2>1, <2>3, <2>6
<1> HIDE DEF i, o, T
<1>3. D \in Nat \ {0} /\ TwoTo[i] \in Nat \ {0} /\ TwoTo[T] \in Nat \ {0}
  BY <1>1, TwoToFacts
<1>4. TwoTo[i + (o + 2)] = TwoTo[i] * D /\ TwoTo[AddressBits] = TwoTo[T] * (TwoTo[i] * D)
  <2>1. i + (o + 2) \in Nat
    BY <1>1
  <2> QED BY <1>1, <2>1, TwoToSum
<1> HIDE DEF D
<1>5. a \in Nat /\ a < TwoTo[T] * (TwoTo[i] * D)
  <2>1. TwoTo[AddressBits] \in Nat
    BY TwoToFacts, AddressAssumption DEF SplitFits
  <2> QED BY <1>4, <2>1, Fields
<1>6. \A x \in Nat, n \in Nat \ {0} : x \div n \in Nat /\ x % n \in 0..n - 1
                                      /\ x = (x \div n) * n + (x % n)
  OBVIOUS
<1>7. /\ IndexOf(a) = b % TwoTo[i]
      /\ TagOf(a) = (b \div TwoTo[i]) % TwoTo[T]
  <2>1. /\ IndexOf(a) = (a \div D) % TwoTo[i]
        /\ TagOf(a) = (a \div (TwoTo[i] * D)) % TwoTo[T]
    BY <1>4, Fields DEF i, o, T, D
  <2>2. a \div (TwoTo[i] * D) = (a \div D) \div TwoTo[i]
    BY <1>3, <1>5, DivideTwice
  <2> QED BY <2>1, <2>2
<1>8. b \in Nat /\ b \div TwoTo[i] \in Nat
  BY <1>3, <1>5, <1>6
<1> DEFINE q == b \div TwoTo[i]
           m == TwoTo[i] * D
<1>9. q < TwoTo[T]
  <2>1. m \in Nat \ {0}
    BY <1>3
  <2>2. q = a \div m
    BY <1>3, <1>5, DivideTwice
  <2> HIDE DEF q, m, b
  <2>3. q \in Nat /\ a = q * m + (a % m) /\ a % m \in Nat
    <3>1. a \div m \in Nat /\ a = (a \div m) * m + (a % m) /\ a % m \in 0..m - 1
      BY <1>5, <1>6, <2>1
    <3>2. a % m \in Nat
      BY <2>1, <3>1
    <3> QED BY <2>2, <3>1, <3>2, Zenon
  <2>4. q * m \in Nat
    BY <2>1, <2>3
  <2>5. SUFFICES ASSUME TwoTo[T] <= q PROVE FALSE
    BY <1>3, <2>3
  <2>6. TwoTo[T] * m <= q * m /\ TwoTo[T] * m \in Nat
    BY <1>3, <2>1, <2>3, <2>5, Products
  <2>7. a < TwoTo[T] * m
    BY <1>5 DEF m
  <2> QED BY <1>5, <2>3, <2>4, <2>6, <2>7
<1>10. q % TwoTo[T] = q
  <2> HIDE DEF q
  <2>1. \A x \in Nat, n \in Nat \ {0} : x < n => x % n = x
    OBVIOUS
  <2> QED BY <1>3, <1>8, <1>9, <2>1 DEF q
<1>11. TagOf(a) = q /\ IndexOf(a) = b % TwoTo[i] /\ b = q * TwoTo[i] + (b % TwoTo[i])
       /\ b % TwoTo[i] \in 0..TwoTo[i] - 1
  BY <1>3, <1>6, <1>7, <1>8, <1>10
<1> HIDE DEF q, b
<1>12. b = TagOf(a) * TwoTo[i] + IndexOf(a)
  BY <1>11
<1> QED BY <1>2, <1>8, <1>11, <1>12 DEF i, b, q

\* Two addresses are in the same block when they have the same index and the same tag.
LEMMA SameBlockSameFields ==
  ASSUME PowerOfTwoWords, NEW a \in Addresses, NEW b \in Addresses
  PROVE  SameBlock(a, b) <=> IndexOf(a) = IndexOf(b) /\ TagOf(a) = TagOf(b)
<1> DEFINE P == TwoTo[numIdxBits]
<1>1. P \in Nat \ {0}
  BY Widths
<1>2. /\ a \div BlockSize = TagOf(a) * P + IndexOf(a) /\ TagOf(a) \in Nat /\ IndexOf(a) \in 0..P - 1
      /\ b \div BlockSize = TagOf(b) * P + IndexOf(b) /\ TagOf(b) \in Nat /\ IndexOf(b) \in 0..P - 1
  BY BlockNumber
<1> HIDE DEF P
<1>3. /\ (TagOf(a) * P + IndexOf(a)) \div P = TagOf(a)
      /\ (TagOf(a) * P + IndexOf(a)) % P = IndexOf(a)
      /\ (TagOf(b) * P + IndexOf(b)) \div P = TagOf(b)
      /\ (TagOf(b) * P + IndexOf(b)) % P = IndexOf(b)
  <2>1. TagOf(a) \in Int /\ TagOf(b) \in Int
    BY <1>2
  <2> QED BY <1>1, <1>2, <2>1, Division
<1> QED BY <1>2, <1>3 DEF SameBlock

-----------------------------------------------------------------------------
(***************************************************************************)
(* The cache accessed by address.                                          *)
(***************************************************************************)
\* Whatever addresses the program accesses, the split stays within the tables: driven by
\* address, the cache is the cache of the tables.
THEOREM SplitStaysInTables == AddressedSpec => CacheSpec
<1>1. [AddressedNext]_cacheVars => [CacheNext]_cacheVars
  <2>1. ASSUME NEW address \in Addresses, AccessAddress(address)
        PROVE  CacheNext
    <3>1. IndexOf(address) \in Indices /\ TagOf(address) \in Tags
      BY IndexInTable, AddressAssumption
    <3> QED BY <2>1, <3>1 DEF AccessAddress, CacheNext
  <2> QED BY <2>1 DEF AddressedNext
<1> QED BY <1>1, PTL DEF AddressedSpec, CacheSpec

\* access by address is LRU in every set.
THEOREM AddressedIsLru == AddressedSpec => IsLru
BY SplitStaysInTables, CacheIsLru, PTL

\* The last access left its tag in its set.
LastIsIn == hits + misses > 0 => Matching(last.idx, last.tag) # {}

LEMMA AccessIsIn ==
  ASSUME CacheInv, NEW idx \in Indices, NEW t \in Tags, Access(idx, t)
  PROVE  LastIsIn'
<1>1. last'.idx = idx /\ last'.tag = t
  BY DEF Access, Hit, Miss
<1>2. CASE Hit(idx, t)
  <2>1. valid' = valid /\ tag' = tag /\ Matching(idx, t) # {}
    BY <1>2 DEF Hit
  <2> QED BY <1>1, <2>1 DEF LastIsIn, Matching
<1>3. CASE Miss(idx, t)
  <2>1. FindLRU(idx) \in Ways
    BY VictimIsLRU
  <2>2. valid'[idx][FindLRU(idx)] /\ tag'[idx][FindLRU(idx)] = t
    <3> HIDE DEF FindLRU
    <3> QED BY <1>3, <2>1 DEF Miss, CacheInv, CacheTypeOK
  <2> QED BY <1>1, <2>1, <2>2 DEF LastIsIn, Matching
<1> QED BY <1>2, <1>3 DEF Access

LEMMA LastStaysIn == AddressedSpec => []LastIsIn
<1>1. CacheInit => LastIsIn
  BY DEF CacheInit, LastIsIn
<1>2. CacheInv /\ LastIsIn /\ [CacheNext]_cacheVars => LastIsIn'
  <2>1. UNCHANGED cacheVars => (LastIsIn => LastIsIn')
    BY DEF cacheVars, LastIsIn, Matching
  <2> QED BY <2>1, AccessIsIn DEF CacheNext
<1> QED BY <1>1, <1>2, SplitStaysInTables, CacheInvariance, PTL DEF CacheSpec

\* An access leaves the whole block it is in resident, and nothing else where that block is:
\* a tag and an index name the block whatever the sizes, if a block is a power of two words.
THEOREM BlocksAreResident ==
  ASSUME PowerOfTwoWords
  PROVE  AddressedSpec => []BlockIsResident
<1>1. CacheInv /\ LastIsIn => BlockIsResident
  <2> SUFFICES ASSUME CacheInv, LastIsIn, hits + misses > 0,
                      NEW used \in Addresses, IndexOf(used) = last.idx, TagOf(used) = last.tag,
                      NEW a \in Addresses
               PROVE  SameBlock(a, used) <=>
                        /\ IndexOf(a) = last.idx
                        /\ WaysHolding(a) \cap WaysHolding(used) # {}
    BY DEF BlockIsResident
  <2>1. SameBlock(a, used) <=> IndexOf(a) = last.idx /\ TagOf(a) = last.tag
    BY SameBlockSameFields
  <2>2. WaysHolding(used) # {}
    BY DEF LastIsIn, WaysHolding
  <2>3. ASSUME IndexOf(a) = last.idx, TagOf(a) = last.tag
        PROVE  WaysHolding(a) = WaysHolding(used)
    BY <2>3 DEF WaysHolding
  <2>4. ASSUME IndexOf(a) = last.idx, WaysHolding(a) \cap WaysHolding(used) # {}
        PROVE  TagOf(a) = last.tag
    BY <2>4 DEF WaysHolding, Matching
  <2> QED BY <2>1, <2>2, <2>3, <2>4
<1> QED BY <1>1, LastStaysIn, SplitStaysInTables, CacheInvariance, PTL
=============================================================================
