------------------------------ MODULE LruCache ------------------------------
(***************************************************************************)
(* What a set-associative cache with least-recently-used replacement       *)
(* promises: a set holds a tag until NumWays others have been used since   *)
(* its last use, and an access hits when its tag is held.                  *)
(***************************************************************************)
EXTENDS Naturals, FiniteSets

CONSTANTS NumSets, NumWays, Tags

VARIABLES
  since,         \* per set, the tags it holds, each with the others used since it was
  last,          \* the set and the tag of the last access, and whether it hit
  hits, misses   \* how many accesses hit and missed

lruVars == <<since, last, hits, misses>>

Held(idx) == DOMAIN since[idx]

\* t has been used since every other tag was; one that NumWays others were used since goes.
Touched(before, t) ==
  LET after == [u \in DOMAIN before \cup {t} |-> IF u = t THEN {} ELSE before[u] \cup {t}]
  IN  [u \in {v \in DOMAIN after : Cardinality(after[v]) < NumWays} |-> after[u]]

LruInit ==
  /\ since = [idx \in 0..NumSets - 1 |-> << >>]
  /\ last = [idx |-> 0, tag |-> 0, hit |-> FALSE]
  /\ hits = 0 /\ misses = 0

Use(idx, t) ==
  /\ since' = [since EXCEPT ![idx] = Touched(since[idx], t)]
  /\ last' = [idx |-> idx, tag |-> t, hit |-> t \in Held(idx)]
  /\ hits' = IF last'.hit THEN hits + 1 ELSE hits
  /\ misses' = IF last'.hit THEN misses ELSE misses + 1

LruNext == \E idx \in 0..NumSets - 1, t \in Tags : Use(idx, t)

LruSpec == LruInit /\ [][LruNext]_lruVars
=============================================================================
