SPECIFICATION StatsSpec
CONSTANTS
  Words <- ChainWords
  ICacheLatency = 0
  DCacheLatency = 2
  MaxDin = 8
INVARIANTS
  StatsTypeOK
  LoadStallsCountEachPairOnce
