SPECIFICATION StatsSpec
CONSTANTS
  Words <- CountedWords
  ICacheLatency = 1
  DCacheLatency = 2
  MaxDin = 5
INVARIANTS
  UserThenLoad
