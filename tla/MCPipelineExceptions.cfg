SPECIFICATION FairSpec
CONSTANTS
  Words <- ExceptionWords
  ICacheLatency = 2
  DCacheLatency = 2
  MaxDin = 7
INVARIANTS
  NothingBehindHaltOrException
  SquashHitsException
  PauseMatchesException
  ShowsThePipeline
PROPERTIES
  RefinesInOrder
  Termination
