SPECIFICATION Spec
CONSTANTS
  Words <- HazardWords
  ICacheLatency = 2
  DCacheLatency = 2
  MaxDin = 5
INVARIANTS
  TypeOK
  ProgramOrder
  HaltNotMissed
  LoadUseInterlock
  BranchInterlock
  StallsExactlyOnDependence
  StallsAreGrounded
