SPECIFICATION SimSpec
CONSTANTS
  Words <- SomeWords
  ICacheLatency = 1
  DCacheLatency = 2
  MaxDin = 6
  ByteSize = 4
  ByteBits = 2
  And <- AndOfBytes
  MemorySize = 32
  Instructions <- SomeInstructions
  ExceptionAddress = 16
  JumpRegion = 64
  Images <- SomeImages
  Files <- SomeFiles
  ICacheSize = 16
  ICacheBlock = 8
  ICacheWays = 1
  ICacheSets = 2
  DCacheSize = 8
  DCacheBlock = 4
  DCacheWays = 2
  DCacheSets = 1
  AddressBits = 8
  CacheTags <- SomeTags
INVARIANTS
  CachesSeeProgramOrder
PROPERTIES
  AgreesWithFunctSim
CHECK_DEADLOCK FALSE
