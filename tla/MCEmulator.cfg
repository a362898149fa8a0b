SPECIFICATION EmulatorSpec
CONSTANTS
  ByteSize = 4
  ByteBits = 2
  And <- AndOfBytes
  MemorySize = 32
  Words <- SomeWords
  Instructions <- SomeInstructions
  ExceptionAddress = 16
  JumpRegion = 64
  Images <- SomeImages
  Files <- SomeFiles
  MaxDin = 4
INVARIANTS
  EmulatorTypeOK
  NeverABubble
  NextPCIsWhereExecutionGoes
  StartsAsLoaded
PROPERTIES
  HasDelaySlots
  ExceptionsArePrecise
  OverflowUnlessAliased
  LoadsSeeStores
CHECK_DEADLOCK FALSE
