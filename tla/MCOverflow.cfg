SPECIFICATION EmulatorSpec
CONSTANTS
  ByteSize = 4
  ByteBits = 2
  And <- AndOfBytes
  MemorySize = 32
  Words <- AliasedWords
  Instructions <- AliasedInstructions
  ExceptionAddress = 16
  JumpRegion = 64
  Images <- SomeImages
  Files <- SomeFiles
  MaxDin = 4
PROPERTIES
  OverflowIsChecked
CHECK_DEADLOCK FALSE
