SPECIFICATION AddressedSpec
CONSTANTS
  NumSets = 3
  NumWays = 3
  CacheSize = 72
  BlockSize = 8
  AddressBits = 6
  Addresses <- SomeAddresses
  Tags <- SomeTags
  MaxAccesses = 7
INVARIANTS
  CacheTypeOK
  LruRanksTheWays
  FreeWaysGoFirst
  NoTagTwice
  BlockIsResident
PROPERTIES
  IsLru
CHECK_DEADLOCK FALSE
