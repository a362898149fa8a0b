SPECIFICATION DumpSpec
CONSTANTS
  ShownWords <- SomeShownWords
  Ranges <- SomeRanges
  MemorySize = 64
  EntriesPerRow = 5
INVARIANTS
  ShowsWhatExecutes
  ShowsOperands
  EveryRegisterDumped
  RowsAreLabelled
  RangeDumped
