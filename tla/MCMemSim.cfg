SPECIFICATION TidySpec
CONSTANTS
  Limit = 4
  Ranges <- SomeRanges
  Space = 3
  Prots = {{}, {"r"}}
  Byte = {0, 1}
INVARIANTS
  InOrder
  ReadsTheCells
PROPERTIES
  ImplementsMemory
