SPECIFICATION Spec
CONSTANTS
  Limit = 4
  Ranges <- SomeRanges
  Space = 4
  Prots = {{}, {"r"}}
  Byte = {0, 1}
INVARIANT HidesNothing
