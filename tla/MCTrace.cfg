SPECIFICATION Spec
CONSTANTS
  Ranges <- SomeRanges
  Prots = {{}}
  Byte = {0, 1}
  Regs = {"ret", "sp"}
  Ret = "ret"
  SP = "sp"
  Code = {1, 2, 3}
  Values = {0, 1}
  Loaded <- SomeMemories
  MaxSteps = 2
  MaxStops = 1
  MaxRewinds = 2
  MaxRepeats = 1
INVARIANT InStep FileRetells CountsOnce
PROPERTY RewindsStraightBack
CHECK_DEADLOCK FALSE
