SPECIFICATION PartsSpec
CONSTANTS
  Code = {1, 2}
  MaxPackets = 4
  MaxBreaks = 1
  CBs = 2
  Used = {3, 4}
  Sizes = {1}
  Messages <- PovMessages
  MaxBytes = 1
  MaxMessages = 2
  Dirs <- TwoDirs
  Size <- EntrySize
  MaxFd = 4
  Counts = {1, 2, 3}
  MaxFileCalls = 3
  NumFds = 5
  HostFds <- SevenFds
  Others = {3}
  Chunk = 2
  Cells <- FourCells
  Buffers <- SomeBuffers
  StreamLen = 4
  MaxTransfers = 2
  Methods <- TwoKernels
  Names <- CallNames
  NumbersCalled <- CallNumbers
  Nested <- NestedNames
  ArgRegs = 2
  SysHooks = {"trace"}
  Values = {1, 2}
  Strings = {1}
  MaxCalls = 2
  Askers = {"main", "prompt"}
  Addrs = {2, 4, 7}
  Tables <- SomeTables
  Places <- TwoPlaces
  MaxAsks = 1
  WordSizes = {4, 8}
  Lengths = {1, 5}
  MaxStrings = 2
  StackTop = 512
  StackSize = 300
INVARIANTS
  StepsOne
  ReadsWholeFrames
  NobodySleepsOnBytes
  FilesFollowHost
  ListedOnce
  HandlesAreOpen
  BatchRetells
  LoadsPrograms
  ImageShowsMemory
  FindsSymbols
  StartsAligned
  CountsWhatMoved
  HooksBracketCalls
PROPERTIES
  StopsAtBreakpoints
  AnswersComeBack
CHECK_DEADLOCK FALSE
