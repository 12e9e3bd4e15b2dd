SPECIFICATION FairSpec
CONSTANTS
  Clients = {gdb, repl}
  Stubs = {gdb}
  Main = main
  NoOne = noone
INVARIANTS
  LoopInv
  GuestRunsAlone
  NothingLeftOver
PROPERTIES
  NoGuestAfterExit
  ResumesWhereStopped
  FrontEndsServed
