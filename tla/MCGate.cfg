SPECIFICATION FairGateSpec
CONSTANTS
  Clients = {gdb, repl, tui}
  Main = main
  NoOne = noone
INVARIANTS
  GateInv
  NoTurnSkipped
  NoLostWakeup
PROPERTIES
  CountedInNotify
  TakesTurns
  CallsReturn
CHECK_DEADLOCK FALSE
