SPECIFICATION Spec
CONSTANTS
  Clients = {gdb, repl}
  Stubs = {gdb}
  Main = main
  NoOne = noone
INVARIANT ShellcodeRuns
