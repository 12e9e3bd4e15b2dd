------------------------------- MODULE MCGate -------------------------------
(* Three debugger front ends: the gdb stub, the Lua prompt and the terminal  *)
(* UI (cmd/cmd.go:379-421), each free to make any of the gate's calls.       *)
EXTENDS Gate
=============================================================================
