----------------------------- MODULE MCRunLoop -----------------------------
(* A gdb stub and a Lua prompt attached to one emulator (cmd/cmd.go:380-421). *)
EXTENDS RunLoop
=============================================================================
