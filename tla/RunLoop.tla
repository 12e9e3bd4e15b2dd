------------------------------ MODULE RunLoop ------------------------------
(***************************************************************************)
(* Usercorn.Run and the goroutines that share the emulator with it.        *)
(*                                                                         *)
(* Main (the goroutine in Run) starts the emulator with the gate held,     *)
(* gives the gate to the waiting front ends when the emulator stops, runs  *)
(* the trampolines that the last run queued, and goes round again.  A      *)
(* front end that holds the gate changes registers, resumes or steps the   *)
(* emulator, or closes and ends the program.  The gate is module Gate.     *)
(*                                                                         *)
(* Registers are abstracted to the program counter, and its values to what *)
(* tells apart whose address it is: "entry", "guest" (where the program    *)
(* is or stopped), "exit" (where it is to end), "chosen" (written by a     *)
(* front end), "code" (shellcode).                                         *)
(***************************************************************************)
EXTENDS Gate

CONSTANT Stubs     \* the clients that are gdb stubs; the others are Lua prompts

ASSUME StubsAssumption == Stubs \subseteq Clients

VARIABLES
  rpc,         \* where Main is in Run
  err,         \* Run's err is not nil
  exitStatus,  \* Usercorn.exitStatus is not nil
  pc,          \* the program counter register
  at,          \* Run's local "pc": where to start, or to go back to
  trampolines, \* Usercorn.trampolines: what is to run after this stop
  todo,        \* the trampolines of Run's loop over them that are still to run
  mapped,      \* memory mapped by RunShellcode is still there
  armed,       \* clients whose step hook is installed
  quit,        \* prompts that have called Exit on closing
  \* History, read by the properties only.
  ended,       \* Exit has been called since Run reset exitStatus
  want,        \* where the guest is to go on: where it stopped, or as chosen
  cut          \* shellcode was stopped before its end and nobody was told

loopVars == <<rpc, err, exitStatus, pc, at, trampolines, todo, mapped, armed, quit,
              ended, want, cut>>
vars == <<gateVars, loopVars>>

Rpcs == {"boot", "reset", "entry", "test", "starting", "checked", "ready", "guest",
         "stopping", "tramp", "code", "done"}
Pcs == {"none", "entry", "guest", "exit", "chosen", "code"}
Tramps == {"noop", "code", "unmap"}

LoopTypeOK ==
  /\ rpc \in Rpcs
  /\ err \in BOOLEAN /\ exitStatus \in BOOLEAN /\ mapped \in BOOLEAN
  /\ ended \in BOOLEAN /\ cut \in BOOLEAN
  /\ pc \in Pcs /\ at \in Pcs /\ want \in Pcs
  /\ trampolines \in Seq(Tramps) /\ todo \in Seq(Tramps)
  /\ armed \subseteq Clients /\ quit \subseteq Clients
  /\ rpc = "code" => todo # <<>> /\ Head(todo) = "code"

Init ==
  /\ GateInit
  /\ rpc = "boot"
  /\ err = FALSE /\ exitStatus = FALSE
  /\ pc = "none" /\ at = "none"
  /\ trampolines = <<>> /\ todo = <<>>
  /\ mapped = FALSE
  /\ armed = {} /\ quit = {}
  /\ ended = FALSE /\ want = "entry" /\ cut = FALSE

RunGoto(from, to) == rpc = from /\ rpc' = to

-----------------------------------------------------------------------------
(* Before Run: the gate is locked for each front end before its goroutine  *)
(* starts.                                                                 *)

Attach(c) ==
  /\ rpc = "boot"
  /\ c \notin quit
  /\ ClientLock(c)
  /\ UNCHANGED loopVars

\* OS setup, trace and hooks: each may fail, and Run returns.
Setup ==
  /\ rpc = "boot"
  /\ \A c \in Clients : cpc[c] # "outside" \/ c \in quit
  /\ rpc' \in {"reset", "done"}
  /\ err' = (rpc' = "done")
  /\ UNCHANGED <<exitStatus, pc, at, trampolines, todo, mapped, armed, quit,
                 ended, want, cut, gateVars>>

ResetExit ==
  /\ RunGoto("reset", "entry")
  /\ exitStatus' = FALSE
  /\ UNCHANGED <<err, pc, at, trampolines, todo, mapped, armed, quit,
                 ended, want, cut, gateVars>>

WriteEntry ==
  /\ RunGoto("entry", "test")
  /\ pc' = "entry"
  /\ want' = "entry"
  /\ UNCHANGED <<err, exitStatus, at, trampolines, todo, mapped, armed, quit,
                 ended, cut, gateVars>>

-----------------------------------------------------------------------------
(* The loop.                                                               *)

LoopTest ==
  /\ rpc = "test"
  /\ rpc' = IF err \/ exitStatus THEN "done" ELSE "starting"
  /\ UNCHANGED <<err, exitStatus, pc, at, trampolines, todo, mapped, armed, quit,
                 ended, want, cut, gateVars>>

InGateStart == rpc = "starting" /\ MainStart /\ UNCHANGED loopVars

\* The second look at exitStatus.  Run returns with the gate still locked.
BreakOut ==
  /\ RunGoto("starting", "done")
  /\ mpc = "running"
  /\ exitStatus
  /\ UNCHANGED <<err, exitStatus, pc, at, trampolines, todo, mapped, armed, quit,
                 ended, want, cut, gateVars>>

KeepOnUnsynced ==   \* mutant: no gate.Start
  /\ RunGoto("starting", "checked")
  /\ ~exitStatus
  /\ UNCHANGED <<err, exitStatus, pc, at, trampolines, todo, mapped, armed, quit,
                 ended, want, cut, gateVars>>

KeepOnAnyway ==   \* mutant: exitStatus is not looked at again
  /\ RunGoto("starting", "checked")
  /\ mpc = "running"
  /\ UNCHANGED <<err, exitStatus, pc, at, trampolines, todo, mapped, armed, quit,
                 ended, want, cut, gateVars>>

KeepOn ==
  /\ RunGoto("starting", "checked")
  /\ mpc = "running"
  /\ ~exitStatus
  /\ UNCHANGED <<err, exitStatus, pc, at, trampolines, todo, mapped, armed, quit,
                 ended, want, cut, gateVars>>

ReadPc ==
  /\ RunGoto("checked", "ready")
  /\ at' = pc
  /\ UNCHANGED <<err, exitStatus, pc, trampolines, todo, mapped, armed, quit,
                 ended, want, cut, gateVars>>

\* Start runs the guest from the address just read.
StartGuest ==
  /\ RunGoto("ready", "guest")
  /\ pc' = "guest"
  /\ want' = "guest"
  /\ UNCHANGED <<err, exitStatus, at, trampolines, todo, mapped, armed, quit,
                 ended, cut, gateVars>>

(* How a run of the guest ends.                                            *)

\* By Stop in the hook of a prompt's step, or with an error.
GuestStops ==
  /\ RunGoto("guest", "stopping")
  /\ err' \in BOOLEAN
  /\ UNCHANGED <<exitStatus, pc, at, trampolines, todo, mapped, armed, quit,
                 ended, want, cut, gateVars>>

\* At Usercorn.exit, the address that Run gives the emulator to stop at.
GuestEnds ==
  /\ RunGoto("guest", "stopping")
  /\ pc' = "exit" /\ want' = "exit"
  /\ UNCHANGED <<err, exitStatus, at, trampolines, todo, mapped, armed, quit,
                 ended, cut, gateVars>>

\* In a hook that calls Trampoline with the function t: a breakpoint ("noop").
GuestTrampolines(ts) ==
  /\ RunGoto("guest", "stopping")
  /\ trampolines' = trampolines \o ts
  /\ UNCHANGED <<err, exitStatus, pc, at, todo, armed, quit, ended, want, cut, gateVars>>

GuestBreaks == GuestTrampolines(<<"noop">>) /\ UNCHANGED mapped

\* In a system call that calls RunShellcode or RunAsm: the memory is mapped there
\* and then, the code and its unmapping are put off.
GuestRunsShellcode == GuestTrampolines(<<"code", "unmap">>) /\ mapped' = TRUE

\* In a system call that calls Exit.
GuestExits ==
  /\ RunGoto("guest", "stopping")
  /\ exitStatus' = TRUE
  /\ ended' = TRUE
  /\ UNCHANGED <<err, pc, at, trampolines, todo, mapped, armed, quit, want, cut, gateVars>>

InGateStop == rpc = "stopping" /\ (StopCall \/ MainStop) /\ UNCHANGED loopVars

(* After gate.Stop: here the front ends have the gate, and Main goes on.   *)

TakeTrampolines ==
  /\ rpc = "stopping"
  /\ mpc = "idle"
  /\ at' = pc
  /\ todo' = trampolines
  /\ trampolines' = <<>>
  /\ rpc' = IF trampolines = <<>> THEN "test" ELSE "tramp"
  /\ UNCHANGED <<err, exitStatus, pc, mapped, armed, quit, ended, want, cut, gateVars>>

\* The trampolines run whatever err the guest stopped with, and theirs takes its place;
\* only the error of one keeps those behind it from running.
RunNoop ==
  /\ rpc = "tramp"
  /\ todo # <<>> /\ Head(todo) = "noop"
  /\ todo' = Tail(todo)
  /\ err' = FALSE
  /\ UNCHANGED <<rpc, exitStatus, pc, at, trampolines, mapped, armed, quit,
                 ended, want, cut, gateVars>>

RunUnmap ==
  /\ rpc = "tramp"
  /\ todo # <<>> /\ Head(todo) = "unmap"
  /\ todo' = Tail(todo)
  /\ mapped' = FALSE
  /\ err' = FALSE
  /\ UNCHANGED <<rpc, exitStatus, pc, at, trampolines, armed, quit,
                 ended, want, cut, gateVars>>

\* RunShellcodeMapped starts the emulator itself; neither it nor the emulator
\* looks at the gate.
StartCodeTaken ==   \* mutant: the trampoline is dropped before it has run
  /\ RunGoto("tramp", "code")
  /\ todo # <<>> /\ Head(todo) = "code"
  /\ pc' = "code"
  /\ todo' = Tail(todo)
  /\ UNCHANGED <<err, exitStatus, at, trampolines, mapped, armed, quit,
                 ended, want, cut, gateVars>>

StartCode ==
  /\ RunGoto("tramp", "code")
  /\ todo # <<>> /\ Head(todo) = "code"
  /\ pc' = "code"
  /\ UNCHANGED <<err, exitStatus, at, trampolines, todo, mapped, armed, quit,
                 ended, want, cut, gateVars>>

CodeEndsAll ==   \* mutant: the other trampolines are dropped
  /\ RunGoto("code", "tramp")
  /\ err' \in BOOLEAN
  /\ todo' = <<>>
  /\ UNCHANGED <<exitStatus, pc, at, trampolines, mapped, armed, quit,
                 ended, want, cut, gateVars>>

CodeEnds ==
  /\ RunGoto("code", "tramp")
  /\ err' \in BOOLEAN
  /\ todo' = IF err' THEN <<>> ELSE Tail(todo)
  /\ UNCHANGED <<exitStatus, pc, at, trampolines, mapped, armed, quit,
                 ended, want, cut, gateVars>>

\* A step hook that is still installed stops the shellcode as it would the guest.
\* The stub's hook does so by queueing a trampoline, the prompt's by Stop.
CodeIsStepped(c) ==
  /\ RunGoto("code", "tramp")
  /\ c \in armed
  /\ cut' = TRUE
  /\ todo' = Tail(todo)
  /\ err' = FALSE
  /\ trampolines' = IF c \in Stubs THEN Append(trampolines, "noop") ELSE trampolines
  /\ UNCHANGED <<exitStatus, pc, at, mapped, armed, quit, ended, want, gateVars>>

RestoreNothing ==   \* mutant: pc is not written back
  /\ RunGoto("tramp", "test")
  /\ todo = <<>>
  /\ UNCHANGED <<err, exitStatus, pc, at, trampolines, todo, mapped, armed, quit,
                 ended, want, cut, gateVars>>

RestorePc ==
  /\ RunGoto("tramp", "test")
  /\ todo = <<>>
  /\ pc' = at
  /\ UNCHANGED <<err, exitStatus, at, trampolines, todo, mapped, armed, quit,
                 ended, want, cut, gateVars>>

Guest == GuestStops \/ GuestEnds \/ GuestBreaks \/ GuestRunsShellcode \/ GuestExits

RunMain ==
  \/ Setup \/ ResetExit \/ WriteEntry
  \/ LoopTest \/ BreakOut \/ KeepOn \/ ReadPc \/ StartGuest
  \/ TakeTrampolines \/ RunNoop \/ RunUnmap \/ StartCode \/ CodeEnds \/ RestorePc
  \/ \E c \in Clients : CodeIsStepped(c)

-----------------------------------------------------------------------------
(* The front ends.  They act while they hold the gate, until Run returns   *)
(* and the program ends.                                                   *)

AtPrompt(c) == rpc # "done" /\ cpc[c] = "inside" /\ c \notin armed \cup quit

\* A register write at the prompt, or a rewind.
ChoosePc(c) ==
  /\ AtPrompt(c)
  /\ c \notin Stubs
  /\ pc' = "chosen"
  /\ want' = "chosen"
  /\ UNCHANGED <<rpc, err, exitStatus, at, trampolines, todo, mapped, armed, quit,
                 ended, cut, gateVars>>

Continue(c) ==
  /\ AtPrompt(c)
  /\ RelockAddFirst(c)
  /\ UNCHANGED loopVars

\* A step installs its hook, continues, and removes the hook when it is back.
Step(c) ==
  /\ AtPrompt(c)
  /\ armed' = armed \cup {c}
  /\ RelockAddFirst(c)
  /\ UNCHANGED <<rpc, err, exitStatus, pc, at, trampolines, todo, mapped, quit,
                 ended, want, cut>>

Disarm(c) ==
  /\ rpc # "done" /\ cpc[c] = "inside"
  /\ c \in armed
  /\ armed' = armed \ {c}
  /\ UNCHANGED <<rpc, err, exitStatus, pc, at, trampolines, todo, mapped, quit,
                 ended, want, cut, gateVars>>

\* Stop at a prompt: the guest is stopped already, but shellcode may be running.
StopCode(c) ==
  /\ AtPrompt(c)
  /\ c \notin Stubs
  /\ RunGoto("code", "tramp")
  /\ cut' = TRUE
  /\ todo' = Tail(todo)
  /\ err' = FALSE
  /\ UNCHANGED <<exitStatus, pc, at, trampolines, mapped, armed, quit,
                 ended, want, gateVars>>

\* A prompt that is closed: Exit, then Unlock.  Shellcode that is running ends.
Exit(c) ==
  /\ AtPrompt(c)
  /\ c \notin Stubs
  /\ exitStatus' = TRUE
  /\ quit' = quit \cup {c}
  /\ ended' = (ended \/ rpc \notin {"boot", "reset"})
  /\ UNCHANGED <<rpc, err, pc, at, trampolines, todo, mapped, armed, want, cut, gateVars>>

LeaveLocked(c) ==   \* mutant: no Unlock
  /\ rpc # "done"
  /\ c \in quit
  /\ Goto(c, "inside", "outside")
  /\ UNCHANGED <<holder, wg, startCb, stopCb, sent, mpc, loopVars>>

Leave(c) ==
  /\ rpc # "done"
  /\ c \in quit
  /\ ClientUnlock(c)
  /\ UNCHANGED loopVars

InGateCall(c) ==
  /\ rpc # "done"
  /\ RelockAddSecond(c) \/ RelockUnlock(c) \/ RelockCount(c) \/ RelockDone(c)
  /\ UNCHANGED loopVars

Reenter(c) == rpc # "done" /\ Relock(c) /\ UNCHANGED loopVars

Command(c) == ChoosePc(c) \/ Continue(c) \/ Step(c) \/ StopCode(c) \/ Exit(c)

\* Run has returned, and with it the program ends.
Finished == rpc = "done" /\ UNCHANGED vars

Next ==
  \/ RunMain \/ InGateStart \/ Guest \/ InGateStop
  \/ \E c \in Clients : Attach(c) \/ Command(c) \/ Disarm(c) \/ Leave(c)
                          \/ InGateCall(c) \/ Reenter(c)
  \/ Finished

Spec == Init /\ [][Next]_vars

(* Every goroutine that can go on does, and the gate's mutex is fair (see  *)
(* Gate).  Nothing is assumed of the guest, of shellcode, or of the users. *)
Fairness ==
  /\ WF_vars(RunMain) /\ \A c \in Clients : SF_vars(Attach(c))
  /\ SF_vars(InGateStart)
  /\ WF_vars(InGateStop)
  /\ \A c \in Clients : WF_vars(InGateCall(c)) /\ WF_vars(Leave(c)) /\ SF_vars(Reenter(c))

FairSpec == Spec /\ Fairness

-----------------------------------------------------------------------------
(* Properties.                                                             *)

\* No front end acts on the emulator from the moment Run has looked at
\* exitStatus until the guest has stopped: what Run checks and reads at 452-455 is
\* still so when it starts the emulator at 456.
GuestRunsAlone ==
  rpc \in {"checked", "ready", "guest"} => \A c \in Clients : cpc[c] \notin Holding

\* The guest goes on only when every trampoline of its last stop has run: the memory
\* that RunShellcode or RunAsm mapped has been unmapped, even if a front end stopped
\* the shellcode half way (usercorn.go:466-480, 904-908).
NothingLeftOver ==
  rpc \in {"checked", "ready"} => ~mapped /\ todo = <<>>

\* What makes these and the next two inductive.  Where Main is in Run tells where it
\* is in the gate ...
RpcInv ==
  CASE rpc \in {"boot", "reset", "entry", "test", "tramp", "code"} -> mpc = "idle"
    [] rpc = "starting" -> mpc \in {"idle", "startNotify", "startWait", "running"}
    [] rpc \in {"checked", "ready", "guest"} -> mpc = "running"
    [] rpc = "stopping" -> mpc \in {"running", "stopNotify", "stopUnlock", "stopWait", "idle"}
    [] OTHER -> TRUE

\* ... an Exit is remembered until Run has looked for it ...
ExitInv ==
  /\ rpc \in {"boot", "reset"} => ~ended
  /\ ended => exitStatus
  /\ rpc \in {"checked", "ready"} => ~exitStatus

\* ... the place to go on is in the register, or in Run's copy of it ...
PcInv ==
  want # "chosen" =>
    /\ rpc \in {"test", "starting", "checked", "guest", "stopping"} => pc = want
    /\ rpc \in {"ready", "tramp", "code"} => at = want

\* ... and behind every shellcode is the trampoline that unmaps it, unless the
\* shellcode failed and Run ends.
UnmapsLast(ts) == ts # <<>> /\ ts[Len(ts)] = "unmap"
MappedInv ==
  /\ rpc \notin {"tramp", "code"} => todo = <<>>
  /\ mapped => \/ rpc = "stopping" /\ UnmapsLast(trampolines)
               \/ rpc \in {"tramp", "code"} /\ UnmapsLast(todo)
               \/ rpc \in {"tramp", "test", "done"} /\ err /\ todo = <<>>

LoopInv == LoopTypeOK /\ RpcInv /\ ExitInv /\ PcInv /\ MappedInv

\* After Exit has been called the guest does not run again, whoever called it and
\* whichever of the two tests of exitStatus Run is past (usercorn.go:447-453).
NoGuestAfterExit == [][StartGuest => ~ended]_vars

\* Unless a front end has chosen otherwise, the guest goes on where it stopped,
\* whatever shellcode has run in between (usercorn.go:465-482).
ResumesWhereStopped == [][StartGuest => want = "chosen" \/ at = want]_vars

\* As long as runs of the guest and of shellcode end and no user sits at a prompt
\* forever, a front end that resumes the emulator gets it back, or Run returns.
FrontEndsServed ==
  (/\ []<>(rpc \notin {"guest", "code"})
   /\ \A c \in Clients : []<>(cpc[c] # "inside"))
    => \A c \in Clients : Blocked(c) ~> ~Blocked(c) \/ rpc = "done"

(* What comments and docs say, and the code does not do.                   *)

\* "allow a repl to break us out with u.Exit() before we run" (usercorn.go:450).
ExitBeforeRun == [][StartGuest => quit = {}]_vars

\* "allow repl or rewind to change pc" (usercorn.go:454).
ChosenPcIsUsed == [][StartGuest => at = want]_vars

\* "maps and runs shellcode at addr" (usercorn.go:889).
ShellcodeRuns == ~cut
=============================================================================
