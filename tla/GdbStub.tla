------------------------------ MODULE GdbStub ------------------------------
(***************************************************************************)
(* A gdb at the emulator's stub (debug/gdbstub.go): the debugger, the      *)
(* goroutine that answers its packets, the one that looks for interrupts,  *)
(* and Main with the guest and its code hooks.                             *)
(*                                                                         *)
(* The gate is held by Main or by the stub: Gate is shown to come to that. *)
(* Instructions have size 1.  A packet is a command and an address; the    *)
(* commands that change nothing are "ask", when they are answered, and     *)
(* "tell", when they are not (M, G, QStartNoAckMode and the unknown).      *)
(***************************************************************************)
EXTENDS Hooks, FiniteSets

CONSTANTS
  Code,        \* addresses of instructions
  MaxPackets,  \* bound: packets that gdb sends
  MaxBreaks    \* bound: interrupts that it sends

ASSUME GdbAssumption == Code \subseteq Nat \ {0} /\ Code # {} /\ {MaxPackets, MaxBreaks} \subseteq Nat

VARIABLES
  \* The debugger.
  asked,       \* the packet it waits to be answered, or Nothing
  believed,    \* the breakpoints it has set
  packets, breaks,
  connected,
  input,       \* what is on the wire to the stub, an element a byte or a packet
  \* The stub.
  stub,        \* where gdbClient.Run is
  poll,        \* where its goroutine is
  loop,        \* who holds its mutex
  table,       \* gdbClient.breakpoints
  first,       \* the step hook has not been called yet
  \* Main and the guest.
  gate,        \* who holds the gate
  main,        \* "waiting" in gate.Start, "running" the guest, or "ended"
  pc, hooks,   \* the CPU's program counter and hooks
  stopping,    \* the guest has been asked to stop
  \* History.
  dropped,     \* breakpoints that were removed at any time
  from, ran    \* where the guest was resumed, and how many instructions it did since

gdbVars == <<asked, believed, packets, breaks, connected>>
stubVars == <<stub, poll, loop, table, first>>
mainVars == <<gate, main, pc, hooks, stopping, dropped, from, ran>>
vars == <<gdbVars, input, stubVars, mainVars>>

Packet(c, a) == [cmd |-> c, addr |-> a]
Nothing == Packet("none", 0)
Break == Packet("break", 0)
Ack == Packet("ack", 0)
Resumes == {"c", "s"}

\* The hooks added for Z and for s.
BreakHook(a) == Hook("code", {}, a, a + 1, "break")
StepHook == Hook("code", {}, 1, 0, "step")

Init ==
  /\ asked = Nothing /\ believed = {} /\ packets = 0 /\ breaks = 0 /\ connected = TRUE /\ input = <<>>
  /\ stub = "locking" /\ poll = "lock" /\ loop = "none" /\ table = {} /\ first = FALSE
  /\ gate = "stub" /\ main = "waiting" /\ pc \in Code /\ hooks = <<>> /\ stopping = FALSE
  /\ dropped = {} /\ from = pc /\ ran = 0

-----------------------------------------------------------------------------
(* The debugger: one packet at a time, interrupts while the guest runs.    *)

SendPacket ==
  /\ connected /\ asked = Nothing /\ packets < MaxPackets
  /\ asked' \in {Packet("Z", a) : a \in Code \ believed} \cup {Packet("z", a) : a \in believed}
                \cup {Packet(c, 0) : c \in {"ask", "tell", "c", "s", "D"}}
  /\ packets' = packets + 1 /\ input' = Append(input, asked')
  /\ UNCHANGED <<believed, breaks, connected, stubVars, mainVars>>

SendBreak ==
  /\ connected /\ asked.cmd \in Resumes /\ breaks < MaxBreaks
  /\ breaks' = breaks + 1 /\ input' = Append(input, Break)
  /\ UNCHANGED <<asked, believed, packets, connected, stubVars, mainVars>>

\* Tired of waiting, it goes on, or it closes the connection.
GiveUp ==
  /\ connected
  /\ \/ asked.cmd = "tell" /\ UNCHANGED connected
     \/ connected' = FALSE
  /\ asked' = Nothing
  /\ UNCHANGED <<believed, packets, breaks, input, stubVars, mainVars>>

\* What reaches it when the stub answers, and its acknowledgement.
Answered(rest) ==
  /\ asked' = Nothing
  /\ believed' = IF asked.cmd = "Z" THEN believed \cup {asked.addr}
                 ELSE IF asked.cmd = "z" THEN believed \ {asked.addr} ELSE believed
  /\ input' = IF connected THEN Append(rest, Ack) ELSE rest
  /\ UNCHANGED <<packets, breaks, connected>>

-----------------------------------------------------------------------------
(* gdbClient.Run.                                                          *)

StubGoto(a, b) == stub = a /\ stub' = b

StubUnlock ==
  /\ StubGoto("lock", "locking") /\ loop' = "none"
  /\ UNCHANGED <<gdbVars, input, poll, table, first, mainVars>>

StubLock ==
  /\ StubGoto("locking", "peek") /\ loop = "none" /\ loop' = "stub"
  /\ UNCHANGED <<gdbVars, input, poll, table, first, mainVars>>

\* An interrupt is left for the other goroutine, an acknowledgement taken.
StubPeek ==
  /\ stub = "peek"
  /\ \/ input # <<>> /\ Head(input) = Break /\ stub' = "lock" /\ UNCHANGED <<input, loop>>
     \/ input # <<>> /\ Head(input) = Ack /\ stub' = "read" /\ input' = Tail(input) /\ UNCHANGED loop
     \/ input # <<>> /\ Head(input) \notin {Break, Ack} /\ stub' = "read" /\ UNCHANGED <<input, loop>>
     \/ input = <<>> /\ ~connected /\ stub' = "gone" /\ loop' = "none" /\ UNCHANGED input
  /\ UNCHANGED <<gdbVars, poll, table, first, mainVars>>

\* ReadBytes and the checksum.  Nothing but a packet is ever next here: gdb interrupts
\* only when its packet has been read.
StubRead ==
  /\ stub = "read"
  /\ \/ input # <<>> /\ stub' = "handle" /\ UNCHANGED loop
     \/ input = <<>> /\ ~connected /\ stub' = "gone" /\ loop' = "none"
  /\ UNCHANGED <<gdbVars, input, poll, table, first, mainVars>>

\* Handle, for a packet that does not resume the guest.
Handled == stub = "handle"

HandleAsk ==
  /\ Handled /\ Head(input).cmd = "ask" /\ stub' = "lock"
  /\ Answered(Tail(input))
  /\ UNCHANGED <<poll, loop, table, first, mainVars>>

HandleTell ==
  /\ Handled /\ Head(input).cmd = "tell" /\ stub' = "lock" /\ input' = Tail(input)
  /\ UNCHANGED <<gdbVars, poll, loop, table, first, mainVars>>

HandleZ ==
  /\ Handled /\ Head(input).cmd = "Z" /\ stub' = "lock"
  /\ LET a == Head(input).addr IN
     /\ hooks' = IF a \in table THEN hooks ELSE HookAdd(hooks, BreakHook(a))
     /\ table' = table \cup {a}
  /\ Answered(Tail(input))
  /\ UNCHANGED <<poll, loop, first, gate, main, pc, stopping, dropped, from, ran>>

Handlez ==
  /\ Handled /\ Head(input).cmd = "z" /\ stub' = "lock"
  /\ LET a == Head(input).addr IN
     /\ hooks' = IF a \in table THEN HookDel(hooks, BreakHook(a)) ELSE hooks
     /\ dropped' = dropped \cup {a}
  /\ Answered(Tail(input))
  /\ UNCHANGED <<poll, loop, table, first, gate, main, pc, stopping, from, ran>>

\* UnlockStopRelock, after adding the step hook for s.
HandleResume ==
  /\ Handled /\ Head(input).cmd \in Resumes /\ input' = Tail(input)
  /\ stub' = IF Head(input).cmd = "c" THEN "continuing" ELSE "stepping"
  /\ first' = (Head(input).cmd = "s")
  /\ hooks' = IF Head(input).cmd = "s" THEN HookAdd(hooks, StepHook) ELSE hooks
  /\ gate' = "main" /\ from' = pc /\ ran' = 0
  /\ UNCHANGED <<gdbVars, poll, loop, table, main, pc, stopping, dropped>>

\* It returns when the guest has stopped; the step hook is removed.
Report ==
  /\ stub \in {"continuing", "stepping"} /\ gate = "stub" /\ stub' = "lock"
  /\ hooks' = IF stub = "stepping" THEN HookDel(hooks, StepHook) ELSE hooks
  /\ Answered(input)
  /\ UNCHANGED <<poll, loop, table, first, gate, main, pc, stopping, dropped, from, ran>>

\* The gate is not unlocked.
HandleDetach ==
  /\ Handled /\ Head(input).cmd = "D" /\ input' = Tail(input) /\ stub' = "gone" /\ loop' = "none"
  /\ connected' = FALSE /\ asked' = Nothing
  /\ UNCHANGED <<believed, packets, breaks, poll, table, first, mainVars>>

Stub == StubUnlock \/ StubPeek \/ StubRead \/ HandleAsk \/ HandleTell \/ HandleZ \/ Handlez
        \/ HandleResume \/ Report \/ HandleDetach

-----------------------------------------------------------------------------
(* The goroutine that polls for interrupts.                                *)

PollLock ==
  /\ poll = "lock" /\ loop = "none" /\ loop' = "poll" /\ poll' = "peek"
  /\ UNCHANGED <<gdbVars, input, stub, table, first, mainVars>>

\* It waits for a byte with the mutex held, and keeps it when the connection is closed.
PollPeekKeeping ==   \* mutant: the mutex is not unlocked behind a packet
  /\ poll = "peek"
  /\ \/ /\ input # <<>> /\ Head(input) = Break
        /\ input' = Tail(input) /\ stopping' = (main = "running") /\ poll' = "lock" /\ loop' = "none"
     \/ /\ input # <<>> /\ Head(input) # Break
        /\ poll' = "lock" /\ UNCHANGED <<input, stopping, loop>>
     \/ input = <<>> /\ ~connected /\ poll' = "gone" /\ UNCHANGED <<input, stopping, loop>>
  /\ UNCHANGED <<gdbVars, stub, table, first, gate, main, pc, hooks, dropped, from, ran>>
PollPeek ==
  /\ poll = "peek"
  /\ \/ /\ input # <<>> /\ Head(input) = Break
        /\ input' = Tail(input) /\ stopping' = (main = "running") /\ poll' = "lock" /\ loop' = "none"
     \/ /\ input # <<>> /\ Head(input) # Break
        /\ poll' = "lock" /\ loop' = "none" /\ UNCHANGED <<input, stopping>>
     \/ input = <<>> /\ ~connected /\ poll' = "gone" /\ UNCHANGED <<input, stopping, loop>>
  /\ UNCHANGED <<gdbVars, stub, table, first, gate, main, pc, hooks, dropped, from, ran>>

-----------------------------------------------------------------------------
(* Main.                                                                   *)

GateStart ==
  /\ main = "waiting" /\ gate = "main" /\ main' = "running" /\ stopping' = FALSE
  /\ UNCHANGED <<gdbVars, input, stubVars, gate, pc, hooks, dropped, from, ran>>

\* The code hooks before an instruction: does one queue a trampoline?
Stops == \E i \in OnCode(hooks, pc) : hooks[i].cb = "break" \/ (hooks[i].cb = "step" /\ ~first)
CalledAgain == first' = first   \* mutant: the hook never notes that it was called
Called == first' = (first /\ \A i \in OnCode(hooks, pc) : hooks[i] # StepHook)

Execute ==
  /\ main = "running" /\ ~stopping /\ ~Stops /\ Called
  /\ pc' \in Code /\ ran' = IF ran < 2 THEN ran + 1 ELSE ran
  /\ UNCHANGED <<gdbVars, input, stub, poll, loop, table, gate, main, hooks, stopping, dropped, from>>

\* Start returns before the instruction, and gate.Stop gives the gate.
GuestStops ==
  /\ main = "running" /\ (stopping \/ Stops) /\ Called
  /\ main' = "waiting" /\ gate' = "stub" /\ stopping' = FALSE
  /\ UNCHANGED <<gdbVars, input, stub, poll, loop, table, pc, hooks, dropped, from, ran>>

\* The guest exits: gate.Stop gives the gate once more, and Run ends without its hooks.
GuestExits ==
  /\ main = "running" /\ ~stopping /\ ~Stops /\ Called
  /\ main' = "ended" /\ gate' = "stub" /\ hooks' = <<>>
  /\ UNCHANGED <<gdbVars, input, stub, poll, loop, table, pc, stopping, dropped, from, ran>>

Next == SendPacket \/ SendBreak \/ GiveUp \/ Stub \/ StubLock \/ PollLock \/ PollPeek
        \/ GateStart \/ Execute \/ GuestStops \/ GuestExits

\* The goroutines go on, and a mutex of Go is given to who waits.
Fairness == WF_vars(Stub) /\ SF_vars(StubLock) /\ SF_vars(PollLock) /\ WF_vars(PollPeek)
            /\ WF_vars(GateStart) /\ WF_vars(GuestStops)
Spec == Init /\ [][Next]_vars /\ Fairness

-----------------------------------------------------------------------------
(* Properties.                                                             *)

DebugTypeOK ==
  /\ asked.cmd \in {"none", "ask", "tell", "Z", "z", "c", "s", "D"}
  /\ believed \subseteq Code /\ table \subseteq Code /\ dropped \subseteq Code
  /\ loop \in {"none", "stub", "poll"} /\ gate \in {"main", "stub"} /\ pc \in Code
  /\ stub \in {"read", "handle"} /\ input # <<>> => Head(input) \notin {Break, Ack}
  /\ loop = "stub" <=> stub \notin {"locking", "gone"}
  /\ loop = "poll" <=> poll \in {"peek", "gone"}
  /\ gate = "main" => stub \in {"continuing", "stepping"}
  /\ StepHook \in Range(hooks) => stub = "stepping"

\* The guest does no instruction at a breakpoint that gdb has set for the first time
\* (gdbstub.go:271-285): whatever else was set, removed, stepped or interrupted.
StopsAtBreakpoints == [][Execute => pc \notin believed \ dropped]_vars

\* A step is one instruction, or none when the guest exits or is at a breakpoint, whose
\* hook stops it at the next address too (gdbstub.go:281-283, 300-312).
StepsOne ==
  stub = "stepping" /\ gate = "stub" =>
    \/ ran = 1
    \/ ran = 0 /\ (main = "ended" \/ \E h \in Range(hooks) : h.cb = "break" /\ Within(h, from))

\* A packet to be answered is, or the connection ends (gdbstub.go:401-437).
AnswersComeBack ==
  asked.cmd \in {"ask", "Z", "z"} ~> (asked.cmd \notin {"ask", "Z", "z"} \/ ~connected)
=============================================================================
