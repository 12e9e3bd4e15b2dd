------------------------------ MODULE Syscalls ------------------------------
(***************************************************************************)
(* A system call from the trap to its result: Usercorn.Syscall, the list   *)
(* of kernels and the tables of their methods (kernel/common), the hooks   *)
(* before and after, and how arguments are fetched and converted.          *)
(*                                                                         *)
(* A kernel's method is its name, the types of its parameters and whether  *)
(* its result is a number.  What a handler does is left out but for the    *)
(* number it returns.  A step may end in a panic, which ends the program.  *)
(***************************************************************************)
EXTENDS Naturals, SequencesExt

CONSTANTS
  Methods,    \* each kernel's methods
  Names,      \* the architecture's names of numbers
  NumbersCalled, \* bound: the numbers guests call
  Nested,     \* the numbers that socketcall knows, and their names
  ArgRegs,    \* how many registers can hold arguments
  SysHooks,   \* bound: hooks on system calls
  Values,     \* bound: what registers and memory hold, and handlers return
  Strings,    \* those of them that are addresses of strings
  MaxCalls    \* bound: calls

\* The methods of a kernel have lists of parameters.
ASSUME Callable ==
  /\ ArgRegs \in Nat
  /\ \A k \in DOMAIN Methods : \A m \in Methods[k] : m.params \in Seq(STRING)

VARIABLES
  kernels,    \* Usercorn.kernels
  sysHooks,   \* Usercorn.sysHooks
  config,     \* config.StubSyscalls and BlockSyscalls
  guest,      \* the registers of arguments, and the one of the result
  sys,        \* the call that is made
  told,       \* history: what each hook was told
  due,        \* history: what it ought to be, of the calls that reached a handler
  front       \* history: the kernel that was last put first
syscallVars == <<kernels, sysHooks, config, guest, sys, told, due, front>>

NoCall == [at |-> "guest", num |-> 0, name |-> "", kernel |-> "", in |-> <<>>, args |-> <<>>, ret |-> 0, calls |-> 0]
Max64 == 1000   \* stands for UINT64_MAX

-----------------------------------------------------------------------------
(* Tables.  initKernel: private methods are skipped, and a first parameter *)
(* for all the buffers is not one of the call's.                           *)

Public(k) == {m \in Methods[k] : m.kind # "private"}
Has(k, name) == \E m \in Public(k) : m.name = name
In(m) == IF m.params # <<>> /\ Head(m.params) = "obufs" THEN Tail(m.params) ELSE m.params
Lookup(k, name) == CHOOSE m \in Public(k) : m.name = name

\* The kernels are asked in their order, and the first that knows the call answers.
Asked(name) == {i \in DOMAIN kernels : Has(kernels[i], name)}

AddKernel(k, first) == kernels' = IF first THEN <<k>> \o kernels ELSE Append(kernels, k)
Add(k, first) ==
  /\ sys.at = "guest" /\ sys.calls = 0 /\ k \notin Range(kernels)
  /\ AddKernel(k, first)
  /\ front' = IF first THEN k ELSE front
  /\ UNCHANGED <<sysHooks, config, guest, sys, told, due>>

HookSysAdd(h) ==
  /\ sys.at = "guest" /\ h \notin Range(sysHooks)
  /\ sysHooks' = Append(sysHooks, h)
  /\ UNCHANGED <<kernels, config, guest, sys, told, due, front>>
HookSysDel(h) ==
  /\ sys.at = "guest" /\ h \in Range(sysHooks)
  /\ sysHooks' = SelectSeq(sysHooks, LAMBDA g : g # h)
  /\ UNCHANGED <<kernels, config, guest, sys, told, due, front>>

-----------------------------------------------------------------------------
(* The call.                                                               *)

Step(at) == sys' = [sys EXCEPT !.at = at]
Answer(v) == sys' = [sys EXCEPT !.at = "guest", !.ret = v] /\ guest' = [guest EXCEPT !.result = v]

\* LinuxInterrupt: the number is in a register, and may have no name.
Trap ==
  /\ sys.at = "guest" /\ sys.calls < MaxCalls
  /\ \E n \in NumbersCalled, args \in [1..ArgRegs -> Values] :
       /\ guest' = [guest EXCEPT !.args = args]
       /\ sys' = [NoCall EXCEPT !.at = "named", !.num = n, !.calls = sys.calls + 1,
                                !.name = IF n \in DOMAIN Names THEN Names[n] ELSE ""]
  /\ UNCHANGED <<kernels, sysHooks, config, told, due, front>>

NotNamed ==
  /\ sys.at = "named" /\ sys.name = "" /\ ~config.stub
  /\ Step("panic")
  /\ UNCHANGED <<kernels, sysHooks, config, guest, told, due, front>>

Goes == sys.at = "named" /\ (sys.name # "" \/ config.stub)

Blocked ==
  /\ Goes /\ config.block
  /\ Answer(0)
  /\ UNCHANGED <<kernels, sysHooks, config, told, due, front>>

NoKernel ==
  /\ Goes /\ ~config.block /\ Asked(sys.name) = {}
  /\ IF config.stub THEN Answer(0) ELSE Step("panic") /\ UNCHANGED guest
  /\ UNCHANGED <<kernels, sysHooks, config, told, due, front>>

\* RegArgs: more parameters than registers are an index out of range.  A register that
\* cannot be read, or StackArgs without a stack, is an error; who called Syscall takes
\* its result, which is 0.
Fetch ==
  /\ Goes /\ ~config.block /\ Asked(sys.name) # {}
  /\ LET k == kernels[Min(Asked(sys.name))]
         in == In(Lookup(k, sys.name)) IN
     \/ /\ Len(in) <= ArgRegs
        /\ sys' = [sys EXCEPT !.at = "fetched", !.kernel = k, !.in = in,
                              !.args = SubSeq(guest.args, 1, Len(in))]
        /\ UNCHANGED guest
     \/ Len(in) > ArgRegs /\ Step("panic") /\ UNCHANGED guest
     \/ Answer(0)
  /\ UNCHANGED <<kernels, sysHooks, config, told, due, front>>

Notice(what) == [what |-> what, num |-> sys.num, args |-> sys.args]
TellBefore(what) ==   \* mutant: nobody is told what came of a call
  told' = [h \in SysHooks |->
             IF h \in Range(sysHooks) /\ what = "before" THEN Append(told[h], Notice(what)) ELSE told[h]]
Tell(what) ==
  told' = [h \in SysHooks |-> IF h \in Range(sysHooks) THEN Append(told[h], Notice(what)) ELSE told[h]]
\* A handler is reached: who is hooked ought to be told before and after.
Owe ==
  due' = [h \in SysHooks |-> IF h \in Range(sysHooks) THEN Append(Append(due[h], Notice("before")), Notice("after"))
                             ELSE due[h]]
Before ==
  /\ sys.at = "fetched" /\ Step("before") /\ Tell("before")
  /\ UNCHANGED <<kernels, sysHooks, config, guest, due, front>>

\* commonArgCodec: every type of parameter but a string takes any number; one that has
\* no codec, or a string that cannot be read, is a panic.
Converts(type, v) == type \in {"buf", "len", "fd", "int"} \/ (type = "string" /\ v \in Strings)
Converted(in, args) == \A i \in DOMAIN in : Converts(in[i], args[i])

Number(m) == IF m.number THEN Values ELSE {0}
Call ==
  /\ sys.at = "before" /\ sys.name # "socketcall"
  /\ IF Converted(sys.in, sys.args)
     THEN \E v \in Number(Lookup(sys.kernel, sys.name)) : sys' = [sys EXCEPT !.at = "called", !.ret = v]
     ELSE Step("panic")
  /\ Owe
  /\ UNCHANGED <<kernels, sysHooks, config, guest, told, front>>

\* Socketcall: a call within the call, of a method of the same kernel, its arguments in
\* memory; hooks are not told of it.
Socketcall ==
  /\ sys.at = "before" /\ sys.name = "socketcall"
  /\ LET n == sys.args[1]
         known == n \in DOMAIN Nested /\ Has(sys.kernel, Nested[n]) IN
     \/ sys' = [sys EXCEPT !.at = "called", !.ret = Max64]
     \/ /\ known
        /\ LET m == Lookup(sys.kernel, Nested[n]) IN
           \E args \in [1..Len(In(m)) -> Values] :
             IF Converted(In(m), args)
             THEN \E v \in Number(m) : sys' = [sys EXCEPT !.at = "called", !.ret = v]
             ELSE Step("panic")
  /\ Owe
  /\ UNCHANGED <<kernels, sysHooks, config, guest, told, front>>

After ==
  /\ sys.at = "called" /\ Step("after") /\ Tell("after")
  /\ UNCHANGED <<kernels, sysHooks, config, guest, due, front>>

Return ==
  /\ sys.at = "after" /\ Answer(sys.ret)
  /\ UNCHANGED <<kernels, sysHooks, config, told, due, front>>

SyscallsInit ==
  /\ kernels = <<>> /\ sysHooks = <<>>
  /\ config \in [stub : BOOLEAN, block : BOOLEAN]
  /\ guest = [args |-> [i \in 1..ArgRegs |-> 0], result |-> 0]
  /\ sys = NoCall /\ told = [h \in SysHooks |-> <<>>] /\ due = told /\ front = ""

SyscallsNext ==
  \/ \E k \in DOMAIN Methods, first \in BOOLEAN : Add(k, first)
  \/ \E h \in SysHooks : HookSysAdd(h) \/ HookSysDel(h)
  \/ Trap \/ NotNamed \/ Blocked \/ NoKernel \/ Fetch \/ Before \/ Call \/ Socketcall \/ After \/ Return

SyscallsSpec == SyscallsInit /\ [][SyscallsNext]_syscallVars

-----------------------------------------------------------------------------
\* A hook that is there when a call reaches its handler is told of it just before and just
\* after, in the order of the calls and with their numbers and arguments; but of one that
\* panics, before only.  It is told of nothing else: a call without a name or a kernel,
\* one that is blocked, or whose arguments cannot be fetched, reaches no handler, and one
\* within socketcall is not told of (usercorn.go:762-800).
HooksBracketCalls ==
  \A h \in SysHooks :
    IF h \notin Range(sysHooks) THEN told[h] = due[h]
    ELSE /\ sys.at \notin {"before", "called", "panic"} => told[h] = due[h]
         /\ sys.at = "before" => told[h] = Append(due[h], Notice("before"))
         /\ sys.at = "called" => due[h] = Append(told[h], Notice("after"))
         /\ sys.at = "panic" => due[h] \in {told[h], Append(told[h], Notice("after"))}

\* The kernel that was put first, as the runner of CGC's binaries puts its own, is the one
\* that answers what it knows, whatever was put before it or behind it since
\* (usercorn.go:774-775, cmd/cgc/cgc.go:273).
FirstKernelAnswers ==
  sys.kernel # "" /\ front # "" /\ Has(front, sys.name) => sys.kernel = front
=============================================================================
