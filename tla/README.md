# Usercorn in TLA+

Usercorn runs a program in an emulated CPU and plays the operating system for it. Debugger front ends (a gdb stub, a Lua prompt, a
terminal UI) act on the same emulator from goroutines of their own, and a trace of the run can be written, replayed and rewound.
This directory models the parts of it whose correctness depends on the order of things, checks the models with TLC and proves
theorems about them with TLAPS. Paths below are under `src/go/`.

    tlc -config MCGate.cfg MCGate.tla      # and so for every run of PROJECT.json
    tlapm RunLoopProofs.tla                # and Task-, PageLists-, MemSim-, Trace-, Rewind- and PartsProofs, and Folding

## 1. The system

| Component | State | Operations | Interacts with |
|---|---|---|---|
| **Gate** `models/gate.go` | a mutex, a WaitGroup, two lists of channels | `Start`, `Stop` (Main); `Lock`, `Unlock`, `UnlockStopRelock`, `StopLock`, `UnlockStop`, `UnlockStart` (front ends) | Main and every front end, through channels |
| **Run loop** `usercorn.go` 386-501, 802-951 | `exitStatus`, `running`, the trampolines, the program counter | `Run`, `Start`, `Stop`, `Exit`, `Trampoline`, `RunShellcode`, `RunAsm` | the gate, the CPU, hooks (trampolines are queued from hooks while the guest runs) |
| **Front ends** `ui/repl.go`, `lua/`, `debug/gdbstub.go`, `cmd/cmd.go` | step hooks, breakpoints, the connection | continue, step, register write, stop, exit, interrupt | the gate; all of the emulator's methods |
| **gdb stub's protocol** `debug/gdbstub.go` | breakpoint table, packets, a mutex | resume, step, breakpoints, interrupt, detach | the gate, code hooks, a goroutine that polls |
| **CPU hooks** `models/cpu/hooks.go` | lists of hooks by kind | add, remove, dispatch | the trace, breakpoints, front ends |
| **Address space of the task** `task.go`, `usercorn.go` 554-574 | a list of mappings, the break | `Mmap`, `MemReserve`, `MemUnmap`, `MemProt`, `Brk` | the CPU's memory, and the map hooks (trace) |
| **Emulated memory** `models/cpu/{page,memsim,mem}.go` | a sorted list of pages with bytes | `Map`, `Prot`, `Unmap`, `Read`, `Write`, look-up by bisection | the replay of a trace, interpreters |
| **Trace, replay, rewind** `models/trace/`, `models/callstack.go`, `usercorn.go` 222-325 | the open frame, the replayed machine, the log, the file | append, flush, feed, pack, read, rewind | map, code and system call hooks, memory |
| **System calls** `kernel/common`, `usercorn.go` 753-800 | kernels, hooks on calls | add a kernel, look up, fetch, convert, call | every kernel, the trace |
| **POSIX kernels** `kernel/{posix,linux,darwin,redox}` | table of open files, working directory | open, close, dup, getdents, mmap, read, write, the first stack | the host's descriptors, the guest's memory |
| **DOS kernel** `arch/x86_16/dos.go` | handles on host descriptors | open, close, read, write, terminate | the host |
| **CGC runner** `cmd/cgc`, `arch/x86/cgc.go` | pipes with sleeping readers, a negotiation, a secret page | transmit, receive, start and end of several guests | several emulators, a timeout |
| **Loaders** `loader/`, `usercorn.go` 104-186, 600-733 | bias, segments, break | recognise, reserve, map, write, load the interpreter | the task |
| **Debug symbols** `models/debug` | a cache of files' symbols | look up an address | the trace and prompts, at the same time |
| **imgtrace** `cmd/imgtrace` | blocks of memory, the last one found | note a write, lay out, record | the trace's hooks |
| Breakpoints, Mach ports, architectures, bindings, output | tables, or none | | |

`PROJECT.json` lists every component with its files, what of it is modelled, and the reasons for the rest.

**What is hard.** Main and the front ends meet only in the gate, built from two lists of channels and a WaitGroup whose counter must
rise at the right moment. Run reads state (the program counter, `exitStatus`, the trampolines) at one point and uses it at another,
with the front ends let in between. `MemUnmap` takes mappings off two copies of the memory one at a time and ignores errors.
Memory is cut up by every call, and everything that reads it relies on the order of the list. A trace is a third copy of the machine, fed by hooks,
its file a fourth that may be cut off anywhere. The kernels keep tables of what the host knows better. In the CGC runner, guests wait for one another.
`PROJECT.json` lists these hazards at their lines, each with the properties that would notice, or the reason why none does.

**What makes each component correct.** Gate: front ends and Main take turns, and nobody's turn is skipped or lost. Run loop: the guest
runs alone, from where it stopped or was told to go on, never after an exit, and never over leftovers of shellcode. Stub: a breakpoint that was
set is hit, a step is one instruction, a packet is answered. Task: the list, the CPU
and the listeners agree, mappings are disjoint, nothing but what was asked is unmapped, calls return. Memory: each address has what
was last put there, whatever pages it is kept in. Trace: replaying it, or its file, gives the machine that was traced, and rewinding the one that was.
Files: a descriptor names what was last opened under it, and a directory is listed once. Transfers: a call returns what it moved. Loading: memory is as the
headers say. Runner: nobody sleeps on bytes that are its own.

## 2. The modules

    Turns <--implements-- Gate <--extends-- RunLoop <--extends-- RunLoopProofs
    Memory <--implements-- MemSim --extends--> PageLists --extends--> Pages <--extends-- Task <--extends-- TaskProofs
    PageLists <--extends-- Replay <--extends-- Trace
    PageLists <--extends-- PageListsProofs <--extends-- MemSimProofs, TraceProofs --instance--> Folding
    TraceProofs <--extends-- RewindProofs --instance--> Folding
    Hooks <--extends-- GdbStub
    MCParts --extends--> GdbStub, Symbols, PosixFiles, Dos, Transfer, StartStack, Cgc, Syscalls
            --instance--> TraceFile, MemBatch, Loading, MemImage
    PartsProofs --extends--> GdbStub, Symbols, PosixFiles, Dos, Transfer, StartStack, Cgc, Syscalls

Definitions that end a line with `\* mutant` are plausible bugs, used by no specification: each property is shown to notice one.

**Turns** is what a gate promises: one owner at a time, and Main takes no turn while it owes one.

**Gate** has one action per statement of `gate.go` that touches the mutex, the WaitGroup or a channel. `cpc[c]` is where client `c`
is, `mpc` where Main is. The channels are unbuffered, so a send and its receive are one step. A channel is named by the goroutine that made it and
the point at which it receives from it. All six calls that a client can make are there, though the repository uses only
`Lock`, `Unlock` and `UnlockStopRelock`.

**RunLoop** extends Gate with `Usercorn.Run`, statement by statement where a front end can come in between, and with the front ends' commands.
The gate's actions are used as they are. Registers are abstracted to the program counter, and its values to whose address it is. The
guest may stop at a step or a breakpoint, fail, come to its end, exit in a system call, or run shellcode from a hook. The trampolines that are queued then run whatever the guest
stopped with, and what they return takes the place of its error. `ended`, `want` and `cut` are history, which only properties read.

**Pages** holds the operations on pages and lists of them: intersection, slicing, splitting, bisection (a recursive function) and
the orders that `sort.Sort`, which is not stable, may leave.

**Memory** is what emulated memory promises: a map from addresses to a protection and a byte, and that no range that fits is refused to be mapped. **MemSim** is how it is kept: a list of pages, cut by every `Prot` and
`Unmap`, walked by every `Read` and `Write`. A call of Mem is one action, with its refusal. What a call makes of a list is in **PageLists**, which has no state, because a
replay keeps such a list as well. `RangeValid`'s loop is `Walked`, the set of the pages it visits.

**Task** has one action per call, except that `MemUnmap`'s loop takes a step per round and `Mmap` at a fixed address and `Brk` are an
unmap (`StartUnmap`, `UnmapOne`) followed by `MapFixed` or `MapFails`. `tmem` is `Task.mem`, `cpu` is Unicorn's memory (external: it refuses
what is not wholly mapped, or not free), and `seen` is what a listener of the map hooks makes of what it is told. A range
is an address and an end, since all the code needs is `addr` and `addr + size`; this also covers Brk's underflow, where the end is
below the beginning.

**Hooks** is the CPU's list of hooks as values: adding, removing, and who is called for an address. **GdbStub** has the debugger at one end of a wire
and `gdbClient.Run` at the other: `stub` is where the command loop is, `poll` where its goroutine is, `loop` who has the mutex between them, `input` what is on the
wire. The gate is one variable, as Gate is shown to come to that. Main and the guest stop when a hook has queued a trampoline. `believed` is
what the debugger thinks is set, `dropped` history.

**Replay** is the operations of a trace and the value that a replay is: registers, pages (PageLists' operations on them), the call stack, effects held back
until a step, an instruction count. **Trace** is the machine, the recorder with its open frame and its two ways of holding back (steps and system calls), the file, the
live replay, the log, and `Rewind`. An instruction may come to itself again, as a loop of one does, or a round of `rep`: the recorder takes all the times in succession for one (`trace.go:303`), and so does
a history of machines, `past`, that says what was there at each instruction. `again` and `repeats` tell of it, `lost` of registers that a rewind in the middle of it leaves as they are.

**TraceFile** packs operations to bytes by their layouts and reads a file cut off at any byte, the operations of a system call with their error lost, as the code does. It uses RECURSIVE operators and is for TLC only. **MemBatch** is the
filter that joins accesses.

**Cgc** is the runner of several guests: loading, starting a goroutine each, pipes with a queue of sleepers, the POV's negotiation, the
end. A guest is its calls. **PosixFiles** is the host's descriptors beside the kernel's table of paths, with Go's collector closing what `Sendfile` wrapped. **Dos** is the same of DOS handles.
**Transfer** moves bytes piece by piece between the guest's memory and the host; a buffer of `writev` that cannot be read is as many zeros. **StartStack** pushes what a program finds on its stack, thing by thing.
**Syscalls** is a call from the trap to its result; `told` is what hooks were told, `due` what they ought to be, of each call that reaches a handler. **Loading** is `NewUsercorn` and `mapBinary` over files given by their headers: memory is a function from addresses to a protection and
the file and offset a byte came from. **Symbols** has two goroutines look up addresses, with the cache unlocked while a file is read; each that reads the file sorts it for itself, and the
sort is not stable, so that they may have different orders.
**MemImage** is the blocks imgtrace keeps, and where each byte is drawn. `shadow` is memory as far as the hook on stores, or `-binimg`, told of it; what the loader or a kernel writes is told to nobody.

**MCParts** puts the parts that share no state into one model: its first state chooses a part, `part`, and only that part's variables change. The modules that
theorems are about are extended, so that a run checks the very formulas that are proved; those of the other parts hold in a behaviour because its variables stay as they start.

## 3. The runs

| Run | Instance | Distinct states | Shows |
|---|---|---|---|
| `gate` | Main and three clients, any calls | 7231 | Gate implements Turns; the inductive invariant; no lost wakeup; `wg.Add` happens only in Main's notify; calls return |
| `runloop` | one gdb stub, one prompt | 21856 | the guest runs alone, resumes where it stopped, not after an exit, with trampolines done; front ends are served |
| `memsim` | 4 addresses, 2 protections, bytes {0,1} | 4973 | MemSim implements Memory; the list stays sorted; every read of every range, at every protection, gives what Memory says |
| `task` | 4 pages of 2 addresses, 2 protections | 253204 | list, CPU and hooks agree at every round; mappings disjoint; nothing outside the range changes; the break moves over mapped memory; calls return |
| `trace` | 3 addresses of memory, 3 of code, 2 registers, a repeated instruction, a stop and two rewinds | 630494 | the live replay is the machine (`InStep`), the file brings a replay to the same place (`FileRetells`), instructions are counted once, however often in succession they are done, after a rewind too (`CountsOnce`), rewinding gives the machine that was (`RewindsStraightBack`) |
| `parts` | twelve parts, one in each behaviour | 703197 | the table below |
| `exit_before_run`, `chosen_pc`, `shellcode_runs` | as `runloop` | | what comments say of Run and the code does not do (section 6) |
| `mem_overlap`, `mem_empty` | as `memsim`, any maps | | the same of MemSim.Map |
| `finds_mapping` | as `task` | | the same of bisection over the task's list |

| Part of `parts` | States | Bounds | Shows |
|---|---|---|---|
| GdbStub | 105,000 | 2 instructions, 4 packets, an interrupt, a connection that may close | `StopsAtBreakpoints`, `StepsOne`, `AnswersComeBack` |
| TraceFile | 13,000 | 2 frames of 3 kinds with every operation, bytes of 4 values, cut anywhere | `ReadsWholeFrames` |
| Cgc | 209,000 | 2 binaries, with a POV or without, 1 byte in a pipe | `NobodySleepsOnBytes` |
| PosixFiles | 18,000 | 5 descriptors, 2 directories, 3 calls | `FilesFollowHost`, `ListedOnce` |
| Dos | 1,000 | 5 handles, 7 host descriptors | `HandlesAreOpen` |
| MemBatch | 43,000 | 3 addresses, accesses of 1 and 2 bytes, 3 of them | `BatchRetells` |
| Loading | 23,000 | 48 addresses, pages of 4; ELF, Mach-O, CGC, COM and unknown files with segments that share a page or not | `LoadsPrograms` |
| MemImage | 2,900 | 3 blocks of 2 by 2 | `ImageShowsMemory` |
| Symbols | 114,000 | 80 tables of 3 symbols at 2 places, 2 goroutines | `FindsSymbols` |
| StartStack | 7,200 | words of 4 and 8, up to 2 strings of 1 or 5 | `StartsAligned` |
| Transfer | 18,600 | 4 addresses, chunks of 2, 2 calls | `CountsWhatMoved` |
| Syscalls | 147,000 | 2 kernels, 8 numbers, 2 registers, a hook, 2 calls | `HooksBracketCalls` |

**Bounds.** Gate: with three clients one can be woken while another is on its way back and a third arrives; the theorems are for any number.
RunLoop: a stub and a prompt have all the commands between them; a run of the guest queues at most two trampolines, one shellcode, whose own
end queues nothing. MemSim: ranges of 0, 1 and 3 addresses among four cut a page in three, cut several adjoining pages at once,
and are read over up to three pages; `Space = 3` makes the widest one refused. Task: pages of two addresses make
ranges that are not aligned; addresses 1, 2, 4, 5 and sizes 0, 2, 5 give ranges that meet a mapping in every way (inside,
either edge, over it, over two, past the end of memory, nothing), with room for three mappings. `Top` ends the address space, so that "no memory" occurs.
Trace: two instructions besides the one in hand, of any kind, with jumps, one of which may come to itself again (`MaxRepeats`), and system calls that map over, map beside, unmap, protect and store; one stop, and two rewinds from it, to any count or address, the second of which shows that `CountsOnce` cannot be said of it.
GdbStub: four packets set, remove and set again a breakpoint and go over it, or set two and step between them, with an interrupt pending. PosixFiles: three calls open a directory in the place of another's
descriptor, duplicate over it and list it in two reads; 5 descriptors run out. Cgc: descriptors 3 and 4 are the two ends of one pair, which both binaries may use, so that two readers meet on a pipe;
a pipe of one byte is at its limit after a write, which then waits for a reader. (In the code a pipe grows; the bound stands for the guests' not writing for ever.)
Loading: segments of 2 to 7 bytes on pages of 4 share a page or leave one free; files of 30 and 60 bytes do not fit. Transfer: three chunks need 5 bytes, and two are enough for the second
to follow a first and to be short. MemImage: 5 bytes at address 3 are cut into the end of one block and the whole of the next; the same elsewhere go over a block's end (`crashed`). TraceFile: a frame with a
system call at its end and one with an operation behind it are cut within the call's operations.
Deadlock is checked in the runs `runloop`, `memsim` and `task`. Not in `gate`, where a client may call `StopLock` too late for Main's notify and then waits until
Main's next stop, which it holds up (no caller in the repository does); not in `trace` and `parts`, whose behaviours end at their bounds, and where programs end.

**Tidy callers.** `memsim` lets `Map` be called only for ranges that are not empty and wholly mapped or wholly free (`TidySpec`), because otherwise MemSim does not
implement Memory: those are the findings of `mem_overlap` and `mem_empty`, which use `Spec`, in which the code's own guards are the only ones. Trace keeps the same in a history variable, `skewed`.

**Fairness.** `sync.Mutex` hands a contended lock to its oldest waiter, so acquiring it is strongly fair; a goroutine that can go on does (weak fairness).
A call of Task, being sequential code, goes on. Nothing is assumed of the guest, of shellcode or of users: `FrontEndsServed` says what holds *if* guests' runs
end and no user sits at a prompt for ever. `MapFails` is in one fairness condition with `MapFixed`, as the CPU decides between them. In GdbStub the two goroutines go on and get the mutex in turn, and
Main starts and stops the guest when it can; nothing is assumed of the debugger or of the guest.

**What properties leave out.** Where the code is wrong and no run shows it against what a comment or a document says, a property is stated for the rest, with the exception as a named part of the
model: `skewed`, `lost` and `~again` (Trace), `CutInCall` (TraceFile), `astray` (PosixFiles), `dropped` (GdbStub), `crashed` (MemImage), `Fits` (TraceFile), `OneInAnother` and nameless symbols (Symbols), 32-bit words with program headers (StartStack). Each exception is
listed in section 6.

## 4. The theorems

All are for any constants that satisfy the modules' assumptions: any finite set of clients, any address space, page size, protections.

*RunLoopProofs, the gate.* `GateInv` is inductive. Types, who holds the mutex and the WaitGroup's count are not enough: that Main waits for a woken
client rests on the client's two channels standing in the stop list in order, and on nothing being sent between two notifies
(`QueueInv`). From it follow `NoTurnSkipped`, `CountedInNotify` and that Gate implements Turns, step by step.

*RunLoopProofs, the loop.* Every step of RunLoop is a step of Gate or leaves it alone, so what is proved of the gate holds in the program
(`RunLoopUsesGate`). `LoopInv` ties where Main is in Run to where it is in the gate, an exit to Run's next look for it, and
the place to go on to the register or Run's copy of it. Trampolines that are left over when the guest is started would break it; none are, though a guest that failed is started again when they go well. With `GateInv` it gives that the guest runs alone, not after
an exit, where it stopped, and with nothing left over.

*TaskProofs.* `TaskInv` is inductive. `Disjoint`, `MappedAlike` and `HooksTell` need each other: the CPU grants an unmap because the list's
mappings are mapped, a new mapping is disjoint because the CPU had nothing there. They also need that mappings are whole pages (`WholePages`)
and that a range which ends before it begins starts inside no mapping (`JobInOrder`): Brk can ask for such a range, and a
mapping it cut would leave two overlapping pieces. It cannot, because mappings end on page boundaries, so that rounding down the break leaves it at a
mapping's end. The first part of the module is about lists of disjoint mappings: removing one, cutting one, adding one and sorting keep them
disjoint and change what they cover as they should. `BrkIsMapped` needs `BrkInv` besides: a pending Brk maps from at or below the break up to
where it will be, or asks for nothing.

`NoLostWakeup` rests on `ChannelInv`: a channel stands in one place of one list from where its maker adds it to where it is served, and nowhere else. An append, a
send and a move of the client each keep that; it is proved with sets of places, and counted only at the end.

*PageListsProofs and MemSimProofs.* `MemInv` is that the list's members are pages and each ends before the next begins (`Apart`). What a list *shows* is which cell, a protection and a byte, is at
which address: for a list that is apart, one at most. Cutting a page shows the same cells but for those of the range; putting the cut pieces of all pages end to end shows what each shows; an order of a list shows
what the list does, and the orders that sorting leaves are apart if the list was without overlap. A walk from the page that bisection finds goes over a range without a gap, and exactly
over the pages that hold its addresses, so that what `Read` gathers is what Memory says (`ReadsTheCells`), and `Write`, `Prot`, `Unmap` and `Map` do to the cells what Memory's do: MemSim implements
Memory, step by step, under `TidySpec` (section 3). Bisection and the joining of lists are recursive functions. That such a function has, at every argument, the value its equation says is proved by the least argument
at which it would not, with well-foundedness of `<` on numbers; no induction theorem with an operator for parameter is needed.

*TraceProofs.* `CountedOnce`: the replay's count, which `Rewind` goes by, is the number of instructions that the machine did, wherever Main is stopped and once it has been rewound. `TraceInv` has four parts. `TypesOK`: among
the recorder's operations at rest only those that wait for a step (`Calm`). `LogReplays`: the log is a keyframe, the jump to the first instruction, then what was fed, and the live replay is that of the log
until a rewind cuts it. `AtHook`: which instruction the recorder holds back at each of Main's places, so that being stopped in front of an instruction and resumed adds no second step, and doing it adds one.
`Counted`: the count against the history of machines. A step is the only operation that counts, and each part of the recorder sends one or none (`PutCalm`, `FlushStepSends`, `FlushSysSends`, `OnStepSends`, `OnJmpSends`). A rewind needs more: the replay
of a beginning of the log counts no more than that of all of it (`BeginningReplays`), and the search stops behind the first jump (`StopsBehind`), so that there is an operation at the cut, and what is left is a log again. An instruction that comes to itself again adds
a jump and no step, as its address is that of the step that waits, and nothing to `past` (`AtHook`).

What is fed is folded. `FoldLeft` is, by its definition, a recursive function on sets of indices; *Folding* proves once, for any operator, that it is the last of a chain of values, so that folding one more member is one more
step, and that what each step keeps the fold keeps. TraceProofs has an instance for each thing that is folded.

*TraceProofs, what the replay shows.* `FollowInv` gives `InStep`. A replay holds back the effects of an instruction until its step, and the recorder those of a system call until its end; so the invariant is about what a replay would show
if what waits were applied: its pages and registers (`View`), with its effects (`Held`) and then the recorder's operations (`Late`). That feeding one more operation commutes with applying what waits is proved once for the operations that wait
(`Calm`) and once for a step, a jump and the end of a system call. `Follows`: what would be shown is the machine, and the pages stay apart through every operation that is sent (`Orderly`) and at every place of the log (`Prefixed`, for a rewind stops at any of them);
PageListsProofs says what mapping, unmapping, protecting and writing do to the cells of pages that are apart. `Handed`: what the recorder knows of the registers, the one that system calls return in excepted, which is set behind the hooks, and those that an instruction that comes to itself again has changed and not told of. `Quiet`: in front of an
instruction that was not done just before no effect waits, but the registers that a rewind has set, so that applying them moves no frame of the call stack.

*RewindProofs, the log.* `RewindsStraightBack` is about a place in the log long past, so `RetellInv` speaks of all of them: up to each step that no jump and no system call follows, the log replays to the machine in `past` that has its count (`Retold`). Each action adds at most one such step,
and what comes behind it may only end its being one (`TellingGrows`). A rewind stops behind the first operation at which the count is what it looks for; only steps count, so that is behind a step (`RewindStops`), and the cut log tells whether a jump or a call followed it.

*RewindProofs, the file.* Who reads the file is given whole frames, and applies the effects of an instruction only when the next operation comes. `FileInv` says that this reader is on a par (`Par`) with the live replay: where it is, or one pending step behind, with the same count, and holding the same.
A frame ends at a jump or when the trace is closed (`ParFlush`, `FrameEnds`). A reader with a pending step is there only when no effect waits at the live replay, without which that step would take effects of the next instruction.
But a frame may also end at the jump of an instruction that comes to itself again, whose stores wait at the live replay and have been applied by the reader; and what the trace appends at an exit is an operation that no replay sees (`ExitReads`). The file, with the frame that is not in it yet, is read like that through every hook (`Reads`), and applying what waits on both sides gives `FileRetells`.

*PartsProofs, the gdb stub and the symbols.* `DebugInv` says that the command loop has its mutex from one packet to the next, while the guest runs too, so that
the goroutine that looks for interrupts never reaches a running guest; that a packet to be answered is on the wire once and is what the debugger waits for; that each breakpoint
in the table that was never removed has its hook; and that a step's hook has not been called before its instruction. Without the second, an answer could be taken for another packet's and the debugger
believe in a breakpoint that has no hook. It gives `StopsAtBreakpoints` and `StepsOne`, for any code and any packets.

`SymbolInv` says that whoever has symbols has them in an order that the sort may leave of this file's table, and that an answer is what bisection gives in them: that two goroutines may read the file and keep different
orders does no harm. The rest is about bisection among ranges that may overlap: it keeps a symbol that contains the address in its window unless it passes one that
begins and ends inside another. From that `FindsSymbols`, for any table that has no such symbol but the last.

*PartsProofs, the kernels.* The tables beside the host: `FilesInv` adds to `FilesFollowHost` that the table is a function of records; what is needed of the host is that
it gives numbers that are free. `DosInv` adds that a handle's descriptor came from the host or is one of the first three, because closing a handle that is not open closes descriptor 0xFFFF, which
must be nobody's (`HostHasNoBad`). `ListInv` gives `ListedOnce`: what was given of a directory is as much of it, from its start, as the offset says; a call takes the greatest number of entries that fit, which is 0
only if not even one does, and only then, or at the end, does it say that the end has come.

`MoveInv` is that of a call in progress: it has moved as many bytes as it counts, its pieces lie in its buffers, and the one buffer of a read, or those of a write, are as far as the pieces left say. The count, and that nothing
outside the buffers changes, hold for chunks and vectors too, that the bytes are in their place for what is one piece: the exceptions in section 6 are why. `StackInv` is what is left to push and how far the
stack pointer is from a multiple of 16: before it is aligned anything of any length may have been pushed, after it the lengths of what comes are known, and a multiple of 16 but for the 15 entries of two 32-bit words.

The runner: `CgcInv` adds that who is in a pipe's queue sleeps, wants that pipe and is in it once (`Queued`); it gives `NobodySleepsOnBytes` for any guests and pipes.

System calls: what a hook was told is held against what it ought to be (`due`), which grows by a beginning and an end when a handler is reached, for the hooks there are then. The two are the same between calls, as hooks come and go only there,
and differ by the beginning before the handler and by the end behind it, which is `HooksBracketCalls`; the kernel put first stays first, as kernels are added before the first call (`FrontIsFirst`), and gives `FirstKernelAnswers` (`FirstKernelIsAsked`), which is proved and in no run's list. The least of a set of numbers, which picks the kernel, is got from the well-foundedness of `<`.

**Assumed** is what each module's ASSUME says, and TLC evaluates it in the runs: numbers are numbers, a page and a chunk are not empty, a stack fits under its top, words have 4 or 8 bytes, every name that a directory lists has a size, the host never has
descriptor 0xFFFF open (DOS programs see 16 bits of it), what is loaded when a trace starts is a list of pages.

**Only model-checked:** liveness (`CallsReturn`, `FrontEndsServed`, `UnmapReturns`, `AnswersComeBack`), which needs fairness and ENABLED; `ReadsWholeFrames`, whose reader is made of RECURSIVE operators, which leave tlapm without its SMT solver;
`BatchRetells`, for which the batches, which are bags of accesses, would have to be summed over; `LoadsPrograms`, which needs of a file's segments more than the loader checks, and so is stated for the files that the run has; and `ImageShowsMemory`, whose
blocks and columns are products of variables, on which the solver does not end.

## 5. What is left out, and why

- Gate and Run: `Restart` (nothing calls it), a second `Run`, scripts that run before the gate is locked for the prompt.
- gdb stub: the text of packets and their checksum, registers and memory read and written (they change nothing the properties tell apart).
- Task: what mappings contain, labels and files. Its list's protections are not compared with the CPU's: `MemProt` of a part of a mapping changes
  all of it in the list, as a TODO in the code says.
- MemSim: labels, file offsets (Split leaves the middle piece the offset of the whole page, `page.go:149`), hooks on access, addresses that wrap at 2^64. Memory leaves open which ranges that do not fit are refused to be mapped:
  `Mem.MemMap` refuses by size alone (section 6).
- Trace: the options that trace less than everything, a system call made by an instruction that comes to itself again, special registers (nothing writes one), compression. `LoopDetect` is made by nothing.
- Breakpoints: only Darwin's bzero calls `BreakAdd`, and the look-up of symbols is commented out.
- Contexts: `models.ContextSave` gives `UnicornCpu.ContextSave` a nil on which its type assertion panics, so that `cmd/fuzz`, which restores one per input, cannot be modelled as working.
- Source lines: `CacheSource` has no caller, so that a line is never found.
- CGC: `allocate` and `deallocate` (Mmap and MemUnmap behind a rounding), `fdwait`, the POV's XML.
- Kernels: calls that are passed to the host or answered with a constant; Darwin's shared page and Mach ports; the prefix put before paths, and the arguments put before a script's.
- imgtrace: digrams and the encoder, and when a picture is recorded. What the loader and the kernels write is told to no hook, so that the picture is only of what the guest stored and, with `-binimg`, of what was there at its start. Lua: conversions of values.
- Foreign code (Unicorn, Capstone, Keystone, debug/elf, debug/macho), tables (architectures, system call numbers, host structures), formatting and option parsing.

## 6. What the code does otherwise than it says

| Run | Code | Says |
|---|---|---|
| `exit_before_run` | `usercorn.go:443` resets `exitStatus` after front ends have started; an exit at the prompt before that is lost | `usercorn.go:450` |
| `chosen_pc` | `usercorn.go:481` writes back the program counter read before the trampolines, over one chosen at the prompt meanwhile | `usercorn.go:454` |
| `shellcode_runs` | `usercorn.go:880`: a step hook or a stop ends shellcode early, and nobody is told | `usercorn.go:889` |
| `finds_mapping` | `task.go:155` leaves the list unsorted after a hole, and symbol look-up searches it by bisection | `models/cpu/page.go:176` |
| `mem_overlap` | `models/cpu/memsim.go:71` unmaps only when all of the range is mapped; a replayed trace maps so | `models/cpu/memsim.go:64` |
| `mem_empty` | `models/cpu/memsim.go:66,74` maps an empty range inside a page as a page of its own, behind which bisection finds nothing | `models/cpu/memsim.go:65` |

Met without a run; the models do as the code does:

- Task: `MemUnmap` never returns when its range is empty and inside a mapping (`munmap(addr, 0)`; a Brk within a mapping's last page
  when another mapping follows); `UnmapReturns` is stated for ranges that are not empty.
- Run: the trampolines run whatever error the guest stopped with, and what they return overwrites it (`usercorn.go:475-479`), so that a guest that failed is started again. A guest that has come to its exit address without an exit
  is started there again (447), although the loop is there "to restart Cpu if we need to call a trampoline function" (444).
- MemSim: `models/cpu/mem.go:12` says "methods return an error for addresses that do not fit inside mask", but 37 compares the size with the mask (`&` binds before `+`), and maps a small range at any address.
- gdb stub: an interrupt is seen only once the guest has stopped by itself (`gdbstub.go:384`); detaching or losing the connection leaves the gate locked (320);
  a breakpoint that was removed is never hit again, although setting it is acknowledged (271, "add breakpoint", against 286-295); a breakpoint's hook covers the next address too; a step at a breakpoint does no instruction.
- Rewind: `lua/bind_usercorn.go:189` says "Rewinds the CPU by <n> instructions". What was mapped since stays mapped (`usercorn.go:290`); rewinding to behind a jump leaves the
  program counter behind it; what a system call did just before the target is lost; rewinding to 0 replays the whole log (222-325). The cut keeps the operation that the replay stopped
  before (`u.rewind[:pos+1]`, 301), so that the next rewind replays it, and counts one instruction too many: `CountsOnce` is stated up to the first rewind's end. A rewind while an instruction
  comes to itself again leaves what it did waiting at the replay (313-320), and registers of which no operation has told yet as they are (267-279).
- Trace: of an instruction that comes to itself again one step is recorded, however often (`trace.go:303`, with a TODO at 296), where `PROTOCOL.md:91` says of a step "An instruction executed at the program counter";
  with whole frames the effects of an instruction are applied a step late (`replay.go:119`); a keyframe trims leading zeros of a page but not its address (`trace.go:100`).
- Trace file: the error of a system call's own operations is lost (`ops.go:391,403,406`), and a call that was cut in them, with nothing behind it in its frame, is given as whole, with nil operations where `PROTOCOL.md:199` says "dense array of op messages";
  more than 65535 operations in a system call (`ops.go:371`), or texts of that length together in a mapping (289), make the rest unreadable.
- CGC: "if a CB goes down, take 'em all" (`cgc.go:409`) stops the emulators, which Run's loop starts again, and wakes no sleeping reader; "give everyone in a CS the same secret page" (286) is
  done before the pages are mapped, and fails. A write wakes one of two readers, perhaps not the one who reads on.
- POSIX files: dup, dup2, pipe and socket do not reach the table (`io.go:85`); `Sendfile` leaves the guest's descriptors to Go's finalizers; `Mmap` leaks a descriptor of unknown path; getdents gives 0, the end, when nothing fits.
- Transfers: a buffer of writev that cannot be read is sent, and counted, as zeros (`io.go:159`, `usercorn.go:337-341`); chunks of a read go all to one address (`io.go:21`); a vector goes on behind a short piece; pread and recvfrom write their whole buffer; sendto answers 0.
- DOS: read takes the handle for a host descriptor; a write to an unknown handle goes to descriptor 0; the carry of a failed close, read or write is overwritten; host descriptors leak when handles run out.
- Loading: a script's shell is never tried (`usercorn.go:167` compares a wrapped error; 414 says "PrefixArgs was added for shebang"); the address of the program headers does not move with the file; an interpreter that cannot be loaded is a nil dereference (724); the break handed to it is not moved either (721).
- First stack: a 32-bit Linux program with program headers starts 8 off its alignment (`kernel/posix/kernel.go:84`).
- Symbols: a symbol within another hides the outer one; nameless Mach-O symbols break bisection; a fat file's offset is added to addresses.
- imgtrace: a write over a block's end is an index out of range (`mem_image.go:213`); "block render is broken when approaching bottom right" (115) compares columns with the height; with blocks wider than 2 the Hilbert curve misses points (83-97).
- System calls: a call within socketcall goes past hooks and past kernels put in front (`arch/x86/linux.go:93`); an argument that cannot be fetched gives the guest 0 (`usercorn.go:777`).

## 7. Plan

Done: Turns, Gate, RunLoop; Pages, PageLists, Memory, MemSim; Task; Hooks, GdbStub; Replay, Trace, TraceFile, MemBatch; Syscalls, PosixFiles, Transfer, StartStack, Dos, Cgc; Loading, Symbols, MemImage.

What is left, the most useful first: `BatchRetells` proved; a second `Run` and the script phase in RunLoop; GdbStub over Gate itself, with several front ends; CGC's allocate and
deallocate over Task; a reader of trace files without RECURSIVE, so that `ReadsWholeFrames` could be proved.
