------------------------------- MODULE Trace -------------------------------
(***************************************************************************)
(* The trace of a run with everything traced, as the flags -trace, -repl   *)
(* and -rewind set it up: the hooks that record (models/trace/trace.go),   *)
(* the live replay and the log that they feed, the trace file, and the     *)
(* rewinding of the machine to an earlier place in the log (usercorn.go).  *)
(*                                                                         *)
(* Main runs an instruction in two steps, its hooks and its work: the code *)
(* hook comes before the instruction.  It may be stopped before the work,  *)
(* when a breakpoint or a step stops it in the hook, and only there may    *)
(* the machine be rewound here.  An instruction may come to itself again,  *)
(* as a loop of one or a round of a repeated one does: the recorder takes  *)
(* all the times in succession for one.  The batches that the memory       *)
(* filter adds have no effect on a replay; MemBatch has them.              *)
(***************************************************************************)
EXTENDS Replay

CONSTANTS
  Code,       \* bound: addresses of instructions, 0 not among them
  Ret,        \* the register that system calls return in
  Values,     \* bound: values of a register, 0 among them
  Ranges,     \* bound: the ranges that system calls work on
  Loaded,     \* bound: the memory at the start, as sequences of pages
  MaxSteps,   \* bound: instructions, less one after a rewind; before a system call,
              \* those done again are among them
  MaxStops, MaxRewinds,  \* bounds: how often Main is stopped and rewound
  MaxRepeats  \* bound: how often an instruction comes to itself again, less one after a rewind

ASSUME TraceAssumption ==
  /\ Code \subseteq Nat \ {0} /\ 1 \in Code /\ Values \subseteq Nat /\ 0 \in Values /\ 0 \in Byte
  /\ Ranges \subseteq {r \in Nat \X Nat : r[1] < r[2]}
  /\ {Ret, SP} \subseteq Regs /\ Ret # SP /\ IsFiniteSet(Regs) /\ {MaxSteps, MaxStops, MaxRewinds, MaxRepeats} \subseteq Nat
  /\ \A pages \in Loaded :
       pages \in Seq(Page) /\ \A i, j \in DOMAIN pages : i < j => End(pages[i]) <= pages[j].addr

VARIABLES
  machine,  \* the CPU: pc, regs and the cells of its memory
  at,       \* where Main is: before or behind the hooks of an instruction, or stopped
  tr,       \* the Trace
  file,     \* what the trace writer was given
  replay,   \* Usercorn.replay
  log,      \* Usercorn.rewind
  past,     \* history: past[n + 1] is the machine when n instructions were done, those
            \* done several times in succession once
  again,    \* history: the instruction that Main is at was done just before
  repeats,  \* history: how often one was done again
  stops,    \* how often Main was stopped
  rewinds,  \* how often it was rewound
  skewed,   \* history: something happened to memory that replays do not follow
  lost      \* history: registers were changed that a rewind did not see

vars == <<machine, at, tr, file, replay, log, past, again, repeats, stops, rewinds, skewed, lost>>

Span(r) == Bytes(r[1], r[2])

-----------------------------------------------------------------------------
(* The recorder.  t.sent is what the callbacks are given, t.packed what    *)
(* the file is, during one step of Main.                                   *)

\* Append: a jump may begin a new frame; operations of a system call wait in it.
Put(t, op, canAdvance) ==
  IF t.frame = <<>> \/ (~t.insys /\ canAdvance)
  THEN [t EXCEPT !.packed = IF t.frame = <<>> THEN @ ELSE Append(@, Frame(t.frame)),
                 !.frame = <<op>>, !.sent = Append(@, op)]
  ELSE IF t.insys /\ op.op # "step" THEN [t EXCEPT !.sysops = Append(@, op)]
  ELSE [t EXCEPT !.frame = Append(@, op), !.sent = Append(@, op)]

PutOne(t, op) == Put(t, op, FALSE)
PutAll(t, ops) == FoldLeft(PutOne, t, ops)

\* The registers that have another value than in known, in some order.
Updates(regs, known) ==
  LET changed == SetToSeq({n \in Regs : known[n] # regs[n]}) IN
  [i \in DOMAIN changed |-> Reg(changed[i], regs[changed[i]])]

\* OnRegUpdate.
RegUpdate(t, regs) == [PutAll(t, Updates(regs, t.known)) EXCEPT !.known = regs]

FlushSys(t) ==
  IF t.insys THEN Put([t EXCEPT !.insys = FALSE, !.sysops = <<>>], Syscall(t.sysops), FALSE) ELSE t

FlushStepFirst(t, regs) ==   \* mutant: the registers come after the step
  LET sys == [t EXCEPT !.insys = FALSE, !.sysops = <<>>]
      done == IF t.step THEN RegUpdate(Put([sys EXCEPT !.step = FALSE], Step, FALSE), regs) ELSE sys IN
  IF t.insys THEN Put(done, Syscall(t.sysops), FALSE) ELSE done
FlushStep(t, regs) ==
  LET sys == [t EXCEPT !.insys = FALSE, !.sysops = <<>>]
      done == IF t.step THEN Put([RegUpdate(sys, regs) EXCEPT !.step = FALSE], Step, FALSE) ELSE sys IN
  IF t.insys THEN Put(done, Syscall(t.sysops), FALSE) ELSE done

OnJmp(t, a, regs) ==
  Put(IF t.step /\ a # t.stepAddr THEN FlushStep(t, regs) ELSE t, Jmp(a), TRUE)
OnStepTwice(t, a, regs) ==   \* mutant: an instruction that is entered again is recorded again
  [FlushStep(t, regs) EXCEPT !.step = TRUE, !.stepAddr = a]
OnStep(t, a, regs) ==
  IF a = t.stepAddr THEN t ELSE [FlushStep(t, regs) EXCEPT !.step = TRUE, !.stepAddr = a]
OnSysPre(t) == [FlushSys(t) EXCEPT !.insys = TRUE, !.sysops = <<>>]
OnSysPost(t, regs) == IF t.insys THEN RegUpdate(t, regs) ELSE t
OnExit(t) == FlushSys(Put(t, Other, FALSE))

\* Whoever called the recorder: the callbacks are fed, the file is written.
Record(t) ==
  /\ tr' = [t EXCEPT !.sent = <<>>, !.packed = <<>>]
  /\ file' = file \o t.packed
  /\ replay' = FeedAll(replay, t.sent)
  /\ log' = log \o t.sent

-----------------------------------------------------------------------------
(* Attach, before the first instruction: a keyframe of what is there.      *)

\* bytes.Trim: zeros go at both ends.
Trim(s) ==
  LET full == {i \in DOMAIN s : s[i] # 0} IN
  IF full = {} THEN <<>> ELSE SubSeq(s, Min(full), Max(full))
KeyframeOf(regs, pages) ==
  LET page(p) == LET d == Trim(p.data) IN
                 <<MemMapOp(<<p.addr, End(p)>>, p.prot), MemWriteOp(<<p.addr, p.addr + Len(d)>>, d)>> IN
  Keyframe(Updates(regs, [n \in Regs |-> 0]) \o FlattenSeq([i \in DOMAIN pages |-> page(pages[i])]))

\* The page's address is kept, and so what is behind leading zeros moves.
Shifted(p) == \E i \in DOMAIN Trim(p.data) : Trim(p.data)[i] # p.data[i]

NewTrace(regs) ==
  [frame |-> <<>>, insys |-> FALSE, sysops |-> <<>>, step |-> FALSE, stepAddr |-> 0,
   known |-> regs, sent |-> <<>>, packed |-> <<>>]

Init ==
  \E v \in Values, pages \in Loaded :
    LET regs == [n \in Regs |-> IF n = SP THEN v ELSE 0]
        kf == KeyframeOf(regs, pages) IN
    /\ machine = [pc |-> 1, regs |-> regs, cells |-> Cells(pages)]
    /\ tr = NewTrace(regs)
    /\ file = <<kf>> /\ log = <<kf>> /\ replay = Feed(NewReplay, kf)
    /\ at = "start" /\ past = <<machine>> /\ stops = 0 /\ rewinds = 0
    /\ again = FALSE /\ repeats = 0 /\ lost = FALSE
    /\ skewed = \E i \in DOMAIN pages : Shifted(pages[i])

-----------------------------------------------------------------------------
(* Main.                                                                   *)

\* The hooks before an instruction: the block hook when the CPU has been started
\* or has jumped, and the code hook.
Arrive ==
  /\ at \in {"start", "jumped", "next"}
  /\ LET t == IF at = "next" THEN tr ELSE OnJmp(tr, machine.pc, machine.regs)
         n == OnStep(t, machine.pc, machine.regs) IN
     /\ Record(n)
     /\ past' = IF at = "start" \/ again THEN past ELSE Append(past, machine)
  /\ at' = "arrived"
  /\ UNCHANGED <<machine, again, repeats, stops, skewed, lost, rewinds>>

Fetched(next) == at' = IF next = machine.pc + 1 THEN "next" ELSE "jumped"

\* What an instruction may do: change a register, write, jump; and come to itself again,
\* which begins a block.
Work ==
  /\ at = "arrived" /\ Len(past) + rewinds <= MaxSteps
  /\ \E next \in Code :
       /\ \/ machine' = [machine EXCEPT !.pc = next] /\ Record(tr)
          \/ \E v \in Values :
               /\ next \in {machine.pc, machine.pc + 1} /\ machine' = [machine EXCEPT !.pc = next, !.regs[SP] = v]
               /\ Record(tr)
          \/ \E x \in DOMAIN machine.cells, b \in Byte :
               /\ next \in {machine.pc, machine.pc + 1} /\ machine' = [machine EXCEPT !.pc = next, !.cells[x].byte = b]
               /\ Record(Put(tr, MemWriteOp(<<x, x + 1>>, <<b>>), FALSE))
       /\ Fetched(next)
       /\ again' = (next = machine.pc)
  /\ repeats' = (IF again' THEN repeats + 1 ELSE repeats) /\ repeats' + rewinds <= MaxRepeats
  /\ UNCHANGED <<past, stops, skewed, lost, rewinds>>

(* What a kernel may do to memory, and the operations that the map hooks   *)
(* and MemIO record of it.                                                 *)
Onto(new, c) == [x \in DOMAIN new \cup DOMAIN c |-> IF x \in DOMAIN new THEN new[x] ELSE c[x]]
With(c, r, p, d) == Onto([x \in Span(r) |-> [prot |-> p, byte |-> d[x - r[1] + 1]]], c)
Tidy(c, r) == Span(r) \subseteq DOMAIN c \/ Span(r) \cap DOMAIN c = {}

Mapping(c, r, p) ==
  [cells |-> With(c, r, p, [i \in 1..(r[2] - r[1]) |-> 0]), ops |-> <<MemUnmapOp(r), MemMapOp(r, p)>>]
Unmapping(c, r) == [cells |-> [x \in DOMAIN c \ Span(r) |-> c[x]], ops |-> <<MemUnmapOp(r)>>]
Protecting(c, r, p) ==
  [cells |-> [x \in DOMAIN c |-> IF x \in Span(r) THEN [c[x] EXCEPT !.prot = p] ELSE c[x]],
   ops |-> <<MemProtOp(r, p)>>]
Storing(c, r, d) ==
  [cells |-> [x \in DOMAIN c |-> IF x \in Span(r) THEN [c[x] EXCEPT !.byte = d[x - r[1] + 1]] ELSE c[x]],
   ops |-> <<MemWriteOp(r, d)>>]

KernelWork(c, r) ==
  {Mapping(c, r, p) : p \in Prots} \cup {Unmapping(c, r)} \cup
  (IF Span(r) \subseteq DOMAIN c
   THEN {Protecting(c, r, p) : p \in Prots} \cup {Storing(c, r, d) : d \in [1..(r[2] - r[1]) -> Byte]}
   ELSE {})

\* A system call, which is not an instruction that repeats itself: the kernel changes
\* memory and perhaps a register; the value it returns is stored when the hooks are done.
SyscallWork ==
  /\ at = "arrived" /\ ~again /\ Len(past) + repeats + rewinds <= MaxSteps /\ machine.pc + 1 \in Code
  /\ \E r \in Ranges, v, ret \in Values : \E work \in KernelWork(machine.cells, r) :
       LET regs == [machine.regs EXCEPT ![SP] = v] IN
       /\ machine' = [pc |-> machine.pc + 1, regs |-> [regs EXCEPT ![Ret] = ret], cells |-> work.cells]
       /\ Record(OnSysPost(PutAll(OnSysPre(tr), work.ops), regs))
       /\ skewed' = (skewed \/ ~Tidy(machine.cells, r))
  /\ Fetched(machine.pc + 1)
  /\ UNCHANGED <<past, again, repeats, stops, lost, rewinds>>

\* Main ends, in a system call or not; Run's deferred function detaches the trace.
Finish ==
  /\ at = "arrived"
  /\ \E sys \in BOOLEAN :
       LET t == FlushStep(OnExit(IF sys THEN OnSysPre(tr) ELSE tr), machine.regs) IN
       Record([t EXCEPT !.packed = Append(@, Frame(t.frame)), !.frame = <<>>])
  /\ at' = "done"
  /\ UNCHANGED <<machine, past, again, repeats, stops, skewed, lost, rewinds>>

-----------------------------------------------------------------------------
(* A prompt, while Main waits at the gate.                                 *)

Stop ==
  /\ at = "arrived" /\ stops < MaxStops
  /\ at' = "stopped" /\ stops' = stops + 1
  /\ UNCHANGED <<machine, tr, file, replay, log, past, again, repeats, skewed, lost, rewinds>>

Resume ==
  /\ at = "stopped" /\ at' = "start"
  /\ UNCHANGED <<machine, tr, file, replay, log, past, again, repeats, stops, skewed, lost, rewinds>>

\* The replays of the log before its i-th operation, for each i, and at its end.
Replayed == [i \in 1..(Len(log) + 1) |-> FeedAll(NewReplay, SubSeq(log, 1, i - 1))]

\* The search for the target stops before the i-th operation: at an instruction
\* count, or the second time that pc is seen at the address.
Found(i, target, addr, seen) ==
  IF target > 0 THEN seen[i].inscount = target
  ELSE /\ seen[i].pc = addr /\ \E j \in 1..(i - 1) : seen[j].pc = addr
       /\ log[i] \in {Step, Jmp(addr)}

\* The memory of the target is mapped and written again, page by page, and recorded.
Restored(to) ==
  FlattenSeq([k \in DOMAIN to.pages |->
    LET p == to.pages[k] r == <<p.addr, End(p)>> IN
    <<MemUnmapOp(r), MemMapOp(r, p.prot), MemWriteOp(r, p.data)>>])

\* A rewind goes to one of the replays that are seen on the way through the log.  What
\* the live replay holds back of an instruction done again stays there, and the registers
\* that it changed, which no operation has told of yet, stay as they are.
RewindTo(seen, by, addr) ==
  LET target == IF by > 0 THEN replay.inscount - by ELSE 0
      found == {i \in DOMAIN log : Found(i, target, addr, seen)}
      stop == IF found = {} THEN Len(log) + 1 ELSE Min(found)
      to == seen[stop]
      t == PutAll(tr, Restored(to))
      regs == [n \in Regs |-> IF replay.regs[n] = to.regs[n] THEN machine.regs[n] ELSE to.regs[n]] IN
  /\ found # {} \/ (target = 0 /\ \E i \in DOMAIN log : seen[i].pc = addr)
  /\ machine' = [pc |-> to.pc, regs |-> regs, cells |-> Onto(Cells(to.pages), machine.cells)]
  /\ tr' = [t EXCEPT !.sent = <<>>, !.step = FALSE, !.stepAddr = 0, !.known = regs]
  /\ log' = SubSeq(log, 1, Min({stop, Len(log)}))
  /\ replay' = [FeedAll(replay, t.sent) EXCEPT !.pages = to.pages, !.regs = to.regs, !.pc = to.pc,
                                               !.inscount = to.inscount]
  /\ past' = SubSeq(past, 1, Min({to.inscount + 1, Len(past)}))
  /\ skewed' = (skewed \/ again \/ DOMAIN machine.cells # DOMAIN Cells(to.pages))
  /\ lost' = (lost \/ again) /\ again' = FALSE

Rewind(by, addr) ==
  /\ at = "stopped" /\ by <= replay.inscount
  /\ rewinds' = rewinds + 1
  /\ UNCHANGED <<at, file, repeats, stops>>
  /\ \E seen \in {Replayed} : RewindTo(seen, by, addr)

RewindSome == rewinds < MaxRewinds /\ \E by \in 0..MaxSteps, addr \in Code \cup {0} :
                (by = 0 \/ addr = 0) /\ Rewind(by, addr)

Next == Arrive \/ Work \/ SyscallWork \/ Finish \/ Stop \/ Resume \/ RewindSome
Spec == Init /\ [][Next]_vars

-----------------------------------------------------------------------------
(* Properties.                                                             *)

\* Once the operations that still wait are applied, the replay has the machine's
\* memory, and, before an instruction that was not done just before, its registers: no
\* change is missed or comes in the wrong order (trace.go:232-310, replay.go:43-127), but
\* what an instruction done again did to registers before a rewind.  A rewound log still
\* has the operation that its replay stopped before, and the next rewind replays it on
\* memory that the machine had since.  The frames of its call stack go down, whatever the
\* program does to the stack pointer (callstack.go:22-58).
Caught == UpdateAll(UpdateAll(replay, replay.effects), tr.sysops)
InStep ==
  /\ ~skewed /\ rewinds < 2 => Cells(Caught.pages) = machine.cells
  /\ at = "arrived" /\ ~again /\ ~lost => Caught.regs = machine.regs
  /\ \A i, j \in DOMAIN replay.stack : i < j => replay.stack[i].sp > replay.stack[j].sp

\* The file, which has whole frames, brings a replay to where the operations one by
\* one bring it (replay.go:81-127), the call stack excepted: what the instructions of
\* a frame did is applied a step late, and a change of the stack pointer that way
\* gets the place of the next instruction.
FileRetells ==
  rewinds = 0 =>
    LET read == FeedAll(NewReplay, file \o (IF tr.frame = <<>> THEN <<>> ELSE <<Frame(tr.frame)>>))
        done(r) == [UpdateAll(r, r.effects) EXCEPT !.effects = <<>>, !.stack = <<>>] IN
    done(read) = done(replay)

\* An instruction is counted once, however often Main is stopped in front of it, and
\* however often in succession it is done (trace.go:295-310): the count is what Rewind
\* goes by.  A rewound log still has the operation that its replay stopped before, and
\* the next rewind replays it.
CountsOnce ==
  at # "done" /\ rewinds < 2 =>
    /\ replay.inscount + 1 = Len(past)
    /\ rewinds = 0 /\ at = "arrived" /\ ~again => Last(past) = machine

\* Rewinding by some instructions, not all of them, gives the machine that was there
\* before them, when the last one left neither jumped nor called the system, whose
\* operations follow the step in the log, nothing was mapped since, and the one that Main
\* is stopped at was not done just before (usercorn.go:222-325).
RewindsStraightBack ==
  [][\A by \in 1..MaxSteps :
       LET n == replay.inscount - by IN
       /\ rewinds = 0 /\ n > 0 /\ Rewind(by, 0) /\ ~skewed'
       /\ Last(log').op \notin {"jmp", "syscall"}
       => machine' = past[n + 1]]_vars
=============================================================================
