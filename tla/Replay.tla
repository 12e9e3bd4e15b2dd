------------------------------- MODULE Replay -------------------------------
(***************************************************************************)
(* Trace operations, and the replay that rebuilds the machine from them    *)
(* (models/trace/replay.go).  A replay is a value: feeding it an operation *)
(* gives the next.  Its memory is a list of pages, as MemSim's is.         *)
(*                                                                         *)
(* Instructions have size 1.  Operations without an effect on the replay   *)
(* (reads, batches, exit) are all "other"; special registers, which        *)
(* nothing writes, and labels are left out.                                *)
(***************************************************************************)
EXTENDS PageLists

CONSTANTS
  Regs,  \* registers other than pc
  SP     \* the stack pointer, one of them

Jmp(a) == [op |-> "jmp", addr |-> a]
Step == [op |-> "step"]
Other == [op |-> "other"]
Reg(n, v) == [op |-> "reg", num |-> n, val |-> v]
MemMapOp(r, p) == [op |-> "map", range |-> r, prot |-> p]
MemUnmapOp(r) == [op |-> "unmap", range |-> r]
MemProtOp(r, p) == [op |-> "prot", range |-> r, prot |-> p]
MemWriteOp(r, d) == [op |-> "write", range |-> r, data |-> d]
Syscall(ops) == [op |-> "syscall", ops |-> ops]
Frame(ops) == [op |-> "frame", ops |-> ops]
Keyframe(ops) == [op |-> "keyframe", ops |-> ops]

(* Callstack (models/callstack.go): the places the stack pointer went down *)
(* at, the innermost last.                                                 *)
CallsUpdate(stack, pc, sp) ==
  LET kept == {0} \cup {k \in DOMAIN stack : sp <= stack[k].sp} IN
  IF stack = <<>> \/ sp < Last(stack).sp THEN Append(stack, [pc |-> pc, sp |-> sp])
  ELSE IF sp = Last(stack).sp THEN [stack EXCEPT ![Len(stack)].pc = pc]
  ELSE SubSeq(stack, 1, Max(kept))

\* A register that was never recorded is 0 (a missing key of Replay.Regs).
NewReplay ==
  [pc |-> 0, regs |-> [n \in Regs |-> 0], pages |-> <<>>, stack |-> <<>>,
   inscount |-> 0, pending |-> FALSE, effects |-> <<>>]

\* Sim.Map, which puts the page where it belongs in the sorted list, Mem.MemUnmap,
\* Mem.MemProt and Mem.MemWrite.  Errors are ignored.
Mapped(pages, r, prot) ==
  LET rest == IF RangeMapped(pages, r) THEN UnmappedPages(pages, r) ELSE pages
      before == {k \in DOMAIN rest : rest[k].addr < r[1]}
      page == [addr |-> r[1], size |-> Size(r), prot |-> prot, data |-> [i \in 1..Size(r) |-> 0]] IN
  InsertAt(rest, Max({0} \cup before) + 1, page)

Remembered(pages, op) ==
  IF op.op = "map" THEN Mapped(pages, op.range, op.prot)
  ELSE IF ~RangeMapped(pages, op.range) THEN pages
  ELSE CASE op.op = "unmap" -> UnmappedPages(pages, op.range)
         [] op.op = "prot" -> ProtectedPages(pages, op.range, op.prot)
         [] op.op = "write" -> WrittenPages(pages, op.range, op.data)

\* update(), for an operation and for the operations of a syscall.
Update(r, op) ==
  CASE op.op = "jmp" -> [r EXCEPT !.pc = op.addr]
    [] op.op = "step" -> [r EXCEPT !.pc = @ + 1]
    [] op.op = "reg" ->
         [r EXCEPT !.regs[op.num] = op.val,
                   !.stack = IF op.num = SP THEN CallsUpdate(@, r.pc, op.val) ELSE @]
    [] op.op = "other" -> r
    [] OTHER -> [r EXCEPT !.pages = Remembered(@, op)]
UpdateAll(r, ops) == FoldLeft(Update, r, ops)

FlushStepOnly(r) ==   \* mutant: the effects of the instruction are dropped
  IF r.pending THEN [Update(r, Step) EXCEPT !.inscount = @ + 1, !.pending = FALSE, !.effects = <<>>]
  ELSE r
Flush(r) ==
  IF r.pending
  THEN UpdateAll([Update(r, Step) EXCEPT !.inscount = @ + 1, !.pending = FALSE, !.effects = <<>>],
                 r.effects)
  ELSE r

\* One operation of Feed's loop: steps wait for the next flush, jumps and syscalls
\* are applied at once, everything else waits for a step.
FeedOne(r, op) ==
  CASE op.op = "jmp" -> Update(IF op.addr # r.pc THEN Flush(r) ELSE r, op)
    [] op.op = "step" -> [Flush(r) EXCEPT !.pending = TRUE]
    [] op.op = "syscall" -> UpdateAll(Flush(r), op.ops)
    [] OTHER -> [r EXCEPT !.effects = Append(@, op)]

Feed(r, op) ==
  CASE op.op = "keyframe" -> UpdateAll(Flush(r), op.ops)
    [] op.op = "frame" -> Flush(FoldLeft(FeedOne, r, op.ops))
    [] OTHER -> Flush(FeedOne(r, op))
FeedAll(r, ops) == FoldLeft(Feed, r, ops)
=============================================================================
