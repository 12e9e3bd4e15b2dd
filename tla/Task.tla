------------------------------- MODULE Task -------------------------------
(***************************************************************************)
(* The address space of a task (task.go), with the program break of        *)
(* Usercorn.Brk.                                                           *)
(*                                                                         *)
(* Task keeps a list of mappings beside the CPU's own memory and tells the *)
(* map hooks (the trace) of every change.  Both copies are changed by each *)
(* call, in several steps: Mmap at a fixed address, and Brk, first unmap   *)
(* what is there, one mapping of the list at a time.                       *)
(*                                                                         *)
(* A range is given by its first address and the address after its last:   *)
(* the code's addr + size, of which it computes everything it needs.  In   *)
(* Brk size can underflow; addr + size is then again the end meant, which  *)
(* is not above addr.  What mappings contain and are labelled with is left *)
(* out.                                                                    *)
(***************************************************************************)
EXTENDS Pages

CONSTANTS
  Page,      \* UC_MEM_ALIGN
  Base,      \* BASE, where a search for free memory starts when none is asked for
  Top,       \* the end of the address space, 2^bits
  Prots,     \* protections
  HeapProt,  \* PROT_READ|PROT_WRITE
  NoProt,    \* PROT_NONE, where it does not matter
  Heap,      \* where the break may start
  Addrs,     \* bound: the addresses that callers give
  Sizes      \* bound: the sizes that callers give

ASSUME TaskAssumption ==
  /\ Page \in Nat \ {0} /\ Base \in Nat /\ Top \in Nat
  /\ HeapProt \in Prots /\ NoProt \in Prots
  /\ Heap \subseteq Nat /\ Addrs \subseteq Nat /\ Sizes \subseteq Nat

VARIABLES
  tmem,  \* Task.mem: the list of mappings, in its order
  cpu,   \* the CPU's memory: mapped addresses, with their protection
  seen,  \* the same, as a listener of the map hooks makes it out
  brk,   \* Usercorn.brk
  job    \* the call that is unmapping, and its range

vars == <<tmem, cpu, seen, brk, job>>

Mapping == [addr : Nat, size : Nat \ {0}, prot : Prots]
Without(c, a, e) == [x \in DOMAIN c \ Bytes(a, e) |-> c[x]]
With(c, a, e, p) == [x \in DOMAIN c \cup Bytes(a, e) |-> IF x \in Bytes(a, e) THEN p ELSE c[x]]

\* align(), with the end instead of the size.
Down(x) == Page * (x \div Page)
Up(x) == Down(x + Page - 1)

\* mapping(): the first mapping of the list that meets the range.
Hits(m, a, e) == (a < m.addr /\ e > m.addr) \/ (a >= m.addr /\ a < End(m))
FirstHit(i, a, e) ==
  /\ i \in DOMAIN tmem
  /\ Hits(tmem[i], a, e)
  /\ \A j \in 1..(i - 1) : ~Hits(tmem[j], a, e)
Free(a, e) == \A i \in DOMAIN tmem : ~Hits(tmem[i], a, e)

(* The CPU (unicorn).  It refuses to unmap or protect a range that is not  *)
(* wholly mapped, and to map one that is empty, not free, or goes past the *)
(* end.                                                                    *)
CpuUnmap(c, a, e) == IF Bytes(a, e) \subseteq DOMAIN c THEN Without(c, a, e) ELSE c
CpuMaps(a, e) == a < e /\ e <= Top /\ Bytes(a, e) \cap DOMAIN cpu = {}

Idle == [kind |-> "idle", addr |-> 0, end |-> 0, prot |-> NoProt, to |-> 0]
Jobs == [kind : {"idle", "unmap", "mmap", "brk"}, addr : Nat, end : Nat, prot : Prots, to : Nat]

TaskTypeOK ==
  /\ tmem \in Seq(Mapping)
  /\ cpu \in [DOMAIN cpu -> Prots] /\ DOMAIN cpu \subseteq Nat
  /\ seen \in [DOMAIN seen -> Prots]
  /\ brk \in Nat
  /\ job \in Jobs

Init ==
  /\ tmem = <<>>
  /\ cpu = [x \in {} |-> NoProt] /\ seen = cpu
  /\ brk \in Heap
  /\ job = Idle

-----------------------------------------------------------------------------
(* The steps that Mmap, MemUnmap and Brk are made of.                      *)

\* MemUnmap tells the hooks first.
StartUnmap(kind, a, e, p, to) ==
  /\ job' = [kind |-> kind, addr |-> a, end |-> e, prot |-> p, to |-> to]
  /\ seen' = Without(seen, a, e)
  /\ UNCHANGED <<tmem, cpu>>

RemoveAt(s, i) == [j \in 1..(Len(s) - 1) |-> IF j < i THEN s[j] ELSE s[j + 1]]

\* What is left of a mapping at the edges of the range, the code's "left" and
\* "right".
LeftOf(m, a, e) == IF a <= m.addr /\ e > m.addr THEN e ELSE m.addr
RightOfLate(m, a, e) ==   \* mutant: a range that ends with the mapping does not shrink it
  IF a < End(m) /\ e > End(m) THEN a ELSE End(m)
RightOf(m, a, e) == IF a < End(m) /\ e >= End(m) THEN a ELSE End(m)
InMiddle(m, a, e) == LeftOf(m, a, e) < a /\ RightOf(m, a, e) > e

\* The range covers the mapping.
UnmapWhole(i, a, e) ==
  LET m == tmem[i] IN
  /\ LeftOf(m, a, e) >= RightOf(m, a, e)
  /\ cpu' = CpuUnmap(cpu, m.addr, End(m))
  /\ tmem' = RemoveAt(tmem, i)

UnmapMiddleKept(i, a, e) ==   \* mutant: the left end keeps the mapping's size
  LET m == tmem[i] IN
  /\ LeftOf(m, a, e) < RightOf(m, a, e) /\ InMiddle(m, a, e)
  /\ cpu' = CpuUnmap(cpu, a, e)
  /\ tmem' = RemoveAt(tmem, i) \o
               <<m, [addr |-> e, size |-> End(m) - e, prot |-> m.prot]>>

\* It is inside: the mapping is replaced by its two ends, last in the list.
UnmapMiddle(i, a, e) ==
  LET m == tmem[i] IN
  /\ LeftOf(m, a, e) < RightOf(m, a, e) /\ InMiddle(m, a, e)
  /\ cpu' = CpuUnmap(cpu, a, e)
  /\ tmem' = RemoveAt(tmem, i) \o
               <<[addr |-> m.addr, size |-> a - m.addr, prot |-> m.prot],
                 [addr |-> e, size |-> End(m) - e, prot |-> m.prot]>>

UnmapEdgeLeft(i, a, e) ==   \* mutant: the CPU's right edge is forgotten
  LET m == tmem[i]
      left == LeftOf(m, a, e)
      right == RightOf(m, a, e) IN
  /\ left < right /\ ~InMiddle(m, a, e)
  /\ cpu' = CpuUnmap(cpu, m.addr, left)
  /\ tmem' = [tmem EXCEPT ![i] = [addr |-> left, size |-> right - left, prot |-> m.prot]]

UnmapEdgeAll(i, a, e) ==   \* mutant: the CPU unmaps the whole mapping
  LET m == tmem[i]
      left == LeftOf(m, a, e)
      right == RightOf(m, a, e) IN
  /\ left < right /\ ~InMiddle(m, a, e)
  /\ cpu' = CpuUnmap(cpu, m.addr, End(m))
  /\ tmem' = [tmem EXCEPT ![i] = [addr |-> left, size |-> right - left, prot |-> m.prot]]

\* It overlaps an edge: the mapping shrinks.
UnmapEdge(i, a, e) ==
  LET m == tmem[i]
      left == LeftOf(m, a, e)
      right == RightOf(m, a, e) IN
  /\ left < right /\ ~InMiddle(m, a, e)
  /\ cpu' = CpuUnmap(CpuUnmap(cpu, m.addr, left), right, End(m))
  /\ tmem' = [tmem EXCEPT ![i] = [addr |-> left, size |-> right - left, prot |-> m.prot]]

\* One round of MemUnmap's loop.
UnmapOne ==
  /\ job.kind # "idle"
  /\ \E i \in DOMAIN tmem :
       /\ FirstHit(i, job.addr, job.end)
       /\ \/ UnmapWhole(i, job.addr, job.end)
          \/ UnmapMiddle(i, job.addr, job.end)
          \/ UnmapEdge(i, job.addr, job.end)
  /\ UNCHANGED <<seen, brk, job>>

UnmapDone ==
  /\ job.kind = "unmap"
  /\ Free(job.addr, job.end)
  /\ job' = Idle
  /\ UNCHANGED <<tmem, cpu, seen, brk>>

MapPageUnchecked(a, e, p) ==   \* mutant: the CPU's error is ignored
  /\ cpu' = With(cpu, a, e, p)
  /\ tmem' \in Sorted(Append(tmem, [addr |-> a, size |-> e - a, prot |-> p]))
  /\ seen' = With(seen, a, e, p)

\* The end of Mmap: the CPU maps, the list is sorted, the hooks are told.
MapPage(a, e, p) ==
  LET pages == Append(tmem, [addr |-> a, size |-> e - a, prot |-> p]) IN
  /\ CpuMaps(a, e)
  /\ cpu' = With(cpu, a, e, p)
  /\ tmem' \in Sorted(pages)
  /\ seen' = With(seen, a, e, p)

MapFixed ==
  /\ job.kind \in {"mmap", "brk"}
  /\ Free(job.addr, job.end)
  /\ MapPage(job.addr, job.end, job.prot)
  /\ brk' = IF job.kind = "brk" THEN job.to ELSE brk
  /\ job' = Idle

MapFailsGrown ==   \* mutant: the break moves although nothing was mapped
  /\ job.kind \in {"mmap", "brk"}
  /\ Free(job.addr, job.end)
  /\ brk' = IF job.kind = "brk" THEN job.to ELSE brk
  /\ job' = Idle
  /\ UNCHANGED <<tmem, cpu, seen>>

\* The CPU refuses, because it must or because it has no memory left.
MapFails ==
  /\ job.kind \in {"mmap", "brk"}
  /\ Free(job.addr, job.end)
  /\ job' = Idle
  /\ UNCHANGED <<tmem, cpu, seen, brk>>

-----------------------------------------------------------------------------
(* The calls.                                                              *)

MemUnmap(a, n) ==
  /\ job = Idle
  /\ StartUnmap("unmap", Down(a), Up(a + n), NoProt, 0)
  /\ UNCHANGED brk

\* Mmap where the caller says.
Mmap(a, n, p) ==
  /\ job = Idle
  /\ StartUnmap("mmap", Down(a), Up(a + n), p, 0)
  /\ UNCHANGED brk

\* Mmap anywhere: MemReserve takes the first place from the hint upwards that is
\* free.  It looks at every page that starts in the address space.
Reserves(i, hint, n) ==
  /\ i >= hint /\ i <= Top - Page /\ i % Page = 0
  /\ Free(i, i + n)
  /\ \A j \in hint..(i - 1) : j % Page = 0 => ~Free(j, j + n)

MmapAnywhere(a, n, p) ==
  LET size == Up(a + n) - Down(a)
      hint == IF Down(a) = 0 THEN Down(Base) ELSE Down(a) IN
  /\ job = Idle
  /\ \E i \in hint..Top : Reserves(i, hint, size) /\ MapPage(i, i + size, p)
  /\ UNCHANGED <<brk, job>>

MemProtTold(a, n, p) ==   \* mutant: the hooks are told what the CPU refused
  LET lo == Down(a)
      hi == Up(a + n) IN
  /\ job = Idle
  /\ tmem' = [i \in DOMAIN tmem |->
                IF FirstHit(i, lo, hi) THEN [tmem[i] EXCEPT !.prot = p] ELSE tmem[i]]
  /\ seen' = With(seen, lo, hi, p)
  /\ IF Bytes(lo, hi) \subseteq DOMAIN cpu THEN cpu' = With(cpu, lo, hi, p) ELSE UNCHANGED cpu
  /\ UNCHANGED <<brk, job>>

\* The whole first mapping that the range meets changes in the list, the range
\* itself in the CPU.
MemProt(a, n, p) ==
  LET lo == Down(a)
      hi == Up(a + n) IN
  /\ job = Idle
  /\ tmem' = [i \in DOMAIN tmem |->
                IF FirstHit(i, lo, hi) THEN [tmem[i] EXCEPT !.prot = p] ELSE tmem[i]]
  /\ IF Bytes(lo, hi) \subseteq DOMAIN cpu
       THEN cpu' = With(cpu, lo, hi, p) /\ seen' = With(seen, lo, hi, p)
       ELSE UNCHANGED <<cpu, seen>>
  /\ UNCHANGED <<brk, job>>

\* The break is first moved to where it can grow from: the end of the mapping that
\* it is in, if it is in one.
BrkFrom(start, p, a) ==
  /\ brk' = start
  /\ IF a = start
       THEN UNCHANGED <<tmem, cpu, seen, job>>
       ELSE StartUnmap("brk", Down(start), Up(a), p, a)

Brk(a) ==
  /\ job = Idle
  /\ a > 0 /\ a >= brk
  /\ \/ Free(brk, brk + 1) /\ BrkFrom(brk, HeapProt, a)
     \/ \E i \in DOMAIN tmem : FirstHit(i, brk, brk + 1) /\ BrkFrom(End(tmem[i]), tmem[i].prot, a)

Next ==
  \/ UnmapOne \/ UnmapDone \/ MapFixed \/ MapFails
  \/ \E a \in Addrs : Brk(a)
  \/ \E a \in Addrs, n \in Sizes : MemUnmap(a, n)
  \/ \E a \in Addrs, n \in Sizes, p \in Prots :
       Mmap(a, n, p) \/ MmapAnywhere(a, n, p) \/ MemProt(a, n, p)

Spec == Init /\ [][Next]_vars

\* A call that has begun goes on.
FairSpec == Spec /\ WF_vars(UnmapOne) /\ WF_vars(UnmapDone) /\ WF_vars(MapFixed \/ MapFails)

-----------------------------------------------------------------------------
(* Properties.                                                             *)

\* No address is in two mappings of the list (task.go:51-61 takes the first it
\* finds), not even while one is being cut up.
Disjoint ==
  \A i, j \in DOMAIN tmem :
    i # j => End(tmem[i]) <= tmem[j].addr \/ End(tmem[j]) <= tmem[i].addr

\* The list and the CPU agree on what is mapped at every step: nothing the CPU has
\* refused has been taken as done, and nothing it did is forgotten (task.go:117-156,
\* 199-205).
MappedAlike == DOMAIN cpu = UNION {Bytes(tmem[i].addr, End(tmem[i])) : i \in DOMAIN tmem}

\* Whoever follows the map hooks knows the CPU's memory and protections, but for the
\* range that a call is unmapping (task.go:86-91, 98-100, 203-205).
HooksTell ==
  seen = IF job = Idle THEN cpu ELSE Without(cpu, job.addr, job.end)

\* Mappings, and the ranges that calls work on, are whole pages; a range that ends
\* before it begins, which Brk can ask for, begins inside no mapping.  (Cut by such a
\* range, a mapping would leave two pieces that overlap.)
OnPage(x) == Down(x) = x
WholePages ==
  /\ \A i \in DOMAIN tmem : OnPage(tmem[i].addr) /\ OnPage(End(tmem[i]))
  /\ OnPage(job.addr) /\ OnPage(job.end)
JobInOrder ==
  \/ job.addr <= job.end
  \/ \A i \in DOMAIN tmem : job.addr <= tmem[i].addr \/ End(tmem[i]) <= job.addr

\* The inductive invariant.
TaskInv == TaskTypeOK /\ Disjoint /\ MappedAlike /\ HooksTell /\ WholePages /\ JobInOrder

\* Unmapping changes nothing outside its range (task.go:107-156).
KeepsTheRest ==
  [][UnmapOne => \A x \in DOMAIN cpu \ Bytes(job.addr, job.end) :
                   x \in DOMAIN cpu' /\ cpu'[x] = cpu[x]]_vars

\* The break moves only up, and only over memory that is mapped: a program that is
\* told it has grown can use what it got (usercorn.go:554-574).
BrkIsMapped == [][brk' # brk => brk' > brk /\ Bytes(brk, brk') \subseteq DOMAIN cpu']_vars

\* What makes it inductive: a call of Brk maps from the break up to where it will be,
\* or from above there, which the CPU refuses.
BrkInv ==
  job.kind = "brk" =>
    /\ job.addr <= brk /\ job.to <= job.end
    /\ job.to > brk \/ job.end <= job.addr

\* A call that unmaps something comes to an end: each round of the loop leaves less
\* to do (task.go:102-159).  Without a byte to unmap it need not: in a range of size
\* 0 the loop finds the mapping around it again and again.
UnmapReturns == (job # Idle /\ job.addr < job.end) ~> (job = Idle)

\* "binary search to find index of first region containing addr, if any, else -1"
\* (page.go:176), as Symbolicate uses it on this list (usercorn.go:995-997).
FindsMapping == job = Idle => \A x \in DOMAIN cpu : BSearch(tmem, x) # 0
=============================================================================
