------------------------------- MODULE MemSim -------------------------------
(***************************************************************************)
(* Emulated memory: MemSim, a list of pages (models/cpu/memsim.go), behind *)
(* Mem, which checks ranges (models/cpu/mem.go).  The replay of a trace    *)
(* keeps its memory in such a list, too.                                   *)
(***************************************************************************)
EXTENDS PageLists

CONSTANTS
  Space,   \* Mem.mask + 1
  Ranges   \* bound: the ranges that callers give

ASSUME MemSimAssumption ==
  /\ Space \in Nat \ {0}
  /\ Ranges \subseteq {r \in Nat \X Nat : r[1] <= r[2]}
  /\ {} \in Prots /\ 0 \in Byte

VARIABLES
  mem,     \* MemSim.Mem
  refused  \* the call just made, if it returned an error, or "none"

vars == <<mem, refused>>

MemTypeOK == mem \in Seq(Page) /\ refused \in {"none", "map", "protect", "unmap", "write"}

Init == mem = <<>> /\ refused = "none"

\* MemSim.Map.
MapOverNothing(r, prot, zero) ==   \* mutant: nothing is unmapped first
  LET data == IF ~zero /\ RangeMapped(mem, r) THEN Read(mem, r, {}).data ELSE [i \in 1..Size(r) |-> 0]
      pages == Append(mem, [addr |-> r[1], size |-> Size(r), prot |-> prot, data |-> data]) IN
  mem' \in Sorted(pages)

MapOver(r, prot, zero) ==
  LET data == IF ~zero /\ RangeMapped(mem, r) THEN Read(mem, r, {}).data ELSE [i \in 1..Size(r) |-> 0]
      old == IF RangeMapped(mem, r) THEN UnmappedPages(mem, r) ELSE mem
      pages == Append(old, [addr |-> r[1], size |-> Size(r), prot |-> prot, data |-> data]) IN
  mem' \in Sorted(pages)

Map(r, prot, zero) == refused' = "none" /\ MapOver(r, prot, zero)

-----------------------------------------------------------------------------
(* Mem's methods.                                                          *)

Refuse(call) == refused' = call /\ UNCHANGED mem

\* addr + size & mask != addr + size reads addr + (size & mask): only the size is
\* held against the mask.
MemMap(r, prot) ==
  IF Size(r) < Space
  THEN MapOver(r, prot, TRUE) /\ refused' = "none"
  ELSE Refuse("map")

MemProt(r, prot) ==
  IF RangeMapped(mem, r)
  THEN mem' = ProtectedPages(mem, r, prot) /\ refused' = "none"
  ELSE Refuse("protect")

MemUnmap(r) ==
  IF RangeMapped(mem, r)
  THEN mem' = UnmappedPages(mem, r) /\ refused' = "none"
  ELSE Refuse("unmap")

WriteProt(r, bytes, prot) ==
  IF RangeMapped(mem, r) /\ RangeAllowed(mem, r, prot)
  THEN mem' = WrittenPages(mem, r, bytes) /\ refused' = "none"
  ELSE Refuse("write")

Others(r, prot) ==
  \/ MemProt(r, prot)
  \/ MemUnmap(r)
  \/ \E bytes \in [1..Size(r) -> Byte] : WriteProt(r, bytes, prot)

Next ==
  \E r \in Ranges, prot \in Prots :
    \/ \E zero \in BOOLEAN : Map(r, prot, zero)
    \/ MemMap(r, prot)
    \/ Others(r, prot)

Spec == Init /\ [][Next]_vars

\* Callers that map no empty range, and over memory only where all of it is mapped or
\* none: Map refuses neither, and OverlapsUnmapped and HidesNothing say what comes of it.
MappedAt(x) == \E i \in DOMAIN mem : Holds(mem[i], x)
Tidy(r) ==
  /\ Size(r) > 0
  /\ (\A x \in Bytes(r[1], r[2]) : MappedAt(x)) \/ (\A x \in Bytes(r[1], r[2]) : ~MappedAt(x))

TidyNext ==
  \E r \in Ranges, prot \in Prots :
    \/ Tidy(r) /\ \E zero \in BOOLEAN : Map(r, prot, zero)
    \/ Tidy(r) /\ MemMap(r, prot)
    \/ Others(r, prot)

TidySpec == Init /\ [][TidyNext]_vars

-----------------------------------------------------------------------------
(* Properties.                                                             *)

\* The list is sorted and no address is in two pages, which bsearch and every walk
\* over the list rely on (page.go:176-193, memsim.go:39-60).
InOrder == \A i \in 1..(Len(mem) - 1) : End(mem[i]) <= mem[i + 1].addr

Flat == INSTANCE Memory WITH cells <- Cells(mem)

\* Whatever pages the memory has been put together from, a read of any range gives
\* what each of its addresses last got, or the error that is due (memsim.go:39-60,
\* 123-149).
ReadsTheCells ==
  \A r \in Ranges, prot \in Prots : Read(mem, r, prot) = Flat!Reading(r, prot)

\* Each call does to the memory, or refuses, what Memory says, and nothing else.
ImplementsMemory == Flat!MemorySpec

\* "Any overlapping regions will be unmapped" (memsim.go:64).
OverlapsUnmapped ==
  \A i, j \in DOMAIN mem : i # j => ~Overlaps(mem[i], mem[j].addr, End(mem[j]))

\* "the mapping list will be sorted by address to allow binary search"
\* (memsim.go:64-65): while no two pages overlap, what is in one is found.
HidesNothing ==
  OverlapsUnmapped =>
    \A i \in DOMAIN mem : \A x \in Bytes(mem[i].addr, End(mem[i])) : BSearch(mem, x) = i
=============================================================================
