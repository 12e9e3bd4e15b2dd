----------------------------- MODULE PageLists -----------------------------
(***************************************************************************)
(* What MemSim computes from its list of pages (models/cpu/memsim.go): the *)
(* walks over it, the lists that its calls leave, and the memory that a    *)
(* list amounts to.  MemSim's state is such a list, and so is the memory   *)
(* of a replay.  Ranges are pairs as in Memory; addresses stay below 2^64, *)
(* where addr + size does not wrap.                                        *)
(***************************************************************************)
EXTENDS Pages, SequencesExt

CONSTANTS
  Prots,   \* sets of permissions
  Byte     \* values of a byte, 0 among them

Page == {p \in [addr : Nat, size : Nat \ {0}, prot : Prots, data : Seq(Byte)] : Len(p.data) = p.size}

Size(r) == r[2] - r[1]

(* RangeValid, Read and Write walk over the pages from the one that        *)
(* contains the first address, as long as each begins where the one before *)
(* it ended and the range has not come to its end.                         *)
First(pages, r) == BSearch(pages, r[1])
Walked(pages, r) ==
  IF First(pages, r) = 0 THEN {}
  ELSE {k \in First(pages, r)..Len(pages) :
          \A i \in (First(pages, r) + 1)..k :
            Holds(pages[i], End(pages[i - 1])) /\ End(pages[i - 1]) < r[2]}

RangeMapped(pages, r) == \E k \in Walked(pages, r) : End(pages[k]) >= r[2]
RangeAllowed(pages, r, prot) == \A k \in Walked(pages, r) : prot \subseteq pages[k].prot

\* The page of the walk that an address of the range is read from and written to.
PageOf(pages, r, x) ==
  CHOOSE k \in Walked(pages, r) : x < End(pages[k]) /\ \A j \in Walked(pages, r) : j < k => x >= End(pages[j])
ByteAt(pages, r, x) == LET k == PageOf(pages, r, x) IN pages[k].data[x - pages[k].addr + 1]

Read(pages, r, prot) ==
  IF ~RangeMapped(pages, r) THEN [error |-> "unmapped", data |-> <<>>]
  ELSE IF ~RangeAllowed(pages, r, prot) THEN [error |-> "protected", data |-> <<>>]
  ELSE [error |-> "none", data |-> [i \in 1..Size(r) |-> ByteAt(pages, r, r[1] + i - 1)]]

\* Prot and Unmap cut up every page that the range overlaps.
Cut(p, r, middle) ==
  IF Overlaps(p, r[1], r[2])
  THEN SplitLeft(p, From(p, r[1])) \o middle \o SplitRight(p, Until(p, r[2]))
  ELSE <<p>>

Middle(p, r, prot) == [Slice(p, From(p, r[1]), Until(p, r[2])) EXCEPT !.prot = prot]
ProtectedPages(pages, r, prot) ==
  FlattenSeq([i \in DOMAIN pages |->
    IF Overlaps(pages[i], r[1], r[2]) THEN Cut(pages[i], r, <<Middle(pages[i], r, prot)>>) ELSE <<pages[i]>>])
UnmappedPages(pages, r) == FlattenSeq([i \in DOMAIN pages |-> Cut(pages[i], r, <<>>)])

WrittenPages(pages, r, bytes) ==
  [k \in DOMAIN pages |-> [pages[k] EXCEPT !.data =
     [i \in DOMAIN @ |->
        LET x == pages[k].addr + i - 1 IN
        IF r[1] <= x /\ x < r[2] /\ PageOf(pages, r, x) = k THEN bytes[x - r[1] + 1] ELSE @[i]]]]

\* The memory that the pages amount to.
CellOf(p, x) == [prot |-> p.prot, byte |-> p.data[x - p.addr + 1]]
Cells(pages) ==
  [x \in UNION {Bytes(pages[i].addr, End(pages[i])) : i \in DOMAIN pages} |->
     CellOf(pages[CHOOSE i \in DOMAIN pages : Holds(pages[i], x)], x)]
=============================================================================
