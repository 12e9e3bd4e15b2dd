---------------------------- MODULE MemSimProofs ----------------------------
(***************************************************************************)
(* That MemSim's list of pages is sorted, that reads give what was last    *)
(* put at each address, and that MemSim does what Memory promises, for any *)
(* space, ranges, permissions and bytes.                                   *)
(***************************************************************************)
EXTENDS MemSim, PageListsProofs

\* The inductive invariant.
MemInv ==
  /\ mem \in Seq(Page)
  /\ Apart(mem)
  /\ refused \in {"none", "map", "protect", "unmap", "write"}

LEMMA MemReveals ==
  ASSUME MemInv
  PROVE  /\ mem \in Seq(Page) /\ Apart(mem)
         /\ \A i \in DOMAIN mem : mem[i] \in Page
         /\ \A i \in DOMAIN mem, x \in Nat :
              Holds(mem[i], x) => x \in DOMAIN Cells(mem) /\ Cells(mem)[x] = CellOf(mem[i], x)
         /\ \A x \in DOMAIN Cells(mem) : x \in Nat /\ \E i \in DOMAIN mem : Holds(mem[i], x)
  BY PagesReveal DEF MemInv

\* Memory's words for ranges and ours.
LEMMA FlatWords ==
  ASSUME MemInv, NEW r \in Spans
  PROVE  /\ Flat!Range(r) = Bytes(r[1], r[2])
         /\ Flat!Mapped(r) <=> RangeMapped(mem, r)
         /\ \A prot : RangeMapped(mem, r) => (Flat!Allowed(r, prot) <=> RangeAllowed(mem, r, prot))
<1>1. Flat!Range(r) = Bytes(r[1], r[2])
  BY DEF Flat!Range, Bytes
<1>2. Flat!Mapped(r) <=> r[1] \in DOMAIN Cells(mem) /\ Bytes(r[1], r[2]) \subseteq DOMAIN Cells(mem)
  BY <1>1, Zenon DEF Flat!Mapped
<1>3. ASSUME NEW prot
      PROVE  Flat!Allowed(r, prot) <=> \A x \in Bytes(r[1], r[2]) \cup {r[1]} : prot \subseteq Cells(mem)[x].prot
  BY <1>1, Zenon DEF Flat!Allowed
<1>4. \A prot : RangeMapped(mem, r) =>
        (RangeAllowed(mem, r, prot) <=> \A x \in Bytes(r[1], r[2]) \cup {r[1]} : prot \subseteq Cells(mem)[x].prot)
  BY AllowedIsAllowed DEF MemInv
<1> QED
  BY <1>1, <1>2, <1>3, <1>4, MappedIsMapped DEF MemInv

\* Where callers map over all or nothing, mapping makes the range fresh and leaves
\* the rest.
LEMMA MapIsFresh ==
  ASSUME MemInv, NEW r \in Spans, Tidy(r), NEW prot \in Prots, NEW zero \in BOOLEAN,
         MapOver(r, prot, zero)
  PROVE  /\ mem' \in Seq(Page) /\ Apart(mem')
         /\ Cells(mem') = Flat!Fresh(r, prot, zero)
<1> DEFINE data == IF ~zero /\ RangeMapped(mem, r) THEN Read(mem, r, {}).data ELSE [i \in 1..Size(r) |-> 0]
           old == IF RangeMapped(mem, r) THEN UnmappedPages(mem, r) ELSE mem
           new == [addr |-> r[1], size |-> Size(r), prot |-> prot, data |-> data]
           F == Flat!Fresh(r, prot, zero)
           kept(x) == IF zero \/ ~RangeMapped(mem, r) THEN 0 ELSE Cells(mem)[x].byte
<1>1. mem' \in Sorted(Append(old, new))
  BY DEF MapOver
<1>2. /\ r[1] \in Nat /\ r[2] \in Nat /\ r[1] < r[2] /\ Size(r) = r[2] - r[1] /\ Size(r) \in Nat \ {0}
      /\ \A x : x \in Bytes(r[1], r[2]) => x \in Nat /\ r[1] <= x /\ x < r[2]
      /\ r[1] \in Bytes(r[1], r[2])
      /\ \A i \in 1..Size(r) : r[1] + i - 1 \in Bytes(r[1], r[2])
  BY DEF Spans, Size, Bytes, Tidy
<1>3. /\ mem \in Seq(Page) /\ Apart(mem) /\ \A i \in DOMAIN mem : mem[i] \in Page
      /\ \A i \in DOMAIN mem, x \in Nat :
           Holds(mem[i], x) => x \in DOMAIN Cells(mem) /\ Cells(mem)[x] = CellOf(mem[i], x)
      /\ \A x \in DOMAIN Cells(mem) : x \in Nat /\ \E i \in DOMAIN mem : Holds(mem[i], x)
  BY MemReveals
<1>4. data \in [1..Size(r) -> Byte] /\ \A i \in 1..Size(r) : data[i] = kept(r[1] + i - 1)
  <2>1. CASE ~zero /\ RangeMapped(mem, r)
    <3>1. RangeAllowed(mem, r, {})
      BY DEF RangeAllowed
    <3>2. data = [i \in 1..Size(r) |-> ByteAt(mem, r, r[1] + i - 1)]
      BY <2>1, <3>1 DEF Read
    <3>3. \A i \in 1..Size(r) : r[1] + i - 1 \in Bytes(r[1], r[2])
      BY <1>2
    <3>4. \A i \in 1..Size(r) : ByteAt(mem, r, r[1] + i - 1) \in Byte
                                /\ ByteAt(mem, r, r[1] + i - 1) = Cells(mem)[r[1] + i - 1].byte
      BY <2>1, <3>3, BytesAreCells DEF MemInv
    <3>5. \A i \in 1..Size(r) : kept(r[1] + i - 1) = Cells(mem)[r[1] + i - 1].byte
      BY <2>1
    <3> HIDE DEF data, kept
    <3> QED
      BY <3>2, <3>4, <3>5
  <2>2. CASE ~(~zero /\ RangeMapped(mem, r))
    <3>1. data = [i \in 1..Size(r) |-> 0] /\ 0 \in Byte
      BY <2>2, MemSimAssumption
    <3>2. \A x : kept(x) = 0
      BY <2>2
    <3> HIDE DEF data, kept
    <3> QED
      BY <3>1, <3>2
  <2> QED
    BY <2>1, <2>2
<1>5. \A x : x \in Bytes(r[1], r[2]) => x - r[1] + 1 \in 1..Size(r) /\ r[1] + (x - r[1] + 1) - 1 = x
  BY <1>2
<1> HIDE DEF data
<1>6. /\ new \in Page /\ \A x \in Nat : Holds(new, x) <=> x \in Bytes(r[1], r[2])
      /\ \A x \in Bytes(r[1], r[2]) : CellOf(new, x) = [prot |-> prot, byte |-> kept(x)]
  <2>1. data \in Seq(Byte) /\ Len(data) = Size(r)
    <3> DEFINE z == Size(r)
    <3>1. data \in [1..z -> Byte] /\ z \in Nat
      BY <1>2, <1>4
    <3> HIDE DEF z
    <3>2. data \in Seq(Byte) /\ Len(data) = z
      BY <3>1
    <3> QED
      BY <3>2 DEF z
  <2>2. new \in Page
    BY <1>2, <2>1 DEF Page
  <2>3. End(new) = r[2] /\ new.addr = r[1]
    BY <1>2 DEF End
  <2>4. \A x \in Nat : Holds(new, x) <=> x \in Bytes(r[1], r[2])
    <3> HIDE DEF new
    <3>1. \A x \in Nat : x \in Bytes(r[1], r[2]) <=> x >= r[1] /\ x < r[2]
      BY <1>2 DEF Bytes
    <3>2. \A x \in Nat : Holds(new, x) <=> x >= r[1] /\ x < r[2]
      BY <2>3, Zenon DEF Holds
    <3> QED
      BY <3>1, <3>2, Zenon
  <2>5. ASSUME NEW x \in Bytes(r[1], r[2])
        PROVE  CellOf(new, x) = [prot |-> prot, byte |-> kept(x)]
    <3>1. data[x - r[1] + 1] = kept(x)
      <4> HIDE DEF kept
      <4> QED
        BY <1>4, <1>5
    <3> HIDE DEF kept
    <3> QED
      BY <3>1 DEF CellOf
  <2> QED
    BY <2>2, <2>4, <2>5
<1> HIDE DEF new
<1>7. /\ old \in Seq(Page) /\ Apart(old)
      /\ \A q \in Range(old), x \in Nat : Holds(q, x) =>
           x \in DOMAIN Cells(mem) /\ x \notin Bytes(r[1], r[2]) /\ CellOf(q, x) = Cells(mem)[x]
      /\ \A x \in DOMAIN Cells(mem) : x \notin Bytes(r[1], r[2]) => \E q \in Range(old) : Holds(q, x)
  <2>1. CASE RangeMapped(mem, r)
    <3>1. old = UnmappedPages(mem, r)
      BY <2>1
    <3>2. /\ UnmappedPages(mem, r) \in Seq(Page) /\ Apart(UnmappedPages(mem, r))
          /\ Reveals(UnmappedPages(mem, r), UnmappedCells(mem, r))
      BY UnmapReveals DEF MemInv
    <3>3. /\ DOMAIN UnmappedCells(mem, r) = DOMAIN Cells(mem) \ Bytes(r[1], r[2])
          /\ \A x \in DOMAIN UnmappedCells(mem, r) : UnmappedCells(mem, r)[x] = Cells(mem)[x]
      BY DEF UnmappedCells
    <3> HIDE DEF old
    <3> QED
      BY <3>1, <3>2, <3>3 DEF Reveals
  <2>2. CASE ~RangeMapped(mem, r)
    <3>1. old = mem
      BY <2>2
    <3>2. ~ (r[1] \in DOMAIN Cells(mem) /\ Bytes(r[1], r[2]) \subseteq DOMAIN Cells(mem))
      BY <2>2, MappedIsMapped DEF MemInv
    <3>3. \A x \in Nat : MappedAt(x) <=> x \in DOMAIN Cells(mem)
      BY <1>3 DEF MappedAt
    <3>4. \A x \in Bytes(r[1], r[2]) : x \notin DOMAIN Cells(mem)
      <4>1. r[1] \in Bytes(r[1], r[2])
        BY <1>2
      <4>2. ~ \A x \in Bytes(r[1], r[2]) : MappedAt(x)
        BY <1>2, <3>2, <3>3, <4>1
      <4> QED
        BY <1>2, <3>3, <4>2 DEF Tidy
    <3>5. /\ \A i \in DOMAIN mem : mem[i] \in Range(mem)
          /\ \A q \in Range(mem) : \E i \in DOMAIN mem : q = mem[i]
      BY DEF Range
    <3>6. \A q \in Range(mem), x \in Nat : Holds(q, x) => x \in DOMAIN Cells(mem) /\ CellOf(q, x) = Cells(mem)[x]
      BY <1>3, <3>5
    <3>7. \A x \in DOMAIN Cells(mem) : \E q \in Range(mem) : Holds(q, x)
      BY <1>3, <3>5
    <3> HIDE DEF old
    <3> QED
      BY <1>3, <3>1, <3>4, <3>6, <3>7
  <2> QED
    BY <2>1, <2>2
<1> HIDE DEF old
<1>8. mem' \in Seq(Page) /\ Apart(mem') /\ \A q : q \in Range(mem') <=> q \in Range(old) \/ q = new
  <2>1. \A q \in Range(old), x \in Nat : ~(Holds(q, x) /\ Holds(new, x))
    BY <1>6, <1>7
  <2> QED
    BY <1>1, <1>6, <1>7, <2>1, AddingReveals
<1>9. /\ F = [x \in DOMAIN F |-> F[x]]
      /\ DOMAIN F = DOMAIN Cells(mem) \cup Bytes(r[1], r[2])
      /\ \A x \in DOMAIN F : F[x] = IF x \notin Bytes(r[1], r[2]) THEN Cells(mem)[x]
                                    ELSE [prot |-> prot, byte |-> kept(x)]
  <2> DEFINE cell(x) == IF x \notin Flat!Range(r) THEN Cells(mem)[x]
                        ELSE [prot |-> prot, byte |-> IF zero \/ ~Flat!Mapped(r) THEN 0 ELSE Cells(mem)[x].byte]
  <2>1. F = [x \in DOMAIN Cells(mem) \cup Flat!Range(r) |-> cell(x)]
    BY DEF Flat!Fresh
  <2>2. \A x : cell(x) = IF x \notin Bytes(r[1], r[2]) THEN Cells(mem)[x]
                         ELSE [prot |-> prot, byte |-> kept(x)]
    BY FlatWords
  <2> HIDE DEF cell, F, kept
  <2> QED
    BY <2>1, <2>2, FlatWords
<1> HIDE DEF F, kept
<1>10. Reveals(mem', F)
  <2>1. ASSUME NEW q \in Range(mem'), NEW x \in Nat, Holds(q, x)
        PROVE  x \in DOMAIN F /\ F[x] = CellOf(q, x)
    <3>1. CASE q \in Range(old)
      BY <1>7, <1>9, <2>1, <3>1
    <3>2. CASE q = new
      BY <1>6, <1>9, <2>1, <3>2
    <3> QED
      BY <1>8, <3>1, <3>2
  <2>2. ASSUME NEW x \in DOMAIN F
        PROVE  x \in Nat /\ \E q \in Range(mem') : Holds(q, x)
    <3>1. CASE x \in Bytes(r[1], r[2])
      BY <1>2, <1>6, <1>8, <3>1
    <3>2. CASE x \notin Bytes(r[1], r[2])
      BY <1>3, <1>7, <1>8, <1>9, <3>2
    <3> QED
      BY <3>1, <3>2
  <2> QED
    BY <2>1, <2>2 DEF Reveals
<1>11. Cells(mem') = F
  BY <1>8, <1>9, <1>10, RevealedIs
<1> QED
  BY <1>8, <1>11 DEF F

-----------------------------------------------------------------------------
(* Each call, as Memory promises it.                                       *)

LEMMA RangesAreSpans == Ranges \subseteq Spans
  BY MemSimAssumption DEF Spans

LEMMA RefusalsKeep ==
  ASSUME MemInv, NEW call \in {"map", "protect", "unmap", "write"}, Refuse(call)
  PROVE  MemInv' /\ Cells(mem') = Cells(mem) /\ refused' = call
<1>1. mem' = mem /\ refused' = call
  BY DEF Refuse
<1>2. Cells(mem') = Cells(mem)
  BY <1>1, Zenon
<1> QED
  BY <1>1, <1>2 DEF MemInv

LEMMA MapStep ==
  ASSUME MemInv, NEW r \in Spans, Tidy(r), NEW prot \in Prots, NEW zero \in BOOLEAN, Map(r, prot, zero)
  PROVE  MemInv' /\ Flat!Map(r, prot, zero, FALSE)
<1>1. refused' = "none" /\ mem' \in Seq(Page) /\ Apart(mem') /\ Cells(mem') = Flat!Fresh(r, prot, zero)
  BY MapIsFresh DEF Map
<1>2. MemInv'
  BY <1>1 DEF MemInv
<1>3. Flat!Call("map", TRUE, Flat!Fresh(r, prot, zero))
  BY <1>1 DEF Flat!Call
<1>4. Flat!Map(r, prot, zero, FALSE)
  BY <1>3 DEF Flat!Map
<1> QED
  BY <1>2, <1>4

LEMMA MemMapStep ==
  ASSUME MemInv, NEW r \in Spans, Tidy(r), NEW prot \in Prots, MemMap(r, prot)
  PROVE  MemInv' /\ Flat!Map(r, prot, TRUE, TRUE)
<1>1. r[1] \in Nat /\ r[2] \in Nat /\ Size(r) = r[2] - r[1]
  BY DEF Spans, Size
<1>2. CASE Size(r) < Space
  <2>1. refused' = "none" /\ mem' \in Seq(Page) /\ Apart(mem') /\ Cells(mem') = Flat!Fresh(r, prot, TRUE)
    BY <1>2, MapIsFresh DEF MemMap
  <2>2. MemInv'
    BY <2>1 DEF MemInv
  <2>3. Flat!Call("map", TRUE, Flat!Fresh(r, prot, TRUE))
    BY <2>1 DEF Flat!Call
  <2>4. Flat!Map(r, prot, TRUE, TRUE)
    BY <2>3 DEF Flat!Map
  <2> QED
    BY <2>2, <2>4
<1>3. CASE ~(Size(r) < Space)
  <2>1. MemInv' /\ Cells(mem') = Cells(mem) /\ refused' = "map"
    BY <1>3, RefusalsKeep DEF MemMap
  <2>2. Flat!Call("map", FALSE, Flat!Fresh(r, prot, TRUE))
    BY <2>1 DEF Flat!Call
  <2>3. ~Flat!Fits(r)
    BY <1>1, <1>3, MemSimAssumption DEF Flat!Fits
  <2>4. Flat!Map(r, prot, TRUE, TRUE)
    BY <2>2, <2>3 DEF Flat!Map
  <2> QED
    BY <2>1, <2>4
<1> QED
  BY <1>2, <1>3

LEMMA MemProtStep ==
  ASSUME MemInv, NEW r \in Spans, NEW prot \in Prots, MemProt(r, prot)
  PROVE  MemInv' /\ Flat!Protect(r, prot)
<1>1. Flat!Mapped(r) <=> RangeMapped(mem, r)
  BY FlatWords
<1>2. CASE RangeMapped(mem, r)
  <2>1. mem' = ProtectedPages(mem, r, prot) /\ refused' = "none"
    BY <1>2 DEF MemProt
  <2>2. mem' \in Seq(Page) /\ Apart(mem') /\ Reveals(mem', ProtectedCells(mem, r, prot))
    BY <2>1, ProtectReveals DEF MemInv
  <2>3. ProtectedCells(mem, r, prot) = [x \in DOMAIN ProtectedCells(mem, r, prot) |-> ProtectedCells(mem, r, prot)[x]]
    BY DEF ProtectedCells
  <2>4. Cells(mem') = ProtectedCells(mem, r, prot)
    BY <2>2, <2>3, RevealedIs
  <2>5. Cells(mem') = [x \in DOMAIN Cells(mem) |->
                    IF x \in Flat!Range(r) THEN [Cells(mem)[x] EXCEPT !.prot = prot] ELSE Cells(mem)[x]]
    BY <2>4, FlatWords DEF ProtectedCells, Reprotected
  <2>6. MemInv'
    BY <2>1, <2>2 DEF MemInv
  <2>7. Flat!Protect(r, prot)
    BY <1>1, <1>2, <2>1, <2>5 DEF Flat!Protect, Flat!Call
  <2> QED
    BY <2>6, <2>7
<1>3. CASE ~RangeMapped(mem, r)
  <2>1. MemInv' /\ Cells(mem') = Cells(mem) /\ refused' = "protect"
    BY <1>3, RefusalsKeep DEF MemProt
  <2>2. Flat!Protect(r, prot)
    BY <1>1, <1>3, <2>1 DEF Flat!Protect, Flat!Call
  <2> QED
    BY <2>1, <2>2
<1> QED
  BY <1>2, <1>3

LEMMA MemUnmapStep ==
  ASSUME MemInv, NEW r \in Spans, MemUnmap(r)
  PROVE  MemInv' /\ Flat!Unmap(r)
<1>1. Flat!Mapped(r) <=> RangeMapped(mem, r)
  BY FlatWords
<1>2. CASE RangeMapped(mem, r)
  <2>1. mem' = UnmappedPages(mem, r) /\ refused' = "none"
    BY <1>2 DEF MemUnmap
  <2>2. mem' \in Seq(Page) /\ Apart(mem') /\ Reveals(mem', UnmappedCells(mem, r))
    BY <2>1, UnmapReveals DEF MemInv
  <2>3. UnmappedCells(mem, r) = [x \in DOMAIN UnmappedCells(mem, r) |-> UnmappedCells(mem, r)[x]]
    BY DEF UnmappedCells
  <2>4. Cells(mem') = UnmappedCells(mem, r)
    BY <2>2, <2>3, RevealedIs
  <2>5. Cells(mem') = [x \in DOMAIN Cells(mem) \ Flat!Range(r) |-> Cells(mem)[x]]
    BY <2>4, FlatWords DEF UnmappedCells
  <2>6. MemInv'
    BY <2>1, <2>2 DEF MemInv
  <2>7. Flat!Unmap(r)
    BY <1>1, <1>2, <2>1, <2>5 DEF Flat!Unmap, Flat!Call
  <2> QED
    BY <2>6, <2>7
<1>3. CASE ~RangeMapped(mem, r)
  <2>1. MemInv' /\ Cells(mem') = Cells(mem) /\ refused' = "unmap"
    BY <1>3, RefusalsKeep DEF MemUnmap
  <2>2. Flat!Unmap(r)
    BY <1>1, <1>3, <2>1 DEF Flat!Unmap, Flat!Call
  <2> QED
    BY <2>1, <2>2
<1> QED
  BY <1>2, <1>3

LEMMA WriteProtStep ==
  ASSUME MemInv, NEW r \in Spans, NEW prot \in Prots, NEW bytes \in [1..Size(r) -> Byte],
         WriteProt(r, bytes, prot)
  PROVE  MemInv' /\ Flat!Write(r, bytes, prot)
<1>1. /\ Flat!Mapped(r) <=> RangeMapped(mem, r)
      /\ RangeMapped(mem, r) => (Flat!Allowed(r, prot) <=> RangeAllowed(mem, r, prot))
  BY FlatWords
<1>2. CASE RangeMapped(mem, r) /\ RangeAllowed(mem, r, prot)
  <2>1. refused' = "none" /\ mem' = WrittenPages(mem, r, bytes)
    BY <1>2 DEF WriteProt
  <2>2. mem' \in Seq(Page) /\ Apart(mem') /\ Reveals(mem', WrittenCells(mem, r, bytes))
    BY <1>2, <2>1, WriteReveals DEF MemInv
  <2>0. WrittenCells(mem, r, bytes) = [x \in DOMAIN WrittenCells(mem, r, bytes) |-> WrittenCells(mem, r, bytes)[x]]
    BY DEF WrittenCells
  <2>8. Cells(mem') = WrittenCells(mem, r, bytes)
    BY <2>0, <2>2, RevealedIs
  <2>3. Cells(mem') = [x \in DOMAIN Cells(mem) |->
                    IF x \in Flat!Range(r) THEN [Cells(mem)[x] EXCEPT !.byte = bytes[x - r[1] + 1]] ELSE Cells(mem)[x]]
    BY <2>8, FlatWords DEF WrittenCells
  <2>4. MemInv'
    BY <2>1, <2>2 DEF MemInv
  <2>5. Flat!Write(r, bytes, prot)
    BY <1>1, <1>2, <2>1, <2>3 DEF Flat!Write, Flat!Call
  <2> QED
    BY <2>4, <2>5
<1>3. CASE ~(RangeMapped(mem, r) /\ RangeAllowed(mem, r, prot))
  <2>1. MemInv' /\ Cells(mem') = Cells(mem) /\ refused' = "write"
    BY <1>3, RefusalsKeep DEF WriteProt
  <2>2. Flat!Write(r, bytes, prot)
    BY <1>1, <1>3, <2>1 DEF Flat!Write, Flat!Call
  <2> QED
    BY <2>1, <2>2
<1> QED
  BY <1>2, <1>3

LEMMA TidySteps ==
  ASSUME MemInv, [TidyNext]_vars
  PROVE  MemInv' /\ [Flat!MemoryNext]_(Flat!memoryVars)
<1>1. ASSUME NEW r \in Ranges, NEW prot \in Prots, NEW zero \in BOOLEAN, Tidy(r), Map(r, prot, zero)
      PROVE  MemInv' /\ Flat!MemoryNext
  BY <1>1, MapStep, RangesAreSpans DEF Flat!MemoryNext
<1>2. ASSUME NEW r \in Ranges, NEW prot \in Prots, Tidy(r), MemMap(r, prot)
      PROVE  MemInv' /\ Flat!MemoryNext
  BY <1>2, MemMapStep, RangesAreSpans DEF Flat!MemoryNext
<1>3. ASSUME NEW r \in Ranges, NEW prot \in Prots, MemProt(r, prot)
      PROVE  MemInv' /\ Flat!MemoryNext
  BY <1>3, MemProtStep, RangesAreSpans DEF Flat!MemoryNext
<1>4. ASSUME NEW r \in Ranges, NEW prot \in Prots, MemUnmap(r)
      PROVE  MemInv' /\ Flat!MemoryNext
  BY <1>4, MemUnmapStep, RangesAreSpans DEF Flat!MemoryNext
<1>5. ASSUME NEW r \in Ranges, NEW prot \in Prots, NEW bytes \in [1..Size(r) -> Byte],
             WriteProt(r, bytes, prot)
      PROVE  MemInv' /\ Flat!MemoryNext
  <2>1. bytes \in [1..(r[2] - r[1]) -> Byte]
    BY DEF Size
  <2> QED
    BY <1>5, <2>1, WriteProtStep, RangesAreSpans DEF Flat!MemoryNext
<1>6. ASSUME UNCHANGED vars
      PROVE  MemInv' /\ UNCHANGED Flat!memoryVars
  <2>1. mem' = mem /\ refused' = refused
    BY <1>6 DEF vars
  <2>2. Cells(mem') = Cells(mem)
    BY <2>1, Zenon
  <2> QED
    BY <2>1, <2>2 DEF MemInv, Flat!memoryVars
<1> QED
  BY <1>1, <1>2, <1>3, <1>4, <1>5, <1>6 DEF TidyNext, Others

-----------------------------------------------------------------------------
(* The theorems.                                                           *)

\* The pages stay sorted and apart, each with as many bytes as addresses.
THEOREM MemInvariant == TidySpec => []MemInv
<1>1. Init => MemInv
  <2>1. <<>> \in Seq(Page) /\ Apart(<<>>)
    BY ShortLists
  <2> QED
    BY <2>1 DEF Init, MemInv
<1>2. MemInv /\ [TidyNext]_vars => MemInv'
  BY TidySteps
<1> QED
  BY <1>1, <1>2, PTL DEF TidySpec

\* The list that bsearch and the walks rely on is in order (page.go:176-193,
\* memsim.go:39-60), whatever ranges are protected, unmapped and written, and whatever
\* ranges with an address in them are mapped where all or nothing was.
THEOREM PagesInOrder == TidySpec => []InOrder
<1>1. MemInv => InOrder
  <2> SUFFICES ASSUME MemInv, NEW i \in 1..(Len(mem) - 1)
               PROVE  End(mem[i]) <= mem[i + 1].addr
    BY DEF InOrder
  <2>1. mem \in Seq(Page) /\ Apart(mem)
    BY DEF MemInv
  <2>2. i \in DOMAIN mem /\ i + 1 \in DOMAIN mem /\ i < i + 1
    BY <2>1
  <2> QED
    BY <2>1, <2>2 DEF Apart, Below
<1> QED
  BY <1>1, MemInvariant, PTL

\* A read of any range gives what each address last got, or the error that is due
\* (memsim.go:39-60, 123-149), for callers as in PagesInOrder.
THEOREM ReadsAreTheCells == TidySpec => []ReadsTheCells
<1>1. MemInv => ReadsTheCells
  <2> SUFFICES ASSUME MemInv, NEW r \in Ranges, NEW prot \in Prots
               PROVE  Read(mem, r, prot) = Flat!Reading(r, prot)
    BY DEF ReadsTheCells
  <2>1. r \in Spans
    BY RangesAreSpans
  <2>2. /\ Flat!Mapped(r) <=> RangeMapped(mem, r)
        /\ RangeMapped(mem, r) => (Flat!Allowed(r, prot) <=> RangeAllowed(mem, r, prot))
    BY <2>1, FlatWords
  <2>3. CASE ~RangeMapped(mem, r)
    BY <2>2, <2>3 DEF Read, Flat!Reading
  <2>4. CASE RangeMapped(mem, r) /\ ~RangeAllowed(mem, r, prot)
    BY <2>2, <2>4 DEF Read, Flat!Reading
  <2>5. CASE RangeMapped(mem, r) /\ RangeAllowed(mem, r, prot)
    <3> DEFINE bytes == [i \in 1..Size(r) |-> ByteAt(mem, r, r[1] + i - 1)]
               cells == [i \in 1..(r[2] - r[1]) |-> Cells(mem)[r[1] + i - 1].byte]
    <3>1. \A i \in 1..Size(r) : r[1] + i - 1 \in Bytes(r[1], r[2])
      BY <2>1 DEF Spans, Size, Bytes
    <3>2. \A i \in 1..Size(r) : ByteAt(mem, r, r[1] + i - 1) = Cells(mem)[r[1] + i - 1].byte
      BY <2>1, <2>5, <3>1, BytesAreCells DEF MemInv
    <3>3. bytes = cells
      BY <3>2 DEF Size
    <3>4. Read(mem, r, prot) = [error |-> "none", data |-> bytes]
      BY <2>5 DEF Read
    <3>5. Flat!Reading(r, prot) = [error |-> "none", data |-> cells]
      BY <2>2, <2>5 DEF Flat!Reading
    <3> QED
      BY <3>3, <3>4, <3>5
  <2> QED
    BY <2>3, <2>4, <2>5
<1> QED
  BY <1>1, MemInvariant, PTL

\* MemSim is a memory: each call does to the cells, or refuses, what Memory says
\* (memsim.go:62-176, mem.go:26-82).
THEOREM MemSimImplementsMemory == TidySpec => ImplementsMemory
<1>1. Init => Flat!MemoryInit
  <2> SUFFICES ASSUME Init
               PROVE  Cells(mem) = [x \in {} |-> {}] /\ refused = "none"
    BY DEF Flat!MemoryInit
  <2>1. DOMAIN mem = {} /\ refused = "none"
    BY DEF Init
  <2>2. UNION {Bytes(mem[i].addr, End(mem[i])) : i \in DOMAIN mem} = {}
    BY <2>1
  <2>3. Cells(mem) = [x \in {} |-> x]
    BY <2>2 DEF Cells
  <2> QED
    BY <2>1, <2>3
<1>2. MemInv /\ [TidyNext]_vars => [Flat!MemoryNext]_(Flat!memoryVars)
  BY TidySteps
<1> QED
  BY <1>1, <1>2, MemInvariant, PTL DEF TidySpec, ImplementsMemory, Flat!MemorySpec
=============================================================================
