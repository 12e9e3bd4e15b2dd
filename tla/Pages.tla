------------------------------- MODULE Pages -------------------------------
(***************************************************************************)
(* Pages and lists of them (models/cpu/page.go): what MemSim keeps memory  *)
(* in, and Task its mappings.  A page here has an address, a size, a       *)
(* protection and, in MemSim, its bytes; labels are left out.              *)
(***************************************************************************)
EXTENDS Integers, Sequences, Functions

End(p) == p.addr + p.size
Bytes(a, e) == a..(e - 1)
Holds(p, x) == x >= p.addr /\ x < End(p)

\* Intersect: where the page and the range begin and end together.
From(p, a) == IF p.addr < a THEN a ELSE p.addr
Until(p, e) == IF End(p) > e THEN e ELSE End(p)
Overlaps(p, a, e) == Until(p, e) > From(p, a)

Slice(p, a, e) ==
  [p EXCEPT !.addr = a, !.size = e - a, !.data = SubSeq(p.data, a - p.addr + 1, e - p.addr)]

\* Split, for a range inside the page: all that its callers, who intersect first,
\* give it.  What is left and right of the range may be nothing.
SplitLeft(p, a) == IF a > p.addr THEN <<Slice(p, p.addr, a)>> ELSE <<>>
SplitRightLate(p, e) ==   \* mutant: the data begins one byte late
  IF e < End(p) THEN <<[Slice(p, e, End(p)) EXCEPT !.data = Append(Tail(@), 0)]>> ELSE <<>>
SplitRightUncut(p, e) ==   \* mutant: the data is not cut
  IF e < End(p) THEN <<[p EXCEPT !.addr = e, !.size = End(p) - e]>> ELSE <<>>
SplitRight(p, e) == IF e < End(p) THEN <<Slice(p, e, End(p))>> ELSE <<>>

\* bsearch: the index of a page that contains x, or 0 (-1 in the code).
BSearchShort(pages, x) ==   \* mutant: the last page is not looked at
  LET search[w \in (1..(Len(pages) + 1)) \X (0..Len(pages))] ==
        LET mid == (w[1] + w[2]) \div 2 IN
        IF w[1] >= w[2] THEN 0
        ELSE IF x < pages[mid].addr THEN search[<<w[1], mid - 1>>]
        ELSE IF x < End(pages[mid]) THEN mid
        ELSE search[<<mid + 1, w[2]>>]
  IN search[<<1, Len(pages)>>]

BSearch(pages, x) ==
  LET search[w \in (1..(Len(pages) + 1)) \X (0..Len(pages))] ==   \* l and r
        LET mid == (w[1] + w[2]) \div 2 IN
        IF w[1] > w[2] THEN 0
        ELSE IF x < pages[mid].addr THEN search[<<w[1], mid - 1>>]
        ELSE IF x < End(pages[mid]) THEN mid
        ELSE search[<<mid + 1, w[2]>>]
  IN search[<<1, Len(pages)>>]

\* sort.Sort: the orders it may leave the list in.  Pages at the same address may
\* come in either order.
Sorted(pages) ==
  {s \in {[i \in DOMAIN pages |-> pages[order[i]]] : order \in Bijection(DOMAIN pages, DOMAIN pages)} :
     \A i, j \in DOMAIN pages : i < j => s[i].addr <= s[j].addr}
=============================================================================
