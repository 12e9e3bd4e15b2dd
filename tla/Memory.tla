------------------------------- MODULE Memory -------------------------------
(***************************************************************************)
(* What emulated memory promises: each address is mapped or not, and has a *)
(* protection and a byte of its own, whatever pages it has been mapped,    *)
(* protected and unmapped with.                                            *)
(***************************************************************************)
EXTENDS Integers, Sequences

CONSTANTS
  Space,   \* the number of addresses (2^bits)
  Ranges,  \* ranges of addresses, as pairs <<first, after the last>>
  Prots,   \* sets of permissions
  Byte     \* values of a byte, 0 among them

VARIABLES
  cells,   \* mapped addresses, each with its protection and byte
  refused  \* the call just made, if it returned an error, or "none"

memoryVars == <<cells, refused>>

Range(r) == r[1]..(r[2] - 1)

\* A range counts as mapped only if its first address is, even when it is empty.
Mapped(r) == r[1] \in DOMAIN cells /\ Range(r) \subseteq DOMAIN cells
Allowed(r, prot) == \A x \in Range(r) \cup {r[1]} : prot \subseteq cells[x].prot

\* What reading the range gives: an error or the bytes.
Reading(r, prot) ==
  IF ~Mapped(r) THEN [error |-> "unmapped", data |-> <<>>]
  ELSE IF ~Allowed(r, prot) THEN [error |-> "protected", data |-> <<>>]
  ELSE [error |-> "none", data |-> [i \in 1..(r[2] - r[1]) |-> cells[r[1] + i - 1].byte]]

MemoryInit == cells = [x \in {} |-> {}] /\ refused = "none"

\* A call is refused exactly when it should be, and then does nothing.
Call(name, allowed, new) ==
  /\ refused' = IF allowed THEN "none" ELSE name
  /\ cells' = IF allowed THEN new ELSE cells

\* Fresh memory is zero; memory mapped over keeps its bytes only if the caller
\* wishes it and all of it was mapped.
Fresh(r, prot, zero) ==
  [x \in DOMAIN cells \cup Range(r) |->
     IF x \notin Range(r) THEN cells[x]
     ELSE [prot |-> prot, byte |-> IF zero \/ ~Mapped(r) THEN 0 ELSE cells[x].byte]]

\* A layer that limits what is mapped refuses no range whose addresses, and whose end,
\* are addresses of the memory.
Fits(r) == r[2] < Space
Map(r, prot, zero, limit) ==
  \E allowed \in BOOLEAN :
    (~limit \/ Fits(r) => allowed) /\ Call("map", allowed, Fresh(r, prot, zero))

Protect(r, prot) ==
  Call("protect", Mapped(r),
       [x \in DOMAIN cells |->
          IF x \in Range(r) THEN [cells[x] EXCEPT !.prot = prot] ELSE cells[x]])

Unmap(r) == Call("unmap", Mapped(r), [x \in DOMAIN cells \ Range(r) |-> cells[x]])

Write(r, bytes, prot) ==
  Call("write", Mapped(r) /\ Allowed(r, prot),
       [x \in DOMAIN cells |->
          IF x \in Range(r) THEN [cells[x] EXCEPT !.byte = bytes[x - r[1] + 1]] ELSE cells[x]])

MemoryNext ==
  \E r \in Ranges, prot \in Prots :
    \/ \E zero, limit \in BOOLEAN : Map(r, prot, zero, limit)
    \/ Protect(r, prot) \/ Unmap(r)
    \/ \E bytes \in [1..(r[2] - r[1]) -> Byte] : Write(r, bytes, prot)

MemorySpec == MemoryInit /\ [][MemoryNext]_memoryVars
=============================================================================
