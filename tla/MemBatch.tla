------------------------------ MODULE MemBatch ------------------------------
(***************************************************************************)
(* The filter that joins the accesses to memory of a block for display     *)
(* (models/trace/filter_membatch.go).  Each access goes through as it is;  *)
(* when the block ends they follow once more, joined.                      *)
(***************************************************************************)
EXTENDS Naturals, SequencesExt, BagsExt

CONSTANTS
  Cells,        \* addresses of memory
  Bytes,        \* values of a byte, above 0
  Widths,       \* sizes of an access
  MaxAccesses   \* bound: accesses between two flushes

VARIABLES
  memOps,    \* MemBatch.memOps
  at,        \* MemBatch.pc
  selfjmp,   \* MemBatch.selfjmp
  cells      \* what was written to each address since the last flush, or 0
batchVars == <<memOps, at, selfjmp, cells>>

Read(a, n) == [write |-> FALSE, addr |-> a, size |-> n, data |-> <<>>]
Write(a, d) == [write |-> TRUE, addr |-> a, size |-> Len(d), data |-> d]

\* MemLog: the first entry of the same kind that the access adjoins takes it in.
Adjacent(log, op) ==
  {i \in DOMAIN log : log[i].write = op.write
     /\ (op.addr = log[i].addr + log[i].size \/ op.addr + op.size = log[i].addr)}
JoinedAfter(e, op) ==   \* mutant: data in front of an entry goes behind it
  [e EXCEPT !.addr = IF op.addr < @ THEN op.addr ELSE @, !.size = @ + op.size, !.data = @ \o op.data]
Joined(e, op) ==
  IF op.addr < e.addr THEN [e EXCEPT !.addr = op.addr, !.size = @ + op.size, !.data = op.data \o @]
  ELSE [e EXCEPT !.size = @ + op.size, !.data = @ \o op.data]
Update(log, op) ==
  LET near == Adjacent(log, op) IN
  IF near = {} THEN Append(log, op)
  ELSE [log EXCEPT ![Min(near)] = Joined(@, op)]

\* The batch that Flush makes of what has been gathered.
Batch(ops) == FoldLeft(Update, <<>>, ops)

-----------------------------------------------------------------------------
(* Filter, for each kind of operation.                                     *)

FlushAll == memOps' = <<>> /\ cells' = [x \in Cells |-> 0]

FilterJmp(a) ==
  /\ selfjmp' = (a = at) /\ at' = a
  /\ IF a # at THEN FlushAll ELSE UNCHANGED <<memOps, cells>>

\* After a jump to itself the accesses of an instruction end with it.
FilterStep ==
  /\ at' = at + 1 /\ selfjmp' = FALSE
  /\ IF selfjmp THEN FlushAll ELSE UNCHANGED <<memOps, cells>>

FilterAccess(op) ==
  /\ Len(memOps) < MaxAccesses
  /\ memOps' = Append(memOps, op)
  /\ cells' = [x \in Cells |-> IF op.write /\ x \in op.addr..(op.addr + op.size - 1)
                               THEN op.data[x - op.addr + 1] ELSE cells[x]]
  /\ UNCHANGED <<at, selfjmp>>

BatchInit ==
  /\ memOps = <<>> /\ at = 0 /\ selfjmp = FALSE
  /\ cells = [x \in Cells |-> 0]

BatchNext ==
  \/ \E a \in 0..2 : FilterJmp(a)
  \/ at < 2 /\ FilterStep
  \/ \E a \in Cells, n \in Widths :
       /\ a + n - 1 \in Cells
       /\ \/ FilterAccess(Read(a, n))
          \/ \E d \in [1..n -> Bytes] : FilterAccess(Write(a, d))

-----------------------------------------------------------------------------
\* A batch tells of every byte that was read or written, as often as it was, and, when
\* no byte was written twice, of what was written: entries are joined and moved, and
\* nothing is lost (filter_membatch.go:70-94, 109-163).
Accesses(ops, w) ==
  FoldLeft(LAMBDA bag, op : IF op.write # w THEN bag
                            ELSE bag (+) SetToBag(op.addr..(op.addr + op.size - 1)), EmptyBag, ops)
Stored(c, op) ==
  [x \in DOMAIN c |-> IF op.write /\ x \in op.addr..(op.addr + op.size - 1)
                      THEN op.data[x - op.addr + 1] ELSE c[x]]
BatchRetells ==
  LET batch == Batch(memOps) written == Accesses(memOps, TRUE) IN
  /\ Accesses(batch, TRUE) = written /\ Accesses(batch, FALSE) = Accesses(memOps, FALSE)
  /\ (\A x \in DOMAIN written : written[x] = 1) => FoldLeft(Stored, [x \in Cells |-> 0], batch) = cells
=============================================================================
