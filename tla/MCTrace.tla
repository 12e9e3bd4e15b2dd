------------------------------ MODULE MCTrace ------------------------------
(* Three addresses of memory, one page or two; four instructions.            *)
EXTENDS Trace

SomeRanges == {<<1, 2>>, <<2, 4>>}
OnePage == <<[addr |-> 1, size |-> 2, prot |-> {}, data |-> <<1, 0>>]>>
SomeMemories == {OnePage}
=============================================================================
