------------------------------ MODULE MCMemSim ------------------------------
(* Ranges of one and of three addresses among four, and an empty one: enough   *)
(* to cut a page in three, to cut several adjoining pages at once, and to walk *)
(* over three.                                                                 *)
EXTENDS MemSim

CONSTANT Limit  \* bound: the end of the addresses that are used

SomeRanges == {r \in (0..Limit) \X (0..Limit) : r[2] - r[1] \in {1, Limit - 1}} \cup {<<1, 1>>}
=============================================================================
