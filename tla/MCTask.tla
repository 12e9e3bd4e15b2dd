------------------------------- MODULE MCTask -------------------------------
(* Pages of two bytes, so that addresses inside a page occur. *)
EXTENDS Task
=============================================================================
