----------------------------- MODULE MCVirtioIrq -----------------------------
(* VirtioIrq with the two completing threads of the program. *)
EXTENDS VirtioIrq
=============================================================================
