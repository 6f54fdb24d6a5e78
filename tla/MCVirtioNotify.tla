--------------------------- MODULE MCVirtioNotify ---------------------------
(* VirtioNotify on two devices of two queues. *)
EXTENDS VirtioNotify
=============================================================================
