---------------------------- MODULE MCHostSession ----------------------------
(* HostSession with room for the descriptors of its sessions. *)
EXTENDS HostSession

MCFds == 0 .. 8
=============================================================================
