---------------------------- MODULE MCHostBridge ----------------------------
(* Reads and writes of one and two beats, of which two may be under way.   *)
EXTENDS HostBridge

MCKinds ==
    {[dir |-> "read", id |-> 1, beats |-> 2, target |-> "other"],
     [dir |-> "write", id |-> 1, beats |-> 2, target |-> "device"],
     [dir |-> "write", id |-> 2, beats |-> 1, target |-> "tohost"]}

=============================================================================
