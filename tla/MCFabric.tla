------------------------------- MODULE MCFabric -------------------------------
(* Two masters, of which one writes as in the SoC, and two slaves. *)
EXTENDS Fabric

\* A burst of two beats for one slave, one of a single beat for the other, and
\* a burst of two beats for no slave.
TwoSlavesAndNone == {[to |-> 0, len |-> 1], [to |-> 1, len |-> 0], [to |-> NoSlave, len |-> 1]}
===============================================================================
