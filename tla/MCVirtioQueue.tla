---------------------------- MODULE MCVirtioQueue ----------------------------
(* VirtioQueue on a ring of two entries, with its devices. *)
EXTENDS VirtioBackends

\* A queue of either kind; only the ordinary one is reset (see the README).
OrdinaryResets == [k \in BOOLEAN |-> IF k THEN 0 ELSE 1]

\* A write, a read that meets what it wrote in its second half, and a request the
\* device does not know.
SomeRequests == {[op |-> "out", sector |-> 1, n |-> 1],
                 [op |-> "in", sector |-> 0, n |-> 2],
                 [op |-> "flush", sector |-> 0, n |-> 0]}
=============================================================================
