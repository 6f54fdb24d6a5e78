----------------------------- MODULE MCDeburster -----------------------------
(* Deburster on four shapes of burst in a memory of 16 bytes. *)
EXTENDS Deburster

MCShapes ==
    { [addr |-> 3, size |-> 1, burst |-> "incr", len |-> 1],    \* unaligned start
      [addr |-> 10, size |-> 1, burst |-> "wrap", len |-> 3],   \* 10, 12, 14, 8
      [addr |-> 12, size |-> 0, burst |-> "incr", len |-> 0],   \* a single beat
      [addr |-> 5, size |-> 0, burst |-> "fixed", len |-> 2] }  \* 5, 6, 7; AXI4: 5, 5, 5

\* The slave has nothing at 12 and may fail at 14.
MCRespsAt ==
    [a \in 0 .. 15 |-> CASE a = 12 -> {"decerr"}
                         [] a = 14 -> {"okay", "slverr"}
                         [] OTHER -> {"okay"}]
=============================================================================
