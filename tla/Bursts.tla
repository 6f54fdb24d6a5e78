-------------------------------- MODULE Bursts --------------------------------
(* The order of the beats of a sequence of AXI4 bursts. *)
EXTENDS Naturals, Sequences

\* The position after beat <<n, k>>: beat k of the n-th of the bursts.
NextBeat(bursts, beat) ==
    IF beat[2] < bursts[beat[1]].len
    THEN <<beat[1], beat[2] + 1>> ELSE <<beat[1] + 1, 0>>
===============================================================================
