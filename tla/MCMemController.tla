--------------------------- MODULE MCMemController ---------------------------
(* MemController with two raw words of two beats of two bytes, at 4 .. 11. *)
EXTENDS MemController

Access(op, addr, size, wstrb) ==
    [op |-> op, addr |-> addr, size |-> size, wstrb |-> wstrb]

MCAccesses ==
    { Access("rd", 6, 2, {}), Access("rd", 9, 1, {}),
      Access("wr", 7, 1, {1}), Access("wr", 8, 2, {0, 1}),
      Access("wr", 12, 2, {0, 1}),      \* out of range
      Access("rd", 5, 2, {}) }          \* misaligned
=============================================================================
