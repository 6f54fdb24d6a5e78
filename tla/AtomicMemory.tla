---------------------------- MODULE AtomicMemory ----------------------------
(***************************************************************************)
(* What a memory behind an AXI4 port promises a master whose transactions  *)
(* have one beat: reads are answered in order and so are writes; each is   *)
(* performed at one moment between its request and its response, on a      *)
(* memory of bytes; an access that is misaligned or out of range changes   *)
(* nothing and is answered with an error.                                  *)
(***************************************************************************)
EXTENDS Naturals, Sequences

CONSTANTS
    Mem,            \* the byte addresses that exist
    Beat,           \* bytes in a beat
    Requests,       \* the requests a master may make
    InitialByte     \* what each byte holds at first

VARIABLES
    mem,            \* [Mem -> value]
    rd_reqs, wr_reqs,   \* requests not yet performed, oldest first
    rd_rsps, wr_rsps    \* responses not yet taken, oldest first

vars == <<mem, rd_reqs, wr_reqs, rd_rsps, wr_rsps>>

Init ==
    /\ mem = [a \in Mem |-> InitialByte]
    /\ rd_reqs = <<>> /\ wr_reqs = <<>>
    /\ rd_rsps = <<>> /\ wr_rsps = <<>>

Valid(req) == req.addr \in Mem /\ req.addr % req.size = 0

\* The address of byte k of the beat that holds address a.
ByteAddr(a, k) == a - (a % Beat) + k

IssueRd(req) ==
    /\ rd_reqs' = Append(rd_reqs, req)
    /\ UNCHANGED <<mem, wr_reqs, rd_rsps, wr_rsps>>

IssueWr(req) ==
    /\ wr_reqs' = Append(wr_reqs, req)
    /\ UNCHANGED <<mem, rd_reqs, rd_rsps, wr_rsps>>

PerformRd ==
    /\ rd_reqs # <<>>
    /\ LET req == Head(rd_reqs)
           rsp == IF Valid(req)
                  THEN [id |-> req.id, resp |-> "okay",
                        data |-> [k \in 0 .. Beat - 1 |-> mem[ByteAddr(req.addr, k)]]]
                  ELSE [id |-> req.id, resp |-> "slverr", data |-> <<>>]
       IN  rd_rsps' = Append(rd_rsps, rsp)
    /\ rd_reqs' = Tail(rd_reqs)
    /\ UNCHANGED <<mem, wr_reqs, wr_rsps>>

PerformWr ==
    /\ wr_reqs # <<>>
    /\ LET req == Head(wr_reqs)
           written == IF Valid(req) THEN { ByteAddr(req.addr, k) : k \in req.wstrb } ELSE {}
       IN  /\ mem' = [a \in Mem |-> IF a \in written THEN req.data ELSE mem[a]]
           /\ wr_rsps' = Append(wr_rsps, [id |-> req.id,
                                          resp |-> IF Valid(req) THEN "okay" ELSE "slverr"])
    /\ wr_reqs' = Tail(wr_reqs)
    /\ UNCHANGED <<rd_reqs, rd_rsps>>

TakeRd == rd_rsps # <<>> /\ rd_rsps' = Tail(rd_rsps) /\ UNCHANGED <<mem, rd_reqs, wr_reqs, wr_rsps>>
TakeWr == wr_rsps # <<>> /\ wr_rsps' = Tail(wr_rsps) /\ UNCHANGED <<mem, rd_reqs, wr_reqs, rd_rsps>>

Next ==
    \/ \E req \in Requests : IssueRd(req) \/ IssueWr(req)
    \/ PerformRd \/ PerformWr
    \/ TakeRd \/ TakeWr

\* Every request is performed in the end.
Spec == Init /\ [][Next]_vars /\ WF_vars(PerformRd) /\ WF_vars(PerformWr)
=============================================================================
