------------------------------ MODULE Deburster ------------------------------
(***************************************************************************)
(* mkAXI4_Deburster (src/hw/src_BSV/AWS_AXI4_Deburster.bsv), between the   *)
(* fabric and AXI_Mem_Controller: an AXI4 burst from the master becomes    *)
(* single-beat transactions for the slave, and the slave's single-beat     *)
(* responses become one response per burst.                                *)
(*                                                                         *)
(* A rule of the BSV module is an action here; a rule is enabled when the  *)
(* FIFOs it reads are not empty and those it writes are not full.  FIFOs   *)
(* of a transactor hold FifoDepth elements.  The state starts after        *)
(* rl_reset, which fires once while the master is in reset too.            *)
(*                                                                         *)
(* The master and the slave are the environment.  The n-th write burst     *)
(* (and the n-th read burst) has AXI id n, its k-th datum is <<n, k>>, and *)
(* a read of address a returns a.  The slave answers in order.             *)
(***************************************************************************)
EXTENDS Bursts, FiniteSets

CONSTANTS
    AddrMod,        \* 2 ^ the width of an address
    Shapes,         \* the bursts considered: [addr, size, burst, len]
    RespsAt,        \* RespsAt[a]: the responses the slave may give to a write at a
    FifoDepth,      \* mkGFIFOF, a transactor's FIFO: 2
    LenDepth,       \* f_w_awlen and f_r_arlen: 4
    MaxBursts       \* bound: bursts, of both directions together

Okay == "okay"

ASSUME BurstAssumption ==
    /\ AddrMod \in Nat \ {0} /\ MaxBursts \in Nat
    /\ {FifoDepth, LenDepth} \subseteq Nat \ {0}
    /\ \A b \in Shapes :
           /\ b.addr \in 0 .. AddrMod - 1 /\ b.size \in 0 .. 7 /\ b.len \in 0 .. 255
           /\ b.burst \in {"fixed", "incr", "wrap"}
           \* AXI: a fixed burst has at most 16 beats
           /\ b.burst = "fixed" => b.len <= 15
           \* AXI: a wrapping burst is aligned and of 2, 4, 8 or 16 beats
           /\ b.burst = "wrap" =>
                  b.len \in {1, 3, 7, 15} /\ b.addr % (2 ^ b.size) = 0
           \* powers of two all: an address is wider than the offset in a window
           /\ AddrMod % (2 ^ b.size) = 0
           /\ b.burst = "wrap" => AddrMod % ((b.len + 1) * 2 ^ b.size) = 0

VARIABLES
    wr_bursts, rd_bursts,   \* history: the bursts the master has started
    w_next,                 \* <<n, k>>: the next datum the master sends
    b_taken,                \* write responses the master has taken
    r_next,                 \* <<n, k>>: the next datum the master expects
    \* xactor_from_master
    m_aw, m_w, m_b, m_ar, m_r,
    \* xactor_to_slave
    s_aw, s_w, s_b, s_ar, s_r,
    \* registers and FIFOs
    rg_w_beat_count, rg_last_beat_waddr, f_w_awlen,
    rg_b_beat_count, rg_b_resp,
    rg_ar_beat_count, rg_last_beat_raddr, f_r_arlen,
    rg_r_beat_count,
    performed               \* history: the writes the slave did

wr_request == <<m_aw, m_w, s_aw, s_w, rg_w_beat_count, rg_last_beat_waddr>>
wr_response == <<s_b, rg_b_beat_count, rg_b_resp, m_b>>
wr_master == <<wr_bursts, w_next, b_taken>>
rd_request == <<m_ar, s_ar, rg_ar_beat_count, rg_last_beat_raddr>>
rd_response == <<s_r, rg_r_beat_count, m_r>>
rd_master == <<rd_bursts, r_next>>

writes == <<wr_request, wr_response, wr_master, f_w_awlen, performed>>
reads == <<rd_request, rd_response, rd_master, f_r_arlen>>
vars == <<writes, reads>>

Init ==
    /\ wr_bursts = <<>> /\ rd_bursts = <<>>
    /\ w_next = <<1, 0>> /\ b_taken = 0 /\ r_next = <<1, 0>>
    /\ m_aw = <<>> /\ m_w = <<>> /\ m_b = <<>> /\ m_ar = <<>> /\ m_r = <<>>
    /\ s_aw = <<>> /\ s_w = <<>> /\ s_b = <<>> /\ s_ar = <<>> /\ s_r = <<>>
    /\ rg_w_beat_count = 0 /\ rg_last_beat_waddr = 0 /\ f_w_awlen = <<>>
    /\ rg_b_beat_count = 0 /\ rg_b_resp = Okay
    /\ rg_ar_beat_count = 0 /\ rg_last_beat_raddr = 0 /\ f_r_arlen = <<>>
    /\ rg_r_beat_count = 0
    /\ performed = <<>>

Room(fifo) == Len(fifo) < FifoDepth

-----------------------------------------------------------------------------
(* The address of a beat *)

AlignDown(a, n) == a - (a % n)      \* a & ~ (n - 1), n a power of two

\* Defective forms: no wrap; or the first beat's offset is kept.
AddrNeverWrapping(start, size, burst, len) == (AlignDown(start, 2 ^ size) + 2 ^ size) % AddrMod
AddrUnaligned(start, size, burst, len) == (start + 2 ^ size) % AddrMod

\* The address after start: a fixed burst has no case of its own.  & with a mask
\* of low bits is %; the length of a wrapping burst is a power of two.
fv_addr_for_beat(start, size, burst, len) ==
    LET num_bytes == 2 ^ size
        addr == (AlignDown(start, num_bytes) + num_bytes) % AddrMod
        window == (len + 1) * num_bytes             \* wrap_mask + 1
    IN  IF burst = "wrap"
        THEN AlignDown(start, window) + (addr % window)
        ELSE addr

\* The address of beat k of burst b, counted from the burst's own address: of an
\* incrementing or a wrapping burst the one AXI4 asks for.  A fixed burst is
\* counted as an incrementing one, where AXI4 repeats its address.
BeatAddr(b, k) ==
    LET num_bytes == 2 ^ b.size
        window == (b.len + 1) * num_bytes
        base == AlignDown(b.addr, window)
    IN  IF k = 0 THEN b.addr
        ELSE IF b.burst = "wrap"
        THEN base + (((b.addr - base) + k * num_bytes) % window)
        ELSE (AlignDown(b.addr, num_bytes) + k * num_bytes) % AddrMod

-----------------------------------------------------------------------------
(* Write requests *)

\* rl_wr_xaction_master_to_slave
WrXaction ==
    /\ m_aw # <<>> /\ m_w # <<>>
    /\ Room(s_aw) /\ Room(s_w)
    /\ rg_w_beat_count = 0 => Len(f_w_awlen) < LenDepth
    /\ LET a_in == Head(m_aw)
           awaddr == IF rg_w_beat_count = 0
                     THEN a_in.addr
                     ELSE fv_addr_for_beat(rg_last_beat_waddr, a_in.size,
                                           a_in.burst, a_in.len)
           more == rg_w_beat_count < a_in.len
       IN  /\ s_aw' = Append(s_aw, [id |-> a_in.id, addr |-> awaddr])
           /\ s_w' = Append(s_w, Head(m_w))
           /\ f_w_awlen' = IF rg_w_beat_count = 0
                           THEN Append(f_w_awlen, a_in.len) ELSE f_w_awlen
           /\ m_aw' = IF more THEN m_aw ELSE Tail(m_aw)
           /\ rg_w_beat_count' = IF more THEN rg_w_beat_count + 1 ELSE 0
           /\ rg_last_beat_waddr' = awaddr
    /\ m_w' = Tail(m_w)
    /\ UNCHANGED <<wr_response, wr_master, performed, reads>>

-----------------------------------------------------------------------------
(* Write responses *)

\* rl_wr_resp_slave_to_master, not the last beat: remember the first error.
WrRespCombine ==
    /\ s_b # <<>> /\ f_w_awlen # <<>>
    /\ rg_b_beat_count < Head(f_w_awlen)
    /\ rg_b_resp' = IF rg_b_resp = Okay THEN Head(s_b).resp ELSE rg_b_resp
    /\ rg_b_beat_count' = rg_b_beat_count + 1
    /\ s_b' = Tail(s_b)
    /\ UNCHANGED <<m_b, wr_request, wr_master, f_w_awlen, performed, reads>>

\* A defective form: it does not forget the error of the burst before.
WrRespLastSticky ==
    /\ s_b # <<>> /\ f_w_awlen # <<>>
    /\ rg_b_beat_count >= Head(f_w_awlen)
    /\ Room(m_b)
    /\ m_b' = Append(m_b, [id |-> Head(s_b).id,
                           resp |-> IF rg_b_resp # Okay THEN rg_b_resp ELSE Head(s_b).resp])
    /\ f_w_awlen' = Tail(f_w_awlen)
    /\ rg_b_beat_count' = 0
    /\ s_b' = Tail(s_b)
    /\ UNCHANGED <<rg_b_resp, wr_request, wr_master, performed, reads>>

\* rl_wr_resp_slave_to_master, the last beat of the burst.
WrRespLast ==
    /\ s_b # <<>> /\ f_w_awlen # <<>>
    /\ rg_b_beat_count >= Head(f_w_awlen)
    /\ Room(m_b)
    /\ m_b' = Append(m_b, [id |-> Head(s_b).id,
                           resp |-> IF rg_b_resp # Okay THEN rg_b_resp ELSE Head(s_b).resp])
    /\ f_w_awlen' = Tail(f_w_awlen)
    /\ rg_b_beat_count' = 0
    /\ rg_b_resp' = Okay
    /\ s_b' = Tail(s_b)
    /\ UNCHANGED <<wr_request, wr_master, performed, reads>>

-----------------------------------------------------------------------------
(* Read requests *)

\* rl_rd_xaction_master_to_slave
RdXaction ==
    /\ m_ar # <<>>
    /\ Room(s_ar)
    /\ rg_ar_beat_count = 0 => Len(f_r_arlen) < LenDepth
    /\ LET a_in == Head(m_ar)
           araddr == IF rg_ar_beat_count = 0
                     THEN a_in.addr
                     ELSE fv_addr_for_beat(rg_last_beat_raddr, a_in.size,
                                           a_in.burst, a_in.len)
           more == rg_ar_beat_count < a_in.len
       IN  /\ s_ar' = Append(s_ar, [id |-> a_in.id, addr |-> araddr])
           /\ f_r_arlen' = IF rg_ar_beat_count = 0
                           THEN Append(f_r_arlen, a_in.len) ELSE f_r_arlen
           /\ m_ar' = IF more THEN m_ar ELSE Tail(m_ar)
           /\ rg_ar_beat_count' = IF more THEN rg_ar_beat_count + 1 ELSE 0
           /\ rg_last_beat_raddr' = araddr
    /\ UNCHANGED <<rd_response, rd_master, writes>>

-----------------------------------------------------------------------------
(* Read responses *)

\* A defective form: it forwards the slave's rlast, which is set on every beat.
RdRespForwardLast ==
    /\ s_r # <<>> /\ f_r_arlen # <<>>
    /\ Room(m_r)
    /\ LET more == rg_r_beat_count < Head(f_r_arlen)
       IN  /\ m_r' = Append(m_r, [id |-> Head(s_r).id, data |-> Head(s_r).data,
                                  last |-> TRUE])
           /\ rg_r_beat_count' = IF more THEN rg_r_beat_count + 1 ELSE 0
           /\ f_r_arlen' = IF more THEN f_r_arlen ELSE Tail(f_r_arlen)
    /\ s_r' = Tail(s_r)
    /\ UNCHANGED <<rd_request, rd_master, writes>>

\* A defective form: the length of a finished burst stays in f_r_arlen.
RdRespKeepLength ==
    /\ s_r # <<>> /\ f_r_arlen # <<>>
    /\ Room(m_r)
    /\ LET more == rg_r_beat_count < Head(f_r_arlen)
       IN  /\ m_r' = Append(m_r, [id |-> Head(s_r).id, data |-> Head(s_r).data,
                                  last |-> ~more])
           /\ rg_r_beat_count' = IF more THEN rg_r_beat_count + 1 ELSE 0
    /\ s_r' = Tail(s_r)
    /\ UNCHANGED <<f_r_arlen, rd_request, rd_master, writes>>

\* rl_rd_resp_slave_to_master
RdResp ==
    /\ s_r # <<>> /\ f_r_arlen # <<>>
    /\ Room(m_r)
    /\ LET more == rg_r_beat_count < Head(f_r_arlen)
       IN  /\ m_r' = Append(m_r, [id |-> Head(s_r).id, data |-> Head(s_r).data,
                                  last |-> ~more])
           /\ rg_r_beat_count' = IF more THEN rg_r_beat_count + 1 ELSE 0
           /\ f_r_arlen' = IF more THEN f_r_arlen ELSE Tail(f_r_arlen)
    /\ s_r' = Tail(s_r)
    /\ UNCHANGED <<rd_request, rd_master, writes>>

-----------------------------------------------------------------------------
(* The master: any bursts, whose data follow when they will *)

BoundReached == Len(wr_bursts) + Len(rd_bursts) = MaxBursts

Numbered(shape, n) == [id |-> n, addr |-> shape.addr, size |-> shape.size,
                       burst |-> shape.burst, len |-> shape.len]

MasterWrite(shape) ==
    /\ ~BoundReached
    /\ Room(m_aw)
    /\ wr_bursts' = Append(wr_bursts, Numbered(shape, Len(wr_bursts) + 1))
    /\ m_aw' = Append(m_aw, Numbered(shape, Len(wr_bursts) + 1))
    /\ UNCHANGED <<w_next, b_taken, m_w, s_aw, s_w, rg_w_beat_count,
                   rg_last_beat_waddr, wr_response, f_w_awlen, performed, reads>>

MasterSendW ==
    /\ w_next[1] <= Len(wr_bursts)
    /\ Room(m_w)
    /\ m_w' = Append(m_w, w_next)
    /\ w_next' = NextBeat(wr_bursts, w_next)
    /\ UNCHANGED <<wr_bursts, b_taken, m_aw, s_aw, s_w, rg_w_beat_count,
                   rg_last_beat_waddr, wr_response, f_w_awlen, performed, reads>>

MasterTakeB ==
    /\ m_b # <<>>
    /\ m_b' = Tail(m_b)
    /\ b_taken' = b_taken + 1
    /\ UNCHANGED <<wr_bursts, w_next, wr_request, s_b, rg_b_beat_count,
                   rg_b_resp, f_w_awlen, performed, reads>>

MasterRead(shape) ==
    /\ ~BoundReached
    /\ Room(m_ar)
    /\ rd_bursts' = Append(rd_bursts, Numbered(shape, Len(rd_bursts) + 1))
    /\ m_ar' = Append(m_ar, Numbered(shape, Len(rd_bursts) + 1))
    /\ UNCHANGED <<r_next, s_ar, rg_ar_beat_count, rg_last_beat_raddr, rd_response,
                   f_r_arlen, writes>>

MasterTakeR ==
    /\ m_r # <<>>
    /\ m_r' = Tail(m_r)
    /\ r_next' = NextBeat(rd_bursts, r_next)
    /\ UNCHANGED <<rd_bursts, rd_request, s_r, rg_r_beat_count, f_r_arlen, writes>>

-----------------------------------------------------------------------------
(* The slave: in order *)

SlaveWrite ==
    /\ s_aw # <<>> /\ s_w # <<>>
    /\ Room(s_b)
    /\ \E resp \in RespsAt[Head(s_aw).addr] :
           /\ s_b' = Append(s_b, [id |-> Head(s_aw).id, resp |-> resp])
           /\ performed' = Append(performed, [id |-> Head(s_aw).id, addr |-> Head(s_aw).addr,
                                              data |-> Head(s_w), resp |-> resp])
    /\ s_aw' = Tail(s_aw)
    /\ s_w' = Tail(s_w)
    /\ UNCHANGED <<m_aw, m_w, rg_w_beat_count, rg_last_beat_waddr, rg_b_beat_count,
                   rg_b_resp, m_b, wr_master, f_w_awlen, reads>>

SlaveRead ==
    /\ s_ar # <<>>
    /\ Room(s_r)
    /\ s_r' = Append(s_r, [id |-> Head(s_ar).id, data |-> Head(s_ar).addr])
    /\ s_ar' = Tail(s_ar)
    /\ UNCHANGED <<m_ar, rg_ar_beat_count, rg_last_beat_raddr, rg_r_beat_count, m_r,
                   rd_master, f_r_arlen, writes>>

-----------------------------------------------------------------------------
Done ==
    /\ BoundReached
    /\ b_taken = Len(wr_bursts)
    /\ r_next[1] > Len(rd_bursts)
    /\ UNCHANGED vars

WriteSide ==
    \/ WrXaction \/ WrRespCombine \/ WrRespLast
    \/ MasterSendW \/ MasterTakeB
    \/ SlaveWrite

ReadSide == RdXaction \/ RdResp \/ MasterTakeR \/ SlaveRead

Next ==
    \/ \E shape \in Shapes : MasterWrite(shape) \/ MasterRead(shape)
    \/ WriteSide
    \/ ReadSide
    \/ Done

\* A rule fires in the first cycle in which it can, and the master and the slave
\* keep the AXI protocol going: on neither side does everything stand still.
Fairness == WF_vars(WriteSide) /\ WF_vars(ReadSide)

Spec == Init /\ [][Next]_vars /\ Fairness

-----------------------------------------------------------------------------
(* Properties *)

\* Every single write the slave performs is the right beat of the right burst
\* (rl_wr_xaction_master_to_slave, fv_addr_for_beat): its datum is the k-th of
\* its burst, and its address the one that counts to beat k, which is AXI4's for
\* incrementing and wrapping bursts.  A fixed burst goes on as an incrementing
\* one, which is not AXI4's: see the README.
WritesWhereAsked ==
    \A i \in DOMAIN performed :
        LET n == performed[i].data[1]
            k == performed[i].data[2]
        IN  /\ performed[i].id = n
            /\ performed[i].addr = BeatAddr(wr_bursts[n], k)

BeatsOfId(n) == {i \in DOMAIN performed : performed[i].id = n}

\* What the first beat of burst n that failed was answered, Okay if none failed.
FirstError(n) ==
    LET bad == {i \in BeatsOfId(n) : performed[i].resp # Okay}
    IN  IF bad = {} THEN Okay
        ELSE performed[CHOOSE i \in bad : \A j \in bad : i <= j].resp

\* The master's next write response (rl_wr_resp_slave_to_master) belongs to the
\* oldest burst without one, comes after all the beats of that burst have been
\* performed, and says of them what the first that failed said, if any did:
\* no error is dropped, and none is blamed on a later burst.
OneHonestResponse ==
    m_b # <<>> =>
        LET n == b_taken + 1
        IN  /\ Head(m_b).id = n
            /\ Cardinality(BeatsOfId(n)) = wr_bursts[n].len + 1
            /\ Head(m_b).resp = FirstError(n)

\* The master's next read beat (rl_rd_xaction, rl_rd_resp_slave_to_master) is the
\* next one of its oldest unfinished burst, from the address that counts to that
\* beat (AXI4's for incrementing and wrapping bursts, as above), and rlast is set
\* on the last beat of a burst and on no other.
ReadsInStep ==
    m_r # <<>> =>
        LET b == rd_bursts[r_next[1]]
        IN  Head(m_r) = [id |-> r_next[1], data |-> BeatAddr(b, r_next[2]),
                         last |-> r_next[2] = b.len]

\* Every burst is answered, whatever the lengths in flight: the length FIFOs and
\* the transactors' FIFOs at their limits never block each other for good, and
\* the deburster comes to rest again and again.
BurstsAnswered == []<>(b_taken = Len(wr_bursts) /\ r_next[1] > Len(rd_bursts))
=============================================================================
