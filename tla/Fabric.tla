-------------------------------- MODULE Fabric --------------------------------
(***************************************************************************)
(* mkAXI4_Fabric (src/hw/src_BSV/AWS_AXI4_Fabric.bsv): carries the bursts  *)
(* of several masters to several slaves and the responses back.  Nothing   *)
(* in a response says whose it is: each master has a FIFO of the slaves it *)
(* waits for, each slave one of the masters it works for, and a response   *)
(* passes when the two heads name each other.                              *)
(*                                                                         *)
(* A rule is an action, enabled when its condition holds, the FIFOs it     *)
(* reads are not empty and those it writes are not full.  The masters and  *)
(* slaves are the environment.  The n-th write burst of master mi, and its *)
(* n-th read burst, has the id <<mi, n>>, so that one can say which it is; *)
(* its address is the slave it decodes to, or NoSlave.                     *)
(***************************************************************************)
EXTENDS Naturals, Sequences, Bursts

CONSTANTS
    NumMasters, NumSlaves,  \* tn_num_masters, tn_num_slaves
    Writers,        \* the masters that ever write
    Shapes,         \* the bursts considered: [to, len], of len + 1 beats
    FifoDepth,      \* transactor FIFOs and v_f_wd_tasks: 2
    OrderDepth,     \* the other book-keeping FIFOs: 8
    MaxBursts,      \* bound: bursts issued, if one of them is a write
    MaxReads        \* bound: bursts issued, if all of them are reads

Masters == 0 .. NumMasters - 1
Slaves == 0 .. NumSlaves - 1
NoSlave == NumSlaves        \* the illegal value that stands for a decode error

ASSUME FabricAssumption ==
    /\ {NumMasters, NumSlaves, FifoDepth, OrderDepth} \subseteq Nat \ {0}
    /\ Writers \subseteq Masters
    /\ \A shape \in Shapes : shape.to \in Slaves \cup {NoSlave} /\ shape.len \in Nat
    /\ {MaxBursts, MaxReads} \subseteq Nat

VARIABLES
    m_aw, m_w, m_b, m_ar, m_r,  \* xactors_from_masters
    s_aw, s_w, s_b, s_ar, s_r,  \* xactors_to_slaves
    v_f_wr_sjs, v_f_wr_mis, v_f_wd_tasks, v_rg_wd_beat_count, v_f_wr_err_info,
    v_f_rd_sjs, v_f_rd_mis, v_rg_r_beat_count, v_f_rd_err_info, v_rg_r_err_beat_count,
    issued,         \* bursts issued
    wr_bursts, rd_bursts,   \* history: the bursts each master has issued
    wr_routed, rd_routed,   \* history: the bursts each slave was given
    w_next,         \* <<n, k>>: the next datum each master sends
    b_taken,        \* write responses it has taken
    r_next,         \* <<n, k>>: the next read beat it expects
    w_taken,        \* data beats each slave has taken of its oldest write
    beats_out       \* beats it has answered of its oldest read

wr_book == <<v_f_wr_sjs, v_f_wr_mis, v_f_wd_tasks, v_rg_wd_beat_count, v_f_wr_err_info>>
rd_book == <<v_f_rd_sjs, v_f_rd_mis, v_rg_r_beat_count, v_f_rd_err_info, v_rg_r_err_beat_count>>
wr_path == <<m_aw, m_w, m_b, s_aw, s_w, s_b, wr_book>>
rd_path == <<m_ar, m_r, s_ar, s_r, rd_book>>
wr_env == <<wr_bursts, w_next, b_taken, w_taken>>
rd_env == <<rd_bursts, r_next, beats_out>>
writes == <<wr_path, wr_env, wr_routed>>
reads == <<rd_path, rd_env, rd_routed>>
vars == <<writes, reads, issued>>

EmptyFor(ports) == [p \in ports |-> <<>>]
ZeroFor(ports) == [p \in ports |-> 0]

Init ==
    /\ m_aw = EmptyFor(Masters) /\ m_w = EmptyFor(Masters) /\ m_b = EmptyFor(Masters)
    /\ m_ar = EmptyFor(Masters) /\ m_r = EmptyFor(Masters)
    /\ s_aw = EmptyFor(Slaves) /\ s_w = EmptyFor(Slaves) /\ s_b = EmptyFor(Slaves)
    /\ s_ar = EmptyFor(Slaves) /\ s_r = EmptyFor(Slaves)
    /\ v_f_wr_sjs = EmptyFor(Masters) /\ v_f_wr_mis = EmptyFor(Slaves)
    /\ v_f_wd_tasks = EmptyFor(Masters) /\ v_rg_wd_beat_count = ZeroFor(Masters)
    /\ v_f_wr_err_info = EmptyFor(Masters)
    /\ v_f_rd_sjs = EmptyFor(Masters) /\ v_f_rd_mis = EmptyFor(Slaves)
    /\ v_rg_r_beat_count = ZeroFor(Slaves) /\ v_f_rd_err_info = EmptyFor(Masters)
    /\ v_rg_r_err_beat_count = ZeroFor(Masters)
    /\ issued = 0
    /\ wr_bursts = EmptyFor(Masters) /\ rd_bursts = EmptyFor(Masters)
    /\ wr_routed = EmptyFor(Slaves) /\ rd_routed = EmptyFor(Slaves)
    /\ w_next = [mi \in Masters |-> <<1, 0>>] /\ r_next = [mi \in Masters |-> <<1, 0>>]
    /\ b_taken = ZeroFor(Masters)
    /\ w_taken = ZeroFor(Slaves) /\ beats_out = ZeroFor(Slaves)

\* FIFO operations on port p of a vector of FIFOs.
Ready(fifos, p) == fifos[p] # <<>>
Room(fifos, p) == Len(fifos[p]) < FifoDepth
OrderRoom(fifos, p) == Len(fifos[p]) < OrderDepth
Enq(fifos, p, item) == [fifos EXCEPT ![p] = Append(@, item)]
Deq(fifos, p) == [fifos EXCEPT ![p] = Tail(@)]

\* A beat counter runs to the burst's length and starts again.
NextCount(counts, p, len) == [counts EXCEPT ![p] = IF @ = len THEN 0 ELSE @ + 1]

-----------------------------------------------------------------------------
(* Writes *)

WrXaction(mi, sj) ==
    /\ Ready(m_aw, mi) /\ Head(m_aw[mi]).to = sj
    /\ Room(s_aw, sj) /\ Room(v_f_wd_tasks, mi)
    /\ OrderRoom(v_f_wr_mis, sj) /\ OrderRoom(v_f_wr_sjs, mi)
    /\ m_aw' = Deq(m_aw, mi)
    /\ s_aw' = Enq(s_aw, sj, Head(m_aw[mi]))
    /\ v_f_wd_tasks' = Enq(v_f_wd_tasks, mi, [sj |-> sj, len |-> Head(m_aw[mi]).len])
    /\ v_f_wr_mis' = Enq(v_f_wr_mis, sj, mi)
    /\ v_f_wr_sjs' = Enq(v_f_wr_sjs, mi, sj)
    /\ wr_routed' = Enq(wr_routed, sj, Head(m_aw[mi]))
    /\ UNCHANGED <<m_w, m_b, s_w, s_b, v_rg_wd_beat_count, v_f_wr_err_info, wr_env, reads, issued>>

WrNoSuchSlave(mi) ==
    /\ Ready(m_aw, mi) /\ Head(m_aw[mi]).to = NoSlave
    /\ OrderRoom(v_f_wr_sjs, mi) /\ OrderRoom(v_f_wr_err_info, mi) /\ Room(v_f_wd_tasks, mi)
    /\ m_aw' = Deq(m_aw, mi)
    /\ v_f_wr_sjs' = Enq(v_f_wr_sjs, mi, NoSlave)
    /\ v_f_wr_err_info' = Enq(v_f_wr_err_info, mi, Head(m_aw[mi]))
    /\ v_f_wd_tasks' = Enq(v_f_wd_tasks, mi, [sj |-> NoSlave, len |-> Head(m_aw[mi]).len])
    /\ UNCHANGED <<m_w, m_b, s_aw, s_w, s_b, v_f_wr_mis, v_rg_wd_beat_count,
                   wr_env, wr_routed, reads, issued>>

\* A defective form: the beat counter is not reset at the end of a burst.
WrDataKeepsCount(mi) ==
    /\ Ready(v_f_wd_tasks, mi) /\ Ready(m_w, mi)
    /\ LET task == Head(v_f_wd_tasks[mi])
       IN  /\ IF task.sj = NoSlave
              THEN UNCHANGED s_w
              ELSE Room(s_w, task.sj) /\ s_w' = Enq(s_w, task.sj, Head(m_w[mi]))
           /\ IF v_rg_wd_beat_count[mi] = task.len
              THEN v_f_wd_tasks' = Deq(v_f_wd_tasks, mi) /\ UNCHANGED v_rg_wd_beat_count
              ELSE /\ v_rg_wd_beat_count' = [v_rg_wd_beat_count EXCEPT ![mi] = @ + 1]
                   /\ UNCHANGED v_f_wd_tasks
    /\ m_w' = Deq(m_w, mi)
    /\ UNCHANGED <<m_aw, m_b, s_aw, s_b, v_f_wr_sjs, v_f_wr_mis, v_f_wr_err_info,
                   wr_env, wr_routed, reads, issued>>

\* A data beat goes where the oldest task says, or nowhere.
WrData(mi) ==
    /\ Ready(v_f_wd_tasks, mi) /\ Ready(m_w, mi)
    /\ LET task == Head(v_f_wd_tasks[mi])
       IN  /\ IF task.sj = NoSlave
              THEN UNCHANGED s_w
              ELSE Room(s_w, task.sj) /\ s_w' = Enq(s_w, task.sj, Head(m_w[mi]))
           /\ v_f_wd_tasks' = IF v_rg_wd_beat_count[mi] = task.len
                              THEN Deq(v_f_wd_tasks, mi)
                              ELSE v_f_wd_tasks
           /\ v_rg_wd_beat_count' = NextCount(v_rg_wd_beat_count, mi, task.len)
    /\ m_w' = Deq(m_w, mi)
    /\ UNCHANGED <<m_aw, m_b, s_aw, s_b, v_f_wr_sjs, v_f_wr_mis, v_f_wr_err_info,
                   wr_env, wr_routed, reads, issued>>

WrResp(mi, sj) ==
    /\ Ready(v_f_wr_mis, sj) /\ Head(v_f_wr_mis[sj]) = mi
    /\ Ready(v_f_wr_sjs, mi) /\ Head(v_f_wr_sjs[mi]) = sj
    /\ Ready(s_b, sj) /\ Room(m_b, mi)
    /\ v_f_wr_mis' = Deq(v_f_wr_mis, sj)
    /\ v_f_wr_sjs' = Deq(v_f_wr_sjs, mi)
    /\ s_b' = Deq(s_b, sj)
    /\ m_b' = Enq(m_b, mi, Head(s_b[sj]))
    /\ UNCHANGED <<m_aw, m_w, s_aw, s_w, v_f_wd_tasks, v_rg_wd_beat_count, v_f_wr_err_info,
                   wr_env, wr_routed, reads, issued>>

WrRespErr(mi) ==
    /\ Ready(v_f_wr_sjs, mi) /\ Head(v_f_wr_sjs[mi]) = NoSlave
    /\ Ready(v_f_wr_err_info, mi) /\ Room(m_b, mi)
    /\ v_f_wr_sjs' = Deq(v_f_wr_sjs, mi)
    /\ v_f_wr_err_info' = Deq(v_f_wr_err_info, mi)
    /\ m_b' = Enq(m_b, mi, [id |-> Head(v_f_wr_err_info[mi]).id, resp |-> "decerr"])
    /\ UNCHANGED <<m_aw, m_w, s_aw, s_w, s_b, v_f_wr_mis, v_f_wd_tasks, v_rg_wd_beat_count,
                   wr_env, wr_routed, reads, issued>>

-----------------------------------------------------------------------------
(* Reads *)

\* A defective form: the master keeps the newest slave first, the slaves their
\* oldest master.
RdXactionNewestFirst(mi, sj) ==
    /\ Ready(m_ar, mi) /\ Head(m_ar[mi]).to = sj
    /\ Room(s_ar, sj) /\ OrderRoom(v_f_rd_mis, sj) /\ OrderRoom(v_f_rd_sjs, mi)
    /\ m_ar' = Deq(m_ar, mi)
    /\ s_ar' = Enq(s_ar, sj, Head(m_ar[mi]))
    /\ v_f_rd_mis' = Enq(v_f_rd_mis, sj, [mi |-> mi, len |-> Head(m_ar[mi]).len])
    /\ v_f_rd_sjs' = [v_f_rd_sjs EXCEPT ![mi] = <<sj>> \o @]
    /\ rd_routed' = Enq(rd_routed, sj, Head(m_ar[mi]))
    /\ UNCHANGED <<m_r, s_r, v_rg_r_beat_count, v_f_rd_err_info, v_rg_r_err_beat_count,
                   rd_env, writes, issued>>

RdXaction(mi, sj) ==
    /\ Ready(m_ar, mi) /\ Head(m_ar[mi]).to = sj
    /\ Room(s_ar, sj) /\ OrderRoom(v_f_rd_mis, sj) /\ OrderRoom(v_f_rd_sjs, mi)
    /\ m_ar' = Deq(m_ar, mi)
    /\ s_ar' = Enq(s_ar, sj, Head(m_ar[mi]))
    /\ v_f_rd_mis' = Enq(v_f_rd_mis, sj, [mi |-> mi, len |-> Head(m_ar[mi]).len])
    /\ v_f_rd_sjs' = Enq(v_f_rd_sjs, mi, sj)
    /\ rd_routed' = Enq(rd_routed, sj, Head(m_ar[mi]))
    /\ UNCHANGED <<m_r, s_r, v_rg_r_beat_count, v_f_rd_err_info, v_rg_r_err_beat_count,
                   rd_env, writes, issued>>

RdNoSuchSlave(mi) ==
    /\ Ready(m_ar, mi) /\ Head(m_ar[mi]).to = NoSlave
    /\ OrderRoom(v_f_rd_sjs, mi) /\ OrderRoom(v_f_rd_err_info, mi)
    /\ m_ar' = Deq(m_ar, mi)
    /\ v_f_rd_sjs' = Enq(v_f_rd_sjs, mi, NoSlave)
    /\ v_f_rd_err_info' = Enq(v_f_rd_err_info, mi, Head(m_ar[mi]))
    /\ UNCHANGED <<m_r, s_ar, s_r, v_f_rd_mis, v_rg_r_beat_count, v_rg_r_err_beat_count,
                   rd_env, rd_routed, writes, issued>>

\* A defective form: the slave's order counts and the master's does not.
RdRespAnySlave(mi, sj) ==
    /\ Ready(v_f_rd_mis, sj) /\ Head(v_f_rd_mis[sj]).mi = mi
    /\ Ready(v_f_rd_sjs, mi)
    /\ Ready(s_r, sj) /\ Room(m_r, mi)
    /\ LET len == Head(v_f_rd_mis[sj]).len
       IN  /\ IF v_rg_r_beat_count[sj] = len
              THEN v_f_rd_mis' = Deq(v_f_rd_mis, sj) /\ v_f_rd_sjs' = Deq(v_f_rd_sjs, mi)
              ELSE UNCHANGED <<v_f_rd_mis, v_f_rd_sjs>>
           /\ v_rg_r_beat_count' = NextCount(v_rg_r_beat_count, sj, len)
    /\ s_r' = Deq(s_r, sj)
    /\ m_r' = Enq(m_r, mi, Head(s_r[sj]))
    /\ UNCHANGED <<m_ar, s_ar, v_f_rd_err_info, v_rg_r_err_beat_count, rd_env, rd_routed, writes, issued>>

\* A last beat that does not say so is passed on as an error.
RdResp(mi, sj) ==
    /\ Ready(v_f_rd_mis, sj) /\ Head(v_f_rd_mis[sj]).mi = mi
    /\ Ready(v_f_rd_sjs, mi) /\ Head(v_f_rd_sjs[mi]) = sj
    /\ Ready(s_r, sj) /\ Room(m_r, mi)
    /\ LET len == Head(v_f_rd_mis[sj]).len
           r == Head(s_r[sj])
           final == v_rg_r_beat_count[sj] = len
       IN  /\ IF final
              THEN v_f_rd_mis' = Deq(v_f_rd_mis, sj) /\ v_f_rd_sjs' = Deq(v_f_rd_sjs, mi)
              ELSE UNCHANGED <<v_f_rd_mis, v_f_rd_sjs>>
           /\ v_rg_r_beat_count' = NextCount(v_rg_r_beat_count, sj, len)
           /\ m_r' = Enq(m_r, mi, IF final /\ ~r.last /\ r.resp = "okay"
                                   THEN [r EXCEPT !.resp = "slverr"]
                                   ELSE r)
    /\ s_r' = Deq(s_r, sj)
    /\ UNCHANGED <<m_ar, s_ar, v_f_rd_err_info, v_rg_r_err_beat_count, rd_env, rd_routed, writes, issued>>

\* A decode error is answered with as many beats as were asked for.
RdRespErr(mi) ==
    /\ Ready(v_f_rd_sjs, mi) /\ Head(v_f_rd_sjs[mi]) = NoSlave
    /\ Ready(v_f_rd_err_info, mi) /\ Room(m_r, mi)
    /\ LET info == Head(v_f_rd_err_info[mi])
           final == v_rg_r_err_beat_count[mi] = info.len
       IN  /\ m_r' = Enq(m_r, mi, [id |-> info.id, beat |-> v_rg_r_err_beat_count[mi],
                                   last |-> final, resp |-> "decerr"])
           /\ IF final
              THEN v_f_rd_sjs' = Deq(v_f_rd_sjs, mi) /\ v_f_rd_err_info' = Deq(v_f_rd_err_info, mi)
              ELSE UNCHANGED <<v_f_rd_sjs, v_f_rd_err_info>>
           /\ v_rg_r_err_beat_count' = NextCount(v_rg_r_err_beat_count, mi, info.len)
    /\ UNCHANGED <<m_ar, s_ar, s_r, v_f_rd_mis, v_rg_r_beat_count, rd_env, rd_routed, writes, issued>>

-----------------------------------------------------------------------------
(* The masters *)

NoWrites == \A mi \in Masters : wr_bursts[mi] = <<>>

Burst(bursts, mi, shape) ==
    [id |-> <<mi, Len(bursts[mi]) + 1>>, to |-> shape.to, len |-> shape.len]

\* Beat k of burst b, as a datum and as an answer, and the answer to a write.
DataBeat(b, k) == [id |-> b.id, beat |-> k, last |-> k = b.len]
Resp(b) == IF b.to = NoSlave THEN "decerr" ELSE "okay"
AnswerBeat(b, k) == [id |-> b.id, beat |-> k, last |-> k = b.len, resp |-> Resp(b)]
WriteAnswer(b) == [id |-> b.id, resp |-> Resp(b)]

MasterWrite(mi, shape) ==
    /\ mi \in Writers /\ issued < MaxBursts /\ Room(m_aw, mi)
    /\ m_aw' = Enq(m_aw, mi, Burst(wr_bursts, mi, shape))
    /\ wr_bursts' = Enq(wr_bursts, mi, Burst(wr_bursts, mi, shape))
    /\ issued' = issued + 1
    /\ UNCHANGED <<m_w, m_b, s_aw, s_w, s_b, wr_book, w_next, b_taken, w_taken, wr_routed, reads>>

MasterSendW(mi) ==
    /\ w_next[mi][1] <= Len(wr_bursts[mi]) /\ Room(m_w, mi)
    /\ m_w' = Enq(m_w, mi, DataBeat(wr_bursts[mi][w_next[mi][1]], w_next[mi][2]))
    /\ w_next' = [w_next EXCEPT ![mi] = NextBeat(wr_bursts[mi], @)]
    /\ UNCHANGED <<m_aw, m_b, s_aw, s_w, s_b, wr_book, wr_bursts, b_taken, w_taken, wr_routed,
                   reads, issued>>

MasterTakeB(mi) ==
    /\ Ready(m_b, mi)
    /\ m_b' = Deq(m_b, mi)
    /\ b_taken' = [b_taken EXCEPT ![mi] = @ + 1]
    /\ UNCHANGED <<m_aw, m_w, s_aw, s_w, s_b, wr_book, wr_bursts, w_next, w_taken, wr_routed,
                   reads, issued>>

MasterRead(mi, shape) ==
    /\ issued < (IF NoWrites THEN MaxReads ELSE MaxBursts) /\ Room(m_ar, mi)
    /\ m_ar' = Enq(m_ar, mi, Burst(rd_bursts, mi, shape))
    /\ rd_bursts' = Enq(rd_bursts, mi, Burst(rd_bursts, mi, shape))
    /\ issued' = issued + 1
    /\ UNCHANGED <<m_r, s_ar, s_r, rd_book, r_next, beats_out, rd_routed, writes>>

MasterTakeR(mi) ==
    /\ Ready(m_r, mi)
    /\ m_r' = Deq(m_r, mi)
    /\ r_next' = [r_next EXCEPT ![mi] = NextBeat(rd_bursts[mi], @)]
    /\ UNCHANGED <<m_ar, s_ar, s_r, rd_book, rd_bursts, beats_out, rd_routed, writes, issued>>

-----------------------------------------------------------------------------
(* The slaves: each serves its bursts in order *)

SlaveTakeW(sj) ==
    /\ Ready(s_aw, sj) /\ Ready(s_w, sj)
    /\ s_w' = Deq(s_w, sj)
    /\ IF Head(s_w[sj]).last
       THEN /\ Room(s_b, sj)
            /\ s_aw' = Deq(s_aw, sj)
            /\ s_b' = Enq(s_b, sj, WriteAnswer(Head(s_aw[sj])))
            /\ w_taken' = [w_taken EXCEPT ![sj] = 0]
       ELSE /\ w_taken' = [w_taken EXCEPT ![sj] = @ + 1]
            /\ UNCHANGED <<s_aw, s_b>>
    /\ UNCHANGED <<m_aw, m_w, m_b, wr_book, wr_bursts, w_next, b_taken, wr_routed, reads, issued>>

SlaveSendR(sj) ==
    /\ Ready(s_ar, sj) /\ Room(s_r, sj)
    /\ LET b == Head(s_ar[sj])
       IN  /\ s_r' = Enq(s_r, sj, AnswerBeat(b, beats_out[sj]))
           /\ s_ar' = IF beats_out[sj] = b.len THEN Deq(s_ar, sj) ELSE s_ar
           /\ beats_out' = NextCount(beats_out, sj, b.len)
    /\ UNCHANGED <<m_ar, m_r, rd_book, rd_bursts, r_next, rd_routed, writes, issued>>

-----------------------------------------------------------------------------
WriteSide ==
    \/ \E mi \in Masters :
           \/ \E sj \in Slaves : WrXaction(mi, sj) \/ WrResp(mi, sj)
           \/ WrNoSuchSlave(mi) \/ WrData(mi) \/ WrRespErr(mi)
           \/ MasterSendW(mi) \/ MasterTakeB(mi)
    \/ \E sj \in Slaves : SlaveTakeW(sj)

ReadSide ==
    \/ \E mi \in Masters :
           \/ \E sj \in Slaves : RdXaction(mi, sj) \/ RdResp(mi, sj)
           \/ RdNoSuchSlave(mi) \/ RdRespErr(mi)
           \/ MasterTakeR(mi)
    \/ \E sj \in Slaves : SlaveSendR(sj)

Next ==
    \/ WriteSide
    \/ ReadSide
    \/ \E mi \in Masters, shape \in Shapes : MasterWrite(mi, shape) \/ MasterRead(mi, shape)

\* Rules fire when they can, masters send what they announced and take what is
\* theirs, slaves answer.
Fairness == WF_vars(WriteSide) /\ WF_vars(ReadSide)

Spec == Init /\ [][Next]_vars /\ Fairness

-----------------------------------------------------------------------------
(* Properties *)

\* Responses go to the master that asked, in the order it asked, whichever
\* slaves they come from (rl_wr_resp_slave_to_master, rl_rd_resp_slave_to_master
\* and their _err forms): the next write response at a master is that of its
\* oldest burst without one, and the next read beat the next one of its oldest
\* read, errors among them where no slave was addressed.
AnswersToAsker ==
    \A mi \in Masters :
        /\ m_b[mi] # <<>> => Head(m_b[mi]) = WriteAnswer(wr_bursts[mi][b_taken[mi] + 1])
        /\ m_r[mi] # <<>> =>
               Head(m_r[mi]) = AnswerBeat(rd_bursts[mi][r_next[mi][1]], r_next[mi][2])

\* Data follows its address (v_f_wd_tasks): the next datum at a slave is the next
\* one of the oldest burst that the slave was given, for as long as only one
\* master writes.
DataFollowsAddress ==
    \A sj \in Slaves :
        s_w[sj] # <<>> =>
            s_aw[sj] # <<>> /\ Head(s_w[sj]) = DataBeat(Head(s_aw[sj]), w_taken[sj])

\* Every burst is answered: the two orders a response waits for never make two
\* masters wait for each other through two slaves (each with a burst at either
\* slave, asked for in opposite orders), and no FIFO stays full.
AllAnswered ==
    []<>(\A mi \in Masters :
             b_taken[mi] = Len(wr_bursts[mi]) /\ r_next[mi][1] > Len(rd_bursts[mi]))
=============================================================================
