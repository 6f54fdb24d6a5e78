------------------------------ MODULE IoBridge ------------------------------
(***************************************************************************)
(* The guest's I/O window: the bursts that mkIOFabric passes to the        *)
(* io_slave_xactor of src/hw/src_BSV/AWSP2.bsv, which the "master1" rules  *)
(* pass to the host as portal indications, and the handlers of             *)
(* AWSP2_Response (src/src/fpga.cpp) that answer them on the portal        *)
(* poller's thread.                                                        *)
(*                                                                         *)
(* The portal has a queue for each indication, so an address and its data  *)
(* may be handled in either order.  The queues are numbered by method and  *)
(* event_hardware asks the hardware for the number of one that is not      *)
(* empty; the encoder is in the connectal submodule.  AddressFirst is the  *)
(* assumption that it gives the lowest, io_awaddr before io_wdata, and     *)
(* that the rules, which fire in every cycle they can, pass an address no  *)
(* later than its data.                                                    *)
(*                                                                         *)
(* A burst under way has a number, which is used again when it is over.    *)
(* The number travels with what is said of the burst so that the           *)
(* properties can tell bursts apart; the hardware and the host only have   *)
(* the id.  Left out: addresses and data, but for the target of a write,   *)
(* byte enables, object ids, and the depth of the FIFOs (the bursts under  *)
(* way are bounded).                                                       *)
(***************************************************************************)
EXTENDS Integers, FiniteSets, Sequences, FiniteSetsExt, SequencesExt, TLC

CONSTANTS
    Kinds,          \* the bursts the guest may ask for: [dir, id, beats, target]
    LenMod,         \* beats whose length in bytes wraps to 0: 32, as awlen has 8 bits
    CountMod,       \* wdata_count is a uint16_t: 2^16
    MaxBursts,      \* bound: bursts under way at a time
    AddressFirst    \* is an address handled before the data that follows it?

Targets == {"device", "tohost", "other"}
Directions == {"read", "write"}

\* A burst of LenMod beats would be announced as an empty one.
ASSUME BridgeAssumption ==
    /\ {LenMod, CountMod} \subseteq Nat \ {0} /\ LenMod <= CountMod
    /\ Kinds \subseteq [dir : {"read", "write"}, id : Nat, beats : 1 .. LenMod - 1,
                        target : Targets]
    /\ MaxBursts \in Nat
    /\ AddressFirst \in BOOLEAN

VARIABLES
    rg_ready,       \* has memory_ready been called?
    burst,          \* burst[b]: what the guest asked for, with the beats it has got
    outstanding,    \* the bursts under way of each direction, oldest first
    aw, w, ar,      \* f_wr_addr, f_wr_data (a burst for each beat), f_rd_addr
    io_awaddr, io_wdata, io_araddr,     \* the portal's indication queues
    io_write_queue, \* AWSP2::io_write_queue
    handling,       \* the burst whose beat io_wdata is handling, or 0
    bdone, rdata    \* answers on their way to the guest

guest == <<burst, outstanding>>
hardware == <<rg_ready, guest, aw, w, ar>>
indications == <<io_awaddr, io_wdata, io_araddr>>
answers == <<bdone, rdata>>
ioVars == <<hardware, indications, io_write_queue, handling, answers>>

Bursts == 1 .. MaxBursts
NoBurst == [dir |-> "none", id |-> 0, beats |-> 0, target |-> "other", got |-> 0]

IoInit ==
    /\ rg_ready = FALSE
    /\ burst = [b \in Bursts |-> NoBurst] /\ outstanding = [dir \in Directions |-> <<>>]
    /\ aw = <<>> /\ w = <<>> /\ ar = <<>>
    /\ io_awaddr = <<>> /\ io_wdata = <<>> /\ io_araddr = <<>>
    /\ io_write_queue = <<>>
    /\ handling = 0
    /\ bdone = <<>> /\ rdata = <<>>

Times(n, x) == [i \in 1 .. n |-> x]

-----------------------------------------------------------------------------
(* The guest's side of the window, behind the fabric *)

UnderWay == UNION {{outstanding[dir][i] : i \in DOMAIN outstanding[dir]} : dir \in Directions}

\* The place of the burst that an answer is for: the oldest of its direction and id.
Asker(dir, id) ==
    Min({i \in DOMAIN outstanding[dir] : burst[outstanding[dir][i]].id = id})

Over(dir, i) ==
    /\ outstanding' = [outstanding EXCEPT ![dir] = RemoveAt(@, i)]
    /\ burst' = [burst EXCEPT ![outstanding[dir][i]] = NoBurst]

\* The fabric passes the data of a write after its address.
Issue(kind) ==
    /\ UnderWay # Bursts
    /\ LET b == Min(Bursts \ UnderWay)
       IN  /\ burst' = [burst EXCEPT ![b] = [dir |-> kind.dir, id |-> kind.id, beats |-> kind.beats,
                                             target |-> kind.target, got |-> 0]]
           /\ outstanding' = [outstanding EXCEPT ![kind.dir] = Append(@, b)]
           /\ IF kind.dir = "write"
              THEN aw' = Append(aw, b) /\ w' = w \o Times(kind.beats, b) /\ UNCHANGED ar
              ELSE ar' = Append(ar, b) /\ UNCHANGED <<aw, w>>
    /\ UNCHANGED <<rg_ready, indications, io_write_queue, handling, answers>>

TakeResponse ==
    /\ bdone # <<>>
    /\ Over("write", Asker("write", Head(bdone)))
    /\ bdone' = Tail(bdone)
    /\ UNCHANGED <<rg_ready, aw, w, ar, indications, io_write_queue, handling, rdata>>

TakeData ==
    /\ rdata # <<>>
    /\ LET i == Asker("read", Head(rdata).id)
       IN  IF Head(rdata).last THEN Over("read", i)
           ELSE /\ burst' = [burst EXCEPT ![outstanding["read"][i]].got = @ + 1]
                /\ UNCHANGED outstanding
    /\ rdata' = Tail(rdata)
    /\ UNCHANGED <<rg_ready, aw, w, ar, indications, io_write_queue, handling, bdone>>

-----------------------------------------------------------------------------
(* The rules of AWSP2.bsv *)

\* Defective: AXI's length is one less than the number of beats.
burstLenShort(b) == (burst[b].beats - 1) % LenMod

\* 8 * (len + 1) in the 8 bits of len, and divided by 8 on the host's side.
burstLen(b) == burst[b].beats % LenMod

master1_aw ==
    /\ rg_ready /\ aw # <<>>
    /\ LET b == Head(aw)
       IN  io_awaddr' = Append(io_awaddr, [of |-> b, len |-> burstLen(b), id |-> burst[b].id])
    /\ aw' = Tail(aw)
    /\ UNCHANGED <<rg_ready, guest, w, ar, io_wdata, io_araddr, io_write_queue,
                   handling, answers>>

master1_wdata ==
    /\ rg_ready /\ w # <<>>
    /\ AddressFirst => \A i \in DOMAIN aw : aw[i] # Head(w)
    /\ io_wdata' = Append(io_wdata, Head(w))
    /\ w' = Tail(w)
    /\ UNCHANGED <<rg_ready, guest, aw, ar, io_awaddr, io_araddr, io_write_queue,
                   handling, answers>>

master1_ar ==
    /\ rg_ready /\ ar # <<>>
    /\ LET b == Head(ar)
       IN  io_araddr' = Append(io_araddr, [of |-> b, len |-> burstLen(b), id |-> burst[b].id])
    /\ ar' = Tail(ar)
    /\ UNCHANGED <<rg_ready, guest, aw, w, io_awaddr, io_wdata, io_write_queue,
                   handling, answers>>

-----------------------------------------------------------------------------
(* The handlers of AWSP2_Response *)

PollerIdle == handling = 0

OnAwaddr ==
    /\ PollerIdle /\ io_awaddr # <<>>
    /\ LET a == Head(io_awaddr)
       IN  io_write_queue' = Append(io_write_queue,
                                    [of |-> a.of, wdata_count |-> a.len, wid |-> a.id])
    /\ io_awaddr' = Tail(io_awaddr)
    /\ UNCHANGED <<hardware, io_wdata, io_araddr, handling, answers>>

\* Defective: the flag is off by one.
LastLate(i, len) == i = len

\* Beats are numbered from 0.
LastBeat(i, len) == i = len - 1

\* One io_rdata for each beat.  (The HTIF word fromhost is answered with one beat
\* whatever was asked: it is read by single loads.)
OnAraddr ==
    /\ PollerIdle /\ io_araddr # <<>>
    /\ LET a == Head(io_araddr)
       IN  rdata' = rdata \o [i \in 1 .. a.len |-> [id |-> a.id, last |-> LastBeat(i - 1, a.len)]]
    /\ io_araddr' = Tail(io_araddr)
    /\ UNCHANGED <<hardware, io_awaddr, io_wdata, io_write_queue, handling, bdone>>

\* io_wdata is called.  The front of an empty queue is undefined.
OnWdata ==
    /\ PollerIdle /\ io_wdata # <<>>
    /\ AddressFirst => io_awaddr = <<>>
    /\ handling' = Head(io_wdata)
    /\ io_wdata' = Tail(io_wdata)
    /\ UNCHANGED <<hardware, io_awaddr, io_araddr, io_write_queue, answers>>

\* Defective: every write is taken for a single beat.
CountSingle(q) == [q EXCEPT !.wdata_count = 0]

CountDown(q) == [q EXCEPT !.wdata_count = (@ - 1) % CountMod]

\* Its end: the beat is counted and the last one of a burst answers it.
EndWdata ==
    /\ ~PollerIdle
    /\ handling' = 0
    /\ LET q == CountDown(Head(io_write_queue))
       IN  IF q.wdata_count = 0
           THEN /\ bdone' = Append(bdone, q.wid)
                /\ io_write_queue' = Tail(io_write_queue)
           ELSE /\ io_write_queue' = <<q>> \o Tail(io_write_queue)
                /\ UNCHANGED bdone
    /\ UNCHANGED <<hardware, indications, rdata>>

-----------------------------------------------------------------------------
(* Properties *)

\* A beat of data is counted against the burst it belongs to, though address and
\* data come by different queues and the host has only their order to go by
\* (io_awaddr, io_wdata).
WritesOwnBurst ==
    handling # 0 => io_write_queue # <<>> /\ Head(io_write_queue).of = handling

\* The write response comes when all of the burst's beats have been handled, and
\* is taken by the burst that it is for: nothing is left of a burst that is over.
AnsweredWhenWritten ==
    \A b \in Bursts \ UnderWay :
        /\ handling # b
        /\ \A i \in DOMAIN w : w[i] # b
        /\ \A i \in DOMAIN io_wdata : io_wdata[i] # b

\* The guest takes a read for done with the last of its beats, and not before or
\* after: that beat is marked, and no other (io_araddr).
ReadsWhole ==
    [][\A b \in UnderWay : burst[b].dir = "read" =>
        IF b \in UnderWay' THEN burst'[b].got < burst[b].beats
        ELSE burst[b].got = burst[b].beats - 1]_ioVars

=============================================================================
