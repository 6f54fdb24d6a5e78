----------------------------- MODULE VirtioQueue -----------------------------
(***************************************************************************)
(* One virtqueue of src/src/tinyemu/virtio.c, between the guest's driver,  *)
(* the portal poller's thread (MMIO writes), the "VirtIO queues" worker    *)
(* (queue_notify) and the "VirtIO I/O" thread (virtio_net_write_packet and *)
(* virtio_console_write_data).                                             *)
(*                                                                         *)
(* A queue is of one of two kinds, fixed by virtio_net_init and            *)
(* virtio_console_init.  On an ordinary queue the worker consumes every    *)
(* available descriptor when it is notified.  On a manual_recv queue the   *)
(* worker only copies the available index into the cached avail_idx, and   *)
(* the I/O thread consumes descriptors as input arrives, up to that cached *)
(* index.                                                                  *)
(*                                                                         *)
(* The notification is one flag here: VirtioNotify shows that a bit set is *)
(* a call of queue_notify to come.                                         *)
(***************************************************************************)
EXTENDS Naturals, FiniteSets, Sequences

CONSTANTS
    Num,            \* the queue's size, a power of two
    IdxMod,         \* ring indices wrap here: 2^16 in the code
    ManualKinds,    \* the kinds of queue considered, a subset of BOOLEAN
    MaxResets,      \* bound: device resets, per kind of queue
    RacingResets    \* may a reset overlap with a thread inside the device?

ASSUME QueueAssumption ==
    /\ Num \in Nat \ {0}
    /\ IdxMod \in Nat /\ IdxMod > Num /\ IdxMod % Num = 0
    /\ ManualKinds \subseteq BOOLEAN
    /\ MaxResets \in [BOOLEAN -> Nat]
    /\ RacingResets \in BOOLEAN

Slots == 0 .. Num - 1       \* entries of either ring
Desc == 0 .. Num - 1        \* descriptor indices
Idx == 0 .. IdxMod - 1      \* values of a uint16_t ring index

Inc(i) == (i + 1) % IdxMod
Distance(from, to) == ((to + IdxMod) - from) % IdxMod   \* indices from..to
Slot(i) == i % Num          \* idx & (num - 1)

VARIABLES
    \* the driver's memory
    avail_ring, avail_mem,  \* the available ring and *(avail_addr + 2)
    used_ring, used_mem,    \* the used ring and *(used_addr + 2)
    filled,                 \* descriptors whose table entry has been written
    \* the driver's own state
    gpc,                    \* "setup", "run", or "publish" inside an add
    free,                   \* descriptors the driver owns
    used_seen,              \* used index up to which the driver has collected
    kick,                   \* published, QUEUE_NOTIFY not yet written
    resets,                 \* device resets so far
    \* QueueState
    ready, avail_idx, last_avail_idx, manual_recv,
    attached,               \* avail_addr, used_addr and desc_addr are set
    notified,               \* the queue's bit in pending_queue_notify
    \* the two threads that may be in the device's code
    pc,                     \* pc[t]
    cur_avail,              \* the worker's local avail_idx
    desc_idx,               \* desc_idx[t]
    used_idx                \* used_idx[t], read by virtio_consume_desc

Threads == {"worker", "io"}

memory == <<avail_ring, avail_mem, used_ring, used_mem, filled>>
driver == <<gpc, free, used_seen, kick, resets>>
queue == <<ready, avail_idx, last_avail_idx, manual_recv, attached>>
locals == <<cur_avail, desc_idx, used_idx>>
vars == <<memory, driver, queue, notified, pc, locals>>

FreshRing == [s \in Slots |-> 0]

Init ==
    /\ avail_ring = FreshRing /\ avail_mem = 0
    /\ used_ring = FreshRing /\ used_mem = 0
    /\ filled = {}
    /\ gpc = "setup" /\ free = Desc /\ used_seen = 0
    /\ kick = FALSE /\ resets = 0
    /\ ready = FALSE /\ avail_idx = 0 /\ last_avail_idx = 0
    /\ manual_recv \in ManualKinds
    /\ attached = FALSE
    /\ notified = FALSE
    /\ pc = [t \in Threads |-> "idle"]
    /\ cur_avail = 0
    /\ desc_idx = [t \in Threads |-> 0]
    /\ used_idx = [t \in Threads |-> 0]

\* What the device reads through an address: 0 while none is set.
AvailMem == IF attached THEN avail_mem ELSE 0
AvailRing(i) == IF attached THEN avail_ring[Slot(i)] ELSE 0

-----------------------------------------------------------------------------
(* The guest's driver, and the poller's thread acting on its MMIO writes *)

\* QUEUE_NUM, the addresses of zeroed rings, then QUEUE_READY = 1.
DriverSetup ==
    /\ gpc = "setup"
    /\ gpc' = "run"
    /\ attached' = TRUE
    /\ ready' = TRUE
    /\ UNCHANGED <<memory, free, used_seen, kick, resets, avail_idx,
                   last_avail_idx, manual_recv, notified, pc, locals>>

\* The driver fills a descriptor and the ring entry that names it ...
DriverFill(d) ==
    /\ gpc = "run"
    /\ d \in free
    /\ free' = free \ {d}
    /\ filled' = filled \cup {d}
    /\ avail_ring' = [avail_ring EXCEPT ![Slot(avail_mem)] = d]
    /\ gpc' = "publish"
    /\ UNCHANGED <<avail_mem, used_ring, used_mem, used_seen, kick, resets,
                   queue, notified, pc, locals>>

\* ... and then advances the available index.
DriverPublish ==
    /\ gpc = "publish"
    /\ avail_mem' = Inc(avail_mem)
    /\ kick' = TRUE
    /\ gpc' = "run"
    /\ UNCHANGED <<avail_ring, used_ring, used_mem, filled, free, used_seen, resets,
                   queue, notified, pc, locals>>

\* The write to QUEUE_NOTIFY reaches async_queue_notify.
DriverKick ==
    /\ kick
    /\ gpc # "setup"
    /\ kick' = FALSE
    /\ notified' = TRUE
    /\ UNCHANGED <<memory, gpc, free, used_seen, resets, queue, pc, locals>>

DriverCollect ==
    /\ gpc = "run"
    /\ used_seen # used_mem
    /\ free' = free \cup {used_ring[Slot(used_seen)]}
    /\ used_seen' = Inc(used_seen)
    /\ UNCHANGED <<memory, gpc, kick, resets, queue, notified, pc, locals>>

Quiet == \A t \in Threads : pc[t] = "idle"

\* A variant that forgets the device's position in the ring.
DeviceResetKeepsPosition ==
    /\ ready' = FALSE
    /\ attached' = FALSE
    /\ UNCHANGED <<last_avail_idx, avail_idx, manual_recv>>

\* virtio_reset, for this queue.  The cached avail_idx keeps its value.
DeviceReset ==
    /\ ready' = FALSE
    /\ attached' = FALSE
    /\ last_avail_idx' = 0
    /\ UNCHANGED <<avail_idx, manual_recv>>

\* The driver writes 0 to STATUS, drops its rings, and will set up new ones.
\* pending_queue_notify is not part of the reset.
DriverReset ==
    /\ gpc = "run"
    /\ resets < MaxResets[manual_recv]
    /\ RacingResets \/ Quiet
    /\ DeviceReset
    /\ resets' = resets + 1
    /\ gpc' = "setup" /\ free' = Desc /\ used_seen' = 0 /\ kick' = FALSE
    /\ avail_ring' = FreshRing /\ avail_mem' = 0
    /\ used_ring' = FreshRing /\ used_mem' = 0
    /\ filled' = {}
    /\ UNCHANGED <<notified, pc, locals>>

-----------------------------------------------------------------------------
(* virtio_consume_desc, on either thread *)

Goto(t, label) == pc' = [pc EXCEPT ![t] = label]

\* Read the used index and write the used element beside it ...
ConsumeWriteElem(t) ==
    /\ pc[t] = "consume"
    /\ LET u == IF attached THEN used_mem ELSE 0
       IN  /\ used_idx' = [used_idx EXCEPT ![t] = u]
           /\ used_ring' = IF attached
                           THEN [used_ring EXCEPT ![Slot(u)] = desc_idx[t]]
                           ELSE used_ring
    /\ Goto(t, "publish")
    /\ UNCHANGED <<avail_ring, avail_mem, used_mem, filled, driver, queue,
                   notified, cur_avail, desc_idx>>

\* ... then, past the release fence, advance the used index.
ConsumePublish(t) ==
    /\ pc[t] = "publish"
    /\ used_mem' = IF attached THEN Inc(used_idx[t]) ELSE used_mem
    /\ Goto(t, "advance")
    /\ UNCHANGED <<avail_ring, avail_mem, used_ring, filled, driver, queue,
                   notified, locals>>

\* last_avail_idx++ once the descriptor has been dealt with.
Advance(t) ==
    /\ pc[t] = "advance"
    /\ last_avail_idx' = Inc(last_avail_idx)
    /\ Goto(t, IF t = "worker" THEN "loop" ELSE "idle")
    /\ UNCHANGED <<memory, driver, ready, avail_idx, manual_recv, attached,
                   notified, locals>>

-----------------------------------------------------------------------------
(* queue_notify, on the worker *)

WorkerTake ==
    /\ pc["worker"] = "idle"
    /\ notified
    /\ notified' = FALSE
    /\ Goto("worker", "read")
    /\ UNCHANGED <<memory, driver, queue, locals>>

\* Read and cache the available index; a manual_recv queue needs no more.
NotifyRead ==
    /\ pc["worker"] = "read"
    /\ cur_avail' = AvailMem
    /\ avail_idx' = AvailMem
    /\ Goto("worker", IF manual_recv THEN "idle" ELSE "loop")
    /\ UNCHANGED <<memory, driver, ready, last_avail_idx, manual_recv, attached,
                   notified, desc_idx, used_idx>>

\* A variant whose test is an ordering of the indices: it fails at the wrap.
NotifyLoopOrdered ==
    /\ pc["worker"] = "loop"
    /\ IF last_avail_idx < cur_avail
       THEN /\ desc_idx' = [desc_idx EXCEPT !["worker"] = AvailRing(last_avail_idx)]
            /\ Goto("worker", "serve")
       ELSE /\ Goto("worker", "idle")
            /\ UNCHANGED desc_idx
    /\ UNCHANGED <<memory, driver, queue, notified, cur_avail, used_idx>>

\* The test of the while loop.  The drivers' chains are well formed.
NotifyLoop ==
    /\ pc["worker"] = "loop"
    /\ IF last_avail_idx # cur_avail
       THEN /\ desc_idx' = [desc_idx EXCEPT !["worker"] = AvailRing(last_avail_idx)]
            /\ Goto("worker", "serve")
       ELSE /\ Goto("worker", "idle")
            /\ UNCHANGED desc_idx
    /\ UNCHANGED <<memory, driver, queue, notified, cur_avail, used_idx>>

\* device_recv serves the descriptor, and then calls virtio_consume_desc; what it
\* does for the block device is in VirtioBackends.
DeviceRecv ==
    /\ pc["worker"] = "serve"
    /\ Goto("worker", "consume")
    /\ UNCHANGED <<memory, driver, queue, notified, locals>>

-----------------------------------------------------------------------------
(* The I/O thread: process_io, with the console or the network as its input *)

\* virtio_console_can_write_data, virtio_net_can_write_packet
CanWrite == ready /\ last_avail_idx # avail_idx

\* Input is there, the device believes it holds a buffer, and the thread takes as
\* much of the input as fits.  A descriptor that was never filled has length 0 and
\* no input fits into it.
InputArrives ==
    /\ pc["io"] = "idle"
    /\ manual_recv
    /\ CanWrite
    /\ AvailRing(last_avail_idx) \in filled
    /\ Goto("io", "serve")
    /\ UNCHANGED <<memory, driver, queue, notified, locals>>

\* virtio_console_write_data, virtio_net_write_packet up to the call of
\* virtio_consume_desc: the head of the ring is looked up once more.
InputWrite ==
    /\ pc["io"] = "serve"
    /\ IF CanWrite
       THEN /\ desc_idx' = [desc_idx EXCEPT !["io"] = AvailRing(last_avail_idx)]
            /\ Goto("io", "consume")
       ELSE /\ Goto("io", "idle")
            /\ UNCHANGED desc_idx
    /\ UNCHANGED <<memory, driver, queue, notified, cur_avail, used_idx>>

-----------------------------------------------------------------------------
Device ==
    \/ WorkerTake
    \/ NotifyRead
    \/ NotifyLoop
    \/ DeviceRecv
    \/ ConsumeWriteElem("worker")
    \/ ConsumePublish("worker")
    \/ Advance("worker")

Next ==
    \/ DriverSetup
    \/ \E d \in Desc : DriverFill(d)
    \/ DriverPublish
    \/ DriverKick
    \/ DriverCollect
    \/ DriverReset
    \/ Device
    \/ InputArrives
    \/ InputWrite
    \/ ConsumeWriteElem("io")
    \/ ConsumePublish("io")
    \/ Advance("io")

\* The worker keeps running, and a driver that has published a descriptor goes
\* on to write QUEUE_NOTIFY.
Fairness == WF_vars(Device) /\ WF_vars(DriverKick)

Spec == Init /\ [][Next]_vars /\ Fairness

-----------------------------------------------------------------------------
(* Properties *)

TypeOK ==
    /\ avail_ring \in [Slots -> Desc] /\ avail_mem \in Idx
    /\ used_ring \in [Slots -> Desc] /\ used_mem \in Idx
    /\ filled \in SUBSET Desc
    /\ gpc \in {"setup", "run", "publish"}
    /\ free \in SUBSET Desc /\ used_seen \in Idx
    /\ kick \in BOOLEAN /\ resets \in Nat
    /\ ready \in BOOLEAN /\ attached \in BOOLEAN
    /\ avail_idx \in Idx /\ last_avail_idx \in Idx
    /\ manual_recv \in BOOLEAN /\ notified \in BOOLEAN
    /\ pc \in [Threads -> {"idle", "read", "loop", "serve", "consume", "publish",
                           "advance"}]
    /\ cur_avail \in Idx
    /\ desc_idx \in [Threads -> Desc] /\ used_idx \in [Threads -> Idx]

\* The used index trails the available index by at most the size of the ring.
WithinRing == ready => Distance(used_mem, avail_mem) <= Num

\* last_avail_idx is the used index, but for the moment between publishing a used
\* element and last_avail_idx++.
InStep ==
    used_mem = IF \E t \in Threads : pc[t] = "advance"
               THEN Inc(last_avail_idx)
               ELSE last_avail_idx

\* The device's position stays with what it has handed back, and that stays
\* within what the driver has made available, across the wrap of the 16-bit
\* indices and across resets (queue_notify, virtio_net_write_packet,
\* virtio_reset).
PositionInRing == WithinRing /\ InStep

RingEntries(ring, from, to) ==
    [k \in 1 .. Distance(from, to) |-> ring[Slot(from + k - 1)]]

F == INSTANCE RequestFifo WITH
        inflight <- RingEntries(avail_ring, used_mem, avail_mem),
        done <- RingEntries(used_ring, used_seen, used_mem),
        prompt <- ~manual_recv

\* The rings implement the FIFO of requests: each descriptor made available is
\* handed back exactly once and in order, and the device hands back by itself
\* whatever is available on a queue that is not manual_recv.
ImplementsFifo == F!Spec
=============================================================================
