---------------------------- MODULE VirtioNotify ----------------------------
(***************************************************************************)
(* The asynchronous queue notification of src/src/tinyemu/virtio.c.        *)
(*                                                                         *)
(* A guest store to QUEUE_NOTIFY reaches virtio_mmio_write on the portal   *)
(* poller's thread, which must not block: async_queue_notify sets a bit in *)
(* the device's pending_queue_notify and wakes the "VirtIO queues" worker, *)
(* which takes the bits and calls queue_notify for each.  stop_io (called  *)
(* on the poller's thread or on the console input thread) tells the worker *)
(* to stop; the main thread joins it and, when the guest asked for a       *)
(* reset, starts another worker on the same static flags.                  *)
(*                                                                         *)
(* Each critical section on pending_notify_lock is one action: the holder  *)
(* never blocks inside it, except in pthread_cond_wait, which releases the *)
(* lock and is the "waiting" state of the worker.                          *)
(***************************************************************************)
EXTENDS Naturals, FiniteSets

CONSTANTS
    NumDevices,   \* devices handed to virtio_start_pending_notify_thread
    MaxQueue,     \* MAX_QUEUE, the queue indices a device has (8 in the code)
    MaxPosts,     \* bound: requests the guest posts between two restarts
    MaxStops      \* bound: calls of virtio_stop_pending_notify_thread

ASSUME SizesAssumption ==
    /\ NumDevices \in Nat \ {0}
    /\ MaxQueue \in Nat \ {0}
    /\ MaxPosts \in Nat
    /\ MaxStops \in Nat

Devices == 0 .. NumDevices - 1
Queues == 0 .. MaxQueue - 1
Bells == Devices \X Queues

VARIABLES
    pending_queue_notify, \* pending_queue_notify[d]: the bits set in device d
    pending_notify,       \* static flag, guarded by pending_notify_lock
    pending_notify_stop,  \* static flag, guarded by pending_notify_lock
    ppc,                  \* poller thread, inside async_queue_notify
    wpc,                  \* worker thread
    widx,                 \* worker's loop variable i
    notify,               \* worker's local bits, taken from ps[i]
    stops,                \* calls of virtio_stop_pending_notify_thread so far
    posts,                \* requests posted since the last restart
    posted, rung, seen    \* the guest's requests (see Doorbell)

flags == <<pending_notify, pending_notify_stop>>
worker == <<wpc, widx, notify>>
requests == <<posts, posted, rung, seen>>
notify_vars == <<pending_queue_notify, flags, ppc, worker, stops, requests>>

NoRequests == [b \in Bells |-> 0]

NotifyInit ==
    /\ pending_queue_notify = [d \in Devices |-> {}]
    /\ pending_notify = FALSE
    /\ pending_notify_stop = FALSE
    /\ ppc = "idle"
    /\ wpc = "check"
    /\ widx = 0
    /\ notify = {}
    /\ stops = 0
    /\ posts = 0
    /\ posted = NoRequests
    /\ rung = NoRequests
    /\ seen = NoRequests

-----------------------------------------------------------------------------
(* The guest and the poller's thread *)

\* The guest makes a request available in its memory; nobody is told yet.
GuestPost(b) ==
    /\ posts < MaxPosts
    /\ posts' = posts + 1
    /\ posted' = [posted EXCEPT ![b] = @ + 1]
    /\ UNCHANGED <<pending_queue_notify, flags, ppc, worker, stops, rung, seen>>

\* The guest's store to QUEUE_NOTIFY has reached the poller's thread: the
\* atomic OR, before the lock is taken.
NotifySetBit(d, queue_idx) ==
    /\ ppc = "idle"
    /\ queue_idx < MaxQueue
    /\ pending_queue_notify' =
           [pending_queue_notify EXCEPT ![d] = @ \cup {queue_idx}]
    /\ rung' = [rung EXCEPT ![<<d, queue_idx>>] = posted[<<d, queue_idx>>]]
    /\ ppc' = "signal"
    /\ UNCHANGED <<flags, worker, stops, posts, posted, seen>>

\* pthread_cond_signal: a worker in pthread_cond_wait goes back to its test.
WakeWorker == wpc' = IF wpc = "waiting" THEN "check" ELSE wpc

\* Defective forms of NotifySignal: the signal, or the flag, is forgotten.
NotifySignalUnsignalled ==
    /\ ppc = "signal"
    /\ pending_notify' = TRUE
    /\ ppc' = "idle"
    /\ UNCHANGED <<pending_queue_notify, pending_notify_stop, worker, stops, requests>>

NotifySignalUnflagged ==
    /\ ppc = "signal"
    /\ WakeWorker
    /\ ppc' = "idle"
    /\ UNCHANGED <<pending_queue_notify, flags, widx, notify, stops, requests>>

\* The rest of async_queue_notify: flag and signal under the lock.
NotifySignal ==
    /\ ppc = "signal"
    /\ pending_notify' = TRUE
    /\ WakeWorker
    /\ ppc' = "idle"
    /\ UNCHANGED <<pending_queue_notify, pending_notify_stop, widx, notify, stops, requests>>

-----------------------------------------------------------------------------
(* Stop, join and restart *)

\* A defective StopWorker that sets only the stop flag.
StopWorkerUnflagged ==
    /\ stops < MaxStops
    /\ stops' = stops + 1
    /\ pending_notify_stop' = TRUE
    /\ WakeWorker
    /\ UNCHANGED <<pending_queue_notify, pending_notify, ppc, widx, notify, requests>>

\* virtio_stop_pending_notify_thread.  Its callers do not exclude each other
\* and do not ask whether the worker has been told already.
StopWorker ==
    /\ stops < MaxStops
    /\ stops' = stops + 1
    /\ pending_notify' = TRUE
    /\ pending_notify_stop' = TRUE
    /\ WakeWorker
    /\ UNCHANGED <<pending_queue_notify, ppc, widx, notify, requests>>

\* virtio_join_pending_notify_thread returns on the main thread.
Join ==
    /\ wpc = "exited"
    /\ wpc' = "joined"
    /\ UNCHANGED <<pending_queue_notify, flags, ppc, widx, notify, stops, requests>>

\* main resets the devices and starts a new worker.  The guest was halted and
\* will set its queues up again; the static flags and the devices' pending
\* bits keep whatever the last session left in them.
Restart ==
    /\ wpc = "joined"
    /\ wpc' = "check"
    /\ widx' = 0
    /\ notify' = {}
    /\ posts' = 0
    /\ posted' = NoRequests
    /\ rung' = NoRequests
    /\ seen' = NoRequests
    /\ UNCHANGED <<pending_queue_notify, flags, ppc, stops>>

-----------------------------------------------------------------------------
(* The worker, pending_notify_worker *)

WorkerWait ==
    /\ wpc = "check"
    /\ ~pending_notify
    /\ wpc' = "waiting"
    /\ UNCHANGED <<pending_queue_notify, flags, ppc, widx, notify, stops, requests>>

\* POSIX lets pthread_cond_wait return without a signal.
SpuriousWakeup ==
    /\ wpc = "waiting"
    /\ wpc' = "check"
    /\ UNCHANGED <<pending_queue_notify, flags, ppc, widx, notify, stops, requests>>

\* The stop flag is consumed; pending_notify is left set.
WorkerExit ==
    /\ wpc = "check"
    /\ pending_notify
    /\ pending_notify_stop
    /\ pending_notify_stop' = FALSE
    /\ wpc' = "exited"
    /\ UNCHANGED <<pending_queue_notify, pending_notify, ppc, widx, notify, stops, requests>>

WorkerBegin ==
    /\ wpc = "check"
    /\ pending_notify
    /\ ~pending_notify_stop
    /\ pending_notify' = FALSE
    /\ wpc' = "exchange"
    /\ widx' = 0
    /\ UNCHANGED <<pending_queue_notify, pending_notify_stop, ppc, notify, stops, requests>>

\* atomic_exchange of ps[i]'s bits with 0.
WorkerExchange ==
    /\ wpc = "exchange"
    /\ notify' = pending_queue_notify[widx]
    /\ pending_queue_notify' = [pending_queue_notify EXCEPT ![widx] = {}]
    /\ wpc' = "serve"
    /\ UNCHANGED <<flags, ppc, widx, stops, requests>>

\* queue_notify(s, j) for the lowest bit left: it reads the guest's available
\* index, which counts every request posted by now.
WorkerServe ==
    /\ wpc = "serve"
    /\ \E j \in notify :
           /\ \A k \in notify : j <= k
           /\ seen' = [seen EXCEPT ![<<widx, j>>] = posted[<<widx, j>>]]
           /\ notify' = notify \ {j}
    /\ UNCHANGED <<pending_queue_notify, flags, ppc, wpc, widx, stops, posts, posted, rung>>

\* Defective forms of WorkerNextDevice: the device's bits are cleared once
\* they have been served, which clobbers a bit set meanwhile (the mistake the
\* comment at virtio.c:2820 warns of); or the loop runs one device too far.
WorkerNextDeviceClobbering ==
    /\ wpc = "serve"
    /\ notify = {}
    /\ pending_queue_notify' = [pending_queue_notify EXCEPT ![widx] = {}]
    /\ widx' = (widx + 1) % NumDevices
    /\ wpc' = IF widx + 1 < NumDevices THEN "exchange" ELSE "check"
    /\ UNCHANGED <<flags, ppc, notify, stops, requests>>

WorkerNextDeviceTooFar ==
    /\ wpc = "serve"
    /\ notify = {}
    /\ widx' = widx + 1
    /\ wpc' = IF widx + 1 <= NumDevices THEN "exchange" ELSE "check"
    /\ UNCHANGED <<pending_queue_notify, flags, ppc, notify, stops, requests>>

\* No bit left: the next device, or the wait at the top of the loop.
WorkerNextDevice ==
    /\ wpc = "serve"
    /\ notify = {}
    /\ IF widx + 1 < NumDevices
       THEN widx' = widx + 1 /\ wpc' = "exchange"
       ELSE widx' = 0 /\ wpc' = "check"
    /\ UNCHANGED <<pending_queue_notify, flags, ppc, notify, stops, requests>>

Worker ==
    \/ WorkerWait
    \/ WorkerExit
    \/ WorkerBegin
    \/ WorkerExchange
    \/ WorkerServe
    \/ WorkerNextDevice

NotifyNext ==
    \/ \E b \in Bells : GuestPost(b)
    \/ \E d \in Devices, queue_idx \in 0 .. MaxQueue : NotifySetBit(d, queue_idx)
    \/ NotifySignal
    \/ StopWorker
    \/ Join
    \/ Restart
    \/ SpuriousWakeup
    \/ Worker

\* The worker's thread and the poller's thread keep running.  Nothing is
\* asked of the guest, of the callers of stop, or of the main thread.
NotifyFairness == WF_notify_vars(Worker) /\ WF_notify_vars(NotifySignal)

NotifySpec == NotifyInit /\ [][NotifyNext]_notify_vars
FairSpec == NotifySpec /\ NotifyFairness

-----------------------------------------------------------------------------
(* Properties *)

NotifyTypeOK ==
    /\ pending_queue_notify \in [Devices -> SUBSET Queues]
    /\ pending_notify \in BOOLEAN
    /\ pending_notify_stop \in BOOLEAN
    /\ ppc \in {"idle", "signal"}
    /\ wpc \in {"check", "waiting", "exchange", "serve", "exited", "joined"}
    /\ widx \in Devices
    /\ notify \in SUBSET Queues
    /\ stops \in Nat
    /\ posts \in Nat
    /\ posted \in [Bells -> Nat]
    /\ rung \in [Bells -> Nat]
    /\ seen \in [Bells -> Nat]

\* Bit q of device d will be looked at in the pass the worker is making.
InThisPass(d, q) ==
    \/ wpc = "serve" /\ widx = d /\ q \in notify
    \/ q \in pending_queue_notify[d] /\
           \/ wpc = "exchange" /\ widx <= d
           \/ wpc = "serve" /\ widx < d

\* No request is forgotten (async_queue_notify against the worker's exchange):
\* as long as a queue holds a request that was announced and has not been seen,
\* its bit is still set, in the device or in the worker's hands, and something
\* will bring the worker to it: the flag, the poller about to set the flag, or
\* the pass under way.
NoLostNotify ==
    \A d \in Devices, q \in Queues :
        seen[<<d, q>>] < rung[<<d, q>>] =>
            \/ InThisPass(d, q)
            \/ /\ q \in pending_queue_notify[d]
               /\ pending_notify \/ ppc = "signal"

\* The worker never sleeps through work (async_queue_notify and
\* virtio_stop_pending_notify_thread against pthread_cond_wait): while it is in
\* the wait, no bit is set that the poller is not about to signal, and no stop
\* is outstanding.
NoSleepOnWork ==
    wpc = "waiting" =>
        /\ ~pending_notify
        /\ ~pending_notify_stop
        /\ (\E d \in Devices : pending_queue_notify[d] # {}) => ppc = "signal"

\* A request to stop is carried out (virtio_stop_pending_notify_thread, so that
\* join_io can return), whatever the guest goes on announcing.
StopHonoured == pending_notify_stop ~> wpc \in {"exited", "joined"}

\* The service is live from a (re)start until somebody asks it to stop.
live == ~pending_notify_stop /\ wpc \notin {"exited", "joined"}

D == INSTANCE Doorbell WITH Doorbells <- Bells

\* The notification implements the doorbell: what was in a queue when its
\* doorbell was rung is eventually seen by queue_notify while no stop is asked.
ImplementsDoorbell == D!Spec
=============================================================================
