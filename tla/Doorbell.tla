------------------------------ MODULE Doorbell ------------------------------
(***************************************************************************)
(* What the asynchronous queue notification of virtio.c promises to the    *)
(* guest, without its pending bits, flag, lock or condition variable.      *)
(*                                                                         *)
(* The guest adds requests to a queue and rings the queue's doorbell.  The *)
(* device looks at the queue at moments of its own choosing.  While the    *)
(* service is live, every request that was in the queue when its doorbell  *)
(* was rung is eventually seen by a look at that queue.                    *)
(***************************************************************************)
EXTENDS Naturals

CONSTANT Doorbells      \* the doorbells: one per (device, queue index) pair

VARIABLES
    posted,     \* posted[b]: requests the guest has made available on b's queue
    rung,       \* rung[b]: how many of them were there at b's latest ring
    seen,       \* seen[b]: how many of them the latest look at the queue found
    live        \* FALSE from a request to stop until the service is restarted

vars == <<posted, rung, seen, live>>

None == [b \in Doorbells |-> 0]

Init ==
    /\ posted = None
    /\ rung = None
    /\ seen = None
    /\ live = TRUE

Post(b) ==
    /\ posted' = [posted EXCEPT ![b] = @ + 1]
    /\ UNCHANGED <<rung, seen, live>>

Ring(b) ==
    /\ rung' = [rung EXCEPT ![b] = posted[b]]
    /\ UNCHANGED <<posted, seen, live>>

\* A look at the queue finds everything the guest has posted so far, announced
\* or not.
Look(b) ==
    /\ seen' = [seen EXCEPT ![b] = posted[b]]
    /\ UNCHANGED <<posted, rung, live>>

Stop ==
    /\ live' = FALSE
    /\ UNCHANGED <<posted, rung, seen>>

\* The queues are made anew, and the service is live again unless it has
\* already been told to stop.
Restart ==
    /\ ~live
    /\ posted' = None
    /\ rung' = None
    /\ seen' = None
    /\ live' \in BOOLEAN

Next ==
    \/ \E b \in Doorbells : Post(b) \/ Ring(b) \/ Look(b)
    \/ Stop
    \/ Restart

\* The device owes a look to every doorbell rung for requests it has not seen.
Owed(b) == live /\ seen[b] < rung[b]

Spec ==
    /\ Init
    /\ [][Next]_vars
    /\ \A b \in Doorbells : WF_vars(Owed(b) /\ Look(b))
=============================================================================
