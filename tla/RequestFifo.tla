----------------------------- MODULE RequestFifo -----------------------------
(***************************************************************************)
(* What a virtqueue promises its driver: a descriptor that was made        *)
(* available is handed back exactly once, in the order in which it was     *)
(* made available, and no other descriptor is ever handed back.            *)
(***************************************************************************)
EXTENDS Naturals, Sequences, SequencesExt

CONSTANT Desc           \* the descriptors of the queue

VARIABLES
    inflight,   \* made available and not handed back, oldest first
    done,       \* handed back and not collected by the driver, oldest first
    prompt      \* the device serves this queue by itself: TRUE when it calls
                \* device_recv, FALSE when it waits for input to deliver

vars == <<inflight, done, prompt>>

Init ==
    /\ inflight = <<>>
    /\ done = <<>>
    /\ prompt \in BOOLEAN

Submit(d) ==
    /\ d \notin ToSet(inflight) \cup ToSet(done)
    /\ inflight' = Append(inflight, d)
    /\ UNCHANGED <<done, prompt>>

Complete ==
    /\ inflight # <<>>
    /\ inflight' = Tail(inflight)
    /\ done' = Append(done, Head(inflight))
    /\ UNCHANGED prompt

Collect ==
    /\ done # <<>>
    /\ done' = Tail(done)
    /\ UNCHANGED <<inflight, prompt>>

\* The driver resets the device and takes all its descriptors back.
Reclaim ==
    /\ inflight' = <<>>
    /\ done' = <<>>
    /\ UNCHANGED prompt

Next ==
    \/ \E d \in Desc : Submit(d)
    \/ Complete
    \/ Collect
    \/ Reclaim

\* A prompt device eventually hands back what it holds.
Spec == Init /\ [][Next]_vars /\ WF_vars(prompt /\ Complete)
=============================================================================
