------------------------------ MODULE VirtioIrq ------------------------------
(***************************************************************************)
(* The interrupt of one virtio device: int_status, the device's bit of the *)
(* interrupt levels in the FPGA, and the guest's interrupt handler.        *)
(*                                                                         *)
(* Completions are signalled by virtio_consume_desc on the "VirtIO queues" *)
(* worker and on the "VirtIO I/O" thread; the guest's INTERRUPT_ACK and    *)
(* STATUS writes are handled by virtio_mmio_write on the portal poller's   *)
(* thread.  int_status is a plain uint32_t with no lock: |= and &= are a   *)
(* load and a store between which the other threads run.  A change of the  *)
(* level is one message sent under misc_request_mutex (awsp2_set_irq).     *)
(*                                                                         *)
(* Completions of all the device's queues are counted together, and only   *)
(* bit 0 of int_status is modelled: nothing in this program announces a    *)
(* configuration change, bit 1.                                            *)
(***************************************************************************)
EXTENDS Naturals

CONSTANTS
    Completers,     \* the threads that run virtio_consume_desc
    MaxUsed,        \* bound: completions
    MaxIrqResets,   \* bound: device resets by the guest, and reboots
    TrustsStatus    \* does the guest skip its rings when INTERRUPT_STATUS is 0?

ASSUME IrqAssumption ==
    /\ MaxUsed \in Nat
    /\ MaxIrqResets \in Nat
    /\ TrustsStatus \in BOOLEAN

VARIABLES
    used,           \* used elements published by the device
    seen_used,      \* used elements the guest has processed
    int_status,     \* bit 0 of s->int_status
    level,          \* the device's bit of rg_irq_levels
    thread_pc,      \* thread_pc[t]: completer t inside virtio_consume_desc
    mpc,            \* the poller inside virtio_mmio_write
    loaded,         \* int_status as the poller loaded it for &=
    driver_pc,      \* the guest
    status,         \* INTERRUPT_STATUS as the guest's handler read it
    irq_resets      \* device resets and reboots so far

irq_vars ==
    <<used, seen_used, int_status, level, thread_pc, mpc, loaded, driver_pc, status, irq_resets>>
poller == <<mpc, loaded>>
guest == <<driver_pc, status, seen_used, irq_resets>>

IrqInit ==
    /\ used = 0
    /\ seen_used = 0
    /\ int_status = FALSE
    /\ level = FALSE
    /\ thread_pc = [t \in Completers |-> "idle"]
    /\ mpc = "idle"
    /\ loaded = FALSE
    /\ driver_pc = "idle"
    /\ status = FALSE
    /\ irq_resets = 0

-----------------------------------------------------------------------------
(* virtio_consume_desc *)

Step(t, from, to) ==
    /\ thread_pc[t] = from
    /\ thread_pc' = [thread_pc EXCEPT ![t] = to]

\* The used index is advanced: the guest can see the element.
PublishUsed(t) ==
    /\ used < MaxUsed
    /\ Step(t, "idle", "status")
    /\ used' = used + 1
    /\ UNCHANGED <<int_status, level, poller, guest>>

\* A variant that takes a pending status to mean that the level is up already.
SetStatusSkipping(t) ==
    /\ Step(t, "status", IF int_status THEN "idle" ELSE "raise")
    /\ int_status' = TRUE
    /\ UNCHANGED <<used, level, poller, guest>>

\* s->int_status |= 1.  Whatever was loaded, what is stored has bit 0 set.
SetStatus(t) ==
    /\ Step(t, "status", "raise")
    /\ int_status' = TRUE
    /\ UNCHANGED <<used, level, poller, guest>>

\* set_irq(s->irq, 1), whether or not the level is already up.
RaiseIrq(t) ==
    /\ Step(t, "raise", "idle")
    /\ level' = TRUE
    /\ UNCHANGED <<used, int_status, poller, guest>>

-----------------------------------------------------------------------------
(* virtio_mmio_write: INTERRUPT_ACK with value `status', and STATUS = 0 *)

PollerStep(from, to) ==
    /\ mpc = from
    /\ mpc' = to

AckLoad ==
    /\ PollerStep("ack", "ack_store")
    /\ loaded' = int_status
    /\ UNCHANGED <<used, int_status, level, thread_pc, guest>>

AckStore ==
    /\ PollerStep("ack_store", "ack_test")
    /\ int_status' = (loaded /\ ~status)
    /\ UNCHANGED <<used, level, thread_pc, loaded, guest>>

\* A variant that does not touch the level unless the ACK had a bit to clear.
AckTestIdleIgnored ==
    /\ mpc = "ack_test"
    /\ mpc' = IF int_status \/ ~status THEN "done" ELSE "ack_clear"
    /\ UNCHANGED <<used, int_status, level, thread_pc, loaded, guest>>

\* if (s->int_status == 0): the value is read again.
AckTest ==
    /\ mpc = "ack_test"
    /\ mpc' = IF int_status THEN "done" ELSE "ack_clear"
    /\ UNCHANGED <<used, int_status, level, thread_pc, loaded, guest>>

AckClear ==
    /\ PollerStep("ack_clear", "done")
    /\ level' = FALSE
    /\ UNCHANGED <<used, int_status, thread_pc, loaded, guest>>

ResetClear ==
    /\ PollerStep("reset", "reset_status")
    /\ level' = FALSE
    /\ UNCHANGED <<used, int_status, thread_pc, loaded, guest>>

ResetStatus ==
    /\ PollerStep("reset_status", "done")
    /\ int_status' = FALSE
    /\ UNCHANGED <<used, level, thread_pc, loaded, guest>>

Poller == AckLoad \/ AckStore \/ AckTest \/ AckClear \/ ResetClear \/ ResetStatus

-----------------------------------------------------------------------------
(* The guest.  A store to a device register completes when the poller has    *)
(* sent io_bdone, after virtio_mmio_write has returned; the handler waits    *)
(* for its ACK before it looks at the ring.                                  *)

Interrupt ==
    /\ driver_pc = "idle"
    /\ level
    /\ driver_pc' = "ack"
    /\ status' = int_status
    /\ mpc' = "ack"
    /\ UNCHANGED <<used, seen_used, int_status, level, thread_pc, loaded, irq_resets>>

\* The driver drops its rings and resets the device.
GuestReset ==
    /\ driver_pc = "idle"
    /\ irq_resets < MaxIrqResets
    /\ irq_resets' = irq_resets + 1
    /\ driver_pc' = "reset"
    /\ mpc' = "reset"
    /\ UNCHANGED <<used, seen_used, int_status, level, thread_pc, loaded, status>>

\* A variant of the handler that has looked at the ring before its ACK.
WriteDoneEarlyLook ==
    /\ mpc = "done"
    /\ driver_pc # "idle"
    /\ mpc' = "idle"
    /\ driver_pc' = "idle"
    /\ UNCHANGED <<used, seen_used, int_status, level, thread_pc, loaded, status, irq_resets>>

\* The write is done: the handler processes the used ring, unless it trusts a
\* status of 0; after a reset nothing that was in the ring matters any more.
WriteDone ==
    /\ mpc = "done"
    /\ mpc' = "idle"
    /\ driver_pc' = "idle"
    /\ seen_used' = IF driver_pc = "reset" \/ ~TrustsStatus \/ status
                    THEN used ELSE seen_used
    /\ UNCHANGED <<used, int_status, level, thread_pc, loaded, status, irq_resets>>

\* main's reboot: join_io has waited for the completing threads and halt for the
\* guest's accesses (main.cpp:316-323), perhaps before its handler could look at the
\* ring; then VirtioDevices::reset.  It calls virtio_reset, which leaves the level as
\* it is.  The next guest starts with new rings.
Reboot ==
    /\ \A t \in Completers : thread_pc[t] = "idle"
    /\ mpc \in {"idle", "done"}
    /\ irq_resets < MaxIrqResets
    /\ irq_resets' = irq_resets + 1
    /\ int_status' = FALSE
    /\ mpc' = "idle" /\ driver_pc' = "idle"
    /\ seen_used' = used
    /\ UNCHANGED <<used, level, thread_pc, loaded, status>>

IrqNext ==
    \/ \E t \in Completers : PublishUsed(t) \/ SetStatus(t) \/ RaiseIrq(t)
    \/ Poller
    \/ Interrupt
    \/ GuestReset
    \/ WriteDone
    \/ Reboot

\* The program's threads keep running, and the guest takes its interrupts.
IrqFairness ==
    /\ \A t \in Completers : WF_irq_vars(SetStatus(t) \/ RaiseIrq(t))
    /\ WF_irq_vars(Poller)
    /\ WF_irq_vars(Interrupt)
    /\ WF_irq_vars(WriteDone)

IrqSpec == IrqInit /\ [][IrqNext]_irq_vars /\ IrqFairness

-----------------------------------------------------------------------------
(* Properties *)

IrqTypeOK ==
    /\ used \in 0 .. MaxUsed /\ seen_used \in 0 .. MaxUsed
    /\ int_status \in BOOLEAN /\ level \in BOOLEAN /\ loaded \in BOOLEAN
    /\ status \in BOOLEAN
    /\ thread_pc \in [Completers -> {"idle", "status", "raise"}]
    /\ mpc \in {"idle", "ack", "ack_store", "ack_test", "ack_clear",
                "reset", "reset_status", "done"}
    /\ driver_pc \in {"idle", "ack", "reset"}
    /\ irq_resets \in 0 .. MaxIrqResets

\* virtio_consume_desc does "signal that the descriptor has been consumed"
\* (virtio.c:546): when the guest is back from its handler with a used element
\* it has not processed, its interrupt is up or a completer is about to raise
\* it, however |=, &=, the test and the level changes interleave.
NoLostInterrupt ==
    seen_used < used /\ driver_pc = "idle" =>
        level \/ \E t \in Completers : thread_pc[t] # "idle"

\* Every completion is processed by the guest in the end.
CompletionsSeen == \A n \in 1 .. MaxUsed : used >= n ~> seen_used >= n

\* The level does not stay up for nothing (INTERRUPT_ACK clears it, and a
\* spurious interrupt, such as one a reboot leaves behind, is cleared by
\* acknowledging 0): with nothing left to process and nobody completing anything,
\* the guest is left alone.
InterruptsSettle ==
    (\A t \in Completers : thread_pc[t] = "idle") /\ used = MaxUsed /\ irq_resets = MaxIrqResets
        ~> ~level
=============================================================================
