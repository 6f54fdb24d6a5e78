---------------------------- MODULE VirtioProofs ----------------------------
(***************************************************************************)
(* Proofs about a virtio device: the two signals between the guest and it, *)
(* and its queues.                                                         *)
(*                                                                         *)
(* VirtioNotify, for any number of devices, queues, requests and stops: no *)
(* announced request is forgotten, the worker never sleeps on work, and    *)
(* every step is a step of the abstract doorbell.                          *)
(*                                                                         *)
(* VirtioIrq, for any set of completing threads and any number of          *)
(* completions and resets: no interrupt is lost by virtio_consume_desc and *)
(* virtio_mmio_write for a guest that looks at its rings after every       *)
(* acknowledgement.                                                        *)
(*                                                                         *)
(* VirtioQueue, for a ring and indices of any size: types, and that the    *)
(* device's position keeps step with the used ring (InStep), when the      *)
(* driver resets only a queue that no thread is serving; that the used     *)
(* index never passes the available one (WithinRing), when no queue with a *)
(* cached available index is reset; and, step by step, that the rings then *)
(* implement RequestFifo: a descriptor is handed back once, in the order   *)
(* in which it was made available, and no other.                           *)
(*                                                                         *)
(* The three share no variable: a theorem is about the specification it    *)
(* names.                                                                  *)
(***************************************************************************)
EXTENDS VirtioNotify, VirtioIrq, VirtioQueue, FiniteSetTheorems, SequenceTheorems, TLAPS

-----------------------------------------------------------------------------
(* The notification of a queue: VirtioNotify *)

\* A set bit is never without somebody who will look for it.
BitsAnnounced ==
    \A d \in Devices, q \in Queues :
        q \in pending_queue_notify[d] =>
            \/ pending_notify
            \/ ppc = "signal"
            \/ wpc = "exchange" /\ widx <= d
            \/ wpc = "serve" /\ widx < d

\* A request that is announced and not seen has its bit set, in the device or
\* among the bits the worker is serving.
RequestsHaveBits ==
    \A d \in Devices, q \in Queues :
        seen[<<d, q>>] < rung[<<d, q>>] =>
            \/ q \in pending_queue_notify[d]
            \/ wpc = "serve" /\ widx = d /\ q \in notify

\* A ring announces requests that exist, so a look leaves nothing announced.
RungPosted == \A b \in Bells : rung[b] <= posted[b]

StopFlagged == pending_notify_stop => pending_notify

SleepsUnflagged == wpc = "waiting" => ~pending_notify

NotifyInv ==
    /\ NotifyTypeOK
    /\ BitsAnnounced
    /\ RequestsHaveBits
    /\ RungPosted
    /\ StopFlagged
    /\ SleepsUnflagged

LEMMA BellsPairs ==
    ASSUME NEW d \in Devices, NEW q \in Queues
    PROVE  <<d, q>> \in Bells
  BY DEF Bells

LEMMA ZeroIsDevice == 0 \in Devices
  BY SizesAssumption DEF Devices

-----------------------------------------------------------------------------
\* Every variable keeps its type (all the functions of virtio.c:2780-2860).
LEMMA TypeInit == NotifyInit => NotifyTypeOK
  <1> SUFFICES ASSUME NotifyInit PROVE NotifyTypeOK
    OBVIOUS
  <1>1. pending_notify \in BOOLEAN /\ pending_notify_stop \in BOOLEAN
    BY Zenon DEF NotifyInit
  <1>2. pending_queue_notify \in [Devices -> SUBSET Queues]
    BY DEF NotifyInit
  <1>3. NoRequests \in [Bells -> Nat]
    BY DEF NoRequests
  <1>4. QED
    BY <1>1, <1>2, <1>3, ZeroIsDevice DEF NotifyInit, NotifyTypeOK

LEMMA TypeStep == NotifyTypeOK /\ [NotifyNext]_notify_vars => NotifyTypeOK'
  <1> SUFFICES ASSUME NotifyTypeOK, [NotifyNext]_notify_vars PROVE NotifyTypeOK'
    OBVIOUS
  <1> USE DEF NotifyTypeOK, flags, worker, requests
  <1>1. ASSUME NEW b \in Bells, GuestPost(b) PROVE NotifyTypeOK'
    BY <1>1 DEF GuestPost
  <1>2. ASSUME NEW d \in Devices, NEW queue_idx \in 0 .. MaxQueue,
               NotifySetBit(d, queue_idx)
        PROVE  NotifyTypeOK'
    <2>1. queue_idx \in Queues
      BY <1>2, SizesAssumption DEF NotifySetBit, Queues
    <2>2. pending_queue_notify' \in [Devices -> SUBSET Queues]
      BY <1>2, <2>1 DEF NotifySetBit
    <2>3. rung' \in [Bells -> Nat]
      BY <1>2, <2>1, BellsPairs DEF NotifySetBit
    <2>4. QED
      BY <1>2, <2>2, <2>3 DEF NotifySetBit
  <1>3. CASE NotifySignal
    BY <1>3 DEF NotifySignal, WakeWorker
  <1>4. CASE StopWorker
    BY <1>4 DEF StopWorker, WakeWorker
  <1>5. CASE Join
    BY <1>5 DEF Join
  <1>6. CASE Restart
    BY <1>6, ZeroIsDevice DEF Restart, NoRequests
  <1>7. CASE SpuriousWakeup
    BY <1>7 DEF SpuriousWakeup
  <1>8. CASE WorkerWait
    BY <1>8 DEF WorkerWait
  <1>9. CASE WorkerExit
    BY <1>9 DEF WorkerExit
  <1>10. CASE WorkerBegin
    BY <1>10, ZeroIsDevice DEF WorkerBegin
  <1>11. CASE WorkerExchange
    BY <1>11 DEF WorkerExchange
  <1>12. CASE WorkerServe
    <2>1. PICK j \in notify :
              /\ seen' = [seen EXCEPT ![<<widx, j>>] = posted[<<widx, j>>]]
              /\ notify' = notify \ {j}
      BY <1>12 DEF WorkerServe
    <2>2. posted[<<widx, j>>] \in Nat
      BY BellsPairs
    <2>3. QED
      BY <1>12, <2>1, <2>2 DEF WorkerServe
  <1>13. CASE WorkerNextDevice
    BY <1>13, ZeroIsDevice, SizesAssumption DEF WorkerNextDevice, Devices
  <1>14. CASE UNCHANGED notify_vars
    BY <1>14 DEF notify_vars
  <1>15. QED
    BY <1>1, <1>2, <1>3, <1>4, <1>5, <1>6, <1>7, <1>8, <1>9, <1>10, <1>11,
       <1>12, <1>13, <1>14 DEF NotifyNext, Worker

\* Every variable keeps its type, for any number of devices, queues, requests
\* and stops (the flags, bits and loop variables of virtio.c:2780-2860).
THEOREM TypeCorrect == NotifySpec => []NotifyTypeOK
  BY TypeInit, TypeStep, PTL DEF NotifySpec
-----------------------------------------------------------------------------
LEMMA InvInit == NotifyInit => NotifyInv
  <1> SUFFICES ASSUME NotifyInit PROVE NotifyInv
    OBVIOUS
  <1>1. NotifyTypeOK
    BY TypeInit
  <1>2. BitsAnnounced
    BY DEF NotifyInit, BitsAnnounced
  <1>3. RequestsHaveBits
    BY BellsPairs DEF NotifyInit, RequestsHaveBits, NoRequests
  <1>4. RungPosted
    BY DEF NotifyInit, RungPosted, NoRequests
  <1>5. StopFlagged /\ SleepsUnflagged
    BY DEF NotifyInit, StopFlagged, SleepsUnflagged
  <1>6. QED
    BY <1>1, <1>2, <1>3, <1>4, <1>5 DEF NotifyInv

LEMMA BitsStep == NotifyInv /\ [NotifyNext]_notify_vars => BitsAnnounced'
  <1> SUFFICES ASSUME NotifyInv, [NotifyNext]_notify_vars PROVE BitsAnnounced'
    OBVIOUS
  <1> USE DEF NotifyInv, NotifyTypeOK, BitsAnnounced, flags, worker, requests
  <1>1. ASSUME NEW b \in Bells, GuestPost(b) PROVE BitsAnnounced'
    BY <1>1 DEF GuestPost
  <1>2. ASSUME NEW d \in Devices, NEW queue_idx \in 0 .. MaxQueue,
               NotifySetBit(d, queue_idx)
        PROVE  BitsAnnounced'
    BY <1>2 DEF NotifySetBit
  <1>3. CASE NotifySignal
    BY <1>3 DEF NotifySignal
  <1>4. CASE StopWorker
    BY <1>4 DEF StopWorker
  <1>5. CASE Join
    BY <1>5 DEF Join
  <1>6. CASE Restart
    BY <1>6 DEF Restart
  <1>7. CASE SpuriousWakeup
    BY <1>7 DEF SpuriousWakeup
  <1>8. CASE WorkerWait
    BY <1>8 DEF WorkerWait
  <1>9. CASE WorkerExit
    BY <1>9 DEF WorkerExit
  <1>10. CASE WorkerBegin
    BY <1>10 DEF WorkerBegin, Devices
  <1>11. CASE WorkerExchange
    BY <1>11 DEF WorkerExchange, Devices
  <1>12. CASE WorkerServe
    BY <1>12 DEF WorkerServe
  <1>13. CASE WorkerNextDevice
    BY <1>13, SizesAssumption DEF WorkerNextDevice, Devices
  <1>14. CASE UNCHANGED notify_vars
    BY <1>14 DEF notify_vars
  <1>15. QED
    BY <1>1, <1>2, <1>3, <1>4, <1>5, <1>6, <1>7, <1>8, <1>9, <1>10, <1>11,
       <1>12, <1>13, <1>14 DEF NotifyNext, Worker

LEMMA RequestsStep == NotifyInv /\ [NotifyNext]_notify_vars => RequestsHaveBits'
  <1> SUFFICES ASSUME NotifyInv, [NotifyNext]_notify_vars,
                      NEW d \in Devices, NEW q \in Queues,
                      seen'[<<d, q>>] < rung'[<<d, q>>]
               PROVE  \/ q \in pending_queue_notify'[d]
                      \/ wpc' = "serve" /\ widx' = d /\ q \in notify'
    BY DEF RequestsHaveBits
  <1> DEFINE Kept == \/ q \in pending_queue_notify'[d]
                     \/ wpc' = "serve" /\ widx' = d /\ q \in notify'
  <1> <<d, q>> \in Bells
    BY BellsPairs
  <1> USE DEF NotifyInv, NotifyTypeOK, RequestsHaveBits, flags, worker, requests
  <1>1. ASSUME NEW b \in Bells, GuestPost(b) PROVE Kept
    BY <1>1 DEF GuestPost
  <1>2. ASSUME NEW e \in Devices, NEW queue_idx \in 0 .. MaxQueue,
               NotifySetBit(e, queue_idx)
        PROVE  Kept
    <2>1. CASE <<d, q>> = <<e, queue_idx>>
      BY <1>2, <2>1 DEF NotifySetBit
    <2>2. CASE <<d, q>> # <<e, queue_idx>>
      <3>1. rung'[<<d, q>>] = rung[<<d, q>>]
        BY <1>2, <2>2 DEF NotifySetBit
      <3>2. QED
        BY <1>2, <3>1 DEF NotifySetBit
    <2>3. QED
      BY <2>1, <2>2
  <1>3. CASE NotifySignal
    BY <1>3 DEF NotifySignal, WakeWorker
  <1>4. CASE StopWorker
    BY <1>4 DEF StopWorker, WakeWorker
  <1>5. CASE Join
    BY <1>5 DEF Join
  <1>6. CASE Restart
    BY <1>6 DEF Restart, NoRequests
  <1>7. CASE SpuriousWakeup
    BY <1>7 DEF SpuriousWakeup
  <1>8. CASE WorkerWait
    BY <1>8 DEF WorkerWait
  <1>9. CASE WorkerExit
    BY <1>9 DEF WorkerExit
  <1>10. CASE WorkerBegin
    BY <1>10 DEF WorkerBegin
  <1>11. CASE WorkerExchange
    BY <1>11 DEF WorkerExchange
  <1>12. CASE WorkerServe
    <2>1. PICK j \in notify :
              /\ seen' = [seen EXCEPT ![<<widx, j>>] = posted[<<widx, j>>]]
              /\ notify' = notify \ {j}
      BY <1>12 DEF WorkerServe
    <2>2. CASE <<d, q>> = <<widx, j>>
      \* The look has found everything posted, so nothing announced is unseen.
      BY <1>12, <2>1, <2>2 DEF WorkerServe, RungPosted
    <2>3. CASE <<d, q>> # <<widx, j>>
      <3>1. seen'[<<d, q>>] = seen[<<d, q>>]
        BY <2>1, <2>3
      <3>2. widx = d => q # j
        BY <2>3
      <3>3. QED
        BY <1>12, <2>1, <3>1, <3>2 DEF WorkerServe
    <2>4. QED
      BY <2>2, <2>3
  <1>13. CASE WorkerNextDevice
    BY <1>13 DEF WorkerNextDevice
  <1>14. CASE UNCHANGED notify_vars
    BY <1>14 DEF notify_vars
  <1>15. QED
    BY <1>1, <1>2, <1>3, <1>4, <1>5, <1>6, <1>7, <1>8, <1>9, <1>10, <1>11,
       <1>12, <1>13, <1>14 DEF NotifyNext, Worker

LEMMA RungStep == NotifyInv /\ [NotifyNext]_notify_vars => RungPosted'
  <1> SUFFICES ASSUME NotifyInv, [NotifyNext]_notify_vars, NEW c \in Bells
               PROVE  rung'[c] <= posted'[c]
    BY DEF RungPosted
  <1> USE DEF NotifyInv, NotifyTypeOK, RungPosted, flags, worker, requests
  <1>1. ASSUME NEW b \in Bells, GuestPost(b) PROVE rung'[c] <= posted'[c]
    BY <1>1 DEF GuestPost
  <1>2. ASSUME NEW d \in Devices, NEW queue_idx \in 0 .. MaxQueue,
               NotifySetBit(d, queue_idx)
        PROVE  rung'[c] <= posted'[c]
    BY <1>2 DEF NotifySetBit
  <1>3. CASE Restart
    BY <1>3 DEF Restart, NoRequests
  <1>4. CASE UNCHANGED <<posted, rung>>
    BY <1>4
  <1>5. QED
    BY <1>1, <1>2, <1>3, <1>4
       DEF NotifyNext, Worker, NotifySignal, StopWorker, Join, SpuriousWakeup, WorkerWait,
           WorkerExit, WorkerBegin, WorkerExchange, WorkerServe, WorkerNextDevice, notify_vars

LEMMA FlagsStep == NotifyInv /\ [NotifyNext]_notify_vars => StopFlagged' /\ SleepsUnflagged'
  <1> SUFFICES ASSUME NotifyInv, [NotifyNext]_notify_vars PROVE StopFlagged' /\ SleepsUnflagged'
    OBVIOUS
  <1> USE DEF NotifyInv, NotifyTypeOK, StopFlagged, SleepsUnflagged, flags, worker, requests
  <1>1. ASSUME NEW b \in Bells, GuestPost(b) PROVE StopFlagged' /\ SleepsUnflagged'
    BY <1>1 DEF GuestPost
  <1>2. ASSUME NEW d \in Devices, NEW queue_idx \in 0 .. MaxQueue,
               NotifySetBit(d, queue_idx)
        PROVE  StopFlagged' /\ SleepsUnflagged'
    BY <1>2 DEF NotifySetBit
  <1>3. CASE NotifySignal
    BY <1>3 DEF NotifySignal, WakeWorker
  <1>4. CASE StopWorker
    BY <1>4 DEF StopWorker, WakeWorker
  <1>5. CASE Join
    BY <1>5 DEF Join
  <1>6. CASE Restart
    BY <1>6 DEF Restart
  <1>7. CASE SpuriousWakeup
    BY <1>7 DEF SpuriousWakeup
  <1>8. CASE WorkerWait
    BY <1>8 DEF WorkerWait
  <1>9. CASE WorkerExit
    BY <1>9 DEF WorkerExit
  <1>10. CASE WorkerBegin
    BY <1>10 DEF WorkerBegin
  <1>11. CASE WorkerExchange
    BY <1>11 DEF WorkerExchange
  <1>12. CASE WorkerServe
    BY <1>12 DEF WorkerServe
  <1>13. CASE WorkerNextDevice
    BY <1>13 DEF WorkerNextDevice
  <1>14. CASE UNCHANGED notify_vars
    BY <1>14 DEF notify_vars
  <1>15. QED
    BY <1>1, <1>2, <1>3, <1>4, <1>5, <1>6, <1>7, <1>8, <1>9, <1>10, <1>11,
       <1>12, <1>13, <1>14 DEF NotifyNext, Worker

\* The inductive invariant behind the two safety properties below: what links
\* the atomic bits, the flag, the poller's progress and the worker's position.
THEOREM Inductive == NotifySpec => []NotifyInv
  <1>1. NotifyInit => NotifyInv
    BY InvInit
  <1>2. NotifyInv /\ [NotifyNext]_notify_vars => NotifyInv'
    BY TypeStep, BitsStep, RequestsStep, RungStep, FlagsStep DEF NotifyInv
  <1>3. QED
    BY <1>1, <1>2, PTL DEF NotifySpec

\* No announced request is forgotten by async_queue_notify and the worker's
\* exchange of the bits, for any number of devices and queues.
THEOREM NoRequestForgotten == NotifySpec => []NoLostNotify
  <1>1. NotifyInv => NoLostNotify
    BY DEF NotifyInv, NotifyTypeOK, BitsAnnounced, RequestsHaveBits, NoLostNotify, InThisPass
  <1>2. QED
    BY <1>1, Inductive, PTL

\* The worker is never in pthread_cond_wait with a bit, the flag or a stop
\* outstanding that nobody is about to signal.
THEOREM NeverSleepsOnWork == NotifySpec => []NoSleepOnWork
  <1>1. NotifyInv => NoSleepOnWork
    BY DEF NotifyInv, NotifyTypeOK, BitsAnnounced, StopFlagged, SleepsUnflagged, NoSleepOnWork
  <1>2. QED
    BY <1>1, Inductive, PTL

-----------------------------------------------------------------------------
LEMMA DoorbellInit == NotifyInit => D!Init
  BY DEF NotifyInit, D!Init, D!None, NoRequests, live

LEMMA DoorbellStep == NotifyInv /\ [NotifyNext]_notify_vars => [D!Next]_(D!vars)
  <1> SUFFICES ASSUME NotifyInv, [NotifyNext]_notify_vars PROVE [D!Next]_(D!vars)
    OBVIOUS
  <1> USE DEF NotifyInv, NotifyTypeOK, live, flags, worker, requests, D!Next, D!vars
  <1>1. ASSUME NEW b \in Bells, GuestPost(b) PROVE D!Post(b)
    BY <1>1 DEF GuestPost, D!Post
  <1>2. ASSUME NEW d \in Devices, NEW queue_idx \in 0 .. MaxQueue,
               NotifySetBit(d, queue_idx)
        PROVE  <<d, queue_idx>> \in Bells /\ D!Ring(<<d, queue_idx>>)
    <2>1. queue_idx \in Queues
      BY <1>2, SizesAssumption DEF NotifySetBit, Queues
    <2>2. QED
      BY <1>2, <2>1, BellsPairs DEF NotifySetBit, D!Ring
  <1>3. CASE NotifySignal
    BY <1>3 DEF NotifySignal, WakeWorker
  <1>4. CASE StopWorker
    BY <1>4 DEF StopWorker, WakeWorker, D!Stop
  <1>5. CASE Join
    BY <1>5 DEF Join
  <1>6. CASE Restart
    BY <1>6 DEF Restart, D!Restart, NoRequests, D!None
  <1>7. CASE SpuriousWakeup
    BY <1>7 DEF SpuriousWakeup
  <1>8. CASE WorkerWait
    BY <1>8 DEF WorkerWait
  <1>9. CASE WorkerExit
    BY <1>9 DEF WorkerExit
  <1>10. CASE WorkerBegin
    BY <1>10 DEF WorkerBegin
  <1>11. CASE WorkerExchange
    BY <1>11 DEF WorkerExchange
  <1>12. CASE WorkerServe
    <2>1. PICK j \in notify :
              seen' = [seen EXCEPT ![<<widx, j>>] = posted[<<widx, j>>]]
      BY <1>12 DEF WorkerServe
    <2>2. D!Look(<<widx, j>>)
      BY <1>12, <2>1 DEF WorkerServe, D!Look
    <2>3. QED
      BY <2>2, BellsPairs
  <1>13. CASE WorkerNextDevice
    BY <1>13 DEF WorkerNextDevice
  <1>14. CASE UNCHANGED notify_vars
    BY <1>14 DEF notify_vars
  <1>15. QED
    BY <1>1, <1>2, <1>3, <1>4, <1>5, <1>6, <1>7, <1>8, <1>9, <1>10, <1>11,
       <1>12, <1>13, <1>14 DEF NotifyNext, Worker

\* Every step of the notification is a step of the doorbell or changes nothing
\* the guest can tell: the safety half of ImplementsDoorbell.  Its liveness half
\* is checked by TLC only.
THEOREM DoorbellSafety == NotifySpec => D!Init /\ [][D!Next]_(D!vars)
  BY DoorbellInit, DoorbellStep, Inductive, PTL DEF NotifySpec

-----------------------------------------------------------------------------
(* The interrupt: VirtioIrq *)

\* The guest is inside a register write exactly while the poller serves it.
WriteInProgress == driver_pc = "idle" <=> mpc = "idle"

\* NoLostInterrupt is not inductive alone: that a level dropped by AckClear or
\* ResetClear is dropped under the guest's eyes is WriteInProgress.
IrqInv == IrqTypeOK /\ WriteInProgress /\ NoLostInterrupt

LEMMA IrqInitInvariant == IrqInit => IrqInv
<1> SUFFICES ASSUME IrqInit
             PROVE  IrqInv
  OBVIOUS
<1>1. int_status \in BOOLEAN /\ level \in BOOLEAN /\ loaded \in BOOLEAN
      /\ status \in BOOLEAN
  BY Zenon DEF IrqInit
<1>2. IrqTypeOK
  BY <1>1, IrqAssumption DEF IrqInit, IrqTypeOK
<1>3. WriteInProgress /\ NoLostInterrupt
  BY DEF IrqInit, WriteInProgress, NoLostInterrupt
<1>4. QED
  BY <1>2, <1>3 DEF IrqInv

\* Every variable keeps its type, whatever the guest trusts.
LEMMA IrqTypeStep == IrqTypeOK /\ [IrqNext]_irq_vars => IrqTypeOK'
<1> SUFFICES ASSUME IrqTypeOK, [IrqNext]_irq_vars
             PROVE  IrqTypeOK'
  OBVIOUS
<1> USE IrqAssumption DEF IrqTypeOK
<1>1. ASSUME NEW t \in Completers, PublishUsed(t)
      PROVE  IrqTypeOK'
  BY <1>1 DEF PublishUsed, Step, poller, guest
<1>2. ASSUME NEW t \in Completers, SetStatus(t)
      PROVE  IrqTypeOK'
  BY <1>2 DEF SetStatus, Step, poller, guest
<1>3. ASSUME NEW t \in Completers, RaiseIrq(t)
      PROVE  IrqTypeOK'
  BY <1>3 DEF RaiseIrq, Step, poller, guest
<1>4. CASE Poller
  <2>1. CASE AckLoad
    BY <2>1 DEF AckLoad, PollerStep, guest
  <2>2. CASE AckStore
    <3>1. int_status' \in BOOLEAN
      BY <2>2, Zenon DEF AckStore
    <3>2. QED
      BY <2>2, <3>1 DEF AckStore, PollerStep, guest
  <2>3. CASE AckTest
    BY <2>3 DEF AckTest, guest
  <2>4. CASE AckClear
    BY <2>4 DEF AckClear, PollerStep, guest
  <2>5. CASE ResetClear
    BY <2>5 DEF ResetClear, PollerStep, guest
  <2>6. CASE ResetStatus
    BY <2>6 DEF ResetStatus, PollerStep, guest
  <2>7. QED
    BY <1>4, <2>1, <2>2, <2>3, <2>4, <2>5, <2>6 DEF Poller
<1>5. CASE Interrupt
  BY <1>5 DEF Interrupt
<1>6. CASE GuestReset
  BY <1>6 DEF GuestReset
<1>7. CASE WriteDone
  BY <1>7 DEF WriteDone
<1>8. CASE Reboot
  <2>1. int_status' \in BOOLEAN
    BY <1>8, Zenon DEF Reboot
  <2>2. irq_resets' \in 0 .. MaxIrqResets
    BY <1>8 DEF Reboot
  <2>3. used' \in 0 .. MaxUsed /\ seen_used' \in 0 .. MaxUsed
    BY <1>8 DEF Reboot
  <2>4. QED
    BY <1>8, <2>1, <2>2, <2>3 DEF Reboot
<1>9. CASE UNCHANGED irq_vars
  BY <1>9 DEF irq_vars
<1>10. QED
  BY <1>1, <1>2, <1>3, <1>4, <1>5, <1>6, <1>7, <1>8, <1>9 DEF IrqNext

\* The two program counters move together.
LEMMA WriteStep == IrqTypeOK /\ WriteInProgress /\ [IrqNext]_irq_vars => WriteInProgress'
<1> SUFFICES ASSUME IrqTypeOK, WriteInProgress, [IrqNext]_irq_vars
             PROVE  WriteInProgress'
  OBVIOUS
<1> USE DEF WriteInProgress
<1>1. ASSUME NEW t \in Completers, PublishUsed(t) \/ SetStatus(t) \/ RaiseIrq(t)
      PROVE  WriteInProgress'
  BY <1>1 DEF PublishUsed, SetStatus, RaiseIrq, poller, guest
<1>2. CASE Poller
  BY <1>2 DEF Poller, PollerStep, AckLoad, AckStore, AckTest, AckClear,
              ResetClear, ResetStatus, guest
<1>3. CASE Interrupt \/ GuestReset \/ WriteDone \/ Reboot
  BY <1>3 DEF Interrupt, GuestReset, WriteDone, Reboot
<1>4. CASE UNCHANGED irq_vars
  BY <1>4 DEF irq_vars
<1>5. QED
  BY <1>1, <1>2, <1>3, <1>4 DEF IrqNext

\* A completion is covered from PublishUsed to RaiseIrq by its thread, then by
\* the level; the level is dropped only inside a write, after which the guest
\* looks at everything.
LEMMA InterruptStep ==
    ASSUME ~TrustsStatus, IrqInv, [IrqNext]_irq_vars
    PROVE  NoLostInterrupt'
<1> USE DEF IrqInv, IrqTypeOK, NoLostInterrupt
<1>1. ASSUME NEW t \in Completers, PublishUsed(t)
      PROVE  NoLostInterrupt'
  <2>1. thread_pc'[t] # "idle"
    BY <1>1 DEF PublishUsed, Step
  <2>2. QED
    BY <2>1
<1>2. ASSUME NEW t \in Completers, SetStatus(t)
      PROVE  NoLostInterrupt'
  <2>1. thread_pc'[t] # "idle"
    BY <1>2 DEF SetStatus, Step
  <2>2. QED
    BY <2>1
<1>3. ASSUME NEW t \in Completers, RaiseIrq(t)
      PROVE  NoLostInterrupt'
  BY <1>3 DEF RaiseIrq
<1>4. CASE Poller
  <2>1. driver_pc' # "idle"
    BY <1>4 DEF Poller, PollerStep, AckLoad, AckStore, AckTest, AckClear,
                ResetClear, ResetStatus, guest, WriteInProgress
  <2>2. QED
    BY <2>1
<1>5. CASE Interrupt \/ GuestReset
  BY <1>5 DEF Interrupt, GuestReset
<1>6. CASE WriteDone
  <2>1. used' = used /\ seen_used' = used
    BY <1>6 DEF WriteDone
  <2>2. ~(seen_used' < used')
    BY <2>1, IrqAssumption
  <2>3. QED
    BY <2>2
<1>7. CASE Reboot
  <2>1. used' = used /\ seen_used' = used
    BY <1>7 DEF Reboot
  <2>2. ~(seen_used' < used')
    BY <2>1, IrqAssumption
  <2>3. QED
    BY <2>2
<1>8. CASE UNCHANGED irq_vars
  BY <1>8 DEF irq_vars
<1>9. QED
  BY <1>1, <1>2, <1>3, <1>4, <1>5, <1>6, <1>7, <1>8 DEF IrqNext

-----------------------------------------------------------------------------
\* Type correctness of int_status, the level and the two program counters, for
\* either kind of guest (virtio_consume_desc, virtio_mmio_write).
THEOREM IrqTypeCorrect == IrqSpec => []IrqTypeOK
<1>1. IrqInit => IrqTypeOK
  BY IrqInitInvariant DEF IrqInv
<1>2. IrqTypeOK /\ [IrqNext]_irq_vars => IrqTypeOK'
  BY IrqTypeStep
<1>3. QED
  BY <1>1, <1>2, PTL DEF IrqSpec

\* No completion signalled by virtio_consume_desc is lost, whatever the
\* interleaving of its |= and set_irq with the poller's &=, test and clear, for
\* a guest that looks at its rings after each acknowledgement.
THEOREM NoInterruptLost == ~TrustsStatus => (IrqSpec => []NoLostInterrupt)
<1> SUFFICES ASSUME ~TrustsStatus
             PROVE  IrqSpec => []NoLostInterrupt
  OBVIOUS
<1>1. IrqInit => IrqInv
  BY IrqInitInvariant
<1>2. IrqInv /\ [IrqNext]_irq_vars => IrqInv'
  BY IrqTypeStep, WriteStep, InterruptStep DEF IrqInv
<1>3. IrqInv => NoLostInterrupt
  BY DEF IrqInv
<1>4. QED
  BY <1>1, <1>2, <1>3, PTL DEF IrqSpec

-----------------------------------------------------------------------------
(* The queues: VirtioQueue *)

\* A thread that deals with a descriptor.
Busy(t) == pc[t] \in {"serve", "consume", "publish", "advance"}

\* A queue is served by one thread, which its kind decides.
OneServer ==
    /\ manual_recv => pc["worker"] \in {"idle", "read"}
    /\ ~manual_recv => pc["io"] = "idle"
    /\ pc["io"] \notin {"read", "loop"}

\* A queue that is not set up is at its start, and nobody serves it: a worker that
\* looks at it finds no descriptor.
AtRest ==
    /\ attached <=> ready
    /\ gpc = "setup" <=> ~ready
    /\ ~ready => /\ used_mem = 0 /\ last_avail_idx = 0
                 /\ \A t \in Threads : ~Busy(t)
                 /\ pc["worker"] = "loop" => cur_avail = 0

\* What a thread read from the used ring is still so when it writes the index.
FreshUsed == \A t \in Threads : pc[t] = "publish" => used_idx[t] = used_mem

IInv == TypeOK /\ OneServer /\ AtRest /\ FreshUsed /\ InStep

\* Ring indices stay in 16 bits and ring entries in the ring.
LEMMA IndexTypes ==
    ASSUME NEW i \in Idx
    PROVE  Inc(i) \in Idx /\ Slot(i) \in Slots
  BY QueueAssumption DEF Idx, Inc, Slot, Slots

LEMMA InitHolds == Init => IInv
<1> SUFFICES ASSUME Init PROVE IInv
  OBVIOUS
<1> USE DEF Threads
<1>1. TypeOK
  <2>1. 0 \in Idx /\ 0 \in Slots /\ 0 \in Desc
    BY QueueAssumption DEF Idx, Slots, Desc
  <2>2. manual_recv \in BOOLEAN
    BY QueueAssumption DEF Init
  <2> QED  BY <2>1, <2>2 DEF Init, TypeOK, FreshRing
<1>2. OneServer
  BY DEF Init, OneServer
<1>3. AtRest
  BY DEF Init, AtRest, Busy
<1>4. FreshUsed
  BY DEF Init, FreshUsed
<1>5. InStep
  BY DEF Init, InStep
<1> QED  BY <1>1, <1>2, <1>3, <1>4, <1>5 DEF IInv

-----------------------------------------------------------------------------
(* Every action keeps the invariant *)

\* Steps of the driver that touch neither the used ring nor the threads.
LEMMA DriverKeeps ==
    ASSUME IInv,
           DriverSetup \/ (\E d \in Desc : DriverFill(d)) \/ DriverPublish \/ DriverKick
               \/ DriverCollect
    PROVE  IInv'
<1> USE DEF IInv, Threads
<1>1. TypeOK'
  <2> USE DEF TypeOK
  <2>1. CASE DriverSetup
    BY <2>1 DEF DriverSetup, memory, locals
  <2>2. CASE \E d \in Desc : DriverFill(d)
    BY <2>2, IndexTypes DEF DriverFill, queue, locals
  <2>3. CASE DriverPublish
    BY <2>3, IndexTypes DEF DriverPublish, queue, locals
  <2>4. CASE DriverKick
    BY <2>4 DEF DriverKick, memory, queue, locals
  <2>5. CASE DriverCollect
    BY <2>5, IndexTypes DEF DriverCollect, memory, queue, locals
  <2> QED  BY <2>1, <2>2, <2>3, <2>4, <2>5
<1>2. UNCHANGED <<pc, used_idx, used_mem, last_avail_idx, manual_recv, cur_avail>>
  BY DEF DriverSetup, DriverFill, DriverPublish, DriverKick, DriverCollect, memory,
     queue, locals
<1>3. OneServer' /\ FreshUsed' /\ InStep'
  BY <1>2 DEF OneServer, FreshUsed, InStep
<1>4. AtRest'
  <2>1. CASE DriverSetup
    BY <2>1 DEF DriverSetup, AtRest
  <2>2. CASE ~DriverSetup
    BY <2>2, <1>2 DEF DriverFill, DriverPublish, DriverKick, DriverCollect, queue, AtRest,
       TypeOK, Busy
  <2> QED  BY <2>1, <2>2
<1> QED  BY <1>1, <1>3, <1>4

LEMMA ResetKeeps ==
    ASSUME IInv, ~RacingResets, DriverReset
    PROVE  IInv'
<1> USE DEF IInv, DriverReset, DeviceReset
<1>1. \A t \in Threads : pc[t] = "idle" /\ pc'[t] = "idle"
  BY DEF Quiet
<1>2. TypeOK'
  <2>1. 0 \in Idx /\ FreshRing \in [Slots -> Desc]
    BY QueueAssumption DEF Idx, FreshRing, Slots, Desc
  <2>2. {0} \in SUBSET Idx /\ resets' \in Nat
    BY <2>1 DEF TypeOK
  <2>3. ready' \in BOOLEAN /\ attached' \in BOOLEAN /\ kick' \in BOOLEAN
    OBVIOUS
  <2> QED  BY <2>1, <2>2, <2>3 DEF TypeOK, locals
<1>3. OneServer' /\ FreshUsed'
  BY <1>1 DEF OneServer, FreshUsed, Threads
<1>4. AtRest'
  BY <1>1 DEF AtRest, Busy, Threads
<1>5. InStep'
  BY <1>1 DEF InStep, Threads
<1> QED  BY <1>2, <1>3, <1>4, <1>5

\* Steps of the worker and of the I/O thread outside virtio_consume_desc.
LEMMA LookKeeps ==
    ASSUME IInv,
           WorkerTake \/ NotifyRead \/ NotifyLoop \/ DeviceRecv \/ InputArrives \/ InputWrite
    PROVE  IInv'
<1> USE DEF IInv, Threads, Goto
<1>1. UNCHANGED <<memory, driver, last_avail_idx, ready, attached, manual_recv, used_idx>>
  BY DEF WorkerTake, NotifyRead, NotifyLoop, DeviceRecv, InputArrives, InputWrite, queue,
     locals
<1>2. TypeOK'
  <2>1. AvailMem \in Idx /\ AvailRing(last_avail_idx) \in Desc
    BY QueueAssumption, IndexTypes DEF TypeOK, AvailMem, AvailRing, Idx, Desc
  <2>2. pc' \in [Threads -> {"idle", "read", "loop", "serve", "consume", "publish",
                            "advance"}]
    BY DEF TypeOK, WorkerTake, NotifyRead, NotifyLoop, DeviceRecv, InputArrives, InputWrite
  <2>3. desc_idx' \in [Threads -> Desc]
    BY <2>1 DEF TypeOK, WorkerTake, NotifyRead, NotifyLoop, DeviceRecv, InputArrives,
       InputWrite, locals
  <2>4. notified' \in BOOLEAN /\ avail_idx' \in Idx /\ cur_avail' \in Idx
    BY <2>1 DEF TypeOK, WorkerTake, NotifyRead, NotifyLoop, DeviceRecv, InputArrives,
       InputWrite, queue, locals
  <2> QED  BY <1>1, <2>2, <2>3, <2>4 DEF TypeOK, memory, driver
<1>3. OneServer'
  BY <1>1 DEF OneServer, TypeOK, WorkerTake, NotifyRead, NotifyLoop, DeviceRecv,
     InputArrives, InputWrite
<1>4. AtRest'
  <2>1. CASE WorkerTake
    BY <2>1, <1>1 DEF AtRest, Busy, TypeOK, WorkerTake, driver, memory
  <2>2. CASE NotifyRead
    BY <2>2, <1>1 DEF AtRest, Busy, TypeOK, NotifyRead, AvailMem, driver, memory
  <2>3. CASE NotifyLoop
    BY <2>3, <1>1 DEF AtRest, Busy, TypeOK, NotifyLoop, driver, memory
  <2>4. CASE DeviceRecv
    BY <2>4, <1>1 DEF AtRest, Busy, TypeOK, DeviceRecv, driver, memory, locals
  <2>5. CASE InputArrives \/ InputWrite
    BY <2>5, <1>1 DEF AtRest, Busy, TypeOK, InputArrives, InputWrite, CanWrite, driver,
       memory, locals
  <2> QED  BY <2>1, <2>2, <2>3, <2>4, <2>5
<1>5. FreshUsed' /\ InStep'
  <2>1. \A t \in Threads : /\ pc'[t] = "publish" => pc[t] = "publish"
                           /\ pc'[t] = "advance" <=> pc[t] = "advance"
    BY DEF TypeOK, WorkerTake, NotifyRead, NotifyLoop, DeviceRecv, InputArrives, InputWrite
  <2>2. used_mem' = used_mem /\ used_idx' = used_idx /\ last_avail_idx' = last_avail_idx
    BY <1>1 DEF memory
  <2>3. FreshUsed'
    <3> SUFFICES ASSUME NEW t \in Threads, pc'[t] = "publish"
                 PROVE  used_idx'[t] = used_mem'
      BY DEF FreshUsed
    <3>1. used_idx[t] = used_mem
      BY <2>1 DEF FreshUsed
    <3> QED  BY <2>2, <3>1
  <2>4. (\E t \in Threads : pc'[t] = "advance") <=> (\E t \in Threads : pc[t] = "advance")
    BY <2>1
  <2>5. InStep'
    BY <2>2, <2>4 DEF InStep
  <2> QED  BY <2>3, <2>5
<1> QED  BY <1>2, <1>3, <1>4, <1>5

LEMMA ConsumeKeeps ==
    ASSUME IInv, NEW t \in Threads,
           ConsumeWriteElem(t) \/ ConsumePublish(t) \/ Advance(t)
    PROVE  IInv'
<1> USE DEF IInv, Goto
<1>1. attached /\ ready /\ \A o \in Threads \ {t} : ~Busy(o)
  BY DEF AtRest, OneServer, Busy, Threads, ConsumeWriteElem, ConsumePublish, Advance, TypeOK
<1>2. CASE ConsumeWriteElem(t)
  <2> USE <1>2 DEF ConsumeWriteElem
  <2>1. TypeOK'
    BY <1>1, IndexTypes DEF TypeOK, driver, queue
  <2>2. OneServer' /\ AtRest'
    BY <1>1 DEF OneServer, AtRest, Busy, TypeOK, Threads, driver, queue
  <2>3. used_idx'[t] = used_mem /\ \A o \in Threads : pc'[o] # "advance"
    BY <1>1 DEF Busy, TypeOK
  <2>4. FreshUsed'
    BY <1>1, <2>3 DEF FreshUsed, Busy, TypeOK
  <2>5. InStep'
    BY <1>1, <2>3 DEF InStep, Busy, queue
  <2> QED  BY <2>1, <2>2, <2>4, <2>5
<1>3. CASE ConsumePublish(t)
  <2> USE <1>3 DEF ConsumePublish
  <2>1. TypeOK'
    BY <1>1, IndexTypes DEF TypeOK, driver, queue, locals
  <2>2. OneServer' /\ AtRest'
    BY <1>1 DEF OneServer, AtRest, Busy, TypeOK, Threads, driver, queue
  <2>3. FreshUsed'
    BY <1>1 DEF FreshUsed, Busy, TypeOK, Threads
  <2>4. InStep'
    BY <1>1 DEF FreshUsed, InStep, Busy, TypeOK, Threads, queue
  <2> QED  BY <2>1, <2>2, <2>3, <2>4
<1>4. CASE Advance(t)
  <2> USE <1>4 DEF Advance
  <2>1. TypeOK'
    BY <1>1, IndexTypes DEF TypeOK, memory, driver, locals
  <2>2. OneServer' /\ AtRest'
    BY <1>1 DEF OneServer, AtRest, Busy, TypeOK, Threads, driver, memory
  <2>3. FreshUsed'
    BY <1>1 DEF FreshUsed, Busy, TypeOK, Threads, memory, locals
  <2>4. InStep'
    BY <1>1 DEF InStep, Busy, TypeOK, Threads, memory
  <2> QED  BY <2>1, <2>2, <2>3, <2>4
<1> QED  BY <1>2, <1>3, <1>4

LEMMA NextKeeps ==
    ASSUME IInv, ~RacingResets, [Next]_vars
    PROVE  IInv'
<1>1. CASE UNCHANGED vars
  BY <1>1 DEF IInv, TypeOK, OneServer, AtRest, FreshUsed, InStep, Busy, vars, memory,
     driver, queue, locals
<1>2. CASE Next
  BY <1>2, DriverKeeps, ResetKeeps, LookKeeps, ConsumeKeeps DEF Next, Device, Threads
<1> QED  BY <1>1, <1>2

-----------------------------------------------------------------------------
(* The used index stays behind the available index *)

\* Each descriptor is free, being added, available, or waiting to be collected.
Accounts ==
    Distance(used_mem, avail_mem) + Distance(used_seen, used_mem) + Cardinality(free)
        + (IF gpc = "publish" THEN 1 ELSE 0) <= Num

\* An available index that a thread goes by is not beyond the ring's own ...
Snapshots ==
    /\ pc["worker"] \in {"loop", "serve", "consume", "publish", "advance"} =>
           Distance(used_mem, cur_avail) <= Distance(used_mem, avail_mem)
    /\ manual_recv => Distance(used_mem, avail_idx) <= Distance(used_mem, avail_mem)

\* ... and a thread deals with a descriptor only before it gets there.
Owed ==
    /\ pc["worker"] \in {"serve", "consume", "publish"} => used_mem # cur_avail
    /\ pc["io"] \in {"consume", "publish"} => used_mem # avail_idx

RingInv == Accounts /\ Snapshots /\ Owed

\* How the indices count, without the remainder.
LEMMA Counting ==
    ASSUME NEW i \in Idx, NEW j \in Idx
    PROVE  /\ Inc(i) = IF i + 1 = IdxMod THEN 0 ELSE i + 1
           /\ Distance(i, j) = IF i <= j THEN j - i ELSE j + IdxMod - i
<1>1. \A x \in 0 .. 2 * IdxMod - 1 : x % IdxMod = IF x < IdxMod THEN x ELSE x - IdxMod
  BY QueueAssumption, Z3T(30)
<1>2. /\ i + 1 \in 0 .. 2 * IdxMod - 1 /\ (j + IdxMod) - i \in 0 .. 2 * IdxMod - 1
      /\ i + 1 < IdxMod \/ i + 1 = IdxMod
  BY QueueAssumption DEF Idx
<1> QED  BY <1>1, <1>2, QueueAssumption DEF Idx, Inc, Distance

\* Moving the far end of a stretch of indices lengthens it, unless it fills the
\* range; moving the near end shortens it, unless it is empty.
LEMMA Stretch ==
    ASSUME NEW i \in Idx, NEW j \in Idx
    PROVE  /\ Distance(i, j) \in Nat
           /\ Distance(i, j) = 0 <=> i = j
           /\ Distance(i, j) < IdxMod - 1 => Distance(i, Inc(j)) = Distance(i, j) + 1
           /\ i # j => Distance(Inc(i), j) = Distance(i, j) - 1
<1>1. IdxMod \in Nat \ {0} /\ i \in 0 .. IdxMod - 1 /\ j \in 0 .. IdxMod - 1
  BY QueueAssumption DEF Idx
<1>2. Inc(i) \in 0 .. IdxMod - 1 /\ Inc(j) \in 0 .. IdxMod - 1
  BY IndexTypes DEF Idx
<1>3. \A k, m \in 0 .. IdxMod - 1 :
          Distance(k, m) = IF k <= m THEN m - k ELSE m + IdxMod - k
  BY Counting DEF Idx
<1>4. /\ Inc(i) = IF i + 1 = IdxMod THEN 0 ELSE i + 1
      /\ Inc(j) = IF j + 1 = IdxMod THEN 0 ELSE j + 1
  BY Counting
<1>5. Distance(i, j) = IF i <= j THEN j - i ELSE j + IdxMod - i
  BY <1>1, <1>3
<1>6. Distance(i, Inc(j)) = IF i <= Inc(j) THEN Inc(j) - i ELSE Inc(j) + IdxMod - i
  BY <1>1, <1>2, <1>3
<1>7. Distance(Inc(i), j) = IF Inc(i) <= j THEN j - Inc(i) ELSE j + IdxMod - Inc(i)
  BY <1>1, <1>2, <1>3
<1> QED  BY <1>1, <1>2, <1>4, <1>5, <1>6, <1>7

LEMMA FreeCount ==
    ASSUME TypeOK
    PROVE  IsFiniteSet(free) /\ Cardinality(free) \in Nat
<1>1. IsFiniteSet(Desc)
  BY QueueAssumption, FS_Interval DEF Desc
<1>2. IsFiniteSet(free)
  BY <1>1, FS_Subset DEF TypeOK
<1> QED  BY <1>2, FS_CardinalityType

LEMMA RingInit == Init => RingInv
<1> SUFFICES ASSUME Init PROVE RingInv
  OBVIOUS
<1>1. 0 \in Idx
  BY QueueAssumption DEF Idx
<1>2. Distance(0, 0) = 0
  BY <1>1, Stretch
<1>3. Cardinality(Desc) = Num
  BY QueueAssumption, FS_Interval DEF Desc
<1> QED  BY <1>2, <1>3, QueueAssumption DEF Init, RingInv, Accounts, Snapshots, Owed, Threads

LEMMA RingDriver ==
    ASSUME IInv, RingInv,
           DriverSetup \/ (\E d \in Desc : DriverFill(d)) \/ DriverPublish \/ DriverKick
               \/ DriverCollect
    PROVE  RingInv'
<1> USE DEF RingInv
<1>1. UNCHANGED <<used_mem, pc, cur_avail, avail_idx, manual_recv>>
  BY DEF DriverSetup, DriverFill, DriverPublish, DriverKick, DriverCollect, memory, queue,
     locals
<1>2. Owed'
  BY <1>1 DEF Owed
<1>3. /\ used_mem \in Idx /\ avail_mem \in Idx /\ used_seen \in Idx
      /\ IsFiniteSet(free) /\ Cardinality(free) \in Nat
  BY FreeCount DEF IInv, TypeOK
<1>4. /\ Distance(used_mem, avail_mem) \in Nat /\ Distance(used_seen, used_mem) \in Nat
  BY <1>3, Stretch
<1>5. CASE DriverSetup \/ DriverKick
  BY <1>5, <1>1, <1>2 DEF DriverSetup, DriverKick, memory, Accounts, Snapshots
<1>6. CASE \E d \in Desc : DriverFill(d)
  <2>1. PICK d \in Desc : DriverFill(d)
    BY <1>6
  <2>2. Cardinality(free') = Cardinality(free) - 1
    BY <2>1, <1>3, FS_RemoveElement DEF DriverFill
  <2>3. Accounts'
    BY <2>1, <2>2, <1>1, <1>3, <1>4, QueueAssumption DEF DriverFill, Accounts
  <2> QED  BY <2>1, <2>3, <1>1, <1>2 DEF DriverFill, Snapshots
<1>7. CASE DriverPublish
  <2>1. Distance(used_mem, avail_mem) < IdxMod - 1
    BY <1>7, <1>3, <1>4, QueueAssumption DEF DriverPublish, Accounts
  <2>2. Distance(used_mem, Inc(avail_mem)) = Distance(used_mem, avail_mem) + 1
    BY <2>1, <1>3, Stretch
  <2>3. Accounts'
    BY <1>7, <2>2, <1>1, <1>3, <1>4, QueueAssumption DEF DriverPublish, Accounts
  <2>4. /\ cur_avail \in Idx /\ avail_idx \in Idx
        /\ Distance(used_mem, cur_avail) \in Nat /\ Distance(used_mem, avail_idx) \in Nat
    BY <1>3, Stretch DEF IInv, TypeOK
  <2>5. Snapshots'
    BY <1>7, <2>2, <2>4, <1>1, <1>4 DEF DriverPublish, Snapshots
  <2> QED  BY <2>3, <2>5, <1>2
<1>8. CASE DriverCollect
  <2>1. Distance(used_seen', used_mem) = Distance(used_seen, used_mem) - 1
    BY <1>8, <1>3, Stretch DEF DriverCollect
  <2>2. /\ Cardinality(free') \in Nat
        /\ Cardinality(free') <= Cardinality(free) + 1
    BY <1>8, <1>3, FS_AddElement DEF DriverCollect
  <2>3. Accounts'
    BY <1>8, <2>1, <2>2, <1>1, <1>3, <1>4, QueueAssumption DEF DriverCollect, Accounts, memory
  <2> QED  BY <1>8, <2>3, <1>1, <1>2 DEF DriverCollect, memory, Snapshots
<1> QED  BY <1>5, <1>6, <1>7, <1>8

LEMMA RingReset ==
    ASSUME IInv, RingInv, ~RacingResets, MaxResets[TRUE] = 0, DriverReset
    PROVE  RingInv'
<1> USE DEF DriverReset, DeviceReset
<1>1. ~manual_recv /\ ~manual_recv'
  <2>1. resets < MaxResets[manual_recv] /\ resets \in Nat /\ manual_recv \in BOOLEAN
    BY DEF IInv, TypeOK
  <2>2. resets < 0 => FALSE
    BY <2>1
  <2>3. manual_recv = TRUE => MaxResets[manual_recv] = 0
    BY Zenon
  <2>4. manual_recv # TRUE
    BY <2>1, <2>2, <2>3
  <2> QED  BY <2>1, <2>4
<1>2. \A t \in Threads : pc'[t] = "idle"
  BY DEF Quiet
<1>3. Distance(0, 0) = 0
  BY QueueAssumption, Stretch DEF Idx
<1>4. Cardinality(Desc) = Num
  BY QueueAssumption, FS_Interval DEF Desc
<1> QED  BY <1>1, <1>2, <1>3, <1>4, QueueAssumption DEF RingInv, Accounts, Snapshots, Owed, Threads

LEMMA RingLook ==
    ASSUME IInv, RingInv,
           WorkerTake \/ NotifyRead \/ NotifyLoop \/ DeviceRecv \/ InputArrives \/ InputWrite
    PROVE  RingInv'
<1> USE DEF Threads, Goto
<1>1. UNCHANGED <<memory, driver, last_avail_idx, ready, manual_recv>>
  BY DEF WorkerTake, NotifyRead, NotifyLoop, DeviceRecv, InputArrives, InputWrite, queue
<1>2. Accounts'
  BY <1>1 DEF RingInv, Accounts, memory, driver
<1>3. /\ pc \in [Threads -> {"idle", "read", "loop", "serve", "consume", "publish", "advance"}]
      /\ used_mem \in Idx /\ avail_mem \in Idx
  BY DEF IInv, TypeOK
<1>4. CASE WorkerTake \/ DeviceRecv \/ InputArrives
  BY <1>4, <1>1, <1>2, <1>3 DEF WorkerTake, DeviceRecv, InputArrives, memory, queue, locals,
     RingInv, Snapshots, Owed
<1>5. CASE NotifyRead
  <2>1. /\ Distance(used_mem, AvailMem) <= Distance(used_mem, avail_mem)
        /\ pc["io"] \in {"consume", "publish"} => used_mem # AvailMem
    <3>1. CASE attached
      <4>1. manual_recv => (used_mem # avail_idx => used_mem # avail_mem)
        BY <1>3, Stretch DEF RingInv, Snapshots, IInv, TypeOK
      <4> QED  BY <3>1, <4>1, <1>3, Stretch DEF AvailMem, RingInv, Owed, IInv, OneServer
    <3>2. CASE ~attached
      <4>1. used_mem = 0 /\ ~Busy("io") /\ AvailMem = 0
        BY <3>2 DEF IInv, AtRest, AvailMem
      <4>2. Distance(used_mem, AvailMem) = 0 /\ Distance(used_mem, avail_mem) \in Nat
        BY <4>1, <1>3, Stretch
      <4> QED  BY <4>1, <4>2 DEF Busy
    <3> QED  BY <3>1, <3>2
  <2> QED  BY <1>5, <2>1, <1>1, <1>2, <1>3 DEF NotifyRead, memory, RingInv, Snapshots, Owed
<1>6. CASE NotifyLoop
  <2>1. pc["io"] # "advance" /\ used_mem = last_avail_idx
    BY <1>6, <1>3 DEF NotifyLoop, IInv, OneServer, InStep, TypeOK
  <2> QED  BY <1>6, <2>1, <1>1, <1>2, <1>3 DEF NotifyLoop, memory, queue, RingInv, Snapshots, Owed
<1>7. CASE InputWrite
  <2>1. CanWrite => used_mem = last_avail_idx
    BY <1>7, <1>3 DEF InputWrite, IInv, OneServer, InStep, TypeOK
  <2> QED  BY <1>7, <2>1, <1>1, <1>2, <1>3 DEF InputWrite, CanWrite, memory, queue, RingInv,
           Snapshots, Owed
<1> QED  BY <1>4, <1>5, <1>6, <1>7

LEMMA RingConsume ==
    ASSUME IInv, RingInv, NEW t \in Threads,
           ConsumeWriteElem(t) \/ ConsumePublish(t) \/ Advance(t)
    PROVE  RingInv'
<1> USE DEF Goto
<1>1. /\ pc \in [Threads -> {"idle", "read", "loop", "serve", "consume", "publish", "advance"}]
      /\ used_mem \in Idx /\ avail_mem \in Idx /\ used_seen \in Idx
      /\ cur_avail \in Idx /\ avail_idx \in Idx /\ manual_recv \in BOOLEAN
      /\ Cardinality(free) \in Nat
  BY FreeCount DEF IInv, TypeOK
<1>2. CASE ConsumeWriteElem(t) \/ Advance(t)
  <2>1. UNCHANGED <<used_mem, avail_mem, driver, cur_avail, avail_idx, manual_recv>>
    BY <1>2 DEF ConsumeWriteElem, Advance, memory, queue, locals
  <2>2. /\ pc'["worker"] \in {"loop", "serve", "consume", "publish", "advance"} =>
               pc["worker"] \in {"loop", "serve", "consume", "publish", "advance"}
        /\ pc'["worker"] \in {"serve", "consume", "publish"} =>
               pc["worker"] \in {"serve", "consume", "publish"}
        /\ pc'["io"] \in {"consume", "publish"} => pc["io"] \in {"consume", "publish"}
    BY <1>2, <1>1 DEF ConsumeWriteElem, Advance, Threads
  <2> QED  BY <2>1, <2>2 DEF driver, RingInv, Accounts, Snapshots, Owed
<1>3. CASE ConsumePublish(t)
  <2>1. attached /\ used_mem' = Inc(used_mem)
    BY <1>3 DEF ConsumePublish, IInv, AtRest, Busy, FreshUsed
  <2>2. UNCHANGED <<avail_mem, driver, cur_avail, avail_idx, manual_recv>>
    BY <1>3 DEF ConsumePublish, queue, locals
  <2>3. /\ t = "worker" => ~manual_recv /\ pc["io"] = "idle"
        /\ t = "io" => manual_recv /\ pc["worker"] \in {"idle", "read"}
    BY <1>3, <1>1 DEF ConsumePublish, IInv, OneServer, Threads
  <2>4. /\ t = "worker" => used_mem # cur_avail
                           /\ Distance(used_mem, cur_avail) <= Distance(used_mem, avail_mem)
        /\ t = "io" => used_mem # avail_idx
                       /\ Distance(used_mem, avail_idx) <= Distance(used_mem, avail_mem)
    BY <1>3, <2>3 DEF ConsumePublish, RingInv, Owed, Snapshots
  <2>5. used_mem # avail_mem
    BY <1>1, <2>4, Stretch DEF Threads
  <2>6. /\ Distance(Inc(used_mem), avail_mem) = Distance(used_mem, avail_mem) - 1
        /\ t = "worker" =>
               Distance(Inc(used_mem), cur_avail) = Distance(used_mem, cur_avail) - 1
        /\ t = "io" => Distance(Inc(used_mem), avail_idx) = Distance(used_mem, avail_idx) - 1
    BY <1>1, <2>4, <2>5, Stretch
  <2>7. /\ Distance(used_mem, avail_mem) \in Nat \ {0} /\ Distance(used_seen, used_mem) \in Nat
        /\ Distance(used_mem, cur_avail) \in Nat /\ Distance(used_mem, avail_idx) \in Nat
    BY <1>1, <2>5, Stretch
  <2>8. Distance(used_seen, used_mem) < IdxMod - 1
    BY <1>1, <2>7, QueueAssumption DEF RingInv, Accounts
  <2>9. Distance(used_seen, Inc(used_mem)) = Distance(used_seen, used_mem) + 1
    BY <1>1, <2>8, Stretch
  <2>10. Accounts'
    BY <1>1, <2>1, <2>2, <2>6, <2>7, <2>9, QueueAssumption DEF driver, RingInv, Accounts
  <2>11. /\ pc'["worker"] = IF t = "worker" THEN "advance" ELSE pc["worker"]
         /\ pc'["io"] = IF t = "io" THEN "advance" ELSE pc["io"]
    BY <1>3, <1>1 DEF ConsumePublish, Threads
  <2>12. Snapshots' /\ Owed'
    BY <1>1, <2>1, <2>2, <2>3, <2>4, <2>6, <2>7, <2>11 DEF Threads, Snapshots, Owed
  <2> QED  BY <2>10, <2>12 DEF RingInv
<1> QED  BY <1>2, <1>3

LEMMA RingKeeps ==
    ASSUME IInv, RingInv, ~RacingResets, MaxResets[TRUE] = 0, [Next]_vars
    PROVE  RingInv'
<1>1. CASE UNCHANGED vars
  BY <1>1 DEF RingInv, Accounts, Snapshots, Owed, vars, memory, driver, queue, locals
<1>2. CASE Next
  BY <1>2, RingDriver, RingReset, RingLook, RingConsume DEF Next, Device, Threads
<1> QED  BY <1>1, <1>2

-----------------------------------------------------------------------------
\* For a ring of any size, and for indices of any width the ring divides, the
\* device's variables keep their C types: no index leaves 16 bits and no entry of
\* a ring names a descriptor that is not there (queue_notify, virtio_consume_desc).
THEOREM QueueTypes ==
    ASSUME ~RacingResets PROVE Spec => []TypeOK
<1>1. IInv => TypeOK
  BY DEF IInv
<1> QED  BY <1>1, InitHolds, NextKeeps, PTL DEF Spec

\* When the driver resets only a queue that no thread serves, last_avail_idx and the
\* used index never drift apart, whichever thread serves the queue, and however often
\* the indices wrap and the queue is reset (virtio_consume_desc, virtio_reset).
THEOREM PositionKept ==
    ASSUME ~RacingResets PROVE Spec => []InStep
<1>1. IInv => InStep
  BY DEF IInv
<1> QED  BY <1>1, InitHolds, NextKeeps, PTL DEF Spec

\* When moreover no queue with a cached available index is reset, the device never
\* hands back more than the driver has made available and never laps it, however
\* often the indices wrap (queue_notify, virtio_net_write_packet, virtio_reset).
THEOREM PositionStaysInRing ==
    ASSUME ~RacingResets, MaxResets[TRUE] = 0 PROVE Spec => []PositionInRing
<1>1. IInv /\ RingInv => PositionInRing
  <2> SUFFICES ASSUME IInv, RingInv PROVE WithinRing /\ InStep
    BY DEF PositionInRing
  <2>1. /\ Cardinality(free) \in Nat
        /\ Distance(used_mem, avail_mem) \in Nat /\ Distance(used_seen, used_mem) \in Nat
    BY FreeCount, Stretch DEF IInv, TypeOK
  <2> QED  BY <2>1, QueueAssumption DEF IInv, RingInv, Accounts, WithinRing
<1> QED  BY <1>1, InitHolds, NextKeeps, RingInit, RingKeeps, PTL DEF Spec

-----------------------------------------------------------------------------
(* The rings as a queue of requests *)

\* The k-th descriptor that waits to be collected, and the k-th that was made
\* available and not handed back, counted from 0.
Collected(k) == used_ring[Slot(used_seen + k)]
Given(k) == avail_ring[Slot(used_mem + k)]

Lent == Distance(used_seen, used_mem)
Due == Distance(used_mem, avail_mem)

\* One more than Due while the driver has filled an entry and not published it.
Promised == Due + (IF gpc = "publish" THEN 1 ELSE 0)

\* A descriptor is in one place.
Distinct ==
    /\ \A k, m \in 0 .. Lent - 1 : Collected(k) = Collected(m) => k = m
    /\ \A k, m \in 0 .. Promised - 1 : Given(k) = Given(m) => k = m
    /\ \A k \in 0 .. Lent - 1, m \in 0 .. Promised - 1 : Collected(k) # Given(m)
    /\ \A k \in 0 .. Lent - 1 : Collected(k) \notin free
    /\ \A m \in 0 .. Promised - 1 : Given(m) \notin free

\* What a thread deals with is the oldest descriptor that is due.
Oldest ==
    /\ pc["worker"] \in {"serve", "consume"} => desc_idx["worker"] = Given(0)
    /\ pc["io"] = "consume" => desc_idx["io"] = Given(0)
    /\ \A t \in Threads : pc[t] = "publish" => used_ring[Slot(used_mem)] = Given(0)

FifoInv == IInv /\ RingInv /\ Distinct /\ Oldest

-----------------------------------------------------------------------------
(* Slots of consecutive indices *)

LEMMA Division ==
    ASSUME NEW n \in Nat \ {0}, NEW a \in Nat
    PROVE  /\ a \div n \in Nat /\ a % n \in 0 .. n - 1
           /\ a = n * (a \div n) + (a % n)
  BY Z3T(30)

LEMMA Remainder ==
    ASSUME NEW n \in Nat \ {0}, NEW q \in Nat, NEW r \in 0 .. n - 1
    PROVE  (n * q + r) % n = r
  BY Z3T(30)

\* Indices less than a ring apart have slots of their own.
LEMMA SlotsApart ==
    ASSUME NEW x \in Nat, NEW d \in 1 .. Num - 1
    PROVE  Slot(x + d) # Slot(x)
<1> DEFINE q == x \div Num
           r == x % Num
<1>1. Num \in Nat \ {0} /\ q \in Nat /\ r \in 0 .. Num - 1 /\ x = Num * q + r
  BY QueueAssumption, Division
<1>2. CASE r + d < Num
  <2>1. x + d = Num * q + (r + d) /\ r + d \in 0 .. Num - 1
    BY <1>1, <1>2
  <2>2. (Num * q + (r + d)) % Num = r + d
    BY <1>1, <2>1, Remainder
  <2> QED  BY <1>1, <2>1, <2>2 DEF Slot
<1>3. CASE r + d >= Num
  <2>1. /\ r + d - Num \in 0 .. Num - 1 /\ q + 1 \in Nat
        /\ x + d = Num * (q + 1) + (r + d - Num)
    BY <1>1, <1>3
  <2>2. (Num * (q + 1) + (r + d - Num)) % Num = r + d - Num
    BY <1>1, <2>1, Remainder
  <2> QED  BY <1>1, <2>1, <2>2 DEF Slot
<1> QED  BY <1>1, <1>2, <1>3

\* The wrap of the indices is a whole number of rings.
LEMMA SlotWraps ==
    ASSUME NEW x \in Nat
    PROVE  Slot(x + IdxMod) = Slot(x)
<1> DEFINE q == x \div Num
           r == x % Num
           p == IdxMod \div Num
<1>1. Num \in Nat \ {0} /\ q \in Nat /\ r \in 0 .. Num - 1 /\ x = Num * q + r
  BY QueueAssumption, Division
<1>2. p \in Nat /\ IdxMod = Num * p
  <2>1. Num \in Nat \ {0} /\ IdxMod \in Nat /\ IdxMod % Num = 0
    BY QueueAssumption
  <2>2. p \in Nat /\ IdxMod = Num * p + (IdxMod % Num)
    BY <2>1, Division
  <2>3. Num * p \in Nat
    BY <2>1, <2>2
  <2> QED  BY <2>1, <2>2, <2>3
<1>3. x + IdxMod = Num * (q + p) + r /\ q + p \in Nat
  BY <1>1, <1>2
<1>4. (Num * (q + p) + r) % Num = r
  BY <1>1, <1>3, Remainder
<1> QED  BY <1>1, <1>3, <1>4 DEF Slot

\* Slots may be counted from any index before.
LEMMA SlotOf ==
    ASSUME NEW i \in Idx, NEW j \in Idx, NEW k \in Nat
    PROVE  /\ Slot(i + Distance(i, j)) = Slot(j)
           /\ Slot(Inc(i) + k) = Slot(i + (k + 1))
           /\ Slot(i + k) \in Slots
<1>1. IdxMod \in Nat \ {0} /\ i \in Nat /\ j \in Nat /\ i < IdxMod /\ j < IdxMod
  BY QueueAssumption DEF Idx
<1>2. Slot(i + Distance(i, j)) = Slot(j)
  <2>1. i + Distance(i, j) = j \/ i + Distance(i, j) = j + IdxMod
    BY <1>1, Counting
  <2> QED  BY <2>1, <1>1, SlotWraps
<1>3. Slot(Inc(i) + k) = Slot(i + (k + 1))
  <2>1. CASE i + 1 = IdxMod
    <3>1. Inc(i) = 0 /\ i + (k + 1) = k + IdxMod
      BY <2>1, <1>1, Counting
    <3> QED  BY <3>1, <1>1, SlotWraps
  <2>2. CASE i + 1 # IdxMod
    <3>1. Inc(i) + k = i + (k + 1)
      BY <2>2, <1>1, Counting
    <3> QED  BY <3>1
  <2> QED  BY <2>1, <2>2
<1>4. Slot(i + k) \in Slots
  BY <1>1, QueueAssumption, Division DEF Slot, Slots
<1> QED  BY <1>2, <1>3, <1>4

-----------------------------------------------------------------------------
(* Every action keeps the invariant *)

\* What the lemmas below need to know of the types.
LEMMA Basics ==
    ASSUME FifoInv
    PROVE  /\ used_mem \in Idx /\ avail_mem \in Idx /\ used_seen \in Idx
           /\ used_mem \in Nat /\ avail_mem \in Nat /\ used_seen \in Nat
           /\ avail_ring \in [Slots -> Desc] /\ used_ring \in [Slots -> Desc]
           /\ desc_idx \in [Threads -> Desc]
           /\ pc \in [Threads -> {"idle", "read", "loop", "serve", "consume", "publish",
                                  "advance"}]
           /\ Lent \in Nat /\ Due \in Nat /\ Promised \in Nat
           /\ Due <= Promised /\ Promised <= Due + 1
           /\ IsFiniteSet(free) /\ Cardinality(free) \in Nat
           /\ Lent + Promised + Cardinality(free) <= Num
           /\ Num \in Nat
<1>1. TypeOK
  BY DEF FifoInv, IInv
<1>2. /\ used_mem \in Idx /\ avail_mem \in Idx /\ used_seen \in Idx
      /\ used_mem \in Nat /\ avail_mem \in Nat /\ used_seen \in Nat
  BY <1>1, QueueAssumption DEF TypeOK, Idx
<1>3. /\ Lent \in Nat /\ Due \in Nat /\ Promised \in Nat
      /\ Due <= Promised /\ Promised <= Due + 1
  BY <1>2, Stretch DEF Lent, Due, Promised
<1>4. IsFiniteSet(free) /\ Cardinality(free) \in Nat
  BY <1>1, FreeCount
<1>5. Lent + Promised + Cardinality(free) <= Num /\ Num \in Nat
  BY <1>3, <1>4, QueueAssumption DEF FifoInv, RingInv, Accounts, Lent, Due, Promised
<1> QED  BY <1>1, <1>2, <1>3, <1>4, <1>5 DEF TypeOK

LEMMA FifoInit == Init => FifoInv
<1> SUFFICES ASSUME Init PROVE FifoInv
  OBVIOUS
<1>1. Distance(0, 0) = 0
  BY QueueAssumption, Stretch DEF Idx
<1>2. Distinct /\ Oldest
  BY <1>1 DEF Init, Distinct, Oldest, Lent, Due, Promised, Threads
<1> QED  BY <1>2, InitHolds, RingInit DEF FifoInv

\* Nothing that Distinct and Oldest speak of changes.
LEMMA FifoStill ==
    ASSUME FifoInv,
           UNCHANGED <<avail_ring, avail_mem, used_ring, used_mem, used_seen, free, gpc,
                       desc_idx>>,
           \A t \in Threads : pc'[t] \in {"serve", "consume", "publish"} => pc'[t] = pc[t]
    PROVE  Distinct' /\ Oldest'
<1>1. Distinct'
  BY DEF FifoInv, Distinct, Collected, Given, Lent, Due, Promised
<1>2. Oldest'
  BY DEF FifoInv, Oldest, Given, Threads
<1> QED  BY <1>1, <1>2

\* The entry the driver writes is the one after those that are due, and none of them.
LEMMA FillKeeps ==
    ASSUME FifoInv, NEW d \in Desc, DriverFill(d)
    PROVE  /\ Distinct' /\ Oldest'
           /\ Due' = Due /\ \A k \in 0 .. Due - 1 : Given(k)' = Given(k)
<1> USE DEF DriverFill
<1>1. UNCHANGED <<avail_mem, used_ring, used_mem, used_seen, desc_idx, pc>>
  BY DEF locals
<1>2. Lent' = Lent /\ Due' = Due /\ Promised = Due /\ Promised' = Due + 1
  BY <1>1, Basics DEF Lent, Due, Promised
<1>3. Due <= Num - 1
  <2>1. Cardinality(free) # 0
    BY Basics, FS_EmptySet
  <2> QED  BY <2>1, <1>2, Basics
<1>4. Slot(used_mem + Due) = Slot(avail_mem)
  BY Basics, SlotOf DEF Due
<1>5. \A k \in 0 .. Due - 1 : Given(k)' = Given(k)
  <2> SUFFICES ASSUME NEW k \in 0 .. Due - 1 PROVE Given(k)' = Given(k)
    OBVIOUS
  <2>1. /\ used_mem + k \in Nat /\ Due - k \in 1 .. Num - 1
        /\ (used_mem + k) + (Due - k) = used_mem + Due /\ k \in Nat
    BY <1>3, Basics
  <2>2. Slot(used_mem + k) # Slot(avail_mem)
    BY <2>1, <1>4, SlotsApart
  <2>3. Slot(used_mem + k) \in Slots
    BY <2>1, Basics, SlotOf
  <2> QED  BY <2>2, <2>3, <1>1, Basics DEF Given
<1>6. Given(Due)' = d
  <2>1. Slot(avail_mem) \in Slots
    BY Basics, IndexTypes
  <2> QED  BY <2>1, <1>1, <1>2, <1>4, Basics DEF Given
<1>7. \A k \in 0 .. Lent - 1 : Collected(k)' = Collected(k)
  BY <1>1 DEF Collected
<1>8. \A m \in 0 .. Promised' - 1 :
          (m \in 0 .. Promised - 1 /\ Given(m)' = Given(m)) \/ (m = Due /\ Given(m)' = d)
  BY <1>2, <1>5, <1>6, Basics
<1>9. Distinct'
  <2>1. /\ \A k \in 0 .. Lent - 1 : Collected(k) # d
        /\ \A m \in 0 .. Promised - 1 : Given(m) # d
    BY DEF FifoInv, Distinct
  <2>2. \A k, m \in 0 .. Lent' - 1 : Collected(k)' = Collected(m)' => k = m
    BY <1>2, <1>7 DEF FifoInv, Distinct
  <2>3. \A k, m \in 0 .. Promised' - 1 : Given(k)' = Given(m)' => k = m
    BY <2>1, <1>8 DEF FifoInv, Distinct
  <2>4. \A k \in 0 .. Lent' - 1, m \in 0 .. Promised' - 1 : Collected(k)' # Given(m)'
    BY <2>1, <1>2, <1>7, <1>8 DEF FifoInv, Distinct
  <2>5. /\ \A k \in 0 .. Lent' - 1 : Collected(k)' \notin free'
        /\ \A m \in 0 .. Promised' - 1 : Given(m)' \notin free'
    BY <1>2, <1>7, <1>8 DEF FifoInv, Distinct
  <2> QED  BY <2>2, <2>3, <2>4, <2>5 DEF Distinct
<1>10. Oldest'
  <2>1. pc["worker"] \in {"serve", "consume", "publish"} \/ pc["io"] \in {"consume", "publish"}
            => Due # 0
    <3>1. /\ cur_avail \in Idx /\ avail_idx \in Idx
          /\ pc["io"] \in {"consume", "publish"} => manual_recv
      BY DEF FifoInv, IInv, TypeOK, OneServer
    <3> QED  BY <3>1, Basics, Stretch DEF FifoInv, RingInv, Owed, Snapshots, Due
  <2>2. Due # 0 => Given(0)' = Given(0)
    BY <1>5, Basics
  <2> QED  BY <2>1, <2>2, <1>1 DEF FifoInv, Oldest, Threads
<1> QED  BY <1>2, <1>5, <1>9, <1>10

\* Publishing the entry moves nothing: it was promised.
LEMMA PublishKeeps ==
    ASSUME FifoInv, DriverPublish
    PROVE  /\ Distinct' /\ Oldest'
           /\ Due' = Due + 1 /\ Promised = Due + 1
<1> USE DEF DriverPublish
<1>1. UNCHANGED <<avail_ring, used_ring, used_mem, used_seen, desc_idx, pc, free>>
  BY DEF locals
<1>2. Promised = Due + 1
  BY DEF Promised
<1>3. Due' = Due + 1
  <2>1. Due < IdxMod - 1
    BY <1>2, Basics, QueueAssumption
  <2> QED  BY <2>1, <1>1, Basics, Stretch DEF Due
<1>4. Lent' = Lent /\ Promised' = Promised
  BY <1>1, <1>2, <1>3, Basics DEF Lent, Promised
<1>5. Distinct'
  BY <1>1, <1>4 DEF FifoInv, Distinct, Collected, Given
<1>6. Oldest'
  BY <1>1 DEF FifoInv, Oldest, Given
<1> QED  BY <1>2, <1>3, <1>5, <1>6

\* The driver takes the first of those that wait to be collected.
LEMMA CollectKeeps ==
    ASSUME FifoInv, DriverCollect
    PROVE  /\ Distinct' /\ Oldest'
           /\ Lent \in Nat \ {0} /\ Lent' = Lent - 1
           /\ \A k \in Nat : Collected(k)' = Collected(k + 1)
<1> USE DEF DriverCollect
<1>1. UNCHANGED <<avail_ring, avail_mem, used_ring, used_mem, gpc, desc_idx, pc>>
  BY DEF memory, locals
<1>2. Lent \in Nat \ {0} /\ Lent' = Lent - 1
  BY <1>1, Basics, Stretch DEF Lent
<1>3. \A k \in Nat : Collected(k)' = Collected(k + 1)
  BY <1>1, Basics, SlotOf DEF Collected
<1>4. free' = free \cup {Collected(0)}
  BY Basics DEF Collected
<1>5. Promised' = Promised /\ \A m \in 0 .. Promised - 1 : Given(m)' = Given(m)
  BY <1>1 DEF Promised, Due, Given
<1>6. \A k \in 0 .. Lent' - 1 : k + 1 \in 0 .. Lent - 1 /\ Collected(k)' = Collected(k + 1)
  BY <1>2, <1>3
<1>7. 0 \in 0 .. Lent - 1
  BY <1>2
<1>8. Distinct'
  <2>1. \A k, m \in 0 .. Lent' - 1 : Collected(k)' = Collected(m)' => k = m
    BY <1>2, <1>6 DEF FifoInv, Distinct
  <2>2. \A k, m \in 0 .. Promised' - 1 : Given(k)' = Given(m)' => k = m
    BY <1>5 DEF FifoInv, Distinct
  <2>3. \A k \in 0 .. Lent' - 1, m \in 0 .. Promised' - 1 : Collected(k)' # Given(m)'
    BY <1>5, <1>6 DEF FifoInv, Distinct
  <2>4. \A k \in 0 .. Lent' - 1 : Collected(k)' \notin free'
    BY <1>2, <1>4, <1>6, <1>7 DEF FifoInv, Distinct
  <2>5. \A m \in 0 .. Promised' - 1 : Given(m)' \notin free'
    BY <1>4, <1>5, <1>7 DEF FifoInv, Distinct
  <2> QED  BY <2>1, <2>2, <2>3, <2>4, <2>5 DEF Distinct
<1>9. Oldest'
  BY <1>1 DEF FifoInv, Oldest, Given
<1> QED  BY <1>2, <1>3, <1>8, <1>9

LEMMA FifoReset ==
    ASSUME FifoInv, ~RacingResets, DriverReset
    PROVE  Distinct' /\ Oldest' /\ Lent' = 0 /\ Due' = 0
<1> USE DEF DriverReset, DeviceReset
<1>1. \A t \in Threads : pc'[t] = "idle"
  BY DEF Quiet
<1>2. Distance(0, 0) = 0
  BY QueueAssumption, Stretch DEF Idx
<1>3. Lent' = 0 /\ Due' = 0 /\ Promised' = 0
  BY <1>2 DEF Lent, Due, Promised
<1> QED  BY <1>1, <1>3 DEF Distinct, Oldest, Threads

\* A thread that takes up a descriptor takes the oldest that is due.
LEMMA FifoLook ==
    ASSUME FifoInv,
           WorkerTake \/ NotifyRead \/ NotifyLoop \/ DeviceRecv \/ InputArrives \/ InputWrite
    PROVE  Distinct' /\ Oldest' /\ UNCHANGED <<memory, driver>>
<1> USE DEF Threads, Goto
<1>1. UNCHANGED <<memory, driver, attached, last_avail_idx>>
  BY DEF WorkerTake, NotifyRead, NotifyLoop, DeviceRecv, InputArrives, InputWrite, queue
<1>2. Distinct'
  BY <1>1 DEF FifoInv, Distinct, Collected, Given, Lent, Due, Promised, memory, driver
<1>3. Given(0)' = Given(0) /\ used_ring' = used_ring /\ used_mem' = used_mem
  BY <1>1 DEF Given, memory
<1>4. attached => AvailRing(used_mem) = Given(0)
  BY Basics DEF AvailRing, Given
<1>5. CASE WorkerTake \/ NotifyRead \/ InputArrives
  BY <1>5, <1>1, <1>2, <1>3, Basics DEF WorkerTake, NotifyRead, InputArrives, locals, FifoInv,
     Oldest
<1>6. CASE DeviceRecv
  BY <1>6, <1>1, <1>2, <1>3, Basics DEF DeviceRecv, locals, FifoInv, Oldest
<1>7. CASE NotifyLoop
  <2>1. pc["io"] = "idle" /\ pc["worker"] = "loop"
    BY <1>7, Basics DEF NotifyLoop, FifoInv, IInv, TypeOK, OneServer
  <2>2. used_mem = last_avail_idx
    BY <2>1 DEF FifoInv, IInv, InStep
  <2>3. last_avail_idx # cur_avail => attached
    BY <2>1 DEF FifoInv, IInv, AtRest
  <2> QED  BY <1>7, <1>2, <1>1, <1>3, <1>4, <2>1, <2>2, <2>3, Basics
           DEF NotifyLoop, FifoInv, Oldest
<1>8. CASE InputWrite
  <2>1. CanWrite => attached /\ used_mem = last_avail_idx
    BY <1>8, Basics DEF InputWrite, CanWrite, FifoInv, IInv, AtRest, OneServer, InStep, TypeOK
  <2> QED  BY <1>8, <1>2, <1>1, <1>3, <1>4, <2>1, Basics DEF InputWrite, FifoInv, Oldest
<1> QED  BY <1>1, <1>2, <1>5, <1>6, <1>7, <1>8

\* A thread that has a descriptor in hand: it is due, and the ring is set up.
LEMMA InHand ==
    ASSUME FifoInv, NEW t \in Threads, pc[t] \in {"consume", "publish"}
    PROVE  /\ attached /\ Due \in Nat \ {0}
           /\ \A o \in Threads \ {t} : ~Busy(o)
           /\ t = "io" => manual_recv
           /\ t = "worker" => ~manual_recv
<1>1. /\ attached /\ \A o \in Threads \ {t} : ~Busy(o)
      /\ t = "io" => manual_recv
      /\ t = "worker" => ~manual_recv
  BY DEF FifoInv, IInv, AtRest, OneServer, Busy, Threads, TypeOK
<1>2. cur_avail \in Idx /\ avail_idx \in Idx
  BY DEF FifoInv, IInv, TypeOK
<1>3. Due # 0
  BY <1>1, <1>2, Basics, Stretch DEF FifoInv, RingInv, Owed, Snapshots, Due, Threads
<1> QED  BY <1>1, <1>3, Basics

\* The used element goes behind those that wait to be collected.
LEMMA ElemKeeps ==
    ASSUME FifoInv, NEW t \in Threads, ConsumeWriteElem(t)
    PROVE  /\ Distinct' /\ Oldest' /\ Lent' = Lent
           /\ \A k \in 0 .. Lent - 1 : Collected(k)' = Collected(k)
           /\ UNCHANGED <<avail_ring, avail_mem, used_mem, driver>>
<1> USE DEF ConsumeWriteElem, Goto
<1>1. /\ UNCHANGED <<avail_ring, avail_mem, used_mem, free, used_seen, gpc, desc_idx>>
      /\ pc[t] = "consume" /\ pc' = [pc EXCEPT ![t] = "publish"]
  BY DEF driver
<1>2. attached /\ Due # 0 /\ \A o \in Threads \ {t} : ~Busy(o)
  BY InHand
<1>3. Lent <= Num - 1
  <2> HIDE DEF ConsumeWriteElem, Goto
  <2>1. /\ Due # 0 /\ Due \in Nat /\ Due <= Promised /\ Promised \in Nat
        /\ Lent \in Nat /\ Cardinality(free) \in Nat /\ Num \in Nat
        /\ Lent + Promised + Cardinality(free) <= Num
    BY <1>2, Basics
  <2> QED  BY <2>1
<1>4. used_ring' = [used_ring EXCEPT ![Slot(used_mem)] = desc_idx[t]]
  BY <1>2
<1>5. Slot(used_seen + Lent) = Slot(used_mem) /\ Slot(used_mem) \in Slots
  BY Basics, SlotOf, IndexTypes DEF Lent
<1>6. \A k \in 0 .. Lent - 1 : Collected(k)' = Collected(k)
  <2> SUFFICES ASSUME NEW k \in 0 .. Lent - 1 PROVE Collected(k)' = Collected(k)
    OBVIOUS
  <2>1. /\ used_seen + k \in Nat /\ Lent - k \in 1 .. Num - 1
        /\ (used_seen + k) + (Lent - k) = used_seen + Lent /\ k \in Nat
    BY <1>3, Basics
  <2>2. Slot(used_seen + k) # Slot(used_mem)
    BY <2>1, <1>5, SlotsApart
  <2>3. Slot(used_seen + k) \in Slots
    BY <2>1, Basics, SlotOf
  <2> QED  BY <2>2, <2>3, <1>1, <1>4, Basics DEF Collected
<1>7. Lent' = Lent /\ Promised' = Promised /\ \A m \in 0 .. Promised - 1 : Given(m)' = Given(m)
  BY <1>1 DEF Lent, Promised, Due, Given
<1>8. Distinct'
  <2>1. \A k, m \in 0 .. Lent' - 1 : Collected(k)' = Collected(m)' => k = m
    BY <1>6, <1>7 DEF FifoInv, Distinct
  <2>2. \A k, m \in 0 .. Promised' - 1 : Given(k)' = Given(m)' => k = m
    BY <1>7 DEF FifoInv, Distinct
  <2>3. \A k \in 0 .. Lent' - 1, m \in 0 .. Promised' - 1 : Collected(k)' # Given(m)'
    BY <1>6, <1>7 DEF FifoInv, Distinct
  <2>4. /\ \A k \in 0 .. Lent' - 1 : Collected(k)' \notin free'
        /\ \A m \in 0 .. Promised' - 1 : Given(m)' \notin free'
    BY <1>1, <1>6, <1>7 DEF FifoInv, Distinct
  <2> QED  BY <2>1, <2>2, <2>3, <2>4 DEF Distinct
<1>9. Oldest'
  <2>1. Given(0)' = Given(0) /\ desc_idx[t] = Given(0)
    BY <1>1 DEF FifoInv, Oldest, Given, Threads
  <2>2. used_ring'[Slot(used_mem)] = Given(0)
    BY <2>1, <1>4, <1>5, Basics
  <2>3. /\ pc'["worker"] \notin {"serve", "consume"} /\ pc'["io"] # "consume"
    BY <1>1, <1>2, Basics DEF Busy, Threads
  <2> QED  BY <2>1, <2>2, <2>3, <1>1 DEF Oldest
<1> QED  BY <1>1, <1>6, <1>7, <1>8, <1>9

\* The first that was due becomes the last of those that wait to be collected.
LEMMA HandBackKeeps ==
    ASSUME FifoInv, NEW t \in Threads, ConsumePublish(t)
    PROVE  /\ Distinct' /\ Oldest'
           /\ Due \in Nat \ {0} /\ Due' = Due - 1 /\ Lent' = Lent + 1
           /\ \A k \in 0 .. Lent : Collected(k)' = Collected(k)
           /\ Collected(Lent) = Given(0)
           /\ \A m \in Nat : Given(m)' = Given(m + 1)
<1> USE DEF ConsumePublish, Goto
<1>1. /\ UNCHANGED <<avail_ring, avail_mem, used_ring, free, used_seen, gpc, desc_idx>>
      /\ pc[t] = "publish" /\ pc' = [pc EXCEPT ![t] = "advance"]
  BY DEF driver, locals
<1>2. attached /\ Due \in Nat \ {0} /\ \A o \in Threads \ {t} : ~Busy(o)
  BY InHand
<1>3. used_mem' = Inc(used_mem)
  BY <1>1, <1>2 DEF FifoInv, IInv, FreshUsed
<1>4. Due' = Due - 1 /\ Promised' = Promised - 1
  BY <1>1, <1>2, <1>3, Basics, Stretch DEF Due, Promised
<1>5. Lent' = Lent + 1
  <2>1. Lent <= Num - 1
    BY <1>2, Basics
  <2>2. Lent < IdxMod - 1
    BY <2>1, Basics, QueueAssumption
  <2> QED  BY <2>2, <1>1, <1>3, Basics, Stretch DEF Lent
<1>6. \A k \in 0 .. Lent : Collected(k)' = Collected(k)
  BY <1>1 DEF Collected
<1>7. Collected(Lent) = Given(0)
  <2>1. Slot(used_seen + Lent) = Slot(used_mem)
    BY Basics, SlotOf DEF Lent
  <2> QED  BY <2>1, <1>1 DEF FifoInv, Oldest, Collected
<1>8. \A m \in Nat : Given(m)' = Given(m + 1)
  BY <1>1, <1>3, Basics, SlotOf DEF Given
<1>9. /\ \A m \in 0 .. Promised' - 1 : m + 1 \in 1 .. Promised - 1 /\ Given(m)' = Given(m + 1)
      /\ 0 \in 0 .. Promised - 1 /\ 1 .. Promised - 1 \subseteq 0 .. Promised - 1
  BY <1>2, <1>4, <1>8, Basics
<1>10. \A k \in 0 .. Lent' - 1 :
           (k \in 0 .. Lent - 1 /\ Collected(k)' = Collected(k))
               \/ (k = Lent /\ Collected(k)' = Given(0))
  BY <1>5, <1>6, <1>7, Basics
<1>11. Distinct'
  <2>1. \A k, m \in 0 .. Lent' - 1 : Collected(k)' = Collected(m)' => k = m
    BY <1>9, <1>10 DEF FifoInv, Distinct
  <2>2. \A k, m \in 0 .. Promised' - 1 : Given(k)' = Given(m)' => k = m
    <3> SUFFICES ASSUME NEW k \in 0 .. Promised' - 1, NEW m \in 0 .. Promised' - 1,
                        Given(k)' = Given(m)'
                 PROVE  k = m
      OBVIOUS
    <3>1. k + 1 = m + 1
      BY <1>9 DEF FifoInv, Distinct
    <3> QED  BY <3>1, <1>4, Basics
  <2>3. \A k \in 0 .. Lent' - 1, m \in 0 .. Promised' - 1 : Collected(k)' # Given(m)'
    <3> SUFFICES ASSUME NEW k \in 0 .. Lent' - 1, NEW m \in 0 .. Promised' - 1
                 PROVE  Collected(k)' # Given(m)'
      OBVIOUS
    <3>1. /\ m + 1 \in 0 .. Promised - 1 /\ 0 \in 0 .. Promised - 1 /\ m + 1 # 0
          /\ Given(m)' = Given(m + 1)
      BY <1>9
    <3>2. Given(m + 1) # Given(0)
      BY <3>1 DEF FifoInv, Distinct
    <3> QED  BY <3>1, <3>2, <1>10 DEF FifoInv, Distinct
  <2>4. /\ \A k \in 0 .. Lent' - 1 : Collected(k)' \notin free'
        /\ \A m \in 0 .. Promised' - 1 : Given(m)' \notin free'
    BY <1>1, <1>9, <1>10 DEF FifoInv, Distinct
  <2> QED  BY <2>1, <2>2, <2>3, <2>4 DEF Distinct
<1>12. Oldest'
  <2>1. /\ pc'["worker"] \notin {"serve", "consume", "publish"}
        /\ pc'["io"] \notin {"consume", "publish"}
    BY <1>1, <1>2, Basics DEF Busy, Threads
  <2> QED  BY <2>1 DEF Oldest, Threads
<1> QED  BY <1>2, <1>4, <1>5, <1>6, <1>7, <1>8, <1>11, <1>12

LEMMA FifoKeeps ==
    ASSUME FifoInv, ~RacingResets, MaxResets[TRUE] = 0, [Next]_vars
    PROVE  FifoInv'
<1> USE DEF Threads
<1>1. IInv' /\ RingInv'
  BY NextKeeps, RingKeeps DEF FifoInv
<1>2. CASE DriverSetup \/ DriverKick
  BY <1>1, <1>2, FifoStill DEF DriverSetup, DriverKick, memory, locals, FifoInv, Distinct,
     Oldest, Collected, Given, Lent, Due, Promised
<1>3. CASE \E d \in Desc : DriverFill(d)
  BY <1>1, <1>3, FillKeeps DEF FifoInv
<1>4. CASE DriverPublish \/ DriverCollect \/ DriverReset
  BY <1>1, <1>4, PublishKeeps, CollectKeeps, FifoReset DEF FifoInv
<1>5. CASE WorkerTake \/ NotifyRead \/ NotifyLoop \/ DeviceRecv \/ InputArrives \/ InputWrite
  BY <1>1, <1>5, FifoLook DEF FifoInv
<1>6. CASE \E t \in Threads : ConsumeWriteElem(t) \/ ConsumePublish(t)
  BY <1>1, <1>6, ElemKeeps, HandBackKeeps DEF FifoInv
<1>7. CASE \E t \in Threads : Advance(t)
  <2>1. PICK t \in Threads : Advance(t)
    BY <1>7
  <2>2. UNCHANGED <<avail_ring, avail_mem, used_ring, used_mem, used_seen, free, gpc, desc_idx>>
    BY <2>1 DEF Advance, memory, driver, locals
  <2>3. \A o \in Threads : pc'[o] \in {"serve", "consume", "publish"} => pc'[o] = pc[o]
    BY <2>1, Basics DEF Advance, Goto
  <2> QED  BY <1>1, <2>2, <2>3, FifoStill DEF FifoInv
<1>8. CASE UNCHANGED vars
  BY <1>1, <1>8, FifoStill DEF vars, memory, driver, locals, FifoInv
<1> QED  BY <1>2, <1>3, <1>4, <1>5, <1>6, <1>7, <1>8 DEF Next, Device

-----------------------------------------------------------------------------
(* The refinement *)

inflight == RingEntries(avail_ring, used_mem, avail_mem)
done == RingEntries(used_ring, used_seen, used_mem)

\* The two sequences of RequestFifo, entry by entry.
EntryByEntry ==
    /\ inflight \in Seq(Desc) /\ Len(inflight) = Due
    /\ \A i \in 1 .. Due : inflight[i] = Given(i - 1) /\ i - 1 \in 0 .. Due - 1
    /\ done \in Seq(Desc) /\ Len(done) = Lent
    /\ \A i \in 1 .. Lent : done[i] = Collected(i - 1) /\ i - 1 \in 0 .. Lent - 1

LEMMA Entries == FifoInv => EntryByEntry
<1> SUFFICES ASSUME FifoInv PROVE EntryByEntry
  OBVIOUS
<1>1. /\ \A i \in 1 .. Due : /\ i - 1 \in 0 .. Due - 1
                             /\ (used_mem + i) - 1 = used_mem + (i - 1)
      /\ \A i \in 1 .. Lent : /\ i - 1 \in 0 .. Lent - 1
                              /\ (used_seen + i) - 1 = used_seen + (i - 1)
  BY Basics
<1>2. /\ \A k \in Nat : Slot(used_mem + k) \in Slots /\ Slot(used_seen + k) \in Slots
  BY Basics, SlotOf
<1>3. inflight = [i \in 1 .. Due |-> Given(i - 1)] /\ done = [i \in 1 .. Lent |-> Collected(i - 1)]
  BY <1>1 DEF inflight, done, RingEntries, Due, Lent, Given, Collected
<1>4. /\ \A i \in 1 .. Due : Given(i - 1) \in Desc
      /\ \A i \in 1 .. Lent : Collected(i - 1) \in Desc
  BY <1>1, <1>2, Basics DEF Given, Collected
<1>5. inflight \in Seq(Desc) /\ done \in Seq(Desc)
  <2>1. inflight \in [1 .. Due -> Desc] /\ done \in [1 .. Lent -> Desc]
    BY <1>3, <1>4
  <2>2. Due \in Nat /\ Lent \in Nat
    BY Basics
  <2> QED  BY <2>1, <2>2, SeqDef
<1>6. Len(inflight) = Due /\ Len(done) = Lent
  BY <1>3, <1>5, Basics, LenProperties
<1> QED  BY <1>1, <1>3, <1>5, <1>6 DEF EntryByEntry

LEMMA EntriesNext == FifoInv' => EntryByEntry'
  BY Entries, PTL

\* Submit: the entry that was filled joins those that are due.
LEMMA PublishSubmits ==
    ASSUME FifoInv, FifoInv', DriverPublish
    PROVE  \E d \in Desc : F!Submit(d)
<1> DEFINE d == Given(Due)
<1>0. EntryByEntry /\ EntryByEntry'
  BY Entries, EntriesNext
<1> USE DEF EntryByEntry
<1>1. /\ Due' = Due + 1 /\ Promised = Due + 1
      /\ UNCHANGED <<avail_ring, used_ring, used_mem, used_seen, manual_recv>>
  BY PublishKeeps DEF DriverPublish, queue
<1>2. d \in Desc
  BY Basics, SlotOf DEF Given
<1>3. \A i \in 1 .. Due : inflight[i] # d
  <2> SUFFICES ASSUME NEW i \in 1 .. Due PROVE inflight[i] # d
    OBVIOUS
  <2>1. i - 1 \in 0 .. Promised - 1 /\ Due \in 0 .. Promised - 1 /\ i - 1 # Due
    BY <1>1, Basics
  <2> QED  BY <2>1, <1>0 DEF FifoInv, Distinct
<1>4. \A i \in 1 .. Lent : done[i] # d
  <2>1. Due \in 0 .. Promised - 1
    BY <1>1, Basics
  <2> QED  BY <2>1, <1>0 DEF FifoInv, Distinct
<1>5. d \notin F!ToSet(inflight) \cup F!ToSet(done)
  BY <1>3, <1>4, <1>0, LenProperties DEF F!ToSet
<1>6. inflight' = Append(inflight, d)
  <2>1. inflight' \in Seq(Desc) /\ Len(inflight') = Due + 1
    BY <1>1, <1>0
  <2>2. \A i \in 1 .. Due + 1 : inflight'[i] = Given(i - 1)
    BY <1>1, <1>0 DEF Given
  <2>3. /\ Append(inflight, d) \in Seq(Desc) /\ Len(Append(inflight, d)) = Due + 1
        /\ \A i \in 1 .. Due : Append(inflight, d)[i] = Given(i - 1)
        /\ Append(inflight, d)[Due + 1] = d
    <3>1. inflight \in Seq(Desc) /\ Len(inflight) = Due
      BY <1>0
    <3>2. \A i \in 1 .. Due : inflight[i] = Given(i - 1)
      BY <1>0
    <3> HIDE DEF d, EntryByEntry
    <3>3. /\ Append(inflight, d) \in Seq(Desc) /\ Len(Append(inflight, d)) = Len(inflight) + 1
          /\ \A i \in 1 .. Len(inflight) : Append(inflight, d)[i] = inflight[i]
          /\ Append(inflight, d)[Len(inflight) + 1] = d
      BY <1>2, <3>1, AppendProperties
    <3> QED  BY <3>1, <3>2, <3>3
  <2>4. \A i \in 1 .. Due + 1 : inflight'[i] = Append(inflight, d)[i]
    <3> SUFFICES ASSUME NEW i \in 1 .. Due + 1 PROVE inflight'[i] = Append(inflight, d)[i]
      OBVIOUS
    <3>1. CASE i = Due + 1
      <4>1. i - 1 = Due
        BY <3>1, Basics
      <4>2. inflight'[i] = d
        BY <4>1, <2>2
      <4>3. Append(inflight, d)[i] = d
        BY <3>1, <2>3
      <4> QED  BY <4>2, <4>3
    <3>2. CASE i \in 1 .. Due
      BY <3>2, <2>2, <2>3
    <3>3. i = Due + 1 \/ i \in 1 .. Due
      <4>1. Due \in Nat
        BY Basics
      <4> QED  BY <4>1
    <3> QED  BY <3>1, <3>2, <3>3
  <2> QED  BY <2>1, <2>3, <2>4, SeqEqual
<1>7. done' = done /\ manual_recv' = manual_recv
  BY <1>1 DEF done, RingEntries
<1>8. F!Submit(d)
  BY <1>5, <1>6, <1>7 DEF F!Submit, inflight, done
<1> QED  BY <1>2, <1>8

\* Complete: the head of those that are due goes behind those to be collected.
LEMMA PublishCompletes ==
    ASSUME FifoInv, FifoInv', NEW t \in Threads, ConsumePublish(t)
    PROVE  F!Complete
<1>0. EntryByEntry /\ EntryByEntry'
  BY Entries, EntriesNext
<1> USE DEF EntryByEntry
<1>1. /\ Due \in Nat \ {0} /\ Due' = Due - 1 /\ Lent' = Lent + 1
      /\ \A k \in 0 .. Lent : Collected(k)' = Collected(k)
      /\ Collected(Lent) = Given(0)
      /\ \A m \in Nat : Given(m)' = Given(m + 1)
      /\ UNCHANGED manual_recv
  BY HandBackKeeps DEF ConsumePublish, queue
<1>2. inflight \in Seq(Desc) /\ inflight # <<>> /\ Head(inflight) = Given(0)
  <2>1. inflight \in Seq(Desc) /\ Len(inflight) = Due /\ inflight[1] = Given(0)
    <3>1. 1 \in 1 .. Due /\ 1 - 1 = 0
      BY <1>1
    <3> QED  BY <3>1, <1>0
  <2>2. inflight # <<>>
    BY <2>1, <1>1, EmptySeq
  <2> QED  BY <2>1, <2>2
<1>3. inflight' = Tail(inflight)
  <2>1. inflight' \in Seq(Desc) /\ Len(inflight') = Due - 1
    BY <1>1, <1>0
  <2>2. /\ Tail(inflight) \in Seq(Desc) /\ Len(Tail(inflight)) = Due - 1
        /\ \A i \in 1 .. Due - 1 : Tail(inflight)[i] = inflight[i + 1]
    BY <1>2, <1>0, HeadTailProperties
  <2>3. \A i \in 1 .. Due - 1 : inflight'[i] = inflight[i + 1]
    <3> SUFFICES ASSUME NEW i \in 1 .. Due - 1 PROVE inflight'[i] = inflight[i + 1]
      OBVIOUS
    <3>1. i + 1 \in 1 .. Due /\ (i + 1) - 1 = i /\ i - 1 \in Nat /\ (i - 1) + 1 = i
      BY <1>1
    <3>2. inflight[i + 1] = Given(i)
      BY <3>1, <1>0
    <3>3. inflight'[i] = Given(i - 1)'
      BY <1>1, <1>0
    <3>4. Given(i - 1)' = Given(i)
      BY <1>1, <3>1
    <3> QED  BY <3>2, <3>3, <3>4
  <2> QED  BY <2>1, <2>2, <2>3, SeqEqual
<1>4. done' = Append(done, Given(0))
  <2>1. done' \in Seq(Desc) /\ Len(done') = Lent + 1
    BY <1>1, <1>0
  <2>2. Given(0) \in Desc
    BY <1>1, Basics, SlotOf DEF Given
  <2>3. /\ Append(done, Given(0)) \in Seq(Desc) /\ Len(Append(done, Given(0))) = Lent + 1
        /\ \A i \in 1 .. Lent : Append(done, Given(0))[i] = Collected(i - 1)
        /\ Append(done, Given(0))[Lent + 1] = Given(0)
    BY <2>2, <1>0, AppendProperties
  <2>4. \A i \in 1 .. Lent + 1 : done'[i] = Collected(i - 1)
    <3> SUFFICES ASSUME NEW i \in 1 .. Lent + 1 PROVE done'[i] = Collected(i - 1)
      OBVIOUS
    <3>1. i - 1 \in 0 .. Lent
      BY Basics
    <3>2. done'[i] = Collected(i - 1)'
      BY <1>1, <1>0
    <3> QED  BY <3>1, <3>2, <1>1
  <2>5. \A i \in 1 .. Lent + 1 : done'[i] = Append(done, Given(0))[i]
    <3> SUFFICES ASSUME NEW i \in 1 .. Lent + 1
                 PROVE  done'[i] = Append(done, Given(0))[i]
      OBVIOUS
    <3>1. CASE i = Lent + 1
      <4>1. i - 1 = Lent
        BY <3>1, Basics
      <4>2. done'[i] = Given(0)
        BY <4>1, <2>4, <1>1
      <4>3. Append(done, Given(0))[i] = Given(0)
        BY <3>1, <2>3
      <4> QED  BY <4>2, <4>3
    <3>2. CASE i \in 1 .. Lent
      BY <3>2, <2>3, <2>4
    <3>3. i = Lent + 1 \/ i \in 1 .. Lent
      BY Basics
    <3> QED  BY <3>1, <3>2, <3>3
  <2> QED  BY <2>1, <2>3, <2>5, SeqEqual
<1> QED  BY <1>1, <1>2, <1>3, <1>4 DEF F!Complete, inflight, done

LEMMA CollectCollects ==
    ASSUME FifoInv, FifoInv', DriverCollect
    PROVE  F!Collect
<1>0. EntryByEntry /\ EntryByEntry'
  BY Entries, EntriesNext
<1> USE DEF EntryByEntry
<1>1. /\ Lent \in Nat \ {0} /\ Lent' = Lent - 1
      /\ \A k \in Nat : Collected(k)' = Collected(k + 1)
      /\ UNCHANGED <<avail_ring, avail_mem, used_mem, manual_recv>>
  BY CollectKeeps DEF DriverCollect, memory, queue
<1>2. done \in Seq(Desc) /\ done # <<>>
  BY <1>1, <1>0, EmptySeq
<1>3. done' = Tail(done)
  <2>1. done' \in Seq(Desc) /\ Len(done') = Lent - 1
    BY <1>1, <1>0
  <2>2. /\ Tail(done) \in Seq(Desc) /\ Len(Tail(done)) = Lent - 1
        /\ \A i \in 1 .. Lent - 1 : Tail(done)[i] = done[i + 1]
    BY <1>2, <1>0, HeadTailProperties
  <2>3. \A i \in 1 .. Lent - 1 : done'[i] = done[i + 1]
    <3> SUFFICES ASSUME NEW i \in 1 .. Lent - 1 PROVE done'[i] = done[i + 1]
      OBVIOUS
    <3>1. i + 1 \in 1 .. Lent /\ (i + 1) - 1 = i /\ i - 1 \in Nat /\ (i - 1) + 1 = i
      BY <1>1
    <3>2. done[i + 1] = Collected(i)
      BY <3>1, <1>0
    <3>3. done'[i] = Collected(i - 1)'
      BY <1>1, <1>0
    <3>4. Collected(i - 1)' = Collected(i)
      BY <1>1, <3>1
    <3> QED  BY <3>2, <3>3, <3>4
  <2> QED  BY <2>1, <2>2, <2>3, SeqEqual
<1>4. inflight' = inflight
  BY <1>1 DEF inflight, RingEntries
<1> QED  BY <1>1, <1>2, <1>3, <1>4 DEF F!Collect, inflight, done

\* Any other step of the rings leaves both sequences as they are.
LEMMA OthersStutter ==
    ASSUME FifoInv, FifoInv',
           \/ DriverSetup \/ (\E d \in Desc : DriverFill(d)) \/ DriverKick
           \/ WorkerTake \/ NotifyRead \/ NotifyLoop \/ DeviceRecv \/ InputArrives \/ InputWrite
           \/ \E t \in Threads : ConsumeWriteElem(t) \/ Advance(t)
    PROVE  UNCHANGED F!vars
<1>0. EntryByEntry /\ EntryByEntry'
  BY Entries, EntriesNext
<1>1. manual_recv' = manual_recv
  BY DEF DriverSetup, DriverFill, DriverKick, WorkerTake, NotifyRead, NotifyLoop, DeviceRecv,
     InputArrives, InputWrite, ConsumeWriteElem, Advance, queue
<1>2. CASE \E d \in Desc : DriverFill(d)
  <2>1. PICK d \in Desc : DriverFill(d)
    BY <1>2
  <2>2. Due' = Due /\ \A k \in 0 .. Due - 1 : Given(k)' = Given(k)
    BY <2>1, FillKeeps
  <2>3. \A i \in 1 .. Due : inflight'[i] = inflight[i]
    BY <2>2, <1>0 DEF EntryByEntry
  <2>4. inflight' = inflight
    BY <2>2, <2>3, <1>0, SeqEqual DEF EntryByEntry
  <2>5. done' = done
    BY <2>1 DEF DriverFill, done, RingEntries
  <2> QED  BY <2>4, <2>5, <1>1 DEF F!vars, inflight, done
<1>3. CASE \E t \in Threads : ConsumeWriteElem(t)
  <2>1. PICK t \in Threads : ConsumeWriteElem(t)
    BY <1>3
  <2>2. Lent' = Lent /\ \A k \in 0 .. Lent - 1 : Collected(k)' = Collected(k)
    BY <2>1, ElemKeeps
  <2>3. \A i \in 1 .. Lent : done'[i] = done[i]
    BY <2>2, <1>0 DEF EntryByEntry
  <2>4. done' = done
    BY <2>2, <2>3, <1>0, SeqEqual DEF EntryByEntry
  <2>5. inflight' = inflight
    BY <2>1, ElemKeeps DEF inflight, RingEntries
  <2> QED  BY <2>4, <2>5, <1>1 DEF F!vars, inflight, done
<1>4. CASE /\ ~\E d \in Desc : DriverFill(d)
           /\ ~\E t \in Threads : ConsumeWriteElem(t)
  <2>1. UNCHANGED <<avail_ring, avail_mem, used_ring, used_mem, used_seen>>
    BY <1>4 DEF DriverSetup, DriverKick, WorkerTake, NotifyRead, NotifyLoop, DeviceRecv,
       InputArrives, InputWrite, Advance, memory, driver
  <2> QED  BY <2>1, <1>1 DEF F!vars, RingEntries
<1> QED  BY <1>2, <1>3, <1>4

LEMMA FifoStart == Init => F!Init
<1> SUFFICES ASSUME Init PROVE F!Init
  OBVIOUS
<1>1. EntryByEntry
  BY FifoInit, Entries
<1>2. Due = 0 /\ Lent = 0
  <2>1. Distance(0, 0) = 0
    BY QueueAssumption, Stretch DEF Idx
  <2> QED  BY <2>1 DEF Init, Due, Lent
<1>3. inflight = <<>> /\ done = <<>>
  BY <1>1, <1>2, EmptySeq DEF EntryByEntry
<1>4. (~manual_recv) \in BOOLEAN
  OBVIOUS
<1> QED  BY <1>3, <1>4 DEF F!Init, inflight, done

LEMMA FifoStep ==
    ASSUME FifoInv, FifoInv', ~RacingResets, [Next]_vars
    PROVE  [F!Next]_(F!vars)
<1> USE DEF Threads
<1>1. CASE DriverPublish
  BY <1>1, PublishSubmits DEF F!Next
<1>2. CASE DriverCollect
  BY <1>2, CollectCollects DEF F!Next
<1>3. CASE DriverReset
  <2>1. EntryByEntry' /\ Lent' = 0 /\ Due' = 0 /\ manual_recv' = manual_recv
    BY <1>3, FifoReset, EntriesNext DEF DriverReset, DeviceReset
  <2>2. inflight' = <<>> /\ done' = <<>>
    BY <2>1, EmptySeq DEF EntryByEntry
  <2> QED  BY <2>1, <2>2 DEF F!Next, F!Reclaim, inflight, done
<1>4. CASE \E t \in Threads : ConsumePublish(t)
  BY <1>4, PublishCompletes DEF F!Next
<1>5. CASE \/ DriverSetup \/ (\E d \in Desc : DriverFill(d)) \/ DriverKick
           \/ WorkerTake \/ NotifyRead \/ NotifyLoop \/ DeviceRecv \/ InputArrives \/ InputWrite
           \/ \E t \in Threads : ConsumeWriteElem(t) \/ Advance(t)
  BY <1>5, OthersStutter
<1>6. CASE UNCHANGED vars
  BY <1>6 DEF vars, memory, driver, queue, F!vars, RingEntries
<1> QED  BY <1>1, <1>2, <1>3, <1>4, <1>5, <1>6 DEF Next, Device

\* For a ring of any size and indices of any width it divides, and however the driver,
\* the worker and the I/O thread interleave, the rings hand each descriptor back once
\* and in order, and never one that was not made available (queue_notify,
\* virtio_consume_desc, virtio_net_write_packet): the safety part of ImplementsFifo.
THEOREM FifoSafety ==
    ASSUME ~RacingResets, MaxResets[TRUE] = 0 PROVE Spec => F!Init /\ [][F!Next]_(F!vars)
<1> QED  BY FifoInit, FifoKeeps, FifoStart, FifoStep, PTL DEF Spec
=============================================================================
