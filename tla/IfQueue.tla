------------------------------ MODULE IfQueue ------------------------------
(***************************************************************************)
(* The output queues of slirp (src/src/tinyemu/slirp/if.c), which hold the *)
(* packets for the guest until its driver has given the net device a       *)
(* buffer (slirp_can_output).  Operators only; SlirpIp has the state.      *)
(*                                                                         *)
(* A packet belongs to the session of a socket, or of none (NoSocket, the  *)
(* NULL of the code).  A queue is a list of entries, each one session's    *)
(* packets: if_fastq for sessions of low delay, if_batchq for the others   *)
(* and for those that were too greedy.  next_m is the entry of if_batchq   *)
(* whose turn it is.  A session has one entry there at most, which is why  *)
(* next_m is its socket here; NoEntry stands for the head of the list.     *)
(*                                                                         *)
(* The record s has the fields of struct Slirp: fastq, batchq, next_m,     *)
(* if_queued, and sock, whose so_queued and so_nqueued are counted here.   *)
(* room is the number of buffers the guest's driver has given.  order is   *)
(* not the code's: the packets of each session that were given to          *)
(* if_output and have not left, in that order.                             *)
(***************************************************************************)
EXTENDS Integers, Sequences, SequencesExt, FiniteSetsExt

CONSTANTS
    Slot,     \* places where a struct socket may be
    NoSocket, \* NULL
    Greedy,   \* packets queued without a pause that make a session greedy, 6
    Served    \* of which so many were sent, 3

ASSUME IfAssumption ==
    /\ NoSocket \notin Slot
    /\ {Greedy, Served} \subseteq Nat

Session == Slot \cup {NoSocket}
NoEntry == "if_batchq"

NoPackets ==
    [fastq |-> <<>>, batchq |-> <<>>, next_m |-> NoEntry, if_queued |-> 0,
     order |-> [so \in Session |-> <<>>]]

Entry(so, p) == [so |-> so, pkts |-> <<p>>]

\* The place of so's entry in if_batchq, or 0.
InBatch(s, so) == SelectInSeq(s.batchq, LAMBDA e : e.so = so)

\* so's packets join the last entry of if_fastq.
LastOfFast(s, so) == s.fastq # <<>> /\ Last(s.fastq).so = so

LowDelay(s, so) == so # NoSocket /\ s.sock[so].low

\* Defective: the type of service alone chooses the queue.
PutByService(s, so, p) ==
    IF LowDelay(s, so)
    THEN IF LastOfFast(s, so) THEN [s EXCEPT !.fastq[Len(s.fastq)].pkts = Append(@, p)]
         ELSE [s EXCEPT !.fastq = Append(@, Entry(so, p))]
    ELSE IF InBatch(s, so) > 0 THEN [s EXCEPT !.batchq[InBatch(s, so)].pkts = Append(@, p)]
         ELSE [s EXCEPT !.batchq = Append(@, Entry(so, p))]

\* The first part of if_output: p is queued.  Where if_batchq has the session
\* already, p must go there as well.
Put(s, so, p) ==
    LET b == InBatch(s, so) IN
    CASE b > 0 -> [s EXCEPT !.batchq[b].pkts = Append(@, p)]
      [] b = 0 /\ LowDelay(s, so) /\ LastOfFast(s, so) ->
            [s EXCEPT !.fastq[Len(s.fastq)].pkts = Append(@, p)]
      [] b = 0 /\ LowDelay(s, so) /\ ~LastOfFast(s, so) ->
            [s EXCEPT !.fastq = Append(@, Entry(so, p))]
      [] OTHER -> [s EXCEPT !.batchq = Append(@, Entry(so, p))]

\* A session that keeps queueing while it is being served goes, or goes again,
\* to the front of if_batchq: the entry that has just got a packet.
Downgrade(s, so) ==
    LET b == InBatch(s, so) IN
    IF b > 0
    THEN [s EXCEPT !.batchq = <<s.batchq[b]>> \o RemoveAt(@, b)]
    ELSE [s EXCEPT !.batchq = <<Last(s.fastq)>> \o @, !.fastq = Front(@)]

\* The counts of if_output.
Counted(s, so, p) ==
    LET t == [s EXCEPT !.if_queued = @ + 1, !.order[so] = Append(@, p)]
        u == [t EXCEPT !.sock[so].queued = @ + 1, !.sock[so].nqueued = @ + 1]
    IN  IF so = NoSocket THEN t
        ELSE IF /\ u.sock[so].nqueued >= Greedy
                /\ u.sock[so].nqueued - u.sock[so].queued >= Served
             THEN Downgrade(u, so)
             ELSE u

\* The entry of q at i without its first packet, or q without the entry.
Shorten(q, i) ==
    IF Len(q[i].pkts) = 1 THEN RemoveAt(q, i) ELSE [q EXCEPT ![i].pkts = Tail(@)]

\* The entry of if_batchq to be served: next_m's if it has one.
Turn(s) == IF s.next_m = NoEntry THEN 1 ELSE InBatch(s, s.next_m)

\* ifq_next of the entry served.
AfterTurn(s) ==
    IF Turn(s) = Len(s.batchq) THEN NoEntry ELSE s.batchq[Turn(s) + 1].so

\* so_queued and so_nqueued when a packet of so has left.
Left(s, so) ==
    IF so = NoSocket THEN s
    ELSE [s EXCEPT !.sock[so].queued = @ - 1,
                   !.sock[so].nqueued = IF s.sock[so].queued = 1 THEN 0 ELSE @]

\* One round of if_start: a packet of the first entry of if_fastq, or else of
\* the entry of if_batchq whose turn it is, goes to the guest (if_encap).
SendOne(s) ==
    LET fast == s.fastq # <<>>
        e == IF fast THEN s.fastq[1] ELSE s.batchq[Turn(s)]
        t == IF fast THEN [s EXCEPT !.fastq = Shorten(@, 1)]
             ELSE [s EXCEPT !.batchq = Shorten(@, Turn(s)), !.next_m = AfterTurn(s)]
    IN  Left([t EXCEPT !.if_queued = @ - 1, !.room = @ - 1,
                       !.order[e.so] = RemoveFirst(@, e.pkts[1])], e.so)

\* if_start: as many packets as there are, and as the guest has buffers for.
if_start(s) ==
    FoldLeft(LAMBDA t, i : SendOne(t), s,
             [i \in 1 .. Min({s.if_queued, s.room}) |-> i])

\* if_output.
if_output(s, so, p) == if_start(Counted(Put(s, so, p), so, p))

\* What the queues hold of a session, in the order it would leave.
Queued(s, so) ==
    LET mine(q) == FlattenSeq([i \in 1 .. Len(q) |->
                                  IF q[i].so = so THEN q[i].pkts ELSE <<>>])
    IN  mine(s.fastq) \o mine(s.batchq)
=============================================================================
