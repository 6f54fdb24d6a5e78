------------------------------ MODULE SlirpIp ------------------------------
(***************************************************************************)
(* The datagrams of slirp (src/src/tinyemu/slirp): what the guest sends by *)
(* UDP or as a ping goes through ip_input, is reassembled when it comes in *)
(* fragments, and is sent by a socket of the host program; answers come    *)
(* back through that socket, ip_output and the queues of if.c.             *)
(*                                                                         *)
(* Two threads of the host program enter slirp: the virtio worker with a   *)
(* frame from the guest (SlirpInput) and the I/O thread, which goes round  *)
(* select_fill, select and select_poll.  Each call, and each socket that   *)
(* select_poll serves, is one step; that nothing keeps the two threads     *)
(* apart inside a step is not modelled.                                    *)
(*                                                                         *)
(* sl is struct Slirp: the queues of IfQueue, the sockets and the          *)
(* incomplete datagrams.  A struct socket is one of a few places in        *)
(* memory; what a freed one holds stays until the place is used again, and *)
(* packets still queued point to it (ifq_so).                              *)
(*                                                                         *)
(* Left out: TCP, DHCP, ARP (the guest asks for its gateway's address      *)
(* before it sends, which tells slirp its own), host forwarding, which the *)
(* program does not configure, "restricted", which it does not set, wrong  *)
(* lengths and checksums, time to live, and the cache udp_last_so, which   *)
(* only shortens the search.  The length of so_expire is not modelled: a   *)
(* socket may expire whenever select_fill looks.                           *)
(***************************************************************************)
EXTENDS IpFragments, IfQueue

CONSTANTS
    Datagram,   \* what the guest sends
    Info,       \* of each: proto, port, dst, low, key, size and answer
    QueueLimit, \* packets queued with which a socket is still read, 4
    Buffers,    \* buffers in the guest's receive ring
    Times       \* bound: how often a datagram gets through to slirp

\* "key" is what tells datagrams apart in ip_input: ip_id, the addresses and the
\* protocol; two with one key bear the same ip_id again.  "size" and "answer"
\* are lengths in units of 8 bytes.
DatagramInfo ==
    [proto : {"udp", "icmp"}, port : STRING, dst : {"dns", "vhost", "out"},
     low : BOOLEAN, key : STRING, size : Nat \ {0}, answer : Nat \ {0}]

ASSUME IpAssumption ==
    /\ Info \in [Datagram -> DatagramInfo]
    /\ {QueueLimit, Buffers, Times} \subseteq Nat

VARIABLES
    sl,      \* struct Slirp
    net,     \* datagrams on their way to a remote host, with the socket used
    io,      \* where the I/O thread is: "fill", "select" or "poll"
    fds,     \* readfds: sockets to be looked at, then those found readable
    slow,    \* do_slowtimo, from select_fill until it is looked at
    guest,   \* of each datagram: "new", "live" or "gone" from the guest's network
    idle     \* of each datagram: ticks of half a second since it is gone

vars == <<sl, net, io, fds, slow, guest, idle>>

Keys == {Info[d].key : d \in Datagram}
NoQueue == [ttl |-> 0, frags |-> <<>>]

\* The contents of datagram d, of which every unit is another.
Contents(d) == [i \in 1 .. Info[d].size |-> <<d, i>>]

\* Where sosendto and icmp_input send what is meant for an address of the
\* guest's network: get_dns_addr's address, or the host itself.
Virtual == {"dns", "vhost"}
Real(dst) == CASE dst = "dns" -> "nameserver" [] dst = "vhost" -> "loopback"
               [] OTHER -> dst

\* A socket that was never used.
NoSock == [st |-> "free", type |-> "udp", lport |-> "", faddr |-> "", low |-> FALSE,
           queued |-> 0, nqueued |-> 0, so_m |-> <<>>, inbox |-> <<>>]

\* What slirp gives to if_output: an echo or an answer (a fragment of it) from
\* src, or an ICMP error that quotes a datagram.
Packet(what, d, src, off) == [what |-> what, d |-> d, src |-> src, off |-> off]

Init ==
    /\ sl = NoPackets @@ [sock |-> [so \in Slot |-> NoSock], room |-> 0,
                          ipq |-> [k \in Keys |-> NoQueue],
                          passed |-> {}, count |-> [d \in Datagram |-> 0]]
    /\ net = {}
    /\ io = "fill"
    /\ fds = {}
    /\ slow = FALSE
    /\ guest = [d \in Datagram |-> "new"]
    /\ idle = [d \in Datagram |-> 0]

-----------------------------------------------------------------------------
(* Sockets *)

Used(s) == {so \in Slot : s.sock[so].st # "free"}
Free(s) == Slot \ Used(s)

\* udp_input's search for the socket of a port of the guest.
Lookup(s, port) == {so \in Used(s) : s.sock[so].lport = port}

\* socreate and udp_attach, in the memory that malloc gives.
Create(s, so, type, port, low) ==
    [s EXCEPT !.sock[so] = [NoSock EXCEPT !.st = "new", !.type = type, !.lport = port,
                                          !.low = low]]

\* udp_detach: the descriptor is closed, with what was not read of it, and the
\* memory is free.  if_start still counts in it what it sends of this socket, and
\* nothing else is read.
udp_detach(s, S) ==
    [s EXCEPT !.sock = [so \in Slot |->
        IF so \in S THEN [NoSock EXCEPT !.queued = s.sock[so].queued,
                                        !.nqueued = s.sock[so].nqueued]
        ELSE s.sock[so]]]

\* An answer to a closed descriptor is lost.
NetWithout(S) == {r \in net : r.so \notin S}

-----------------------------------------------------------------------------
(* Towards the guest *)

\* icmp_error quotes d; it is never cut.
icmp_error(s, d) == if_output(s, NoSocket, Packet("error", d, "vhost", 0))

\* icmp_reflect sends the ping back to where it came from.
icmp_reflect(s, d) == if_output(s, NoSocket, Packet("echo", d, Info[d].dst, 0))

\* Defective: an answer comes from where it really came from.
SourceReal(sock, from) == from

\* udp_output: the address an answer is made to come from.
Source(sock, from) ==
    IF sock.faddr \in Virtual /\ (from = "loopback" \/ sock.faddr # "vhost")
    THEN sock.faddr ELSE from

\* udp_output and ip_output: the answer to d, cut into packets of so's session.
udp_output(s, so, d) ==
    LET src == Source(s.sock[so], Real(Info[d].dst))
    IN  FoldLeft(LAMBDA t, f : if_output(t, so, Packet("answer", d, src, f.off)), s,
                 Cut([i \in 1 .. Info[d].answer |-> i]))

-----------------------------------------------------------------------------
(* From the guest: slirp_input, on the virtio worker *)

\* The socket that a datagram will use: its port's, or a new one; a ping has a
\* socket of its own, unless slirp answers it itself.
SocketsFor(s, d) ==
    CASE Info[d].proto = "udp" /\ Lookup(s, Info[d].port) # {} -> Lookup(s, Info[d].port)
      [] Info[d].proto = "icmp" /\ Info[d].dst = "vhost" -> {NoSocket}
      [] OTHER -> Free(s)

\* udp_input.  The type of service is the packet's: udp_tos looks at so_fport
\* before it is set.  ok says whether sendto succeeded.
udp_input(s, d, so, ok) ==
    LET t == IF so \in Used(s) THEN s
             ELSE Create(s, so, "udp", Info[d].port, Info[d].low)
        u == [t EXCEPT !.sock[so].faddr = Info[d].dst]
        v == IF ok THEN [u EXCEPT !.sock[so].st = "connected"] ELSE icmp_error(u, d)
    IN  [v EXCEPT !.sock[so].so_m = d]

\* icmp_input, of an echo.
icmp_input(s, d, so, ok) ==
    LET t == [Create(s, so, "icmp", "9", Info[d].low) EXCEPT
                 !.sock[so].st = "connected", !.sock[so].faddr = Info[d].dst,
                 !.sock[so].so_m = d]
    IN  IF so = NoSocket THEN icmp_reflect(s, d)
        ELSE IF ok THEN t
        ELSE udp_detach(icmp_error(t, d), {so})

\* The end of ip_input: the whole datagram goes to its protocol.
Pass(s, d, so, ok) ==
    /\ so \in SocketsFor(s, d)
    /\ sl' = LET t == [s EXCEPT !.count[d] = @ + 1]
             IN  IF Info[d].proto = "udp" THEN udp_input(t, d, so, ok)
                 ELSE icmp_input(t, d, so, ok)
    /\ net' = IF ok /\ so # NoSocket THEN net \cup {[so |-> so, d |-> d]} ELSE net

\* The guest's network may still bring d: lost parts, repeated ones, in any
\* order.  A key is used again only when the parts of the datagram that had it
\* cannot come any more and are older than IPFRAGTTL.
MayCome(d) ==
    /\ guest[d] # "gone"
    /\ sl.count[d] < Times
    /\ \A e \in Datagram \ {d} : Info[e].key = Info[d].key =>
            guest[e] = "new" \/ (guest[e] = "gone" /\ idle[e] > FragTtl)
    /\ guest' = [guest EXCEPT ![d] = "live"]

\* A datagram is still to come that has d's key.
Awaited(d) == \E e \in Datagram : guest[e] = "new" /\ Info[e].key = Info[d].key

\* ip_input of a datagram in one piece.
InputWhole(d, so, ok) ==
    /\ Info[d].size <= FragLen
    /\ MayCome(d)
    /\ Pass(sl, d, so, ok)
    /\ UNCHANGED <<io, fds, slow, idle>>

\* The fragments of key k with f, the queue being made when there is none.
Gathered(k, f) ==
    [ttl |-> IF sl.ipq[k] = NoQueue THEN FragTtl ELSE sl.ipq[k].ttl,
     frags |-> Insert(sl.ipq[k].frags, f)]

\* ip_input of a fragment: the units i to j of d.
InputFragment(d, i, j, so, ok) ==
    LET k == Info[d].key
        q == Gathered(k, Frag(i - 1, SubSeq(Contents(d), i, j), j < Info[d].size))
        whole == Joined(q.frags)
    IN  /\ MayCome(d)
        /\ IF Complete(q.frags)
           THEN Pass([sl EXCEPT !.ipq[k] = NoQueue, !.passed = @ \cup {whole}],
                     whole[1][1], so, ok)
           ELSE /\ so = NoSocket /\ ok
                /\ sl' = [sl EXCEPT !.ipq[k] = q]
                /\ UNCHANGED net
        /\ UNCHANGED <<io, fds, slow, idle>>

SlirpInput ==
    \E d \in Datagram, so \in Session, ok \in BOOLEAN :
        \/ InputWhole(d, so, ok)
        \/ \E i, j \in 1 .. Info[d].size :
               i <= j /\ j - i + 1 < Info[d].size /\ InputFragment(d, i, j, so, ok)

-----------------------------------------------------------------------------
(* The I/O thread *)

\* Defective: fragments alone do not ask for the slow timeout.
SlowForSockets(s) == Used(s) # {}

\* do_slowtimo: sockets that expire and incomplete datagrams need a timeout.
SlowWanted(s) == Used(s) # {} \/ \E k \in Keys : s.ipq[k] # NoQueue

\* slirp_select_fill: the sockets of E have expired; the others are watched while
\* the guest is not too far behind with their packets.
SelectFill(E) ==
    LET s == udp_detach(sl, E) IN
    /\ io = "fill"
    /\ io' = "select"
    /\ sl' = s
    /\ net' = NetWithout(E)
    /\ fds' = {so \in Used(s) : s.sock[so].st = "connected"
                                /\ s.sock[so].queued <= QueueLimit}
    /\ slow' = SlowWanted(s)
    /\ UNCHANGED <<guest, idle>>

\* ip_slowtimo.
ip_slowtimo(s) ==
    [s EXCEPT !.ipq = [k \in Keys |->
        IF @[k] = NoQueue \/ @[k].ttl = 1 THEN NoQueue
        ELSE [@[k] EXCEPT !.ttl = @ - 1]]]

\* select returns and slirp_select_poll begins, half a second after its last
\* slow timeout (tick) or before.
SelectPoll(tick) ==
    /\ io = "select"
    /\ io' = "poll"
    /\ sl' = IF tick /\ slow THEN ip_slowtimo(sl) ELSE sl
    /\ fds' = {so \in fds : sl.sock[so].inbox # <<>>}
    /\ idle' = [d \in Datagram |->
                    IF tick /\ guest[d] = "gone" /\ Awaited(d) /\ idle[d] <= FragTtl
                    THEN idle[d] + 1 ELSE idle[d]]
    /\ slow' = FALSE
    /\ UNCHANGED <<net, guest>>

\* sorecvfrom of a socket found readable.  An error is reported with the last
\* datagram sent; a ping's socket is used once.
PollRead(so) ==
    LET sock == sl.sock[so]
        a == Head(sock.inbox)
        s == [sl EXCEPT !.sock[so].inbox = Tail(@)]
        t == IF ~a.ok THEN icmp_error(s, sock.so_m)
             ELSE IF sock.type = "icmp" THEN icmp_reflect(s, sock.so_m)
             ELSE udp_output(s, so, a.d)
    IN  /\ io = "poll"
        /\ so \in fds
        /\ fds' = fds \ {so}
        /\ sl' = IF sock.type = "icmp" THEN udp_detach(t, {so}) ELSE t
        /\ net' = IF sock.type = "icmp" THEN NetWithout({so}) ELSE net
        /\ UNCHANGED <<io, slow, guest, idle>>

\* The end of slirp_select_poll.
PollEnd ==
    /\ io = "poll"
    /\ fds = {}
    /\ io' = "fill"
    /\ sl' = if_start(sl)
    /\ UNCHANGED <<net, fds, slow, guest, idle>>

IoThread ==
    \/ \E E \in SUBSET Used(sl) : SelectFill(E)
    \/ \E tick \in BOOLEAN : SelectPoll(tick)
    \/ \E so \in Slot : PollRead(so)
    \/ PollEnd

-----------------------------------------------------------------------------
(* The remote hosts and the guest *)

\* The host answers a datagram, or refuses it.
Answer(r, ok) ==
    /\ sl' = [sl EXCEPT !.sock[r.so].inbox = Append(@, [d |-> r.d, ok |-> ok])]
    /\ net' = net \ {r}
    /\ UNCHANGED <<io, fds, slow, guest, idle>>

\* The guest's driver makes a buffer available to the net device.
GuestBuffer ==
    /\ sl.room < Buffers
    /\ sl' = [sl EXCEPT !.room = @ + 1]
    /\ UNCHANGED <<net, io, fds, slow, guest, idle>>

\* Nothing of d can come any more: looked at where it lets a key be used again.
GuestDone(d) ==
    /\ guest[d] = "live"
    /\ Awaited(d)
    /\ guest' = [guest EXCEPT ![d] = "gone"]
    /\ UNCHANGED <<sl, net, io, fds, slow, idle>>

Next ==
    \/ SlirpInput
    \/ IoThread
    \/ \E r \in net, ok \in BOOLEAN : Answer(r, ok)
    \/ GuestBuffer
    \/ \E d \in Datagram : GuestDone(d)

\* process_io goes round for ever, as select waits 10 ms at most.  This is weak
\* fairness of IoThread, of which every round has finitely many steps, in a form
\* that asks TLC for no ENABLED.
Rounds == []<>(io = "fill") /\ []<>(io = "poll")

\* Besides, time passes, and the guest's driver gives back the buffers it has
\* emptied.
Spec ==
    /\ Init
    /\ [][Next]_vars
    /\ Rounds
    /\ SF_vars(SelectPoll(TRUE))
    /\ WF_vars(GuestBuffer)

-----------------------------------------------------------------------------
(* Properties *)

\* What ip_reass hands on is one datagram that the guest sent, whole and in order,
\* whatever parts of it came, how often, overlapping or not, and although another
\* datagram had the same key before (ip_reass, ip_slowtimo).
Reassembled == sl.passed \subseteq {Contents(d) : d \in Datagram}

\* The packets of a session leave in the order in which they were output, though
\* it may be moved from one queue to the other under way (if_output: "we'll send
\* it out of order"), and none is lost or repeated in the queues.
SessionOrder ==
    /\ \A so \in Session : Queued(sl, so) = sl.order[so]
    /\ sl.if_queued = FoldLeft(LAMBDA n, e : n + Len(e.pkts), 0, sl.fastq \o sl.batchq)

\* An answer comes to the guest from the address it had sent the datagram to, as
\* long as it uses a port for one address only (udp_output).
AnswersFromAsked ==
    \A so \in Session : \A i \in DOMAIN sl.order[so] :
        sl.order[so][i].what # "error"
            => sl.order[so][i].src = Info[sl.order[so][i].d].dst

\* Nothing stays: an incomplete datagram is completed or given up, and what is
\* queued goes to a guest that takes packets (ip_slowtimo, if_start).
NothingStays ==
    /\ \A k \in Keys : sl.ipq[k] # NoQueue ~> sl.ipq[k] = NoQueue
    /\ sl.if_queued > 0 ~> sl.if_queued = 0
=============================================================================
