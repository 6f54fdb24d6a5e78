------------------------------ MODULE SlirpTcp ------------------------------
(***************************************************************************)
(* The TCP of slirp (src/src/tinyemu/slirp), which is the network when the *)
(* host program has no tun interface.  slirp answers the guest's TCP in    *)
(* the place of the remote host and passes the bytes to and from a socket  *)
(* of the host program.                                                    *)
(*                                                                         *)
(* One connection that the guest opens.  The state is the struct socket    *)
(* with its struct tcpcb: a record, as in the code, because its functions  *)
(* are sequential and end in tcp_output.  Each operator named after a      *)
(* function, or after a stage of tcp_input, maps a record to the record    *)
(* after it.                                                               *)
(*                                                                         *)
(* The guest's segments arrive in the order they were sent (a virtio ring) *)
(* but the guest's driver may have lost some and the guest sends again at  *)
(* any time.  What slirp sent may reach the guest at any time later, in    *)
(* any order, more than once, or never: "wire" holds all of it.            *)
(*                                                                         *)
(* Left out: urgent data, options, so_emu, checksums, malloc failing,      *)
(* ports (one pair, used once: TIME_WAIT is never reopened).  The length   *)
(* of a timer is not modelled: one that is set may expire at any time.     *)
(* snd_cwnd may be any value of at least a segment.  Sequence numbers do   *)
(* not wrap in the bounds used; tcp.h compares them by signed difference.  *)
(***************************************************************************)
EXTENDS Integers, FiniteSets, Sequences, FiniteSetsExt

CONSTANTS
    Mss,         \* t_maxseg, bytes in a segment
    SndSpace,    \* so_snd.sb_datalen
    RcvSpace,    \* so_rcv.sb_datalen
    RexmtThresh, \* TCPREXMTTHRESH, duplicate acks that make slirp send again
    IssIncr,     \* distance of the initial sequence numbers of two sockets
    WndMod,      \* snd_wnd is unsigned: 2^32 in the code
    GuestBytes,  \* bytes the guest writes
    HostBytes,   \* bytes the host application writes
    GuestWindow, \* the guest's receive buffer
    MaxSockets,  \* bound: sockets made for this pair of ports
    FinOnProbe   \* whether the guest's probe of a window may have a FIN: see the guest

ASSUME TcpAssumption ==
    /\ {Mss, SndSpace, RcvSpace, RexmtThresh, WndMod, GuestWindow} \subseteq Nat \ {0}
    /\ {GuestBytes, HostBytes, IssIncr, MaxSockets} \subseteq Nat
    /\ RexmtThresh > 1   \* 3 in tcp_input.c
    /\ HostBytes + 2 < IssIncr
    /\ FinOnProbe \in BOOLEAN

CLOSED == 0
SYN_RECEIVED == 3
ESTABLISHED == 4
CLOSE_WAIT == 5
FIN_WAIT_1 == 6
CLOSING == 7
LAST_ACK == 8
FIN_WAIT_2 == 9
TIME_WAIT == 10

(* so_state is a set of NOFDREF, ISFCONNECTING, ISFCONNECTED, FCANTRCVMORE,
   FCANTSENDMORE and FWDRAIN; t_flags of ACKNOW, DELACK and SENTFIN; timers of
   REXMT, PERSIST and 2MSL.  KEEP is always set: see KeepTimeout. *)

VARIABLES
    so,     \* the socket, its tcpcb, and what the host has seen of so->s
    made,   \* sockets made so far; tcp_iss is IssIncr times this
    wire,   \* all that was sent to the guest: <<sequence number, what>>
    guest,  \* the guest's end of the connection
    host    \* the host application's end

vars == <<so, made, wire, guest, host>>

\* What travels to the guest.
Byte(seq, b) == [seq |-> seq, what |-> "DATA", byte |-> b]
Syn(seq) == [seq |-> seq, what |-> "SYN", byte |-> 0]
Fin(seq) == [seq |-> seq, what |-> "FIN", byte |-> 0]
Rst == [seq |-> 0, what |-> "RST", byte |-> 0]

\* socreate and tcp_newtcpcb.  The last three fields are not slirp's: "got" is
\* what the host was given, "end" how it was told that no more will come, and
\* "out" what the function under way has sent so far.
NewSocket ==
    [t_state |-> CLOSED, so_state |-> {"NOFDREF"}, so_snd |-> <<>>, so_rcv |-> <<>>,
     reass |-> {}, t_flags |-> {}, timers |-> {}, t_dupacks |-> 0,
     iss |-> 0, snd_una |-> 0, snd_nxt |-> 0, snd_max |-> 0,
     snd_wnd |-> 0, snd_wl1 |-> 0, snd_wl2 |-> 0, max_sndwnd |-> 0,
     rcv_nxt |-> 0, rcv_adv |-> 0,
     got |-> <<>>, end |-> "open", out |-> {}]

NewHost == [sent |-> 0, read |-> 0, eof |-> FALSE, reset |-> FALSE, early |-> FALSE]

Init ==
    /\ so = NewSocket
    /\ made = 0
    /\ wire = {}
    /\ guest = [st |-> "syn", nxt |-> 0, rcv |-> 0, got |-> <<>>, read |-> 0]
    /\ host = NewHost

-----------------------------------------------------------------------------
(* Socket buffers and socket states *)

sbspace(p) == RcvSpace - Len(p.so_rcv)

\* The elements of s after the first n.
From(s, n) == SubSeq(s, n + 1, Len(s))

\* sbappendsb copies what fits and forgets the rest.  In a full buffer the two
\* pointers are equal, which it takes for an empty one: the count grows beyond
\* the buffer, whose contents are then overwritten.
sbappendsb(p, data) ==
    LET room == IF sbspace(p) = 0 THEN RcvSpace ELSE sbspace(p)
    IN  [p EXCEPT !.so_rcv = @ \o SubSeq(data, 1, Min({Len(data), room}))]

\* sbappend: straight to the host's socket, of which k bytes are taken, when
\* nothing waits in the buffer.
sbappend(p, data, k) ==
    LET n == IF p.so_rcv = <<>> THEN Min({k, Len(data)}) ELSE 0
    IN  sbappendsb([p EXCEPT !.got = @ \o SubSeq(data, 1, n)], From(data, n))

sofcantrcvmore(p) ==
    [p EXCEPT !.so_state = IF "FCANTSENDMORE" \in @ THEN {"NOFDREF"}
                           ELSE (@ \ {"ISFCONNECTING"}) \cup {"FCANTRCVMORE"}]

\* shutdown(so->s, 1) is how the host learns that the guest's stream has ended.
sofcantsendmore(p) ==
    [p EXCEPT !.so_state = IF "FCANTRCVMORE" \in @ THEN {"NOFDREF"}
                           ELSE (@ \ {"ISFCONNECTING"}) \cup {"FCANTSENDMORE"},
              !.end = IF "NOFDREF" \in p.so_state THEN @ ELSE "eof"]

\* Defective: shut down without waiting for the buffer to drain.
sofwdrainAtOnce(p) == sofcantsendmore(p)

sofwdrain(p) ==
    IF p.so_rcv # <<>> THEN [p EXCEPT !.so_state = @ \cup {"FWDRAIN"}]
    ELSE sofcantsendmore(p)

\* tcp_close, for the reason given: everything is freed, so->s is closed.
tcp_close(p, why) == [NewSocket EXCEPT !.got = p.got, !.end = why, !.out = p.out]

\* dropwithreset: tcp_respond with TH_RST.
DropWithReset(p) == [p EXCEPT !.out = @ \cup {Rst}]

-----------------------------------------------------------------------------
(* tcp_output *)

tcp_outflags ==
    [s \in CLOSED .. TIME_WAIT |->
        CASE s = CLOSED -> {"RST", "ACK"}
          [] s = SYN_RECEIVED -> {"SYN", "ACK"}
          [] s \in {FIN_WAIT_1, CLOSING, LAST_ACK} -> {"FIN", "ACK"}
          [] OTHER -> {"ACK"}]

\* The window to send into: a forced call (the persist timer) puts one byte
\* into a window of 0.
SendWindow(p, cwnd, force) ==
    LET win == Min({p.snd_wnd, cwnd}) IN IF force /\ win = 0 THEN 1 ELSE win

\* Bytes of so_snd the window admits after snd_nxt; negative when it shrank, or
\* when the FIN is outstanding.
Room(p, cwnd, force) ==
    Min({Len(p.so_snd), SendWindow(p, cwnd, force)}) - (p.snd_nxt - p.snd_una)

\* A forced call with a window leaves the persist state.  A window that shrank
\* to nothing takes snd_nxt back to it.
BeforeSend(p, cwnd, force) ==
    LET win == Min({p.snd_wnd, cwnd})
        q == IF force /\ win # 0 THEN [p EXCEPT !.timers = @ \ {"PERSIST"}] ELSE p
    IN  IF Room(p, cwnd, force) < 0 /\ win = 0 /\ ~force
        THEN [q EXCEPT !.timers = @ \ {"REXMT"}, !.snd_nxt = q.snd_una]
        ELSE q

\* The window update is worth a segment of its own.
WindowUpdate(p) ==
    LET adv == sbspace(p) - (p.rcv_adv - p.rcv_nxt)
    IN  sbspace(p) > 0 /\ (adv >= 2 * Mss \/ 2 * adv >= RcvSpace)

\* The FIN goes after the last byte of so_snd.
FinFits(p, seq) == seq >= p.snd_una + Len(p.so_snd)

\* What would be sent: n bytes of so_snd after the first off, in segments of at
\* most Mss of which the last has the FIN.  A last segment that is not full is
\* kept back unless it empties the buffer, is forced, fills half of the largest
\* window seen, is sent again, or goes with something that must be sent.
ToSend(p, cwnd, force) ==
    LET q == BeforeSend(p, cwnd, force)
        off == p.snd_nxt - p.snd_una
        len == Max({Room(p, cwnd, force), 0})
        tail == len % Mss
        cc == Len(p.so_snd)
        end == q.snd_una + cc
        wantsFin == /\ "FIN" \in tcp_outflags[p.t_state]
                    /\ ~(force /\ Min({p.snd_wnd, cwnd}) = 0 /\ off < cc)
        owed == \/ "ACKNOW" \in p.t_flags
                \/ WindowUpdate(p)
                \/ tcp_outflags[p.t_state] \cap {"SYN", "RST"} # {}
                \/ /\ wantsFin
                   /\ q.snd_nxt + len >= end
                   /\ "SENTFIN" \notin p.t_flags \/ q.snd_nxt = q.snd_una
        smallOk == \/ len + off >= cc
                   \/ force
                   \/ p.max_sndwnd > 0 /\ tail >= p.max_sndwnd \div 2
                   \/ q.snd_nxt + (len - tail) < p.snd_max
                   \/ owed /\ len < Mss
        n == IF tail > 0 /\ ~smallOk THEN len - tail ELSE len
    IN  [off |-> off, n |-> n, owed |-> owed,
         fin |-> wantsFin /\ FinFits(q, q.snd_nxt + n)]

\* Defective: the whole buffer is promised, whatever waits in it.
AdvertiseAll(p) == Max({RcvSpace, p.rcv_adv - p.rcv_nxt})

\* The window advertised: not less than what was promised before, and nothing
\* of a space that is silly.
Advertise(p) ==
    LET space == sbspace(p)
        win == IF space < RcvSpace \div 4 /\ space < Mss THEN 0 ELSE space
    IN  Max({win, p.rcv_adv - p.rcv_nxt})

\* The "send" part, for all the segments of one call ("goto again").
Send(p, d, force) ==
    LET syn == "SYN" \in tcp_outflags[p.t_state]
        first == IF syn THEN p.iss
                 ELSE IF d.fin /\ "SENTFIN" \in p.t_flags /\ p.snd_nxt = p.snd_max
                 THEN p.snd_nxt - 1 ELSE p.snd_nxt
        what == {Byte(first + i - 1, p.so_snd[d.off + i]) : i \in 1 .. d.n}
                \cup (IF syn THEN {Syn(first)} ELSE {})
                \cup (IF d.fin THEN {Fin(first + d.n)} ELSE {})
                \cup (IF p.t_state = CLOSED THEN {Rst} ELSE {})
        nxt == first + d.n + (IF syn THEN 1 ELSE 0) + (IF d.fin THEN 1 ELSE 0)
        probe == force /\ "PERSIST" \in p.timers
        win == Advertise(p)
        arm == ~probe /\ "REXMT" \notin p.timers /\ nxt # p.snd_una
    IN  [p EXCEPT
            !.out = @ \cup what,
            !.snd_nxt = IF probe THEN first ELSE nxt,
            !.snd_max = Max({@, IF probe THEN first + d.n ELSE nxt}),
            !.timers = IF arm THEN (@ \ {"PERSIST"}) \cup {"REXMT"} ELSE @,
            !.rcv_adv = IF win > 0 THEN Max({@, p.rcv_nxt + win}) ELSE @,
            !.t_flags = (@ \ {"ACKNOW", "DELACK"})
                        \cup (IF d.fin /\ ~probe THEN {"SENTFIN"} ELSE {})]

\* When there is nothing to send now, but data waits, the persist timer is started.
SendOrWait(p, d, force) ==
    IF d.n > 0 \/ d.owed THEN Send(p, d, force)
    ELSE IF p.so_snd # <<>> /\ p.timers \cap {"REXMT", "PERSIST"} = {}
    THEN [p EXCEPT !.timers = @ \cup {"PERSIST"}]
    ELSE p

\* F(x), with x evaluated once.
Let(x, F(_)) == CHOOSE r \in {F(y) : y \in {x}} : TRUE

\* tcp_output(tp) with the congestion window cwnd; force is t_force.
tcp_output(so0, cwnd, force) ==
    Let(so0, LAMBDA p : Let(ToSend(p, cwnd, force), LAMBDA d :
        SendOrWait(BeforeSend(p, cwnd, force), d, force)))

\* tcp_sockclosed: the host side has no more to send.
tcp_sockclosed(p, cwnd) ==
    tcp_output([p EXCEPT !.t_state = CASE @ \in {SYN_RECEIVED, ESTABLISHED} -> FIN_WAIT_1
                                       [] @ = CLOSE_WAIT -> LAST_ACK
                                       [] OTHER -> @], cwnd, FALSE)

\* tcp_drop: a reset for the guest, then tcp_close.
tcp_drop(p, cwnd) ==
    tcp_close(tcp_output([p EXCEPT !.t_state = CLOSED], cwnd, FALSE), "dropped")

-----------------------------------------------------------------------------
(* tcp_reass: segments that arrived ahead of their turn *)

EndOf(e) == e.seq + Len(e.data)

\* e without its first i bytes (m_adj and ti_seq).
Trim(e, i) == [e EXCEPT !.seq = @ + i, !.data = From(@, i)]

\* The queue with segment e: what an earlier segment holds is taken from e, what
\* e holds is taken from the later ones; one that is wholly held is dropped, with
\* its FIN.
Enqueue(queue, e) ==
    LET before == {q \in queue : q.seq <= e.seq}
        after == queue \ before
        i == IF before = {} THEN 0 ELSE Max({EndOf(q) : q \in before}) - e.seq
        f == IF i > 0 THEN Trim(e, i) ELSE e
        over(q) == EndOf(f) - q.seq
    IN  IF i > 0 /\ i >= Len(e.data) THEN queue
        ELSE before \cup {f} \cup {q \in after : over(q) <= 0}
             \cup {Trim(q, over(q)) : q \in {r \in after : over(r) > 0 /\ over(r) < Len(r.data)}}

\* The segments that follow on rcv_nxt without a hole.
InTurn(queue, rcv_nxt) ==
    {e \in queue : /\ e.seq >= rcv_nxt
                   /\ \A b \in rcv_nxt .. e.seq - 1 :
                        \E f \in queue : f.seq <= b /\ b < EndOf(f)}

\* Give them to the socket buffer, or to nobody when the host takes no more.
\* Returns whether the last one has the FIN.
Present(p, k) ==
    LET turn == InTurn(p.reass, p.rcv_nxt)
        end == Max({EndOf(e) : e \in turn})
        holder(b) == CHOOSE e \in turn : e.seq <= b /\ b < EndOf(e)
        data == [i \in 1 .. end - p.rcv_nxt |->
                    LET b == p.rcv_nxt + i - 1 IN holder(b).data[b - holder(b).seq + 1]]
        q == [p EXCEPT !.reass = @ \ turn, !.rcv_nxt = end]
    IN  IF p.t_state < ESTABLISHED \/ ~\E e \in p.reass : e.seq = p.rcv_nxt
        THEN [so |-> p, fin |-> FALSE]
        ELSE [so |-> IF "FCANTSENDMORE" \in p.so_state THEN q ELSE sbappend(q, data, k),
              fin |-> \E e \in turn : e.fin /\ \A f \in turn : f.seq <= e.seq]

\* Defective: straight to the socket buffer whenever nothing waits.
TCP_REASS_Unordered(p, s, k) ==
    [so |-> sbappend([p EXCEPT !.rcv_nxt = @ + Len(s.data)], s.data, k), fin |-> s.fin]

\* The macro TCP_REASS: a segment in its turn, with nothing waiting, goes straight
\* to the socket buffer and its ack may be delayed.  The FIN is that of the header,
\* even when tcp_input has trimmed it (ti_flags, not tiflags).
TCP_REASS(p, s, k) ==
    LET e == [seq |-> s.seq, data |-> s.data, fin |-> s.fin]
        r == Present([p EXCEPT !.reass = Enqueue(@, e)], k)
    IN  IF s.seq = p.rcv_nxt /\ p.reass = {} /\ p.t_state = ESTABLISHED
        THEN [so |-> sbappend([p EXCEPT !.rcv_nxt = @ + Len(s.data),
                                        !.t_flags = @ \cup {"DELACK"}], s.data, k),
              fin |-> e.fin]
        ELSE [r EXCEPT !.so.t_flags = @ \cup {"ACKNOW"}]

-----------------------------------------------------------------------------
(* tcp_input, by stages.  s is the segment: seq, ack, win, data, flags     *)
(* (the local tiflags) and fin (TH_FIN of the header, ti->ti_flags, which  *)
(* nothing clears).                                                        *)

\* Acknowledged bytes leave so_snd.
Sbdrop(p, acked) == [p EXCEPT !.so_snd = From(@, Min({acked, Len(@)}))]

\* Defective: every ack of something new stops the timer.
RestartRexmtNever(p, ack) == [p EXCEPT !.timers = @ \ {"REXMT"}]

RestartRexmt(p, ack) ==
    [p EXCEPT !.timers = IF ack = p.snd_max THEN @ \ {"REXMT"}
                         ELSE IF "PERSIST" \in @ THEN @ ELSE @ \cup {"REXMT"}]

\* Header prediction: nothing but the next data, or nothing but an ack of new
\* data, on an established connection with an unchanged window.
Predicted(p, s) ==
    /\ p.t_state = ESTABLISHED
    /\ s.flags = {"ACK"}
    /\ s.seq = p.rcv_nxt
    /\ s.win > 0 /\ s.win = p.snd_wnd
    /\ p.snd_nxt = p.snd_max

PureAck(p, s, cwnd) ==
    /\ s.data = <<>>
    /\ s.ack > p.snd_una /\ s.ack <= p.snd_max
    /\ cwnd >= p.snd_wnd

PureData(p, s) ==
    /\ s.data # <<>>
    /\ s.ack = p.snd_una
    /\ p.reass = {}
    /\ Len(s.data) <= sbspace(p)

OnPureAck(p, s, cwnd) ==
    LET q == RestartRexmt([Sbdrop(p, s.ack - p.snd_una) EXCEPT !.snd_una = s.ack], s.ack)
    IN  IF q.so_snd # <<>> THEN tcp_output(q, cwnd, FALSE) ELSE q

OnPureData(p, s, cwnd, k) ==
    tcp_output([sbappend([p EXCEPT !.rcv_nxt = @ + Len(s.data)], s.data, k)
                    EXCEPT !.t_flags = @ \cup {"ACKNOW"}], cwnd, FALSE)

\* What begins before rcv_nxt loses its leading part; a segment with nothing new
\* asks for an ack and loses its FIN.
TrimLeft(p, s) ==
    LET syn == IF s.seq < p.rcv_nxt /\ "SYN" \in s.flags THEN 1 ELSE 0
        old == p.rcv_nxt - s.seq - syn
        len == Len(s.data)
        nothing == old > len \/ (old = len /\ "FIN" \notin s.flags)
        drop == IF nothing THEN len ELSE old
    IN  IF p.rcv_nxt <= s.seq THEN [so |-> p, seg |-> s]
        ELSE [so |-> IF nothing THEN [p EXCEPT !.t_flags = @ \cup {"ACKNOW"}] ELSE p,
              seg |-> [s EXCEPT !.seq = @ + syn + drop,
                                !.data = From(@, drop),
                                !.flags = @ \ ({"SYN"} \cup IF nothing THEN {"FIN"} ELSE {})]]

rcv_wnd(p) == Max({sbspace(p), p.rcv_adv - p.rcv_nxt})

\* Bytes of s after the window.  They are cut off, with the FIN of tiflags.
Beyond(p, s) == (s.seq + Len(s.data)) - (p.rcv_nxt + rcv_wnd(p))

\* Defective: all of it is taken.
TrimRightNever(p, s) == s

TrimRight(p, s) ==
    IF Beyond(p, s) <= 0 THEN s
    ELSE [s EXCEPT !.data = SubSeq(@, 1, Len(@) - Beyond(p, s)), !.flags = @ \ {"FIN"}]

\* snd_wnd is unsigned: more than it says may be acknowledged, when a probe went
\* beyond it.
Less(wnd, n) == (wnd - n) % WndMod

\* synrx_to_est: an ack of something new.  More acknowledged than so_snd holds
\* means that the FIN is acknowledged.
NewAck(p, s) ==
    LET acked == s.ack - p.snd_una
        gone == Min({acked, Len(p.so_snd)})
        q == RestartRexmt(Sbdrop(p, acked), s.ack)
    IN  [so |-> [q EXCEPT !.t_dupacks = 0,
                          !.snd_wnd = Less(@, gone),
                          !.snd_una = s.ack,
                          !.snd_nxt = Max({@, s.ack})],
         finAcked |-> acked > Len(p.so_snd),
         output |-> s.ack = p.snd_max]

\* What the ack of the FIN changes.  FIN_WAIT_2 is left after a while when the
\* host is gone.
FinAcked(p) ==
    CASE p.t_state = FIN_WAIT_1 ->
            [p EXCEPT !.t_state = FIN_WAIT_2,
                      !.timers = @ \cup IF "FCANTRCVMORE" \in p.so_state THEN {"2MSL"} ELSE {}]
      [] p.t_state = CLOSING -> [p EXCEPT !.t_state = TIME_WAIT, !.timers = {"2MSL"}]
      [] p.t_state = LAST_ACK -> tcp_close(p, "done")
      [] OTHER -> p

\* The third ack of the same byte: send one segment from it again at once.
FastRexmt(p, s) ==
    LET q == tcp_output([p EXCEPT !.t_dupacks = @ + 1, !.snd_nxt = s.ack,
                                  !.timers = @ \ {"REXMT"}], Mss, FALSE)
    IN  [q EXCEPT !.snd_nxt = Max({@, p.snd_nxt})]

Duplicate(p, s) ==
    s.ack <= p.snd_una /\ s.data = <<>> /\ s.win = p.snd_wnd

CountedDup(p, s) ==
    Duplicate(p, s) /\ "REXMT" \in p.timers /\ s.ack = p.snd_una

\* step6: the window of the newest segment.
UpdatesWindow(p, s) ==
    \/ p.snd_wl1 < s.seq
    \/ /\ p.snd_wl1 = s.seq
       /\ p.snd_wl2 < s.ack \/ (p.snd_wl2 = s.ack /\ s.win > p.snd_wnd)

WindowOf(p, s) ==
    IF UpdatesWindow(p, s)
    THEN [p EXCEPT !.snd_wnd = s.win, !.snd_wl1 = s.seq, !.snd_wl2 = s.ack,
                   !.max_sndwnd = Max({@, s.win})]
    ELSE p

\* The FIN of the guest: the socket is shut down once all is written.
OnFin(p) ==
    LET q == sofwdrain([p EXCEPT !.t_flags = @ \cup {"ACKNOW"}, !.rcv_nxt = @ + 1])
    IN  CASE p.t_state \in {SYN_RECEIVED, ESTABLISHED} -> [q EXCEPT !.t_state = CLOSE_WAIT]
          [] p.t_state = FIN_WAIT_1 -> [q EXCEPT !.t_state = CLOSING]
          [] p.t_state = FIN_WAIT_2 -> [q EXCEPT !.t_state = TIME_WAIT, !.timers = {"2MSL"}]
          [] OTHER -> q

\* From step6 to the end of tcp_input.
Step6(p, s, needoutput, cwnd, k) ==
    LET w == WindowOf(p, s)
        text == (s.data # <<>> \/ "FIN" \in s.flags) /\ p.t_state < TIME_WAIT
        r == IF text THEN TCP_REASS(w, s, k) ELSE [so |-> w, fin |-> FALSE]
        q == IF r.fin THEN OnFin(r.so) ELSE r.so
    IN  IF needoutput \/ UpdatesWindow(p, s) \/ "ACKNOW" \in q.t_flags
        THEN tcp_output(q, cwnd, FALSE) ELSE q

DropAfterAck(p, cwnd) ==
    tcp_output([p EXCEPT !.t_flags = @ \cup {"ACKNOW"}], cwnd, FALSE)

\* An ack in ESTABLISHED and later states.
AckStates(p, s, cwnd, k) ==
    IF s.ack <= p.snd_una THEN
        IF CountedDup(p, s) /\ p.t_dupacks + 1 = RexmtThresh THEN FastRexmt(p, s)
        ELSE IF CountedDup(p, s) /\ p.t_dupacks + 1 > RexmtThresh
        THEN tcp_output(p, cwnd, FALSE)
        ELSE Step6([p EXCEPT !.t_dupacks = IF CountedDup(p, s) THEN @ + 1 ELSE 0],
                   s, FALSE, cwnd, k)
    ELSE IF s.ack > p.snd_max THEN DropAfterAck([p EXCEPT !.t_dupacks = 0], cwnd)
    ELSE LET a == NewAck(p, s)
             q == IF a.finAcked THEN FinAcked(a.so) ELSE a.so
         IN  IF p.t_state = LAST_ACK /\ a.finAcked THEN q
             ELSE IF p.t_state = TIME_WAIT
             THEN DropAfterAck([q EXCEPT !.timers = @ \cup {"2MSL"}], cwnd)
             ELSE Step6(q, s, a.output, cwnd, k)

\* The ack of slirp's SYN: what came early is given to the host now.
AckOfSyn(p, s, cwnd, k) ==
    LET q == Present([p EXCEPT !.t_state = ESTABLISHED, !.snd_una = s.ack,
                               !.so_state = (@ \ {"ISFCONNECTING", "FWDRAIN", "NOFDREF"})
                                            \cup {"ISFCONNECTED"},
                               !.snd_wl1 = s.seq - 1], k).so
        a == NewAck(q, s)
    IN  IF s.ack > p.snd_max \/ s.ack < p.snd_una THEN DropWithReset(p)
        ELSE Step6(a.so, s, a.output, cwnd, k)

\* A segment on a connection whose host side is connected.
OnSegment(p, s0, cwnd, k) ==
    LET l == TrimLeft(p, s0)
        q == l.so
        s == TrimRight(q, l.seg)
        atEdge == rcv_wnd(q) = 0 /\ l.seg.seq = q.rcv_nxt
        r == IF Beyond(q, l.seg) > 0 /\ Beyond(q, l.seg) >= Len(l.seg.data)
             THEN [q EXCEPT !.t_flags = @ \cup {"ACKNOW"}] ELSE q
    IN  IF Predicted(p, s0) /\ PureAck(p, s0, cwnd) THEN OnPureAck(p, s0, cwnd)
        ELSE IF Predicted(p, s0) /\ PureData(p, s0) THEN OnPureData(p, s0, cwnd, k)
        ELSE IF "NOFDREF" \in q.so_state /\ q.t_state > CLOSE_WAIT /\ l.seg.data # <<>>
        THEN DropWithReset(tcp_close(q, "reset"))
        ELSE IF Beyond(q, l.seg) > 0 /\ Beyond(q, l.seg) >= Len(l.seg.data) /\ ~atEdge
        THEN IF "RST" \in s0.flags THEN q ELSE DropAfterAck(q, cwnd)
        ELSE IF "RST" \in s.flags THEN tcp_close(r, "reset")
        ELSE IF "SYN" \in s.flags THEN DropWithReset(tcp_drop(r, cwnd))
        ELSE IF "ACK" \notin s.flags THEN r
        ELSE IF r.t_state = SYN_RECEIVED THEN AckOfSyn(r, s, cwnd, k)
        ELSE AckStates(r, s, cwnd, k)

-----------------------------------------------------------------------------
(* Steps of slirp: a segment on the virtio worker's thread, the rest on    *)
(* the I/O thread.                                                         *)

\* The function under way has returned p.
Returns(p) ==
    \E q \in {p} : so' = [q EXCEPT !.out = {}] /\ wire' = wire \cup q.out

\* More than all of the host's bytes, or the guest's window, makes no difference.
Cwnds == Mss .. Max({Mss, HostBytes, GuestWindow})

\* What the host's socket takes of a direct write.
Taken == IF host.reset THEN {0} ELSE 0 .. Mss

Exists == so.t_state # CLOSED
Connecting == "ISFCONNECTING" \in so.so_state

\* A lone SYN for a pair of ports without a socket: make one and connect, which
\* fails at once (with a reset, or with an ICMP error) or goes on in the background.
OnSyn ==
    /\ made < MaxSockets
    /\ made' = made + 1
    /\ \/ \E refusal \in {{Rst}, {}} : Returns([NewSocket EXCEPT !.out = refusal])
       \/ Returns([NewSocket EXCEPT !.t_state = SYN_RECEIVED, !.so_state = {"ISFCONNECTING"}])

\* tcp_input with segment s.
tcp_input(s) ==
    \/ ~Exists /\ s.flags = {"SYN"} /\ OnSyn
    \/ ~Exists /\ s.flags # {"SYN"} /\ Returns(DropWithReset(so)) /\ UNCHANGED made
    \/ Exists /\ Connecting /\ UNCHANGED <<so, wire, made>>
    \/ /\ Exists /\ ~Connecting
       /\ \E cwnd \in Cwnds, k \in Taken : Returns(OnSegment(so, s, cwnd, k))
       /\ UNCHANGED made

\* The connection to the host is there: tcp_input(NULL), cont_conn.  The guest's
\* SYN, with sequence number 0, was kept in so_m.
Connected ==
    /\ Exists /\ Connecting
    /\ LET iss == made * IssIncr IN
       Returns(tcp_output([so EXCEPT !.so_state = {},
                                     !.iss = iss, !.snd_una = iss, !.snd_nxt = iss,
                                     !.snd_max = iss, !.rcv_nxt = 1, !.rcv_adv = 1,
                                     !.t_flags = {"ACKNOW"}], Mss, FALSE))
    /\ host' = NewHost
    /\ UNCHANGED <<made, guest>>

ConnectFails ==
    /\ Exists /\ Connecting
    /\ Returns(DropWithReset(tcp_close(so, "refused")))
    /\ UNCHANGED <<made, guest, host>>

\* select and soread, then tcp_output.
SoRead ==
    /\ "ISFCONNECTED" \in so.so_state /\ "FCANTRCVMORE" \notin so.so_state
    /\ 2 * Len(so.so_snd) < SndSpace
    /\ ~host.reset
    /\ \E n \in 1 .. Min({host.sent - host.read, SndSpace - Len(so.so_snd)}), cwnd \in Cwnds :
        /\ Returns(tcp_output([so EXCEPT !.so_snd = @ \o [i \in 1 .. n |-> host.read + i]],
                              cwnd, FALSE))
        /\ host' = [host EXCEPT !.read = @ + n]
    /\ UNCHANGED <<made, guest>>

\* soread finds the end of the host's stream, or an error.
SoReadEnds ==
    /\ "ISFCONNECTED" \in so.so_state /\ "FCANTRCVMORE" \notin so.so_state
    /\ 2 * Len(so.so_snd) < SndSpace
    /\ host.reset \/ (host.eof /\ host.read = host.sent)
    /\ \E cwnd \in Cwnds : Returns(tcp_sockclosed(sofcantrcvmore(so), cwnd))
    /\ UNCHANGED <<made, guest, host>>

\* select and sowrite.
SoWrite ==
    /\ "ISFCONNECTED" \in so.so_state /\ "FCANTSENDMORE" \notin so.so_state
    /\ ~host.reset
    /\ \E n \in 1 .. Len(so.so_rcv) :
        LET p == [so EXCEPT !.got = @ \o SubSeq(so.so_rcv, 1, n), !.so_rcv = From(@, n)] IN
        Returns(IF "FWDRAIN" \in p.so_state /\ p.so_rcv = <<>> THEN sofcantsendmore(p) ELSE p)
    /\ UNCHANGED <<made, guest, host>>

SoWriteFails ==
    /\ "ISFCONNECTED" \in so.so_state /\ "FCANTSENDMORE" \notin so.so_state
    /\ so.so_rcv # <<>>
    /\ host.reset
    /\ \E cwnd \in Cwnds : Returns(tcp_sockclosed(sofcantsendmore(so), cwnd))
    /\ UNCHANGED <<made, guest, host>>

tcp_fasttimo ==
    /\ "DELACK" \in so.t_flags
    /\ \E cwnd \in Cwnds : Returns(DropAfterAck([so EXCEPT !.t_flags = @ \ {"DELACK"}], cwnd))
    /\ UNCHANGED <<made, guest, host>>

\* tcp_timers.  Retransmission starts again from snd_una; after enough attempts
\* the connection is given up.
RexmtTimeout ==
    /\ "REXMT" \in so.timers
    /\ Returns(tcp_output([so EXCEPT !.snd_nxt = so.snd_una, !.t_dupacks = 0], Mss, FALSE))
    /\ UNCHANGED <<made, guest, host>>

RexmtGivesUp ==
    /\ "REXMT" \in so.timers
    /\ Returns(tcp_drop(so, Mss))
    /\ UNCHANGED <<made, guest, host>>

PersistTimeout ==
    /\ "PERSIST" \in so.timers
    /\ \E cwnd \in Cwnds : Returns(tcp_output(so, cwnd, TRUE))
    /\ UNCHANGED <<made, guest, host>>

\* A connection that is not established in time is dropped.  While the host is
\* being connected the header template is blank: the guest is not told.
KeepTimeout ==
    /\ Exists /\ so.t_state < ESTABLISHED
    /\ Returns(IF Connecting THEN tcp_close(so, "dropped") ELSE tcp_drop(so, Mss))
    /\ UNCHANGED <<made, guest, host>>

TwoMslTimeout ==
    /\ "2MSL" \in so.timers
    /\ Returns(tcp_close(so, IF so.t_state = TIME_WAIT THEN "done" ELSE "dropped"))
    /\ UNCHANGED <<made, guest, host>>

-----------------------------------------------------------------------------
(* The guest's TCP and the host application, which are not in src.  The    *)
(* guest numbers its SYN 0, its bytes from 1 and its FIN after them; it    *)
(* keeps within the window it was promised, but for one byte (a probe).    *)
(* A TCP that derives from BSD, tcp_output.c here included, sends no FIN   *)
(* with a probe; what slirp does with one is seen when FinOnProbe.         *)

GuestFin == GuestBytes + 1

GuestWin == GuestWindow - (Len(guest.got) - guest.read)

\* The segment of the n bytes from seq on, sent for the first time or again.
GuestSegment(seq, n, flags) ==
    [seq |-> seq, ack |-> guest.rcv, win |-> GuestWin,
     flags |-> {"ACK"} \cup flags, fin |-> "FIN" \in flags,
     data |-> [i \in 1 .. n |-> seq + i - 1]]

GuestSyn ==
    /\ guest.st = "syn"
    /\ tcp_input([seq |-> 0, ack |-> 0, win |-> 0, flags |-> {"SYN"}, fin |-> FALSE,
                  data |-> <<>>])
    /\ UNCHANGED <<guest, host>>

\* It is sent, and arrives or is lost.
GuestSends(seq, n, flags) ==
    /\ guest.st = "est"
    /\ \/ tcp_input(GuestSegment(seq, n, flags))
       \/ UNCHANGED <<so, made, wire>>
    /\ guest' = [guest EXCEPT !.nxt =
                    Max({@, seq + n + IF "FIN" \in flags THEN 1 ELSE 0})]
    /\ UNCHANGED host

GuestAck == GuestSends(guest.nxt, 0, {})

\* New data, or data already sent.
GuestData ==
    \E seq \in 1 .. guest.nxt, n \in 1 .. Mss, flags \in {{}, {"FIN"}} :
        /\ seq + n <= GuestFin
        /\ "FIN" \in flags => seq + n = GuestFin
        /\ guest.st = "est" => seq + n <= Max({guest.nxt, so.rcv_adv + 1})
        /\ Exists /\ "FIN" \in flags => FinOnProbe \/ seq + n <= so.rcv_adv
        /\ GuestSends(seq, n, flags)

GuestFins ==
    /\ guest.nxt >= GuestFin
    /\ GuestSends(GuestFin, 0, {"FIN"})

\* The guest aborts, or refuses what it does not know.
GuestResets ==
    /\ guest.st = "est" \/ (guest.st = "dead" /\ Exists)
    /\ tcp_input([seq |-> IF guest.st = "est" THEN guest.nxt ELSE so.rcv_nxt,
                  ack |-> 0, win |-> 0, flags |-> {"RST"}, fin |-> FALSE, data |-> <<>>])
    /\ guest' = [guest EXCEPT !.st = "dead"]
    /\ UNCHANGED host

\* The guest gets something that slirp sent.
GuestGetsSyn ==
    /\ guest.st = "syn"
    /\ \E w \in wire : /\ w = Syn(w.seq)
                       /\ guest' = [guest EXCEPT !.st = "est", !.rcv = w.seq + 1, !.nxt = 1]
    /\ UNCHANGED <<so, made, wire, host>>

GuestGetsByte ==
    /\ guest.st = "est"
    /\ GuestWin > 0
    /\ \E w \in wire : /\ w = Byte(guest.rcv, w.byte)
                       /\ guest' = [guest EXCEPT !.rcv = @ + 1, !.got = Append(@, w.byte)]
    /\ UNCHANGED <<so, made, wire, host>>

GuestGetsFin ==
    /\ guest.st = "est"
    /\ Fin(guest.rcv) \in wire
    /\ guest' = [guest EXCEPT !.rcv = @ + 1]
    /\ UNCHANGED <<so, made, wire, host>>

GuestGetsRst ==
    /\ guest.st \in {"syn", "est"}
    /\ Rst \in wire
    /\ guest' = [guest EXCEPT !.st = "dead"]
    /\ UNCHANGED <<so, made, wire, host>>

\* The guest's application takes a byte, which opens the window.
GuestReads ==
    /\ guest.read < Len(guest.got)
    /\ guest' = [guest EXCEPT !.read = @ + 1]
    /\ UNCHANGED <<so, made, wire, host>>

Accepted == Exists /\ so.iss > 0

HostSends ==
    /\ Accepted /\ ~host.eof /\ ~host.reset
    /\ host.sent < HostBytes
    /\ host' = [host EXCEPT !.sent = @ + 1]
    /\ UNCHANGED <<so, made, wire, guest>>

\* The host application closes its direction, perhaps before it has all of the
\* guest's.
HostEnds ==
    /\ Accepted /\ ~host.eof /\ ~host.reset
    /\ host' = [host EXCEPT !.eof = TRUE, !.early = so.end # "eof"]
    /\ UNCHANGED <<so, made, wire, guest>>

HostResets ==
    /\ Accepted /\ ~host.reset
    /\ host' = [host EXCEPT !.reset = TRUE]
    /\ UNCHANGED <<so, made, wire, guest>>

Environment ==
    \/ GuestSyn \/ GuestAck \/ GuestData \/ GuestFins \/ GuestResets
    \/ GuestGetsSyn \/ GuestGetsByte \/ GuestGetsFin \/ GuestGetsRst \/ GuestReads
    \/ HostSends \/ HostEnds \/ HostResets

Slirp ==
    \/ Connected \/ ConnectFails
    \/ SoRead \/ SoReadEnds \/ SoWrite \/ SoWriteFails
    \/ tcp_fasttimo \/ RexmtTimeout \/ RexmtGivesUp \/ PersistTimeout
    \/ KeepTimeout \/ TwoMslTimeout

Next == Environment \/ Slirp

Spec == Init /\ [][Next]_vars

-----------------------------------------------------------------------------
(* Properties *)

\* The stream s of bytes is a beginning of 1, 2, 3 ...
IsCount(s) == s = [i \in 1 .. Len(s) |-> i]

\* What the host has of the guest's stream, and the guest of the host's, is a
\* beginning of it: nothing is lost, repeated or out of order, however segments
\* are lost, repeated and trimmed (tcp_reass, TCP_REASS, sbappend, tcp_output);
\* slirp acknowledges only what the guest has sent, its FIN once (tcp_input's
\* trimming of old segments); and while the host takes more, each byte that was
\* acknowledged is with the host or in so_rcv (tcp_input's trimming at the window's
\* end, sbappendsb).
StreamsIntact ==
    /\ IsCount(so.got)
    /\ IsCount(guest.got)
    /\ Exists => so.rcv_nxt <= Max({guest.nxt, 1})
    /\ Exists /\ ~Connecting /\ so.so_state \cap {"FCANTSENDMORE", "NOFDREF"} = {}
        => so.got \o so.so_rcv = [i \in 1 .. Min({so.rcv_nxt - 1, GuestBytes}) |-> i]

\* The window promised to the guest has room: sbappend never has to forget a
\* byte that tcp_input acknowledges (tcp_output's rcv_adv, sbappendsb).
RcvFits ==
    /\ Len(so.so_rcv) <= RcvSpace
    /\ so.rcv_adv - so.rcv_nxt <= sbspace(so)

\* Each side is told that the other's stream ended only after all of it: the host
\* provided that its own direction was still open (sofwdrain, FWDRAIN), the guest
\* by a FIN behind all that the host wrote (tcp_output).  A host that closes first
\* and reads late may lose what so_rcv holds: see README.
EndOfStreamIsTrue ==
    /\ so.end \in {"eof", "done"} /\ ~host.reset /\ ~host.early
        => so.got = [i \in 1 .. GuestBytes |-> i]
    /\ \A w \in wire : w.what = "FIN" /\ w.seq \div IssIncr = made /\ ~host.reset
        => host.eof /\ w.seq = made * IssIncr + host.sent + 1

\* "If segment ends after window, drop trailing data (and PUSH and FIN)" (tcp_input):
\* the guest's FIN is taken only behind all of the guest's bytes.
FinAfterBytes ==
    so.t_state \in {CLOSE_WAIT, CLOSING, LAST_ACK, TIME_WAIT} => so.rcv_nxt = GuestFin + 1

\* While something is unacknowledged, or waits for a window that is open, one of
\* the two timers runs, and never both: a lost segment or ack cannot stop the
\* connection (tcp_output, tcp_input's restart of the timer, tcp_timers).
\* Nothing is said of a window that is closed: see README.
TimersRun ==
    /\ so.t_state >= ESTABLISHED
       /\ (so.snd_una < so.snd_nxt \/ (so.so_snd # <<>> /\ so.snd_wnd > 0))
          => so.timers \cap {"REXMT", "PERSIST"} # {}
    /\ ~({"REXMT", "PERSIST"} \subseteq so.timers)

=============================================================================
