---------------------------- MODULE SlirpTimerProofs ----------------------------
(***************************************************************************)
(* Proofs about the timers of slirp's TCP, for any sizes of streams,       *)
(* buffers, segments and windows: one runs for whatever is unacknowledged  *)
(* or could be sent.                                                       *)
(*                                                                         *)
(* TimerInv stands beside the invariants of SlirpTcpProofs: tcp_output is  *)
(* always called with the timer running for all that was sent (Armed), and *)
(* leaves one running for what it could not send (Watched).  Only acks     *)
(* that use up a window leave things otherwise, until the next segment     *)
(* (Shrunk, Used).                                                         *)
(*                                                                         *)
(* As there, there is one lemma for each function that is given a socket,  *)
(* in the order of their calls, and one for each action.                   *)
(***************************************************************************)
EXTENDS SlirpTcpProofs

-----------------------------------------------------------------------------
(* The timers through tcp_output *)

LEMMA Thresh == RexmtThresh \in Nat /\ RexmtThresh > 1
BY TcpAssumption

\* The window there is for so_snd, of which the part to snd_nxt is used.
LEMMA RoomWhen ==
    ASSUME NEW p, NEW iss, NEW next, NEW end, Sequence(p, iss, next, end),
           p.snd_wnd \in Nat, NEW cwnd \in Nat \ {0}, NEW force
    PROVE  /\ Room(p, cwnd, force) \in Int
           /\ p.snd_wnd = 0 /\ ~force =>
                Room(p, cwnd, force) <= 0 /\ (p.snd_una < p.snd_nxt <=> Room(p, cwnd, force) < 0)
           /\ p.snd_nxt = p.snd_una /\ p.so_snd # <<>> /\ (p.snd_wnd > 0 \/ force) =>
                Room(p, cwnd, force) > 0
           /\ p.so_snd = <<>> => Room(p, cwnd, force) <= 0
           /\ p.snd_nxt = p.snd_una => Room(p, cwnd, force) >= 0
           /\ Min({p.snd_wnd, cwnd}) = 0 <=> p.snd_wnd = 0
<1>1. PICK a \in Nat \ {0} : Stretch(p.so_snd, a, next)
  BY DEF Sequence
<1>2. PICK len \in Nat : len = Len(p.so_snd)
  BY <1>1, StretchLen
<1>3. len = 0 <=> p.so_snd = <<>>
  BY <1>1, <1>2, StretchLen
<1>4. PICK win : win = Min({p.snd_wnd, cwnd})
  OBVIOUS
<1>5. win \in Nat /\ (win = 0 <=> p.snd_wnd = 0)
  BY <1>4, MinOfTwo
<1>6. PICK sw : sw = IF force /\ win = 0 THEN 1 ELSE win
  OBVIOUS
<1>7. sw \in Nat /\ (p.snd_wnd = 0 /\ ~force => sw = 0) /\ (p.snd_wnd > 0 \/ force => sw > 0)
  BY <1>5, <1>6
<1>8. SendWindow(p, cwnd, force) = sw
  BY <1>4, <1>6 DEF SendWindow
<1>9. PICK m : m = Min({len, sw})
  OBVIOUS
<1>10. m \in Nat /\ m = IF len <= sw THEN len ELSE sw
  BY <1>7, <1>9, MinOfTwo
<1>11. Room(p, cwnd, force) = m - (p.snd_nxt - p.snd_una)
  BY <1>2, <1>8, <1>9 DEF Room
<1>12. p.snd_nxt \in Nat /\ p.snd_una \in Nat /\ p.snd_una <= p.snd_nxt
  BY DEF Sequence
<1>13. PICK una \in Nat, off \in Nat : una = p.snd_una /\ p.snd_nxt = una + off
  <2>1. p.snd_nxt = p.snd_una + (p.snd_nxt - p.snd_una) /\ p.snd_nxt - p.snd_una \in Nat
    BY <1>12
  <2> QED  BY <1>12, <2>1
<1>14. Room(p, cwnd, force) = m - off
  BY <1>11, <1>13
<1> QED  BY <1>3, <1>4, <1>5, <1>7, <1>10, <1>13, <1>14

\* What BeforeSend does to the timers, when neg says that the room is negative and
\* shut that there is no window.
Backs(p, b, neg, shut, force) ==
    /\ b.snd_wnd = p.snd_wnd /\ b.snd_wl1 = p.snd_wl1 /\ b.snd_wl2 = p.snd_wl2
    /\ b.t_dupacks = p.t_dupacks
    /\ \/ /\ neg /\ shut /\ ~force
          /\ b.timers = p.timers \ {"REXMT"} /\ b.snd_nxt = p.snd_una
       \/ /\ ~(neg /\ shut /\ ~force)
          /\ b.timers = IF force /\ ~shut THEN p.timers \ {"PERSIST"} ELSE p.timers
          /\ b.snd_nxt = p.snd_nxt

LEMMA BeforeSendTimers ==
    ASSUME NEW p, Socket(p), NEW cwnd, NEW force, NEW b, b = BeforeSend(p, cwnd, force),
           NEW neg, neg <=> Room(p, cwnd, force) < 0,
           NEW shut, shut <=> Min({p.snd_wnd, cwnd}) = 0
    PROVE  Backs(p, b, neg, shut, force)
BY DEF Socket, FieldNames, BeforeSend, Backs

LEMMA BeforeSendStays ==
    ASSUME NEW p, Socket(p), NEW cwnd, NEW force
    PROVE  Room(p, cwnd, force) < 0 \/ BeforeSend(p, cwnd, force).snd_nxt = p.snd_nxt
<1>1. PICK b : b = BeforeSend(p, cwnd, force)
  OBVIOUS
<1>2. PICK neg : neg <=> Room(p, cwnd, force) < 0
  OBVIOUS
<1>3. neg \/ b.snd_nxt = p.snd_nxt
  BY <1>1, <1>2 DEF BeforeSend, Socket, FieldNames
<1> QED  BY <1>1, <1>2, <1>3

\* Sums of which a part is the remainder.
LEMMA Whole ==
    ASSUME NEW len \in Nat, NEW m \in Nat \ {0}
    PROVE  /\ (len % m) \in Nat /\ (len % m) <= len
           /\ len >= m => (len % m) < len
OBVIOUS

\* When data is sent, and when the FIN is.
LEMMA ToSendWhen ==
    ASSUME NEW p, Socket(p), NEW iss, NEW next, NEW end, Sequence(p, iss, next, end),
           p.t_state \in CLOSED .. TIME_WAIT, p.snd_wnd \in Nat,
           NEW cwnd \in Nat \ {0}, NEW force, NEW b, b = BeforeSend(p, cwnd, force),
           NEW d, d = ToSend(p, cwnd, force)
    PROVE  /\ Room(p, cwnd, force) <= 0 => d.n = 0
           /\ Room(p, cwnd, force) > 0 /\ (force \/ d.owed \/ p.snd_nxt < p.snd_max) => d.n > 0
           /\ /\ p.so_snd = <<>> /\ b.snd_nxt = p.snd_una /\ ~force
              /\ p.t_state \in {FIN_WAIT_1, CLOSING, LAST_ACK}
              => d.fin /\ d.owed
<1>1. PICK room : room = Room(p, cwnd, force)
  OBVIOUS
<1>2. room \in Int /\ (p.so_snd = <<>> => room <= 0)
  BY <1>1, RoomWhen
<1>3. PICK len : len = Max({room, 0})
  OBVIOUS
<1>4. len \in Nat /\ (len > 0 <=> room > 0)
  BY <1>2, <1>3, MaxOfTwo
<1> DEFINE off == p.snd_nxt - p.snd_una
           tail == len % Mss
           cc == Len(p.so_snd)
           wantsFin == /\ "FIN" \in tcp_outflags[p.t_state]
                       /\ ~(force /\ Min({p.snd_wnd, cwnd}) = 0 /\ off < cc)
           owed == \/ "ACKNOW" \in p.t_flags
                   \/ WindowUpdate(p)
                   \/ tcp_outflags[p.t_state] \cap {"SYN", "RST"} # {}
                   \/ /\ wantsFin
                      /\ b.snd_nxt + len >= b.snd_una + cc
                      /\ "SENTFIN" \notin p.t_flags \/ b.snd_nxt = b.snd_una
           smallOk == \/ len + off >= cc
                      \/ force
                      \/ p.max_sndwnd > 0 /\ tail >= p.max_sndwnd \div 2
                      \/ b.snd_nxt + (len - tail) < p.snd_max
                      \/ owed /\ len < Mss
           n == IF tail > 0 /\ ~smallOk THEN len - tail ELSE len
           fin == wantsFin /\ FinFits(b, b.snd_nxt + n)
<1>5. d = [off |-> off, n |-> n, owed |-> owed, fin |-> fin]
  BY <1>1, <1>3, Zenon DEF ToSend
<1>6. d.n = n /\ (d.owed <=> owed) /\ (d.fin <=> fin)
  <2> HIDE DEF off, n, owed, fin
  <2> QED  BY <1>5
<1>7. tail \in Nat /\ tail <= len /\ (len >= Mss => tail < len)
  BY <1>4, Sizes, Whole
<1>8. p.snd_nxt \in Nat /\ p.snd_max \in Nat /\ p.snd_una \in Nat /\ Mss \in Nat \ {0}
  BY Sizes DEF Sequence
<1>9. b.snd_una = p.snd_una /\ (room >= 0 => b.snd_nxt = p.snd_nxt)
  <2>1. Room(p, cwnd, force) < 0 \/ b.snd_nxt = p.snd_nxt
    BY BeforeSendStays, Zenon
  <2>2. room >= 0 => b.snd_nxt = p.snd_nxt
    BY <1>1, <1>2, <2>1
  <2> QED  BY <2>2, BeforeSendFields DEF SameOutput
<1> HIDE DEF tail
<1>10. room <= 0 => d.n = 0
  <2> SUFFICES ASSUME room <= 0 PROVE n = 0
    BY <1>6
  <2>1. len = 0 /\ tail = 0
    BY <1>2, <1>4, <1>7
  <2> HIDE DEF smallOk
  <2> QED  BY <2>1
<1>11. ASSUME room > 0, force \/ d.owed \/ p.snd_nxt < p.snd_max
       PROVE  d.n > 0
  <2>1. len > 0 /\ b.snd_nxt = p.snd_nxt
    BY <1>2, <1>4, <1>9, <1>11
  <2>2. CASE tail = len
    <3>1. len < Mss
      BY <1>4, <1>7, <1>8, <2>2
    <3>2. b.snd_nxt + (len - tail) = p.snd_nxt
      BY <1>4, <1>8, <2>1, <2>2
    <3> HIDE DEF owed, off, cc
    <3>3. smallOk
      BY <1>6, <1>11, <3>1, <3>2, Zenon
    <3>4. n = len
      BY <3>3, Zenon
    <3> QED  BY <1>6, <2>1, <3>4
  <2>3. CASE tail # len
    <3>1. len - tail > 0
      BY <1>4, <1>7, <2>3
    <3>2. n = len \/ n = len - tail
      <4> HIDE DEF smallOk
      <4> QED  OBVIOUS
    <3> QED  BY <1>6, <2>1, <3>1, <3>2
  <2> QED  BY <2>2, <2>3
<1>12. ASSUME p.so_snd = <<>>, b.snd_nxt = p.snd_una, ~force,
              p.t_state \in {FIN_WAIT_1, CLOSING, LAST_ACK}
       PROVE  d.fin /\ d.owed
  <2>1. wantsFin
    BY <1>12, FlagsAre
  <2>2. len = 0 /\ cc = 0 /\ n = 0
    <3>1. len = 0 /\ tail = 0
      BY <1>2, <1>4, <1>7, <1>12
    <3> HIDE DEF smallOk
    <3> QED  BY <1>12, <3>1
  <2>3. FinFits(b, b.snd_nxt + n)
    <3>1. b.so_snd = <<>>
      BY <1>12, BeforeSendFields DEF SameOutput
    <3>2. b.snd_nxt + n = b.snd_una /\ b.snd_una + Len(b.so_snd) = b.snd_una /\ b.snd_una \in Nat
      BY <1>8, <1>9, <1>12, <2>2, <3>1
    <3>3. PICK seq \in Nat : seq = b.snd_nxt + n /\ seq >= b.snd_una + Len(b.so_snd)
      BY <3>2
    <3> QED  BY <3>3 DEF FinFits
  <2>4. fin
    BY <2>1, <2>3
  <2>5. b.snd_nxt + len >= b.snd_una + cc /\ b.snd_nxt = b.snd_una
    BY <1>8, <1>9, <1>12, <2>2
  <2> HIDE DEF wantsFin, n, off, cc, fin
  <2>6. owed
    BY <2>1, <2>5, Zenon
  <2> QED  BY <1>6, <2>4, <2>6
<1> QED  BY <1>1, <1>10, <1>11, <1>12

\* When and how the retransmission timer is started.
Clocked(p, q, force, first, nxt) ==
    /\ q.snd_wnd = p.snd_wnd /\ q.snd_wl1 = p.snd_wl1 /\ q.snd_wl2 = p.snd_wl2
    /\ q.t_dupacks = p.t_dupacks
    /\ force /\ "PERSIST" \in p.timers => q.snd_nxt = first /\ q.timers = p.timers
    /\ ~(force /\ "PERSIST" \in p.timers) =>
         /\ q.snd_nxt = nxt
         /\ q.timers = IF "REXMT" \notin p.timers /\ nxt # p.snd_una
                       THEN (p.timers \ {"PERSIST"}) \cup {"REXMT"} ELSE p.timers

LEMMA SendTimers ==
    ASSUME NEW p, Socket(p), NEW d, NEW force, NEW first, first = First(p, d),
           NEW upto, upto = first + d.n, NEW nxt, nxt = Last(p, d, upto),
           NEW q, q = Send(p, d, force)
    PROVE  Clocked(p, q, force, first, nxt)
<1> DEFINE syn == "SYN" \in tcp_outflags[p.t_state]
           f == First(p, d)
           what == {Nth(p, d, f, i) : i \in 1 .. d.n}
                \cup (IF syn THEN {Syn(f)} ELSE {})
                \cup (IF d.fin THEN {Fin(f + d.n)} ELSE {})
                \cup (IF p.t_state = CLOSED THEN {Rst} ELSE {})
           probe == force /\ "PERSIST" \in p.timers
           nxt2 == f + d.n + (IF syn THEN 1 ELSE 0) + (IF d.fin THEN 1 ELSE 0)
           win == Advertise(p)
           arm == ~probe /\ "REXMT" \notin p.timers /\ nxt2 # p.snd_una
           timers == IF arm THEN (p.timers \ {"PERSIST"}) \cup {"REXMT"} ELSE p.timers
           adv == IF win > 0 THEN Max({p.rcv_adv, p.rcv_nxt + win}) ELSE p.rcv_adv
           flags == (p.t_flags \ {"ACKNOW", "DELACK"})
                        \cup (IF d.fin /\ ~probe THEN {"SENTFIN"} ELSE {})
           out == p.out \cup what
           max == Max({p.snd_max, IF probe THEN f + d.n ELSE nxt2})
           snd == IF probe THEN f ELSE nxt2
<1>1. q = [p EXCEPT !.out = out, !.snd_nxt = snd, !.snd_max = max, !.timers = timers,
                    !.rcv_adv = adv, !.t_flags = flags]
  BY Zenon DEF Send, First, Nth
<1>2. /\ q.snd_wnd = p.snd_wnd /\ q.snd_wl1 = p.snd_wl1 /\ q.snd_wl2 = p.snd_wl2
      /\ q.t_dupacks = p.t_dupacks /\ q.snd_nxt = snd /\ q.timers = timers
  <2> HIDE DEF out, snd, max, timers, adv, flags
  <2> QED  BY <1>1 DEF Socket, FieldNames
<1> HIDE DEF what, f, out, max, adv, flags, win
<1>3. f = first
  BY DEF f
<1>4. nxt2 = nxt
  BY <1>3, Zenon DEF Last
<1> HIDE DEF nxt2
<1>5. probe => snd = first /\ timers = p.timers
  BY <1>3, Zenon
<1>6. ~probe => snd = nxt
  BY <1>4, Zenon
<1>7. ~probe => timers = IF "REXMT" \notin p.timers /\ nxt # p.snd_una
                         THEN (p.timers \ {"PERSIST"}) \cup {"REXMT"} ELSE p.timers
  BY <1>4, Zenon
<1> HIDE DEF snd, timers
<1> QED  BY <1>2, <1>5, <1>6, <1>7, Zenon DEF Clocked

\* What tcp_output relies on.  The timer runs for all that was sent; snd_wl1 and
\* snd_wl2 are of a segment that was received; the ack of the FIN comes last.
Armed(p, sent, end) ==
    /\ p.snd_wnd \in Nat /\ p.snd_wl1 \in Int /\ p.snd_wl2 \in Int
    /\ p.snd_wl1 <= sent /\ p.snd_wl2 <= p.snd_una
    /\ ~("REXMT" \in p.timers /\ "PERSIST" \in p.timers)
    /\ p.snd_una < p.snd_nxt => "REXMT" \in p.timers
    /\ p.t_state \in {FIN_WAIT_2, TIME_WAIT} => p.snd_una = end + 1

\* What waits for an open window has a timer.
Watched(p) ==
    p.so_snd # <<>> /\ p.snd_wnd > 0 => "REXMT" \in p.timers \/ "PERSIST" \in p.timers

\* More was sent than the window, closed since, has room for.
Shrunk(p) == p.so_snd # <<>> /\ p.snd_wnd = 0 /\ p.snd_una < p.snd_nxt

\* A window that acks have used up counts as closed only until the next segment
\* that is not a duplicate.
Used(p) == p.t_state = ESTABLISHED /\ p.snd_wl2 < p.snd_una /\ p.t_dupacks = 0

Timed(p, sent, end) == Armed(p, sent, end) /\ Watched(p) /\ (Shrunk(p) => Used(p))

\* The two numbers with which Send goes on, when it starts from b.
LEMMA SendTimed ==
    ASSUME NEW p, NEW iss, NEW next, NEW end, NEW over, SendOpen(p, iss, next, end, over),
           NEW sent, Armed(p, sent, end), NEW cwnd \in Nat \ {0}, NEW force \in BOOLEAN,
           force => "PERSIST" \in p.timers,
           NEW b, b = BeforeSend(p, cwnd, force), NEW d, d = ToSend(p, cwnd, force),
           d.n > 0 \/ d.owed, NEW q, q = Send(b, d, force)
    PROVE  Timed(q, sent, end)
<1>1. /\ Socket(p) /\ Sequence(p, iss, next, end) /\ Stage(p, iss, end, over)
      /\ p.t_state \in CLOSED .. TIME_WAIT
  BY DEF SendOpen, Sends, Stage
<1>2. PICK room : room = Room(p, cwnd, force)
  OBVIOUS
<1>3. p.snd_wnd \in Nat
  BY DEF Armed
<1>4. /\ room \in Int
      /\ p.snd_wnd = 0 /\ ~force => room <= 0 /\ (p.snd_una < p.snd_nxt <=> room < 0)
      /\ p.snd_nxt = p.snd_una /\ p.so_snd # <<>> /\ (p.snd_wnd > 0 \/ force) => room > 0
      /\ p.snd_nxt = p.snd_una => room >= 0
      /\ Min({p.snd_wnd, cwnd}) = 0 <=> p.snd_wnd = 0
  BY <1>1, <1>2, <1>3, RoomWhen
<1>5. /\ b.snd_wnd = p.snd_wnd /\ b.snd_wl1 = p.snd_wl1 /\ b.snd_wl2 = p.snd_wl2
      /\ b.t_dupacks = p.t_dupacks
      /\ \/ /\ room < 0 /\ p.snd_wnd = 0 /\ ~force
            /\ b.timers = p.timers \ {"REXMT"} /\ b.snd_nxt = p.snd_una
         \/ /\ ~(room < 0 /\ p.snd_wnd = 0 /\ ~force)
            /\ b.timers = IF force /\ p.snd_wnd # 0 THEN p.timers \ {"PERSIST"} ELSE p.timers
            /\ b.snd_nxt = p.snd_nxt
  <2>1. PICK shut : shut <=> Min({p.snd_wnd, cwnd}) = 0
    OBVIOUS
  <2>2. PICK neg : neg <=> Room(p, cwnd, force) < 0
    OBVIOUS
  <2>3. Backs(p, b, neg, shut, force)
    BY <1>1, <2>1, <2>2, BeforeSendTimers
  <2>4. shut <=> p.snd_wnd = 0
    BY <1>4, <2>1
  <2>5. neg <=> room < 0
    BY <1>2, <2>2
  <2> QED  BY <2>3, <2>4, <2>5 DEF Backs
<1>6. Socket(b) /\ SameOutput(p, b) /\ b.t_flags = p.t_flags /\ b.snd_max = p.snd_max
  BY <1>1, BeforeSendFields
<1>7. Sequence(b, iss, next, end) /\ Stage(b, iss, end, over)
  <2>1. b.snd_nxt = p.snd_nxt \/ b.snd_nxt = p.snd_una
    BY <1>5
  <2> QED  BY <1>1, <1>5, <1>6, <2>1 DEF Sequence, Stage, SameOutput
<1>8. /\ d.n \in Nat
      /\ d.n > 0 => b.so_snd # <<>> /\ b.snd_nxt + d.n <= b.snd_una + Len(b.so_snd)
      /\ d.fin => /\ b.t_state \in {FIN_WAIT_1, CLOSING, LAST_ACK}
                  /\ b.snd_nxt + d.n >= b.snd_una + Len(b.so_snd)
  <2>1. /\ d.n \in Nat /\ d.off = p.snd_nxt - p.snd_una
        /\ d.n > 0 => /\ b.snd_nxt = p.snd_nxt /\ p.so_snd # <<>>
                      /\ p.snd_nxt + d.n <= p.snd_una + Len(p.so_snd)
        /\ d.fin => /\ p.t_state \in {FIN_WAIT_1, CLOSING, LAST_ACK}
                    /\ b.snd_nxt + d.n >= b.snd_una + Len(b.so_snd)
    <3>1. cwnd \in Int
      OBVIOUS
    <3> QED  BY <1>1, <3>1, ToSendIs DEF Stage
  <2> QED  BY <1>6, <2>1 DEF SameOutput
<1>9. /\ room <= 0 => d.n = 0
      /\ room > 0 /\ d.owed => d.n > 0
  BY <1>1, <1>2, <1>3, ToSendWhen
<1>10. PICK first : first = First(b, d)
  OBVIOUS
<1>11. PICK upto : upto = first + d.n
  OBVIOUS
<1>12. PICK nxt : nxt = Last(b, d, upto)
  OBVIOUS
<1>13. /\ first \in Nat /\ upto \in Nat /\ nxt \in Nat
       /\ b.snd_una <= first /\ first <= upto /\ upto <= nxt
       /\ d.fin => upto = end /\ nxt = end + 1
  BY <1>7, <1>8, <1>10, <1>11, <1>12, SendFrom
<1>14. /\ q.snd_wnd = b.snd_wnd /\ q.snd_wl1 = b.snd_wl1 /\ q.snd_wl2 = b.snd_wl2
       /\ q.t_dupacks = b.t_dupacks
       /\ force /\ "PERSIST" \in b.timers => q.snd_nxt = first /\ q.timers = b.timers
       /\ ~(force /\ "PERSIST" \in b.timers) =>
            /\ q.snd_nxt = nxt
            /\ q.timers = IF "REXMT" \notin b.timers /\ nxt # b.snd_una
                          THEN (b.timers \ {"PERSIST"}) \cup {"REXMT"} ELSE b.timers
  <2>1. Clocked(b, q, force, first, nxt)
    BY <1>6, <1>10, <1>11, <1>12, SendTimers
  <2> QED  BY <2>1 DEF Clocked
<1>15. q.t_state = p.t_state /\ q.so_snd = p.so_snd /\ q.snd_una = p.snd_una
       /\ b.t_state = p.t_state /\ b.so_snd = p.so_snd /\ b.snd_una = p.snd_una
  <2>1. SameOutput(b, q)
    BY <1>6, SendFields
  <2> QED  BY <1>6, <2>1 DEF SameOutput
<1>16. p.snd_una \in Nat /\ p.snd_nxt \in Nat /\ p.snd_una <= p.snd_nxt /\ b.snd_nxt \in Nat
       /\ b.iss <= b.snd_una /\ b.iss \in Nat /\ end \in Nat
  BY <1>1, <1>7 DEF Sequence
\* Nothing but data, a SYN or a FIN takes Send beyond where it began.
<1>17. p.so_snd # <<>> /\ d.n = 0 /\ ~d.fin => nxt = b.snd_nxt
  <2> SUFFICES ASSUME p.so_snd # <<>>, d.n = 0, ~d.fin PROVE nxt = b.snd_nxt
    OBVIOUS
  <2>1. "SYN" \notin tcp_outflags[b.t_state]
    BY <1>1, <1>7, <1>15, FlagsAre DEF Stage
  <2>2. first = b.snd_nxt
    BY <1>10, <2>1 DEF First
  <2> QED  BY <1>11, <1>12, <1>13, <1>16, <2>1, <2>2 DEF Last
<1>18. first <= b.snd_nxt \/ first = b.snd_una
  <2>1. first = b.snd_nxt \/ first = b.snd_nxt - 1 \/ first = b.iss
    BY <1>10 DEF First
  <2> QED  BY <1>13, <1>15, <1>16, <2>1
<1>19. CASE force /\ "PERSIST" \in b.timers
  <2>1. p.snd_nxt = p.snd_una
    BY <1>16, <1>19 DEF Armed
  <2>2. b.timers = p.timers /\ b.snd_nxt = p.snd_una /\ p.snd_wnd = 0
    BY <1>5, <1>19, <2>1
  <2>3. q.snd_nxt = p.snd_una /\ q.timers = p.timers
    <3>1. first = p.snd_una
      BY <1>13, <1>15, <1>16, <1>18, <2>2
    <3> QED  BY <1>14, <1>19, <2>2, <3>1
  <2>4. Armed(q, sent, end)
    BY <1>5, <1>14, <1>15, <1>16, <2>3 DEF Armed
  <2>5. Watched(q) /\ ~Shrunk(q)
    BY <1>5, <1>14, <1>15, <1>16, <2>2, <2>3 DEF Watched, Shrunk
  <2> QED  BY <2>4, <2>5 DEF Timed
<1>20. CASE ~(force /\ "PERSIST" \in b.timers)
  <2>1. /\ q.snd_nxt = nxt
        /\ q.timers = IF "REXMT" \notin b.timers /\ nxt # b.snd_una
                      THEN (b.timers \ {"PERSIST"}) \cup {"REXMT"} ELSE b.timers
    BY <1>14, <1>20
  <2>2. ~("REXMT" \in b.timers /\ "PERSIST" \in b.timers)
    BY <1>5 DEF Armed
  <2>3. /\ ~("REXMT" \in q.timers /\ "PERSIST" \in q.timers)
        /\ nxt # p.snd_una => "REXMT" \in q.timers
    BY <1>15, <2>1, <2>2
  <2>4. q.snd_una < q.snd_nxt => "REXMT" \in q.timers
    BY <1>13, <1>15, <1>16, <2>1, <2>3
  <2>5. Armed(q, sent, end)
    BY <1>5, <1>14, <1>15, <2>3, <2>4 DEF Armed
  <2>6. Watched(q)
    <3> SUFFICES ASSUME q.so_snd # <<>>, q.snd_wnd > 0 PROVE nxt # p.snd_una
      BY <2>3 DEF Watched
    <3> SUFFICES ASSUME nxt = p.snd_una PROVE FALSE
      OBVIOUS
    <3>1. p.so_snd # <<>> /\ p.snd_wnd > 0
      BY <1>5, <1>14, <1>15
    <3>2. b.snd_nxt = p.snd_nxt
      BY <1>3, <1>5, <3>1
    <3>3. d.n = 0 /\ ~d.fin
      BY <1>8, <1>11, <1>13, <1>15, <1>16
    <3>4. p.snd_nxt = p.snd_una
      BY <1>17, <3>1, <3>2, <3>3
    <3>5. room > 0
      BY <1>4, <3>1, <3>4
    <3> QED  BY <1>9, <3>3, <3>5
  <2>7. ~Shrunk(q)
    <3> SUFFICES ASSUME q.so_snd # <<>>, q.snd_wnd = 0, q.snd_una < q.snd_nxt PROVE FALSE
      BY DEF Shrunk
    <3>1. p.so_snd # <<>> /\ p.snd_wnd = 0
      BY <1>5, <1>14, <1>15
    <3>2. ~force
      BY <1>5, <1>20, <3>1
    <3>3. b.snd_nxt = p.snd_una
      BY <1>4, <1>5, <1>16, <3>1, <3>2
    <3>4. d.n = 0
      BY <1>4, <1>9, <3>1, <3>2
    <3>5. ~d.fin
      <4>1. PICK len \in Nat \ {0} : len = Len(p.so_snd)
        <5>1. PICK a \in Nat \ {0} : Stretch(p.so_snd, a, next)
          BY <1>1 DEF Sequence
        <5> QED  BY <3>1, <5>1, StretchLen
      <4> QED  BY <1>8, <1>15, <1>16, <3>3, <3>4, <4>1
    <3> QED  BY <1>15, <1>16, <1>17, <2>1, <3>1, <3>3, <3>4, <3>5
  <2> QED  BY <2>5, <2>6, <2>7 DEF Timed
<1> QED  BY <1>19, <1>20

\* What BeforeSend starts from, for a socket on which all is armed.
LEMMA BackTimed ==
    ASSUME NEW p, NEW iss, NEW next, NEW end, NEW over, SendOpen(p, iss, next, end, over),
           NEW sent, Armed(p, sent, end), NEW cwnd \in Nat \ {0}, NEW force \in BOOLEAN,
           force => "PERSIST" \in p.timers,
           NEW b, b = BeforeSend(p, cwnd, force)
    PROVE  Socket(b) /\ Armed(b, sent, end) /\ ~Shrunk(b)
<1>1. /\ Socket(p) /\ Sequence(p, iss, next, end) /\ p.snd_wnd \in Nat
      /\ p.snd_nxt \in Nat /\ p.snd_una \in Nat /\ p.snd_una <= p.snd_nxt
  BY DEF SendOpen, Sends, Sequence, Armed
<1>2. PICK room : room = Room(p, cwnd, force)
  OBVIOUS
<1>3. /\ room \in Int
      /\ p.snd_wnd = 0 /\ ~force => (p.snd_una < p.snd_nxt <=> room < 0)
      /\ Min({p.snd_wnd, cwnd}) = 0 <=> p.snd_wnd = 0
  BY <1>1, <1>2, RoomWhen
<1>4. PICK neg : neg <=> Room(p, cwnd, force) < 0
  OBVIOUS
<1>5. PICK shut : shut <=> Min({p.snd_wnd, cwnd}) = 0
  OBVIOUS
<1>6. Backs(p, b, neg, shut, force)
  BY <1>1, <1>4, <1>5, BeforeSendTimers
<1>7. (neg <=> room < 0) /\ (shut <=> p.snd_wnd = 0)
  BY <1>2, <1>3, <1>4, <1>5
<1>8. Socket(b) /\ SameOutput(p, b)
  BY <1>1, BeforeSendFields
<1>9. b.snd_una = p.snd_una /\ b.t_state = p.t_state /\ b.so_snd = p.so_snd
  BY <1>8 DEF SameOutput
<1>10. /\ b.snd_wnd = p.snd_wnd /\ b.snd_wl1 = p.snd_wl1 /\ b.snd_wl2 = p.snd_wl2
       /\ b.timers \subseteq p.timers
       /\ b.snd_nxt = p.snd_una \/ (b.snd_nxt = p.snd_nxt /\ ("REXMT" \in p.timers => "REXMT" \in b.timers))
  BY <1>6 DEF Backs
<1>11. Armed(b, sent, end)
  BY <1>1, <1>9, <1>10 DEF Armed
<1>12. ASSUME p.snd_wnd = 0 PROVE b.snd_nxt = p.snd_una
  <2>1. CASE force
    <3>1. "REXMT" \notin p.timers
      BY <2>1 DEF Armed
    <3>2. p.snd_nxt = p.snd_una
      BY <1>1, <3>1 DEF Armed
    <3> QED  BY <1>10, <3>2
  <2>2. CASE ~force /\ neg
    BY <1>6, <1>7, <1>12, <2>2 DEF Backs
  <2>3. CASE ~force /\ ~neg
    <3>1. p.snd_nxt = p.snd_una
      BY <1>1, <1>3, <1>7, <1>12, <2>3
    <3> QED  BY <1>10, <3>1
  <2> QED  BY <2>1, <2>2, <2>3
<1>13. ~Shrunk(b)
  BY <1>1, <1>9, <1>10, <1>12 DEF Shrunk
<1> QED  BY <1>8, <1>11, <1>13

\* Whatever called it, tcp_output leaves a timer running for what it leaves undone.
LEMMA OutputTimed ==
    ASSUME NEW p, NEW iss, NEW next, NEW end, NEW over, SendOpen(p, iss, next, end, over),
           NEW sent, Armed(p, sent, end), NEW cwnd \in Nat \ {0}, NEW force \in BOOLEAN,
           force => "PERSIST" \in p.timers
    PROVE  Timed(tcp_output(p, cwnd, force), sent, end)
<1>1. PICK b : b = BeforeSend(p, cwnd, force)
  OBVIOUS
<1>2. PICK d : d = ToSend(p, cwnd, force)
  OBVIOUS
<1>3. PICK q : q = SendOrWait(b, d, force)
  OBVIOUS
<1>4. q = tcp_output(p, cwnd, force)
  BY <1>1, <1>2, <1>3, OutputIs
<1>5. CASE d.n > 0 \/ d.owed
  <2>1. q = Send(b, d, force)
    BY <1>3, <1>5 DEF SendOrWait
  <2>2. Timed(q, sent, end)
    BY <1>1, <1>2, <1>5, <2>1, SendTimed
  <2> QED  BY <1>4, <2>2
<1>6. CASE ~(d.n > 0 \/ d.owed)
  <2>1. Socket(b) /\ Armed(b, sent, end) /\ ~Shrunk(b)
    BY <1>1, BackTimed
  <2>2. PICK idle : idle <=> b.so_snd # <<>> /\ b.timers \cap {"REXMT", "PERSIST"} = {}
    OBVIOUS
  <2>3. q = IF idle THEN [b EXCEPT !.timers = @ \cup {"PERSIST"}] ELSE b
    BY <1>3, <1>6, <2>2 DEF SendOrWait
  <2>4. CASE ~idle
    <3>1. Watched(b)
      BY <2>2, <2>4 DEF Watched
    <3> QED  BY <1>4, <2>1, <2>3, <2>4, <3>1 DEF Timed
  <2>5. CASE idle
    <3>1. /\ q.timers = b.timers \cup {"PERSIST"} /\ q.snd_wnd = b.snd_wnd
          /\ q.snd_wl1 = b.snd_wl1 /\ q.snd_wl2 = b.snd_wl2 /\ q.snd_una = b.snd_una
          /\ q.snd_nxt = b.snd_nxt /\ q.t_state = b.t_state /\ q.so_snd = b.so_snd
      BY <2>1, <2>3, <2>5 DEF Socket, FieldNames
    <3>2. "REXMT" \notin b.timers
      BY <2>2, <2>5
    <3>3. Armed(q, sent, end)
      BY <2>1, <3>1, <3>2 DEF Armed
    <3>4. Watched(q) /\ ~Shrunk(q)
      BY <2>1, <3>1 DEF Watched, Shrunk
    <3> QED  BY <1>4, <3>3, <3>4 DEF Timed
  <2> QED  BY <2>4, <2>5
<1> QED  BY <1>5, <1>6

\* Of what was sent before something is sent again at once, when there is a window.
LEMMA OutputResends ==
    ASSUME NEW p, NEW iss, NEW next, NEW end, NEW over, SendOpen(p, iss, next, end, over),
           p.snd_wnd \in Nat, NEW cwnd \in Nat \ {0}, NEW force, force = FALSE,
           p.t_state >= ESTABLISHED, p.snd_nxt = p.snd_una, p.snd_una < p.snd_max,
           \/ p.so_snd # <<>> /\ p.snd_wnd > 0
           \/ p.so_snd = <<>> /\ p.t_state \in {FIN_WAIT_1, CLOSING, LAST_ACK},
           NEW q, q = tcp_output(p, cwnd, force)
    PROVE  q.snd_nxt > p.snd_una
<1>1. /\ Socket(p) /\ Sequence(p, iss, next, end) /\ Stage(p, iss, end, over)
      /\ p.t_state \in CLOSED .. TIME_WAIT /\ p.snd_una \in Nat /\ p.snd_max \in Nat
  BY DEF SendOpen, Sends, Stage, Sequence
<1>2. PICK b : b = BeforeSend(p, cwnd, force)
  OBVIOUS
<1>3. PICK d : d = ToSend(p, cwnd, force)
  OBVIOUS
<1>4. PICK room : room = Room(p, cwnd, force)
  OBVIOUS
<1>5. /\ room \in Int /\ room >= 0
      /\ p.so_snd # <<>> /\ p.snd_wnd > 0 => room > 0
  BY <1>1, <1>4, RoomWhen
<1>6. PICK neg : neg <=> Room(p, cwnd, force) < 0
  OBVIOUS
<1>7. ~neg
  BY <1>4, <1>5, <1>6
<1>8. PICK shut : shut <=> Min({p.snd_wnd, cwnd}) = 0
  OBVIOUS
<1>9. Backs(p, b, neg, shut, force)
  BY <1>1, <1>2, <1>6, <1>8, BeforeSendTimers
<1>10. b.snd_nxt = p.snd_una /\ b.snd_wnd = p.snd_wnd
  BY <1>7, <1>9 DEF Backs
<1>11. Socket(b) /\ SameOutput(p, b) /\ b.t_flags = p.t_flags /\ b.snd_max = p.snd_max
  BY <1>1, <1>2, BeforeSendFields
<1>12. b.snd_una = p.snd_una /\ b.t_state = p.t_state /\ b.so_snd = p.so_snd /\ b.iss = p.iss
  BY <1>11 DEF SameOutput
<1>13. Sequence(b, iss, next, end) /\ Stage(b, iss, end, over)
  BY <1>1, <1>10, <1>11, <1>12 DEF Sequence, Stage
<1>14. /\ d.n \in Nat /\ d.off = p.snd_nxt - p.snd_una
       /\ d.n > 0 => /\ b.snd_nxt = p.snd_nxt /\ p.so_snd # <<>>
                     /\ p.snd_nxt + d.n <= p.snd_una + Len(p.so_snd)
       /\ d.fin => /\ p.t_state \in {FIN_WAIT_1, CLOSING, LAST_ACK}
                   /\ b.snd_nxt + d.n >= b.snd_una + Len(b.so_snd)
  <2>1. cwnd \in Int
    OBVIOUS
  <2> QED  BY <1>1, <1>2, <1>3, <2>1, ToSendIs
<1>15. /\ room > 0 => d.n > 0
       /\ p.so_snd = <<>> => d.fin /\ d.owed
  BY <1>1, <1>2, <1>3, <1>4, <1>10, ToSendWhen
<1>16. (d.n > 0 \/ d.owed) /\ (d.n > 0 \/ d.fin)
  BY <1>5, <1>15
<1>17. q = Send(b, d, force)
  <2>1. q = SendOrWait(b, d, force)
    BY <1>2, <1>3, OutputIs
  <2> QED  BY <1>16, <2>1 DEF SendOrWait
<1>18. PICK first : first = First(b, d)
  OBVIOUS
<1>19. PICK upto : upto = first + d.n
  OBVIOUS
<1>20. PICK nxt : nxt = Last(b, d, upto)
  OBVIOUS
<1>21. d.n > 0 => b.so_snd # <<>> /\ b.snd_nxt + d.n <= b.snd_una + Len(b.so_snd)
  BY <1>10, <1>12, <1>14
<1>22. /\ first \in Nat /\ upto \in Nat /\ nxt \in Nat
       /\ b.snd_una <= first /\ first <= upto /\ upto <= nxt
       /\ d.fin => upto = end /\ nxt = end + 1
  BY <1>12, <1>13, <1>14, <1>18, <1>19, <1>20, <1>21, SendFrom
<1>23. Clocked(b, q, force, first, nxt)
  BY <1>11, <1>17, <1>18, <1>19, <1>20, SendTimers
<1>24. q.snd_nxt = nxt
  BY <1>23 DEF Clocked
<1>25. end \in Nat
  BY <1>1 DEF Sequence
<1>26. nxt > p.snd_una
  <2>1. CASE d.n > 0
    BY <1>1, <1>12, <1>14, <1>19, <1>22, <2>1
  <2>2. CASE d.fin
    BY <1>1, <1>12, <1>22, <1>25, <2>2
  <2> QED  BY <1>16, <2>1, <2>2
<1> QED  BY <1>24, <1>26

LEMMA FastRexmtTimed ==
    ASSUME NEW p, NEW iss, NEW next, NEW end, NEW over, SendOpen(p, iss, next, end, over),
           p.t_state >= ESTABLISHED, NEW sent, Timed(p, sent, end),
           NEW s, s.ack = p.snd_una, "REXMT" \in p.timers, p.t_dupacks + 1 = RexmtThresh
    PROVE  Timed(FastRexmt(p, s), sent, end)
<1>0. /\ p.snd_una \in Nat /\ p.snd_nxt \in Nat /\ p.snd_max \in Nat
      /\ p.snd_una <= p.snd_nxt /\ p.snd_nxt <= p.snd_max /\ p.snd_max <= end + 1
      /\ end \in Nat /\ Socket(p) /\ Stage(p, iss, end, over)
      /\ "SENTFIN" \in p.t_flags <=> p.snd_max = end + 1
  BY DEF SendOpen, Sends, Sequence
<1>1. PICK b : b = [p EXCEPT !.t_dupacks = @ + 1, !.snd_nxt = s.ack, !.timers = @ \ {"REXMT"}]
  OBVIOUS
<1>2. /\ Socket(b) /\ b.t_state = p.t_state /\ b.so_snd = p.so_snd /\ b.iss = p.iss
      /\ b.snd_una = p.snd_una /\ b.snd_max = p.snd_max /\ b.snd_wnd = p.snd_wnd
      /\ b.out = p.out /\ b.t_flags = p.t_flags /\ b.snd_nxt = p.snd_una
      /\ b.timers = p.timers \ {"REXMT"} /\ b.snd_wl1 = p.snd_wl1 /\ b.snd_wl2 = p.snd_wl2
  BY <1>0, <1>1 DEF Socket, FieldNames
<1>3. SendOpen(b, iss, next, end, over)
  BY <1>0, <1>2, SendMoved
<1>4. Armed(p, sent, end) /\ Watched(p) /\ ~Shrunk(p)
  <2>1. p.t_dupacks # 0
    BY Thresh
  <2> QED  BY <2>1 DEF Timed, Used
<1>5. Armed(b, sent, end)
  BY <1>0, <1>2, <1>4 DEF Armed
<1>6. PICK force : force = FALSE
  OBVIOUS
<1>7. PICK q : q = tcp_output(b, Mss, force)
  OBVIOUS
<1>8. Mss \in Nat \ {0} /\ Mss \in Int
  BY Sizes
<1>9. Timed(q, sent, end)
  BY <1>3, <1>5, <1>6, <1>7, <1>8, OutputTimed
<1>10. SendOpen(q, iss, next, end, over)
  BY <1>3, <1>7, <1>8, OutputOpen
<1>11. q.snd_una = p.snd_una /\ q.so_snd = p.so_snd /\ q.t_state = p.t_state
  <2>1. SameOutput(b, q)
    BY <1>2, <1>7, OutputFields
  <2> QED  BY <1>2, <2>1 DEF SameOutput
<1>12. q.snd_nxt \in Nat /\ q.snd_una <= q.snd_nxt /\ Socket(q)
  BY <1>10 DEF SendOpen, Sends, Sequence
<1>13. PICK nxt : nxt = Max({q.snd_nxt, p.snd_nxt})
  OBVIOUS
<1>14. nxt = IF q.snd_nxt >= p.snd_nxt THEN q.snd_nxt ELSE p.snd_nxt
  BY <1>0, <1>12, <1>13, MaxOfTwo
<1>15. PICK r : r = [q EXCEPT !.snd_nxt = nxt]
  OBVIOUS
<1>16. FastRexmt(p, s) = r
  BY <1>1, <1>6, <1>7, <1>13, <1>15 DEF FastRexmt
<1>17. /\ r.snd_nxt = nxt /\ r.timers = q.timers /\ r.snd_wnd = q.snd_wnd
       /\ r.snd_wl1 = q.snd_wl1 /\ r.snd_wl2 = q.snd_wl2 /\ r.t_dupacks = q.t_dupacks
       /\ r.snd_una = q.snd_una /\ r.so_snd = q.so_snd /\ r.t_state = q.t_state
  BY <1>12, <1>15 DEF Socket, FieldNames
<1>18. q.snd_una < nxt => q.snd_una < q.snd_nxt
  <2> SUFFICES ASSUME p.snd_una < p.snd_nxt PROVE p.snd_una < q.snd_nxt
    BY <1>0, <1>11, <1>12, <1>14
  <2>1. \/ p.so_snd # <<>> /\ p.snd_wnd > 0
        \/ p.so_snd = <<>> /\ p.t_state \in {FIN_WAIT_1, CLOSING, LAST_ACK}
    <3>1. CASE p.so_snd # <<>>
      BY <1>4, <3>1 DEF Shrunk, Armed
    <3>2. CASE p.so_snd = <<>>
      <4>1. \/ p.snd_una + Len(p.so_snd) = end
            \/ p.snd_una = end + 1
        BY <1>0 DEF Stage
      <4>2. Len(p.so_snd) = 0
        BY <3>2
      <4>3. p.snd_una = end /\ p.snd_max = end + 1
        BY <1>0, <4>1, <4>2
      <4>4. p.t_state \in FinStates
        BY <1>0, <4>3 DEF Stage, CLOSED, ESTABLISHED
      <4>5. p.t_state \notin {FIN_WAIT_2, TIME_WAIT}
        BY <1>0, <1>4, <4>3 DEF Armed
      <4> QED  BY <3>2, <4>4, <4>5 DEF FinStates
    <3> QED  BY <3>1, <3>2
  <2>2. b.snd_wnd \in Nat /\ b.snd_una < b.snd_max
    BY <1>0, <1>2, <1>4 DEF Armed
  <2>3. q.snd_nxt > b.snd_una
    BY <1>2, <1>3, <1>6, <1>7, <1>8, <2>1, <2>2, OutputResends
  <2> QED  BY <1>0, <1>2, <1>12, <2>3
<1>19. Armed(r, sent, end)
  BY <1>9, <1>17, <1>18 DEF Timed, Armed
<1>20. Watched(r) /\ (Shrunk(r) => Used(r))
  BY <1>9, <1>17, <1>18 DEF Timed, Watched, Shrunk, Used
<1> QED  BY <1>16, <1>19, <1>20 DEF Timed

-----------------------------------------------------------------------------
(* The timers through the functions of tcp_input *)

\* Aside, and of the timers and the window nothing changes either.
Quiet(p, q) ==
    /\ Aside(p, q)
    /\ q.timers = p.timers /\ q.snd_wl1 = p.snd_wl1 /\ q.snd_wl2 = p.snd_wl2
    /\ q.t_dupacks = p.t_dupacks
    /\ \A f \in p.t_flags : f \in q.t_flags

LEMMA QuietTimed ==
    ASSUME NEW p, NEW q, Quiet(p, q), NEW sent, NEW end
    PROVE  /\ Armed(p, sent, end) => Armed(q, sent, end)
           /\ Watched(q) <=> Watched(p)
           /\ Shrunk(q) <=> Shrunk(p)
           /\ Used(q) <=> Used(p)
BY DEF Quiet, Aside, SameSend, Armed, Watched, Shrunk, Used

LEMMA QuietTwice ==
    ASSUME NEW p, NEW b, NEW q, Quiet(p, b), Quiet(b, q)
    PROVE  Quiet(p, q)
BY DEF Quiet, Aside, SameSend

LEMMA AppendQuiet ==
    ASSUME NEW p, Socket(p), NEW data, NEW k
    PROVE  Quiet(p, sbappend(p, data, k)) /\ sbappend(p, data, k).t_flags = p.t_flags
<1>1. PICK n : n = IF p.so_rcv = <<>> THEN Min({k, Len(data)}) ELSE 0
  OBVIOUS
<1>2. PICK got : got = p.got \o SubSeq(data, 1, n)
  OBVIOUS
<1>3. PICK b : b = [p EXCEPT !.got = got]
  OBVIOUS
<1>4. PICK rest : rest = From(data, n)
  OBVIOUS
<1>5. sbappend(p, data, k) = sbappendsb(b, rest)
  BY <1>1, <1>2, <1>3, <1>4 DEF sbappend
<1>6. PICK room : room = IF sbspace(b) = 0 THEN RcvSpace ELSE sbspace(b)
  OBVIOUS
<1>7. PICK rcv : rcv = b.so_rcv \o SubSeq(rest, 1, Min({Len(rest), room}))
  OBVIOUS
<1>8. PICK q : q = [b EXCEPT !.so_rcv = rcv]
  OBVIOUS
<1>9. sbappendsb(b, rest) = q
  BY <1>6, <1>7, <1>8 DEF sbappendsb
<1>10. Quiet(p, b) /\ b.t_flags = p.t_flags
  BY <1>3 DEF Quiet, Aside, Socket, FieldNames, SameSend
<1>11. Quiet(b, q) /\ q.t_flags = b.t_flags
  BY <1>8, <1>10 DEF Quiet, Aside, Socket, FieldNames, SameSend
<1> QED  BY <1>5, <1>9, <1>10, <1>11, QuietTwice

LEMMA PresentQuiet ==
    ASSUME NEW p, Socket(p), NEW k
    PROVE  Quiet(p, Present(p, k).so)
<1> DEFINE turn == InTurn(p.reass, p.rcv_nxt)
           end == Max({EndOf(e) : e \in turn})
           holder(b) == CHOOSE e \in turn : e.seq <= b /\ b < EndOf(e)
           data == [i \in 1 .. end - p.rcv_nxt |->
                       LET b == p.rcv_nxt + i - 1 IN holder(b).data[b - holder(b).seq + 1]]
           q == [p EXCEPT !.reass = @ \ turn, !.rcv_nxt = end]
<1>1. \/ Present(p, k).so = p
      \/ Present(p, k).so = q
      \/ Present(p, k).so = sbappend(q, data, k)
  BY Zenon DEF Present
<1>2. PICK d : d = data
  OBVIOUS
<1>3. PICK e, t : e = end /\ t = p.reass \ turn
  OBVIOUS
<1>4. q = [p EXCEPT !.reass = t, !.rcv_nxt = e]
  BY <1>3
<1>5. \/ Present(p, k).so = p
      \/ Present(p, k).so = q
      \/ Present(p, k).so = sbappend(q, d, k)
  BY <1>1, <1>2
<1> HIDE DEF q, turn, end, data
<1>6. Quiet(p, q) /\ Quiet(p, p)
  BY <1>4 DEF Quiet, Aside, Socket, FieldNames, SameSend
<1>7. Quiet(q, sbappend(q, d, k))
  BY <1>6, AppendQuiet DEF Quiet, Aside
<1> QED  BY <1>5, <1>6, <1>7, QuietTwice

\* Only the next segment, of an established connection, does not ask for an ack.
LEMMA ReassQuiet ==
    ASSUME NEW p, Socket(p), NEW s, NEW k, NEW r, r = TCP_REASS(p, s, k)
    PROVE  /\ Quiet(p, r.so)
           /\ \/ "ACKNOW" \in r.so.t_flags
              \/ p.t_state = ESTABLISHED /\ r.fin = s.fin
<1>1. PICK e : e = [seq |-> s.seq, data |-> s.data, fin |-> s.fin]
  OBVIOUS
<1>2. PICK queue : queue = Enqueue(p.reass, e)
  OBVIOUS
<1>3. PICK b : b = [p EXCEPT !.reass = queue]
  OBVIOUS
<1>4. PICK t : t = Present(b, k)
  OBVIOUS
<1>5. PICK nxt : nxt = p.rcv_nxt + Len(s.data)
  OBVIOUS
<1>6. PICK c : c = [p EXCEPT !.rcv_nxt = nxt, !.t_flags = @ \cup {"DELACK"}]
  OBVIOUS
<1>7. Quiet(p, b) /\ Quiet(p, c)
  BY <1>3, <1>6 DEF Quiet, Aside, Socket, FieldNames, SameSend
<1>8. PICK data : data = s.data
  OBVIOUS
<1>9. CASE s.seq = p.rcv_nxt /\ p.reass = {} /\ p.t_state = ESTABLISHED
  <2>1. r.so = sbappend(c, data, k) /\ r.fin = s.fin
    BY <1>1, <1>5, <1>6, <1>8, <1>9 DEF TCP_REASS
  <2>2. Quiet(c, r.so)
    BY <1>7, <2>1, AppendQuiet DEF Quiet, Aside
  <2> QED  BY <1>7, <1>9, <2>1, <2>2, QuietTwice
<1>10. CASE ~(s.seq = p.rcv_nxt /\ p.reass = {} /\ p.t_state = ESTABLISHED)
  <2>1. r = [t EXCEPT !.so.t_flags = @ \cup {"ACKNOW"}]
    BY <1>1, <1>2, <1>3, <1>4, <1>10 DEF TCP_REASS
  <2>2. t = [so |-> t.so, fin |-> t.fin]
    <3>1. \E x, y : t = [so |-> x, fin |-> y]
      BY <1>4, Zenon DEF Present
    <3> QED  BY <3>1
  <2>3. r.so = [t.so EXCEPT !.t_flags = @ \cup {"ACKNOW"}]
    BY <2>1, <2>2
  <2>4. Quiet(b, t.so)
    BY <1>4, <1>7, PresentQuiet DEF Quiet, Aside
  <2>5. Quiet(t.so, r.so) /\ "ACKNOW" \in r.so.t_flags
    BY <2>3, <2>4 DEF Quiet, Aside, Socket, FieldNames, SameSend
  <2> QED  BY <1>7, <2>4, <2>5, QuietTwice
<1> QED  BY <1>9, <1>10

\* The FIN of the guest, for which an ack is always sent.
LEMMA OnFinArmed ==
    ASSUME NEW p, NEW iss, NEW next, NEW end, NEW over, SendOpen(p, iss, next, end, over),
           NEW sent, Armed(p, sent, end), NEW q, q = OnFin(p)
    PROVE  Armed(q, sent, end) /\ "ACKNOW" \in q.t_flags
<1>0. /\ Socket(p) /\ p.snd_nxt \in Nat /\ p.snd_max \in Nat /\ p.snd_nxt <= p.snd_max
      /\ p.snd_una \in Nat /\ p.snd_max <= end + 1 /\ end \in Nat
  BY DEF SendOpen, Sends, Sequence
<1>1. PICK p1 : p1 = CountFin(p)
  OBVIOUS
<1>2. /\ Quiet(p, p1) /\ "ACKNOW" \in p1.t_flags
  BY <1>0, <1>1 DEF Socket, FieldNames, SameSend, CountFin, Quiet, Aside
<1>3. PICK d : d = sofwdrain(p1)
  OBVIOUS
<1>4. Quiet(p, d) /\ "ACKNOW" \in d.t_flags
  <2>1. CASE p1.so_rcv # <<>>
    <3>1. d = [p1 EXCEPT !.so_state = @ \cup {"FWDRAIN"}]
      BY <1>3, <2>1 DEF sofwdrain
    <3>2. Quiet(p1, d) /\ "ACKNOW" \in d.t_flags
      BY <1>2, <3>1 DEF Quiet, Aside, Socket, FieldNames, SameSend
    <3> QED  BY <1>2, <3>2, QuietTwice
  <2>2. CASE p1.so_rcv = <<>>
    <3>1. d = sofcantsendmore(p1)
      BY <1>3, <2>2 DEF sofwdrain
    <3>2. PICK st : st = IF "FCANTRCVMORE" \in p1.so_state THEN {"NOFDREF"}
                         ELSE (p1.so_state \ {"ISFCONNECTING"}) \cup {"FCANTSENDMORE"}
      OBVIOUS
    <3>3. PICK w : w = IF "NOFDREF" \in p1.so_state THEN p1.end ELSE "eof"
      OBVIOUS
    <3>4. d = [p1 EXCEPT !.so_state = st, !.end = w]
      BY <3>1, <3>2, <3>3 DEF sofcantsendmore
    <3>5. Quiet(p1, d) /\ "ACKNOW" \in d.t_flags
      BY <1>2, <3>4 DEF Quiet, Aside, Socket, FieldNames, SameSend
    <3> QED  BY <1>2, <3>5, QuietTwice
  <2> QED  BY <2>1, <2>2
<1>5. Armed(d, sent, end) /\ Socket(d) /\ SameSend(p, d) /\ d.t_state = p.t_state
  BY <1>4, QuietTimed DEF Quiet, Aside
<1>6. \/ /\ p.t_state \in {SYN_RECEIVED, ESTABLISHED} /\ q = [d EXCEPT !.t_state = CLOSE_WAIT]
      \/ p.t_state = FIN_WAIT_1 /\ q = [d EXCEPT !.t_state = CLOSING]
      \/ p.t_state = FIN_WAIT_2 /\ q = [d EXCEPT !.t_state = TIME_WAIT, !.timers = {"2MSL"}]
      \/ p.t_state \notin {SYN_RECEIVED, ESTABLISHED, FIN_WAIT_1, FIN_WAIT_2} /\ q = d
  BY <1>1, <1>3 DEF OnFin, CountFin
<1>7. CASE p.t_state \in {SYN_RECEIVED, ESTABLISHED} /\ q = [d EXCEPT !.t_state = CLOSE_WAIT]
  <2>1. /\ q.timers = d.timers /\ q.snd_wl1 = d.snd_wl1 /\ q.snd_wl2 = d.snd_wl2
        /\ q.snd_wnd = d.snd_wnd /\ q.snd_una = d.snd_una /\ q.snd_nxt = d.snd_nxt
        /\ q.t_flags = d.t_flags /\ q.t_state = CLOSE_WAIT
    BY <1>5, <1>7 DEF Socket, FieldNames
  <2>2. q.t_state \notin {FIN_WAIT_2, TIME_WAIT}
    BY <2>1 DEF CLOSE_WAIT, FIN_WAIT_2, TIME_WAIT
  <2> QED  BY <1>4, <1>5, <2>1, <2>2 DEF Armed
<1>8. CASE p.t_state = FIN_WAIT_1 /\ q = [d EXCEPT !.t_state = CLOSING]
  <2>1. /\ q.timers = d.timers /\ q.snd_wl1 = d.snd_wl1 /\ q.snd_wl2 = d.snd_wl2
        /\ q.snd_wnd = d.snd_wnd /\ q.snd_una = d.snd_una /\ q.snd_nxt = d.snd_nxt
        /\ q.t_flags = d.t_flags /\ q.t_state = CLOSING
    BY <1>5, <1>8 DEF Socket, FieldNames
  <2>2. q.t_state \notin {FIN_WAIT_2, TIME_WAIT}
    BY <2>1 DEF CLOSING, FIN_WAIT_2, TIME_WAIT
  <2> QED  BY <1>4, <1>5, <2>1, <2>2 DEF Armed
<1>9. CASE p.t_state = FIN_WAIT_2 /\ q = [d EXCEPT !.t_state = TIME_WAIT, !.timers = {"2MSL"}]
  <2>1. /\ q.timers = {"2MSL"} /\ q.snd_wl1 = d.snd_wl1 /\ q.snd_wl2 = d.snd_wl2
        /\ q.snd_wnd = d.snd_wnd /\ q.snd_una = d.snd_una /\ q.snd_nxt = d.snd_nxt
        /\ q.t_flags = d.t_flags /\ q.t_state = TIME_WAIT
    BY <1>5, <1>9 DEF Socket, FieldNames
  <2>2. d.snd_una = end + 1
    BY <1>5, <1>9 DEF Armed
  <2>3. ~(d.snd_una < d.snd_nxt)
    BY <1>0, <1>5, <2>2 DEF SameSend
  <2> QED  BY <1>4, <1>5, <2>1, <2>2, <2>3 DEF Armed
<1>10. CASE /\ p.t_state \notin {SYN_RECEIVED, ESTABLISHED, FIN_WAIT_1, FIN_WAIT_2} /\ q = d
  BY <1>4, <1>5, <1>10
<1> QED  BY <1>6, <1>7, <1>8, <1>9, <1>10

LEMMA WindowArmed ==
    ASSUME NEW p, Socket(p), NEW sent, NEW end, Armed(p, sent, end),
           NEW s, s.win \in Nat, s.ack \in Int, s.seq \in Int, s.seq <= sent, s.ack <= p.snd_una
    PROVE  Armed(WindowOf(p, s), sent, end)
<1>1. PICK max : max = Max({p.max_sndwnd, s.win})
  OBVIOUS
<1>2. PICK w : w = WindowOf(p, s)
  OBVIOUS
<1>3. CASE UpdatesWindow(p, s)
  <2>1. w = [p EXCEPT !.snd_wnd = s.win, !.snd_wl1 = s.seq, !.snd_wl2 = s.ack, !.max_sndwnd = max]
    BY <1>1, <1>2, <1>3 DEF WindowOf
  <2>2. /\ w.snd_wnd = s.win /\ w.snd_wl1 = s.seq /\ w.snd_wl2 = s.ack
        /\ w.timers = p.timers /\ w.snd_una = p.snd_una /\ w.snd_nxt = p.snd_nxt
        /\ w.t_state = p.t_state
    BY <2>1 DEF Socket, FieldNames
  <2> QED  BY <1>2, <2>2 DEF Armed
<1>4. CASE ~UpdatesWindow(p, s)
  BY <1>4 DEF WindowOf
<1> QED  BY <1>3, <1>4

\* The segment carries something, or its number is the newest the guest has used;
\* or an ack is due.
Tells(p, s, sent) ==
    /\ "FIN" \in s.flags => s.fin
    /\ s.data # <<>> \/ "FIN" \in s.flags \/ s.seq = sent \/ "ACKNOW" \in p.t_flags

\* If the window shrank, and step6 need not call tcp_output, then the segment ends
\* this, or the connection is one on which this is no harm.
Shuts(p, s) ==
    /\ p.snd_wl2 < p.snd_una
    /\ \/ p.t_state = ESTABLISHED /\ p.t_dupacks = 0
       \/ s.ack = p.snd_una /\ (s.data = <<>> \/ p.t_state # ESTABLISHED)

LEMMA Step6Timed ==
    ASSUME NEW p, NEW iss, NEW next, NEW end, NEW over, SendOpen(p, iss, next, end, over),
           p.t_state >= ESTABLISHED, NEW sent \in Int, Armed(p, sent, end),
           NEW s, s.win \in Nat, s.ack \in Int, s.seq \in Int, s.seq <= sent,
           s.ack <= p.snd_una, Tells(p, s, sent), NEW needoutput,
           needoutput \/ (Watched(p) /\ (Shrunk(p) => Shuts(p, s))),
           NEW cwnd \in Nat \ {0}, NEW k
    PROVE  Timed(Step6(p, s, needoutput, cwnd, k), sent, end)
<1>0. /\ Socket(p) /\ p.t_state \in CLOSED .. TIME_WAIT
      /\ p.snd_nxt \in Nat /\ p.snd_max \in Nat /\ p.snd_nxt <= p.snd_max
      /\ p.snd_una \in Nat /\ p.snd_max <= end + 1 /\ end \in Nat
  BY DEF SendOpen, Sends, Stage, Sequence
<1>1. PICK w : w = WindowOf(p, s)
  OBVIOUS
<1>2. SendOpen(w, iss, next, end, over) /\ w.t_state = p.t_state /\ Socket(w)
  <2>1. s.win \in Int
    OBVIOUS
  <2> QED  BY <1>1, <2>1, WindowSends DEF SendOpen
<1>3. Armed(w, sent, end)
  BY <1>0, <1>1, WindowArmed
<1>4. PICK text : text <=> (s.data # <<>> \/ "FIN" \in s.flags) /\ p.t_state < TIME_WAIT
  OBVIOUS
<1>5. PICK r : r = IF text THEN TCP_REASS(w, s, k) ELSE [so |-> w, fin |-> FALSE]
  OBVIOUS
<1>6. /\ Quiet(w, r.so)
      /\ text => \/ "ACKNOW" \in r.so.t_flags
                 \/ w.t_state = ESTABLISHED /\ r.fin = s.fin
      /\ ~text => r.so = w /\ ~r.fin
  <2>1. CASE text
    <3>1. r = TCP_REASS(w, s, k)
      BY <1>5, <2>1
    <3> QED  BY <1>2, <2>1, <3>1, ReassQuiet
  <2>2. CASE ~text
    <3>1. r.so = w /\ ~r.fin
      BY <1>5, <2>2
    <3> QED  BY <1>2, <2>2, <3>1 DEF Quiet, Aside, SameSend
  <2> QED  BY <2>1, <2>2
<1>7. SendOpen(r.so, iss, next, end, over) /\ Armed(r.so, sent, end) /\ r.so.t_state = p.t_state
  BY <1>2, <1>3, <1>6, SendAside, QuietTimed DEF Quiet, Aside
<1>8. PICK q : q = IF r.fin THEN OnFin(r.so) ELSE r.so
  OBVIOUS
<1>9. /\ SendOpen(q, iss, next, end, over) /\ Armed(q, sent, end)
      /\ r.fin => "ACKNOW" \in q.t_flags
  BY <1>7, <1>8, OnFinSends, OnFinArmed
<1>10. PICK no : no = FALSE
  OBVIOUS
<1>11. Step6(p, s, needoutput, cwnd, k) =
           IF needoutput \/ UpdatesWindow(p, s) \/ "ACKNOW" \in q.t_flags
           THEN tcp_output(q, cwnd, no) ELSE q
  BY <1>1, <1>4, <1>5, <1>8, <1>10 DEF Step6
<1>12. CASE needoutput \/ UpdatesWindow(p, s) \/ "ACKNOW" \in q.t_flags
  <2>1. Timed(tcp_output(q, cwnd, no), sent, end)
    BY <1>9, <1>10, OutputTimed
  <2> QED  BY <1>11, <1>12, <2>1
<1>13. CASE ~(needoutput \/ UpdatesWindow(p, s) \/ "ACKNOW" \in q.t_flags)
  <2>1. w = p
    BY <1>1, <1>13 DEF WindowOf
  <2>2. ~r.fin /\ q = r.so
    BY <1>8, <1>9, <1>13
  <2>3. Quiet(p, q) /\ "ACKNOW" \notin p.t_flags
    BY <1>6, <1>13, <2>1, <2>2 DEF Quiet
  <2>4. Watched(q) /\ (Shrunk(q) => Shrunk(p) /\ Shuts(p, s)) /\ (Used(q) <=> Used(p))
    BY <1>13, <2>3, QuietTimed
  <2>5. Shrunk(q) => Used(q)
    <3> SUFFICES ASSUME Shrunk(p), Shuts(p, s) PROVE Used(p)
      BY <2>4
    <3>1. CASE text
      <4>1. p.t_state = ESTABLISHED /\ "FIN" \notin s.flags
        BY <1>6, <1>13, <2>1, <2>2, <3>1 DEF Tells
      <4>2. s.data # <<>>
        BY <1>4, <3>1, <4>1
      <4> QED  BY <4>1, <4>2 DEF Shuts, Used
    <3>2. CASE ~text /\ p.t_state = TIME_WAIT
      <4>1. p.snd_una = end + 1
        BY <3>2 DEF Armed
      <4>2. ~(p.snd_una < p.snd_nxt)
        BY <1>0, <4>1
      <4> QED  BY <4>2 DEF Shrunk
    <3>3. CASE ~text /\ p.t_state # TIME_WAIT
      <4>1. p.t_state < TIME_WAIT
        BY <1>0, <3>3 DEF CLOSED, TIME_WAIT
      <4>2. s.seq = sent
        BY <1>4, <2>3, <3>3, <4>1 DEF Tells
      <4>3. ~(p.snd_wl2 < s.ack)
        BY <1>13, <4>2 DEF UpdatesWindow, Armed
      <4> QED  BY <4>3 DEF Shuts, Used
    <3> QED  BY <3>1, <3>2, <3>3
  <2> QED  BY <1>9, <1>11, <1>13, <2>4, <2>5 DEF Timed
<1> QED  BY <1>12, <1>13

LEMMA LessNat ==
    ASSUME NEW wnd \in Int, NEW n \in Int
    PROVE  Less(wnd, n) \in Nat
<1>1. PICK m \in Nat \ {0} : m = WndMod
  BY Sizes
<1>2. PICK x \in Int : x = wnd - n
  OBVIOUS
<1>3. (x % m) \in Nat
  OBVIOUS
<1> QED  BY <1>1, <1>2, <1>3 DEF Less

\* What the ack of something new does to the timers.
Restarted(p, q, ack) ==
    /\ q.timers = IF ack = p.snd_max THEN p.timers \ {"REXMT"}
                  ELSE IF "PERSIST" \in p.timers THEN p.timers ELSE p.timers \cup {"REXMT"}
    /\ q.snd_wl1 = p.snd_wl1 /\ q.snd_wl2 = p.snd_wl2 /\ q.t_dupacks = 0
    /\ q.t_state = p.t_state /\ q.t_flags = p.t_flags

LEMMA NewAckTimers ==
    ASSUME NEW p, Socket(p), NEW s, NEW a, a = NewAck(p, s), NEW q, q = a.so
    PROVE  Restarted(p, q, s.ack) /\ (a.output <=> s.ack = p.snd_max)
<1>1. PICK b : b = Sbdrop(p, s.ack - p.snd_una)
  OBVIOUS
<1>2. /\ Socket(b) /\ b.timers = p.timers /\ b.snd_wl1 = p.snd_wl1 /\ b.snd_wl2 = p.snd_wl2
      /\ b.t_state = p.t_state /\ b.t_flags = p.t_flags /\ b.snd_max = p.snd_max
  BY <1>1 DEF Sbdrop, Socket, FieldNames
<1>3. PICK t : t = IF s.ack = p.snd_max THEN p.timers \ {"REXMT"}
                   ELSE IF "PERSIST" \in p.timers THEN p.timers ELSE p.timers \cup {"REXMT"}
  OBVIOUS
<1>4. PICK c : c = RestartRexmt(b, s.ack)
  OBVIOUS
<1>5. c = [b EXCEPT !.timers = t]
  BY <1>2, <1>3, <1>4 DEF RestartRexmt
<1>6. PICK wnd : wnd = Less(c.snd_wnd, Min({s.ack - p.snd_una, Len(p.so_snd)}))
  OBVIOUS
<1>7. PICK nxt : nxt = Max({c.snd_nxt, s.ack})
  OBVIOUS
<1>8. q = [c EXCEPT !.t_dupacks = 0, !.snd_wnd = wnd, !.snd_una = s.ack, !.snd_nxt = nxt]
  BY <1>1, <1>4, <1>6, <1>7 DEF NewAck
<1>9. /\ q.timers = t /\ q.snd_wl1 = p.snd_wl1 /\ q.snd_wl2 = p.snd_wl2 /\ q.t_dupacks = 0
      /\ q.t_state = p.t_state /\ q.t_flags = p.t_flags
  BY <1>2, <1>5, <1>8 DEF Socket, FieldNames
<1>10. a.output <=> s.ack = p.snd_max
  BY DEF NewAck
<1> QED  BY <1>3, <1>9, <1>10 DEF Restarted

LEMMA NewAckArmed ==
    ASSUME NEW p, Socket(p), p.snd_una \in Nat, p.snd_nxt \in Nat, p.snd_max \in Nat,
           p.snd_nxt <= p.snd_max, NEW end \in Nat, p.snd_max <= end + 1,
           Len(p.so_snd) \in Nat, NEW sent, Armed(p, sent, end),
           NEW s, s.ack \in Int, p.snd_una <= s.ack, s.ack <= p.snd_max,
           NEW a, a = NewAck(p, s), NEW q, q = a.so
    PROVE  /\ Armed(q, sent, end) /\ (a.output \/ Watched(q))
           /\ q.t_dupacks = 0 /\ q.snd_wl2 <= p.snd_una /\ q.snd_una = s.ack
           /\ q.t_flags = p.t_flags /\ q.snd_nxt <= p.snd_max /\ q.snd_nxt \in Nat
<1>1. PICK ack \in Nat : ack = s.ack
  OBVIOUS
<1>2. PICK len \in Nat : len = Len(p.so_snd)
  OBVIOUS
<1>3. PICK gone : gone = Min({s.ack - p.snd_una, len})
  OBVIOUS
<1>4. gone \in Int
  <2>1. PICK k \in Int : k = s.ack - p.snd_una
    OBVIOUS
  <2> QED  BY <1>3, <2>1, MinOfTwo
<1>5. /\ q.snd_una = s.ack /\ q.snd_nxt = Max({p.snd_nxt, s.ack})
      /\ q.snd_wnd = Less(p.snd_wnd, gone)
  <2>1. PICK d : d = NewAck(p, s).so
    OBVIOUS
  <2>2. /\ Socket(d) /\ SameInput(p, d) /\ d.rcv_adv = p.rcv_adv
        /\ d.iss = p.iss /\ d.out = p.out /\ d.t_flags = p.t_flags /\ d.snd_max = p.snd_max
        /\ d.snd_una = s.ack /\ d.snd_nxt = Max({p.snd_nxt, s.ack})
        /\ d.so_snd = From(p.so_snd, Min({s.ack - p.snd_una, Len(p.so_snd)}))
        /\ d.snd_wnd = Less(p.snd_wnd, Min({s.ack - p.snd_una, Len(p.so_snd)}))
    BY <2>1, NewAckFields, Zenon
  <2>3. q = d
    BY <2>1
  <2> QED  BY <1>2, <1>3, <2>2, <2>3
<1>6. q.snd_wnd \in Nat
  <2>1. p.snd_wnd \in Int
    BY DEF Armed
  <2> QED  BY <1>4, <1>5, <2>1, LessNat
<1>7. PICK nxt \in Nat : nxt = p.snd_nxt
  OBVIOUS
<1>8. q.snd_nxt = IF nxt >= ack THEN nxt ELSE ack
  BY <1>1, <1>5, <1>7, MaxOfTwo
<1>9. /\ q.timers = IF s.ack = p.snd_max THEN p.timers \ {"REXMT"}
                    ELSE IF "PERSIST" \in p.timers THEN p.timers ELSE p.timers \cup {"REXMT"}
      /\ q.snd_wl1 = p.snd_wl1 /\ q.snd_wl2 = p.snd_wl2 /\ q.t_dupacks = 0
      /\ q.t_state = p.t_state /\ q.t_flags = p.t_flags
      /\ a.output <=> s.ack = p.snd_max
  <2>1. Restarted(p, q, s.ack) /\ (a.output <=> s.ack = p.snd_max)
    BY NewAckTimers
  <2> QED  BY <2>1 DEF Restarted
<1>10. /\ p.snd_wl1 \in Int /\ p.snd_wl2 \in Int /\ p.snd_wl1 <= sent /\ p.snd_wl2 <= p.snd_una
       /\ ~("REXMT" \in p.timers /\ "PERSIST" \in p.timers)
       /\ p.snd_una < p.snd_nxt => "REXMT" \in p.timers
       /\ p.t_state \in {FIN_WAIT_2, TIME_WAIT} => p.snd_una = end + 1
  BY DEF Armed
<1>11. ~("REXMT" \in q.timers /\ "PERSIST" \in q.timers)
  BY <1>9, <1>10
<1>12. q.snd_una < q.snd_nxt => "REXMT" \in q.timers
  <2>1. q.snd_una < q.snd_nxt => ack < nxt
    BY <1>1, <1>5, <1>8
  <2>2. ack < nxt => s.ack # p.snd_max /\ p.snd_una < p.snd_nxt
    BY <1>1, <1>7
  <2>3. s.ack # p.snd_max /\ "REXMT" \in p.timers => "REXMT" \in q.timers
    BY <1>9, <1>10
  <2> QED  BY <1>10, <2>1, <2>2, <2>3
<1>13. q.t_state \in {FIN_WAIT_2, TIME_WAIT} => q.snd_una = end + 1
  BY <1>5, <1>9, <1>10
<1>14. q.snd_wl2 <= p.snd_una /\ q.snd_wl2 <= q.snd_una
  BY <1>5, <1>9, <1>10
<1>15. Armed(q, sent, end)
  BY <1>6, <1>9, <1>10, <1>11, <1>12, <1>13, <1>14 DEF Armed
<1>16. a.output \/ Watched(q)
  BY <1>9 DEF Watched
<1>17. q.snd_nxt <= p.snd_max /\ q.snd_nxt \in Nat
  BY <1>1, <1>7, <1>8
<1> QED  BY <1>5, <1>9, <1>14, <1>15, <1>16, <1>17

\* An ack of something new, with what the ack of the FIN changes.
LEMMA NewAckTimed ==
    ASSUME NEW p, NEW iss, NEW next, NEW end, NEW over, SendOpen(p, iss, next, end, over),
           p.t_state >= ESTABLISHED, NEW sent, Armed(p, sent, end),
           NEW s, s.ack \in Int, p.snd_una <= s.ack, s.ack <= p.snd_max,
           NEW a, a = NewAck(p, s),
           NEW q, q = IF a.finAcked THEN FinAcked(a.so) ELSE a.so,
           ~(p.t_state = LAST_ACK /\ a.finAcked)
    PROVE  /\ Armed(q, sent, end) /\ (a.output \/ Watched(q))
           /\ q.t_dupacks = 0 /\ q.snd_wl2 <= p.snd_una /\ q.snd_una = s.ack
           /\ q.t_flags = p.t_flags /\ (a.output \/ q.t_state = p.t_state)
<1>0. /\ Socket(p) /\ p.snd_una \in Nat /\ p.snd_nxt \in Nat /\ p.snd_max \in Nat
      /\ p.snd_nxt <= p.snd_max /\ end \in Nat /\ p.snd_max <= end + 1
      /\ Len(p.so_snd) \in Nat
  BY StretchLen DEF SendOpen, Sends, Sequence
<1>1. PICK ack \in Int : ack = s.ack
  OBVIOUS
<1>2. PICK b : b = a.so
  OBVIOUS
<1>3. /\ Armed(b, sent, end) /\ (a.output \/ Watched(b))
      /\ b.t_dupacks = 0 /\ b.snd_wl2 <= p.snd_una /\ b.snd_una = s.ack
      /\ b.t_flags = p.t_flags /\ b.snd_nxt <= p.snd_max /\ b.snd_nxt \in Nat
  BY <1>0, <1>2, NewAckArmed
<1>4. Acked(p, b, ack) /\ (a.finAcked <=> ack - p.snd_una > Len(p.so_snd))
  BY <1>1, <1>2, NewAckSends
<1>5. Socket(b) /\ b.t_state = p.t_state
  BY <1>4 DEF Acked
<1>6. CASE ~a.finAcked
  <2>1. q = b
    BY <1>2, <1>6
  <2> QED  BY <1>3, <1>5, <2>1
<1>7. CASE a.finAcked
  <2>1. b.snd_una = end + 1 /\ p.t_state \in FinStates
    BY <1>1, <1>4, <1>7, AckedSends
  <2>2. a.output
    <3>1. s.ack = p.snd_max
      BY <1>0, <1>3, <2>1
    <3> QED  BY <3>1 DEF NewAck
  <2>3. ~(b.snd_una < b.snd_nxt)
    BY <1>0, <1>3, <2>1
  <2>4. q = FinAcked(b) /\ b.t_state # LAST_ACK
    BY <1>2, <1>5, <1>7
  <2>5. CASE b.t_state = FIN_WAIT_1
    <3>1. PICK t : t = b.timers \cup IF "FCANTRCVMORE" \in b.so_state THEN {"2MSL"} ELSE {}
      OBVIOUS
    <3>2. q = [b EXCEPT !.t_state = FIN_WAIT_2, !.timers = t]
      BY <2>4, <2>5, <3>1 DEF FinAcked, FIN_WAIT_1, CLOSING, LAST_ACK
    <3>3. /\ q.timers = t /\ q.snd_wl1 = b.snd_wl1 /\ q.snd_wl2 = b.snd_wl2
          /\ q.snd_wnd = b.snd_wnd /\ q.snd_una = b.snd_una /\ q.snd_nxt = b.snd_nxt
          /\ q.t_flags = b.t_flags /\ q.t_dupacks = b.t_dupacks
      BY <1>5, <3>2 DEF Socket, FieldNames
    <3>4. ~("REXMT" \in q.timers /\ "PERSIST" \in q.timers)
      BY <1>3, <3>1, <3>3 DEF Armed
    <3> QED  BY <1>3, <2>1, <2>2, <2>3, <3>3, <3>4 DEF Armed
  <2>6. CASE b.t_state = CLOSING
    <3>1. q = [b EXCEPT !.t_state = TIME_WAIT, !.timers = {"2MSL"}]
      BY <2>4, <2>6 DEF FinAcked, FIN_WAIT_1, CLOSING, LAST_ACK
    <3>2. /\ q.timers = {"2MSL"} /\ q.snd_wl1 = b.snd_wl1 /\ q.snd_wl2 = b.snd_wl2
          /\ q.snd_wnd = b.snd_wnd /\ q.snd_una = b.snd_una /\ q.snd_nxt = b.snd_nxt
          /\ q.t_flags = b.t_flags /\ q.t_dupacks = b.t_dupacks
      BY <1>5, <3>1 DEF Socket, FieldNames
    <3> QED  BY <1>3, <2>1, <2>2, <2>3, <3>2 DEF Armed
  <2>7. CASE b.t_state \notin {FIN_WAIT_1, CLOSING}
    <3>1. q = b
      BY <2>4, <2>7 DEF FinAcked
    <3> QED  BY <1>3, <1>5, <3>1
  <2> QED  BY <2>5, <2>6, <2>7
<1> QED  BY <1>6, <1>7

LEMMA DropAfterAckTimed ==
    ASSUME NEW p, NEW iss, NEW next, NEW end, NEW over, SendOpen(p, iss, next, end, over),
           NEW sent, Armed(p, sent, end), NEW cwnd \in Nat \ {0}
    PROVE  Timed(DropAfterAck(p, cwnd), sent, end)
<1>1. PICK q : q = [p EXCEPT !.t_flags = @ \cup {"ACKNOW"}]
  OBVIOUS
<1>2. Quiet(p, q)
  BY <1>1 DEF SendOpen, Quiet, Aside, Socket, FieldNames, SameSend
<1>3. SendOpen(q, iss, next, end, over) /\ Armed(q, sent, end)
  BY <1>2, SendAside, QuietTimed DEF Quiet
<1>4. PICK no : no = FALSE
  OBVIOUS
<1>5. Timed(tcp_output(q, cwnd, no), sent, end)
  BY <1>3, <1>4, OutputTimed
<1> QED  BY <1>1, <1>4, <1>5 DEF DropAfterAck

\* The socket is gone, or its timers are as they must be.
TimedLeft(p, sent, end) ==
    (p.t_state = CLOSED /\ p.timers = {}) \/ Timed(p, sent, end)

LEMMA CloseTimed ==
    ASSUME NEW p, NEW why, NEW sent, NEW end
    PROVE  /\ TimedLeft(tcp_close(p, why), sent, end)
           /\ TimedLeft(DropWithReset(tcp_close(p, why)), sent, end)
<1>1. PICK q : q = tcp_close(p, why)
  OBVIOUS
<1>2. Socket(q) /\ q.t_state = CLOSED /\ q.timers = {}
  BY <1>1 DEF tcp_close, NewSocket, Socket, FieldNames
<1>3. PICK r : r = DropWithReset(q)
  OBVIOUS
<1>4. r.t_state = CLOSED /\ r.timers = {}
  BY <1>2, <1>3 DEF DropWithReset, Socket, FieldNames
<1> QED  BY <1>1, <1>2, <1>3, <1>4 DEF TimedLeft

\* What is known of a segment when tcp_input comes to its ack.
Heard(p, s, sent) ==
    /\ s.win \in Nat /\ s.ack \in Int /\ s.seq \in Int /\ s.seq <= sent
    /\ Tells(p, s, sent)

\* A segment that acks nothing new.
LEMMA OldAckTimed ==
    ASSUME NEW p, NEW iss, NEW next, NEW end, NEW over, SendOpen(p, iss, next, end, over),
           p.t_state >= ESTABLISHED, NEW sent \in Int, Timed(p, sent, end),
           NEW s, Heard(p, s, sent), s.ack <= p.snd_una, NEW cwnd \in Nat \ {0}, NEW k,
           NEW dups, dups = IF CountedDup(p, s) THEN p.t_dupacks + 1 ELSE 0,
           NEW p1, p1 = [p EXCEPT !.t_dupacks = dups], NEW no, no = FALSE
    PROVE  Timed(Step6(p1, s, no, cwnd, k), sent, end)
<1>1. /\ Socket(p1) /\ p1.t_state = p.t_state /\ p1.so_snd = p.so_snd /\ p1.snd_wnd = p.snd_wnd
      /\ p1.snd_una = p.snd_una /\ p1.snd_nxt = p.snd_nxt /\ p1.snd_wl1 = p.snd_wl1
      /\ p1.snd_wl2 = p.snd_wl2 /\ p1.timers = p.timers /\ p1.t_dupacks = dups
      /\ p1.t_flags = p.t_flags /\ Aside(p, p1)
  BY DEF SendOpen, Socket, FieldNames, Aside, SameSend
<1>2. SendOpen(p1, iss, next, end, over)
  BY <1>1, SendAside
<1>3. Armed(p1, sent, end) /\ Watched(p1) /\ (Shrunk(p1) => Used(p))
  BY <1>1 DEF Timed, Armed, Watched, Shrunk
<1>4. ASSUME Used(p) PROVE Shuts(p1, s)
  <2>1. p1.t_state = ESTABLISHED /\ p1.snd_wl2 < p1.snd_una
    BY <1>1, <1>4 DEF Used
  <2>2. CASE CountedDup(p, s)
    <3>1. s.ack = p1.snd_una /\ s.data = <<>>
      BY <1>1, <2>2 DEF CountedDup, Duplicate
    <3> QED  BY <2>1, <3>1 DEF Shuts
  <2>3. CASE ~CountedDup(p, s)
    <3>1. p1.t_dupacks = 0
      BY <1>1, <2>3
    <3> QED  BY <2>1, <3>1 DEF Shuts
  <2> QED  BY <2>2, <2>3
<1>5. Tells(p1, s, sent)
  BY <1>1 DEF Heard, Tells
<1>6. no \/ (Watched(p1) /\ (Shrunk(p1) => Shuts(p1, s)))
  BY <1>3, <1>4
<1>7. /\ s.win \in Nat /\ s.ack \in Int /\ s.seq \in Int /\ s.seq <= sent
      /\ s.ack <= p1.snd_una /\ p1.t_state >= ESTABLISHED
  BY <1>1 DEF Heard
<1> QED  BY <1>2, <1>3, <1>5, <1>6, <1>7, Step6Timed

LEMMA AckStatesTimed ==
    ASSUME NEW p, NEW iss, NEW next, NEW end, NEW over, SendOpen(p, iss, next, end, over),
           p.t_state >= ESTABLISHED, NEW sent \in Int, Timed(p, sent, end),
           NEW s, Heard(p, s, sent), NEW cwnd \in Nat \ {0}, NEW k
    PROVE  TimedLeft(AckStates(p, s, cwnd, k), sent, end)
<1> DEFINE r == AckStates(p, s, cwnd, k)
<1>0. /\ Socket(p) /\ p.snd_una \in Nat /\ p.snd_max \in Nat /\ p.snd_max <= end + 1
      /\ s.ack \in Int /\ s.win \in Nat /\ Armed(p, sent, end)
  BY DEF SendOpen, Sends, Sequence, Heard, Timed
<1>1. PICK dups : dups = IF CountedDup(p, s) THEN p.t_dupacks + 1 ELSE 0
  OBVIOUS
<1>2. PICK p1 : p1 = [p EXCEPT !.t_dupacks = dups]
  OBVIOUS
<1>3. PICK p2 : p2 = [p EXCEPT !.t_dupacks = 0]
  OBVIOUS
<1>4. PICK a : a = NewAck(p, s)
  OBVIOUS
<1>5. PICK q : q = IF a.finAcked THEN FinAcked(a.so) ELSE a.so
  OBVIOUS
<1>6. PICK w : w = [q EXCEPT !.timers = @ \cup {"2MSL"}]
  OBVIOUS
<1>7. PICK no : no = FALSE
  OBVIOUS
<1>8. \/ CountedDup(p, s) /\ p.t_dupacks + 1 = RexmtThresh /\ r = FastRexmt(p, s)
      \/ r = tcp_output(p, cwnd, no)
      \/ s.ack <= p.snd_una /\ r = Step6(p1, s, no, cwnd, k)
      \/ r = DropAfterAck(p2, cwnd)
      \/ /\ ~(s.ack <= p.snd_una) /\ ~(s.ack > p.snd_max)
         /\ \/ p.t_state = LAST_ACK /\ a.finAcked /\ r = q
            \/ /\ ~(p.t_state = LAST_ACK /\ a.finAcked) /\ p.t_state = TIME_WAIT
               /\ r = DropAfterAck(w, cwnd)
            \/ ~(p.t_state = LAST_ACK /\ a.finAcked) /\ r = Step6(q, s, a.output, cwnd, k)
  BY <1>1, <1>2, <1>3, <1>4, <1>5, <1>6, <1>7 DEF AckStates
<1> HIDE DEF r
<1>10. CASE CountedDup(p, s) /\ p.t_dupacks + 1 = RexmtThresh /\ r = FastRexmt(p, s)
  <2>1. s.ack = p.snd_una /\ "REXMT" \in p.timers
    BY <1>10 DEF CountedDup
  <2> QED  BY <1>10, <2>1, FastRexmtTimed DEF TimedLeft, r
<1>11. CASE r = tcp_output(p, cwnd, no)
  BY <1>0, <1>7, <1>11, OutputTimed DEF TimedLeft, r
<1>12. CASE s.ack <= p.snd_una /\ r = Step6(p1, s, no, cwnd, k)
  <2>1. Timed(Step6(p1, s, no, cwnd, k), sent, end)
    BY <1>1, <1>2, <1>7, <1>12, OldAckTimed
  <2> QED  BY <1>12, <2>1 DEF TimedLeft, r
<1>13. CASE r = DropAfterAck(p2, cwnd)
  <2>1. /\ Aside(p, p2) /\ p2.snd_wl1 = p.snd_wl1 /\ p2.snd_wl2 = p.snd_wl2
        /\ p2.timers = p.timers
    BY <1>0, <1>3 DEF Aside, Socket, FieldNames, SameSend
  <2>2. SendOpen(p2, iss, next, end, over)
    BY <2>1, SendAside
  <2>3. Armed(p2, sent, end)
    BY <1>0, <2>1 DEF Armed, Aside, SameSend
  <2> QED  BY <1>13, <2>2, <2>3, DropAfterAckTimed DEF TimedLeft, r
<1>14. CASE /\ ~(s.ack <= p.snd_una) /\ ~(s.ack > p.snd_max)
            /\ \/ p.t_state = LAST_ACK /\ a.finAcked /\ r = q
               \/ /\ ~(p.t_state = LAST_ACK /\ a.finAcked) /\ p.t_state = TIME_WAIT
                  /\ r = DropAfterAck(w, cwnd)
               \/ ~(p.t_state = LAST_ACK /\ a.finAcked) /\ r = Step6(q, s, a.output, cwnd, k)
  <2>1. p.snd_una <= s.ack /\ s.ack <= p.snd_max /\ p.snd_una < s.ack
    BY <1>0, <1>14
  <2>2. CASE p.t_state = LAST_ACK /\ a.finAcked /\ r = q
    <3>1. PICK b : b = a.so
      OBVIOUS
    <3>2. Socket(b) /\ b.t_state = p.t_state
      <4>1. PICK ack \in Int : ack = s.ack
        BY <1>0
      <4>2. Acked(p, b, ack)
        BY <1>4, <3>1, <4>1, NewAckSends
      <4> QED  BY <4>2 DEF Acked
    <3>3. q = tcp_close(b, "done")
      BY <1>5, <2>2, <3>1, <3>2, FinAckedIs
    <3> QED  BY <2>2, <3>3, CloseTimed DEF r
  <2>3. CASE p.t_state = TIME_WAIT
    <3>1. p.snd_una = end + 1
      BY <1>0, <2>3 DEF Armed
    <3> QED  BY <1>0, <2>1, <3>1
  <2>4. CASE ~(p.t_state = LAST_ACK /\ a.finAcked) /\ r = Step6(q, s, a.output, cwnd, k)
    <3>1. SendOpen(q, iss, next, end, over) /\ q.t_state >= ESTABLISHED
      BY <1>0, <1>4, <1>5, <2>1, <2>4, NewAckLeaves
    <3>2. /\ Armed(q, sent, end) /\ (a.output \/ Watched(q))
          /\ q.t_dupacks = 0 /\ q.snd_wl2 <= p.snd_una /\ q.snd_una = s.ack
          /\ q.t_flags = p.t_flags /\ (a.output \/ q.t_state = p.t_state)
      BY <1>0, <1>4, <1>5, <2>1, <2>4, NewAckTimed
    <3>3. q.snd_wl2 < q.snd_una
      BY <1>0, <2>1, <3>2 DEF Armed
    <3>4. Shrunk(q) => Shuts(q, s)
      BY <3>2, <3>3 DEF Shuts
    <3>5. Tells(q, s, sent)
      BY <3>2 DEF Heard, Tells
    <3>6. /\ s.win \in Nat /\ s.ack \in Int /\ s.seq \in Int /\ s.seq <= sent
          /\ s.ack <= q.snd_una
      BY <1>0, <3>2 DEF Heard
    <3>7. PICK output : output = a.output
      OBVIOUS
    <3>8. output \/ (Watched(q) /\ (Shrunk(q) => Shuts(q, s)))
      BY <3>2, <3>4, <3>7
    <3>9. Timed(Step6(q, s, output, cwnd, k), sent, end)
      BY <3>1, <3>2, <3>5, <3>6, <3>8, Step6Timed
    <3> QED  BY <2>4, <3>7, <3>9 DEF TimedLeft, r
  <2> QED  BY <1>14, <2>2, <2>3, <2>4
<1> QED  BY <1>8, <1>10, <1>11, <1>12, <1>13, <1>14 DEF r

\* The ack of slirp's SYN, if it is one.
LEMMA AckOfSynTimed ==
    ASSUME NEW p, NEW iss, NEW next, NEW end, NEW over, SendOpen(p, iss, next, end, over),
           p.t_state = SYN_RECEIVED, NEW sent \in Int, Timed(p, sent, end),
           NEW s, Heard(p, s, sent), s.ack # iss, NEW cwnd \in Nat \ {0}, NEW k
    PROVE  Timed(AckOfSyn(p, s, cwnd, k), sent, end)
<1> DEFINE r == AckOfSyn(p, s, cwnd, k)
<1>1. /\ Sequence(p, iss, next, end) /\ Stage(p, iss, end, over) /\ Socket(p)
      /\ Armed(p, sent, end)
  BY DEF SendOpen, Sends, Timed
<1>2. /\ p.snd_una = iss /\ end = iss + 1 /\ iss \in Nat
      /\ p.snd_nxt \in Nat /\ p.snd_nxt <= p.snd_max
  BY <1>1 DEF Sequence, Stage
<1>3. PICK wl1 : wl1 = s.seq - 1
  OBVIOUS
<1>4. PICK states : states = (p.so_state \ {"ISFCONNECTING", "FWDRAIN", "NOFDREF"})
                             \cup {"ISFCONNECTED"}
  OBVIOUS
<1>5. PICK p1 : p1 = [p EXCEPT !.t_state = ESTABLISHED, !.snd_una = s.ack,
                               !.so_state = states, !.snd_wl1 = wl1]
  OBVIOUS
<1>6. PICK q : q = Present(p1, k).so
  OBVIOUS
<1>7. PICK a : a = NewAck(q, s)
  OBVIOUS
<1>8. PICK b : b = a.so
  OBVIOUS
<1>9. \/ r = DropWithReset(p)
      \/ /\ ~(s.ack > p.snd_max \/ s.ack < p.snd_una)
         /\ r = Step6(b, s, a.output, cwnd, k)
  BY <1>3, <1>4, <1>5, <1>6, <1>7, <1>8 DEF AckOfSyn
<1>10. s.win \in Nat /\ s.ack \in Int /\ s.seq \in Int /\ s.seq <= sent /\ Tells(p, s, sent)
  BY DEF Heard
<1> HIDE DEF r
<1>11. CASE r = DropWithReset(p)
  <2>1. /\ r.t_state = p.t_state /\ r.so_snd = p.so_snd /\ r.t_dupacks = p.t_dupacks
        /\ r.snd_una = p.snd_una /\ r.snd_nxt = p.snd_nxt /\ r.timers = p.timers
        /\ r.snd_wnd = p.snd_wnd /\ r.snd_wl1 = p.snd_wl1 /\ r.snd_wl2 = p.snd_wl2
    BY <1>1, <1>11 DEF DropWithReset, Socket, FieldNames
  <2>2. Timed(r, sent, end)
    BY <2>1 DEF Timed, Armed, Watched, Shrunk, Used
  <2> QED  BY <2>2 DEF r
<1>12. CASE /\ ~(s.ack > p.snd_max \/ s.ack < p.snd_una)
            /\ r = Step6(b, s, a.output, cwnd, k)
  <2>0. OpenedBy(p, s, k, states, wl1, p1, q, a, b)
    BY <1>5, <1>6, <1>7, <1>8 DEF OpenedBy, Opened
  <2>1. /\ SendOpen(b, iss, next, end, over) /\ b.t_state = ESTABLISHED /\ b.so_snd = <<>>
        /\ Socket(p1) /\ Aside(p1, q) /\ s.ack = end /\ p.snd_max = end
        /\ q.snd_una = end /\ q.snd_nxt = p.snd_nxt /\ q.snd_max = end /\ q.so_snd = <<>>
    BY <1>10, <1>12, <2>0, SynAcked
  <2>2. /\ p1.snd_wl1 = wl1 /\ p1.snd_wl2 = p.snd_wl2 /\ p1.timers = p.timers
        /\ p1.t_flags = p.t_flags /\ p1.snd_wnd = p.snd_wnd /\ p1.snd_una = end
        /\ p1.snd_nxt = p.snd_nxt /\ p1.t_state = ESTABLISHED
    BY <1>1, <1>5, <2>1 DEF Socket, FieldNames
  <2>3. Quiet(p1, q)
    BY <1>6, <2>1, PresentQuiet
  <2>4. Armed(p1, sent, end)
    <3>1. wl1 \in Int /\ wl1 <= sent
      BY <1>3, <1>10
    <3>2. p.snd_wl2 <= end /\ ~(end < p.snd_nxt)
      BY <1>1, <1>2, <2>1 DEF Armed
    <3>3. p1.t_state \notin {FIN_WAIT_2, TIME_WAIT}
      BY <2>2 DEF ESTABLISHED, FIN_WAIT_2, TIME_WAIT
    <3> QED  BY <1>1, <2>2, <3>1, <3>2, <3>3 DEF Armed
  <2>5. Armed(q, sent, end)
    BY <2>3, <2>4, QuietTimed
  <2>6. /\ Socket(q) /\ q.snd_una \in Nat /\ q.snd_nxt \in Nat /\ q.snd_max \in Nat
        /\ q.snd_nxt <= q.snd_max /\ end \in Nat /\ q.snd_max <= end + 1
        /\ Len(q.so_snd) \in Nat /\ q.snd_una <= s.ack /\ s.ack <= q.snd_max
    BY <1>2, <2>1 DEF Aside
  <2>7. Armed(b, sent, end) /\ b.t_flags = q.t_flags /\ b.snd_una = s.ack
    BY <1>7, <1>8, <1>10, <2>5, <2>6, NewAckArmed
  <2>8. Tells(b, s, sent)
    <3>1. p.t_flags \subseteq b.t_flags
      BY <2>2, <2>3, <2>7 DEF Quiet
    <3> QED  BY <1>10, <3>1 DEF Tells
  <2>9. Watched(b) /\ ~Shrunk(b)
    BY <2>1 DEF Watched, Shrunk
  <2>10. PICK output : output = a.output
    OBVIOUS
  <2>11. output \/ (Watched(b) /\ (Shrunk(b) => Shuts(b, s)))
    BY <2>9
  <2>12. b.t_state >= ESTABLISHED /\ s.ack <= b.snd_una
    BY <1>2, <2>1, <2>7 DEF ESTABLISHED
  <2>13. Timed(Step6(b, s, output, cwnd, k), sent, end)
    BY <1>10, <2>1, <2>7, <2>8, <2>11, <2>12, Step6Timed
  <2> QED  BY <1>12, <2>10, <2>13 DEF r
<1> QED  BY <1>9, <1>11, <1>12 DEF r

\* An ack and nothing else, on a connection whose window is open.
LEMMA OnPureAckTimed ==
    ASSUME NEW p, NEW iss, NEW next, NEW end, NEW over, SendOpen(p, iss, next, end, over),
           NEW sent, Timed(p, sent, end),
           NEW s, s.ack \in Int, NEW cwnd \in Nat \ {0}, Predicted(p, s), PureAck(p, s, cwnd)
    PROVE  Timed(OnPureAck(p, s, cwnd), sent, end)
<1>0. /\ Socket(p) /\ p.snd_una \in Nat /\ p.snd_max \in Nat /\ p.snd_nxt = p.snd_max
      /\ p.t_state = ESTABLISHED /\ p.snd_una <= s.ack /\ s.ack <= p.snd_max
      /\ p.snd_una < s.ack /\ Armed(p, sent, end)
  BY DEF SendOpen, Sends, Sequence, Predicted, PureAck, Timed
<1>1. PICK rest : rest = From(p.so_snd, Min({s.ack - p.snd_una, Len(p.so_snd)}))
  OBVIOUS
<1>2. PICK b : b = Sbdrop(p, s.ack - p.snd_una)
  OBVIOUS
<1>3. b = [p EXCEPT !.so_snd = rest]
  BY <1>1, <1>2 DEF Sbdrop
<1>4. PICK c : c = [b EXCEPT !.snd_una = s.ack]
  OBVIOUS
<1>5. /\ Socket(c) /\ c.t_state = p.t_state /\ c.timers = p.timers /\ c.snd_wl1 = p.snd_wl1
      /\ c.snd_wl2 = p.snd_wl2 /\ c.snd_wnd = p.snd_wnd /\ c.snd_una = s.ack
      /\ c.snd_nxt = p.snd_nxt /\ c.snd_max = p.snd_max /\ c.so_snd = rest
  BY <1>0, <1>3, <1>4 DEF Socket, FieldNames
<1>6. PICK t : t = IF s.ack = c.snd_max THEN c.timers \ {"REXMT"}
                   ELSE IF "PERSIST" \in c.timers THEN c.timers ELSE c.timers \cup {"REXMT"}
  OBVIOUS
<1>7. PICK q : q = RestartRexmt(c, s.ack)
  OBVIOUS
<1>8. q = [c EXCEPT !.timers = t]
  BY <1>6, <1>7 DEF RestartRexmt
<1>9. /\ q.t_state = p.t_state /\ q.timers = t /\ q.snd_wl1 = p.snd_wl1
      /\ q.snd_wl2 = p.snd_wl2 /\ q.snd_wnd = p.snd_wnd /\ q.snd_una = s.ack
      /\ q.snd_nxt = p.snd_nxt /\ q.so_snd = rest
  BY <1>5, <1>8 DEF Socket, FieldNames
<1>10. Armed(q, sent, end)
  <2>1. ~("REXMT" \in t /\ "PERSIST" \in t)
    BY <1>0, <1>5, <1>6 DEF Armed
  <2>2. s.ack < p.snd_nxt => "REXMT" \in t
    <3>1. "REXMT" \in p.timers
      BY <1>0 DEF Armed
    <3> QED  BY <1>0, <1>5, <1>6, <3>1
  <2>3. p.snd_wl2 <= s.ack
    BY <1>0 DEF Armed
  <2>4. q.t_state \notin {FIN_WAIT_2, TIME_WAIT}
    BY <1>0, <1>9 DEF ESTABLISHED, FIN_WAIT_2, TIME_WAIT
  <2> QED  BY <1>0, <1>9, <2>1, <2>2, <2>3, <2>4 DEF Armed
<1>11. PICK no : no = FALSE
  OBVIOUS
<1>12. OnPureAck(p, s, cwnd) = IF q.so_snd # <<>> THEN tcp_output(q, cwnd, no) ELSE q
  BY <1>2, <1>4, <1>7, <1>11 DEF OnPureAck
<1>13. CASE q.so_snd = <<>>
  <2>1. Timed(q, sent, end)
    BY <1>10, <1>13 DEF Timed, Watched, Shrunk
  <2> QED  BY <1>12, <1>13, <2>1
<1>14. CASE q.so_snd # <<>>
  <2>0. PureAckedBy(p, s, b, c, q)
    BY <1>2, <1>4, <1>7 DEF PureAckedBy
  <2>1. SendOpen(q, iss, next, end, over)
    BY <2>0, PureAcked
  <2>2. Timed(tcp_output(q, cwnd, no), sent, end)
    BY <1>10, <1>11, <2>1, OutputTimed
  <2> QED  BY <1>12, <1>14, <2>2
<1> QED  BY <1>13, <1>14

LEMMA OnPureDataTimed ==
    ASSUME NEW p, NEW iss, NEW next, NEW end, NEW over, SendOpen(p, iss, next, end, over),
           NEW sent, Armed(p, sent, end), NEW s, NEW cwnd \in Nat \ {0}, NEW k
    PROVE  Timed(OnPureData(p, s, cwnd, k), sent, end)
<1>1. PICK nxt, data : nxt = p.rcv_nxt + Len(s.data) /\ data = s.data
  OBVIOUS
<1>2. PICK b : b = [p EXCEPT !.rcv_nxt = nxt]
  OBVIOUS
<1>3. PICK c : c = sbappend(b, data, k)
  OBVIOUS
<1>4. PICK q : q = [c EXCEPT !.t_flags = @ \cup {"ACKNOW"}]
  OBVIOUS
<1>5. Quiet(p, b)
  BY <1>2 DEF SendOpen, Quiet, Aside, Socket, FieldNames, SameSend
<1>6. Quiet(b, c)
  BY <1>3, <1>5, AppendQuiet DEF Quiet, Aside
<1>7. Quiet(c, q)
  BY <1>4, <1>6 DEF Quiet, Aside, Socket, FieldNames, SameSend
<1>8. Quiet(p, q)
  BY <1>5, <1>6, <1>7, QuietTwice
<1>9. SendOpen(q, iss, next, end, over) /\ Armed(q, sent, end)
  BY <1>8, SendAside, QuietTimed DEF Quiet
<1>10. PICK no : no = FALSE
  OBVIOUS
<1>11. Timed(tcp_output(q, cwnd, no), sent, end)
  BY <1>9, <1>10, OutputTimed
<1> QED  BY <1>1, <1>2, <1>3, <1>4, <1>10, <1>11 DEF OnPureData

\* A segment that acknowledges is up to date, or carries something.
Newest(s, sent) ==
    "ACK" \in s.flags => /\ s.win \in Nat /\ s.ack \in Int /\ s.seq <= sent
                         /\ (Text(s) \/ s.seq = sent)

LEMMA TrimLeftQuiet ==
    ASSUME NEW p, Socket(p), NEW s
    PROVE  Quiet(p, TrimLeft(p, s).so)
<1>1. PICK u : u = [p EXCEPT !.t_flags = @ \cup {"ACKNOW"}]
  OBVIOUS
<1>2. TrimLeft(p, s).so = p \/ TrimLeft(p, s).so = u
  BY <1>1 DEF TrimLeft
<1>3. Quiet(p, p) /\ Quiet(p, u)
  BY <1>1 DEF Quiet, Aside, Socket, FieldNames, SameSend
<1> QED  BY <1>2, <1>3

\* When nothing is left of a segment, an ack is due.
LEMMA TrimLeftTells ==
    ASSUME NEW p, Socket(p), p.rcv_nxt \in Nat, NEW sent \in Int, NEW s, FromGuest(s, sent),
           Newest(s, sent), "ACK" \in s.flags, Within(p, s),
           NEW q, q = TrimLeft(p, s).so, NEW g, g = TrimLeft(p, s).seg
    PROVE  /\ Fresh(p, g, sent) /\ g.seq <= sent /\ ("FIN" \in g.flags => g.fin)
           /\ Text(g) \/ g.seq = sent \/ "ACKNOW" \in q.t_flags
<1>0. Fresh(p, g, sent)
  BY TrimLeftIs
<1>1. /\ Segment(s) /\ "SYN" \notin s.flags /\ s.seq \in Nat /\ s.seq <= sent
      /\ s.data \in Seq(Nat) /\ Len(s.data) \in Nat /\ (Text(s) \/ s.seq = sent)
      /\ "FIN" \in s.flags => s.fin
      /\ Text(s) => EndOf(PieceOf(s)) + Fin1(PieceOf(s)) <= sent
  BY DEF FromGuest, Newest, Stretch
<1>2. PICK len \in Nat : len = Len(s.data)
  BY <1>1
<1>3. s.seq + len <= sent
  <2>1. CASE Text(s)
    <3>1. EndOf(PieceOf(s)) = s.seq + len
      BY <1>2 DEF EndOf, PieceOf
    <3>2. Fin1(PieceOf(s)) \in Nat
      BY DEF Fin1
    <3> QED  BY <1>1, <2>1, <3>1, <3>2
  <2>2. CASE ~Text(s)
    <3>1. len = 0
      BY <1>2, <2>2 DEF Text
    <3> QED  BY <1>1, <3>1
  <2> QED  BY <2>1, <2>2
<1>4. CASE p.rcv_nxt <= s.seq
  <2>1. g = s
    BY <1>4 DEF TrimLeft
  <2> QED  BY <1>0, <1>1, <2>1
<1>5. CASE ~(p.rcv_nxt <= s.seq)
  <2> DEFINE syn == IF s.seq < p.rcv_nxt /\ "SYN" \in s.flags THEN 1 ELSE 0
             ago == p.rcv_nxt - s.seq - syn
             nothing == ago > Len(s.data) \/ (ago = Len(s.data) /\ "FIN" \notin s.flags)
             drop == IF nothing THEN Len(s.data) ELSE ago
             gone == {"SYN"} \cup IF nothing THEN {"FIN"} ELSE {}
  <2>1. /\ g = [s EXCEPT !.seq = @ + syn + drop, !.data = From(@, drop), !.flags = @ \ gone]
        /\ q = IF nothing THEN [p EXCEPT !.t_flags = @ \cup {"ACKNOW"}] ELSE p
    BY <1>5 DEF TrimLeft
  <2>2. syn = 0
    BY <1>1
  <2>3. PICK old \in Nat \ {0} : old = p.rcv_nxt - s.seq
    BY <1>1, <1>5
  <2>4. ago = old
    BY <1>1, <2>2, <2>3
  <2>5. nothing <=> (old > len \/ (old = len /\ "FIN" \notin s.flags))
    BY <1>2, <2>4
  <2>6. drop = IF nothing THEN len ELSE old
    BY <1>2, <2>4
  <2> HIDE DEF syn, ago, nothing, drop
  <2>7. drop \in Nat
    BY <2>6
  <2>8. PICK seq \in Nat : seq = s.seq + syn + drop
    BY <1>1, <2>2, <2>7
  <2>9. PICK d : d = From(s.data, drop)
    OBVIOUS
  <2>10. g = [s EXCEPT !.seq = seq, !.data = d, !.flags = @ \ gone]
    BY <2>1, <2>8, <2>9
  <2>11. g.seq = seq /\ g.data = d /\ g.flags = s.flags \ gone /\ g.fin = s.fin
    BY <1>1, <2>10 DEF Segment
  <2>12. CASE nothing
    <3>1. seq <= sent
      BY <1>1, <1>3, <2>2, <2>6, <2>8, <2>12
    <3>2. q = [p EXCEPT !.t_flags = @ \cup {"ACKNOW"}]
      BY <2>1, <2>12
    <3>3. "ACKNOW" \in q.t_flags
      BY <3>2 DEF Socket, FieldNames
    <3> QED  BY <1>0, <1>1, <2>11, <3>1, <3>3
  <2>13. CASE ~nothing
    <3>1. old <= len /\ (old = len => "FIN" \in s.flags) /\ drop = old
      BY <2>5, <2>6, <2>13
    <3>2. seq <= sent
      BY <1>1, <1>3, <2>2, <2>8, <3>1
    <3>3. CASE old = len
      <4>1. "FIN" \in g.flags
        BY <2>11, <2>13, <3>1, <3>3
      <4> QED  BY <1>0, <1>1, <2>11, <3>2, <4>1 DEF Text
    <3>4. CASE old < len
      <4>1. old <= Len(s.data) /\ Stretch(s.data, s.seq, s.seq + Len(s.data))
        BY <1>2, <3>1 DEF FromGuest
      <4>2. Len(d) = len - old
        <5>1. PICK c \in Nat : c = s.seq + old
          BY <1>1
        <5>2. PICK last \in Nat : last = s.seq + Len(s.data)
          BY <1>1
        <5> QED  BY <1>2, <2>9, <3>1, <4>1, <5>1, <5>2, StretchFrom
      <4>3. d # <<>>
        BY <3>4, <4>2
      <4> QED  BY <1>0, <1>1, <2>11, <3>2, <4>3 DEF Text
    <3> QED  BY <3>1, <3>3, <3>4
  <2> QED  BY <2>12, <2>13
<1> QED  BY <1>4, <1>5

\* As much as the window has no room for is taken from the end of a segment; when
\* this is all of it, an ack is due.
LEMMA TrimRightTells ==
    ASSUME NEW p, NEW sent \in Int, RecvOpen(p, sent), NEW g, Fresh(p, g, sent), g.seq <= sent,
           "FIN" \in g.flags => g.fin,
           Text(g) \/ g.seq = sent \/ "ACKNOW" \in p.t_flags,
           NEW s, s = TrimRight(p, g), NEW r,
           r = IF Beyond(p, g) > 0 /\ Beyond(p, g) >= Len(g.data)
               THEN [p EXCEPT !.t_flags = @ \cup {"ACKNOW"}] ELSE p
    PROVE  s.seq \in Int /\ s.seq <= sent /\ Tells(r, s, sent)
<1>1. Segment(g) /\ g.seq \in Nat /\ g.data \in Seq(Nat) /\ Len(g.data) \in Nat
  BY DEF Fresh
<1>2. PICK beyond \in Int : beyond = Beyond(p, g)
  BY <1>1, BeyondIs
<1>3. PICK len \in Nat : len = Len(g.data)
  BY <1>1
<1>4. r = IF beyond > 0 /\ beyond >= len THEN [p EXCEPT !.t_flags = @ \cup {"ACKNOW"}] ELSE p
  BY <1>2, <1>3
<1>5. Socket(p)
  BY DEF RecvOpen
<1>6. CASE beyond <= 0
  <2>1. s = g
    BY <1>2, <1>6 DEF TrimRight
  <2>2. r = p
    BY <1>4, <1>6
  <2> QED  BY <1>1, <2>1, <2>2 DEF Tells, Text
<1>7. CASE beyond > 0
  <2>1. PICK n \in Int : n = Len(g.data) - beyond
    BY <1>3
  <2>2. PICK d : d = Take(g.data, n)
    OBVIOUS
  <2>3. s = [g EXCEPT !.data = d, !.flags = @ \ {"FIN"}]
    BY <1>2, <1>7, <2>1, <2>2 DEF TrimRight, Take
  <2>4. s.seq = g.seq /\ s.data = d /\ "FIN" \notin s.flags
    BY <1>1, <2>3 DEF Segment
  <2>5. CASE beyond >= len
    <3>1. r = [p EXCEPT !.t_flags = @ \cup {"ACKNOW"}]
      BY <1>4, <1>7, <2>5
    <3>2. "ACKNOW" \in r.t_flags
      BY <1>5, <3>1 DEF Socket, FieldNames
    <3> QED  BY <1>1, <2>4, <3>2 DEF Tells
  <2>6. CASE beyond < len
    <3>1. n \in Nat /\ n <= Len(g.data) /\ n > 0
      BY <1>3, <1>7, <2>1, <2>6
    <3>2. Len(d) = n
      BY <1>1, <2>2, <3>1 DEF Take
    <3>3. d # <<>>
      BY <3>1, <3>2
    <3> QED  BY <1>1, <2>4, <3>3 DEF Tells
  <2> QED  BY <2>5, <2>6
<1> QED  BY <1>2, <1>6, <1>7

\* A segment that was received leaves the timers as they must be.
LEMMA OnSegmentTimed ==
    ASSUME NEW p, NEW iss, NEW next, NEW end, NEW over, SendOpen(p, iss, next, end, over),
           NEW sent \in Int, RecvOpen(p, sent), Timed(p, sent, end),
           NEW s0, FromGuest(s0, sent), Newest(s0, sent), Within(p, s0),
           "ACK" \in s0.flags => s0.ack # iss, NEW cwnd \in Nat \ {0}, NEW k
    PROVE  TimedLeft(OnSegment(p, s0, cwnd, k), sent, end)
<1> DEFINE t == OnSegment(p, s0, cwnd, k)
<1>1. PICK l : l = TrimLeft(p, s0)
  OBVIOUS
<1>2. PICK q : q = l.so
  OBVIOUS
<1>3. PICK g : g = l.seg
  OBVIOUS
<1>4. PICK s : s = TrimRight(q, g)
  OBVIOUS
<1>5. PICK u : u = [q EXCEPT !.t_flags = @ \cup {"ACKNOW"}]
  OBVIOUS
<1>6. PICK r : r = IF Beyond(q, g) > 0 /\ Beyond(q, g) >= Len(g.data) THEN u ELSE q
  OBVIOUS
<1>7. \/ Predicted(p, s0) /\ PureAck(p, s0, cwnd) /\ t = OnPureAck(p, s0, cwnd)
      \/ t = OnPureData(p, s0, cwnd, k)
      \/ t = DropWithReset(tcp_close(q, "reset"))
      \/ t = q
      \/ t = DropAfterAck(q, cwnd)
      \/ t = tcp_close(r, "reset")
      \/ t = DropWithReset(tcp_drop(r, cwnd))
      \/ t = r
      \/ /\ "ACK" \in s.flags
         /\ \/ r.t_state = SYN_RECEIVED /\ t = AckOfSyn(r, s, cwnd, k)
            \/ r.t_state # SYN_RECEIVED /\ t = AckStates(r, s, cwnd, k)
  BY <1>1, <1>2, <1>3, <1>4, <1>5, <1>6 DEF OnSegment
<1> HIDE DEF t
<1>8. Socket(p) /\ Armed(p, sent, end) /\ p.rcv_nxt \in Nat /\ Segment(s0)
  BY DEF SendOpen, Timed, RecvOpen, Flow, Types, FromGuest
<1>9. /\ Aside(p, q) /\ Segment(g) /\ ("ACK" \in g.flags => "ACK" \in s0.flags)
      /\ g.ack = s0.ack /\ g.win = s0.win
  BY <1>1, <1>2, <1>3, <1>8, TrimLeftAside
<1>10. s.ack = s0.ack /\ s.win = s0.win /\ ("ACK" \in s.flags => "ACK" \in s0.flags)
  BY <1>4, <1>9, TrimRightAside
<1>11. Quiet(p, q)
  BY <1>1, <1>2, <1>8, TrimLeftQuiet
<1>12. Quiet(q, u)
  BY <1>5, <1>9 DEF Quiet, Aside, Socket, FieldNames, SameSend
<1>13. Quiet(p, r)
  <2>1. Quiet(p, u)
    BY <1>11, <1>12, QuietTwice
  <2> QED  BY <1>6, <1>11, <2>1
<1>14. Timed(q, sent, end) /\ Timed(r, sent, end)
  BY <1>11, <1>13, QuietTimed DEF Timed
<1>15. /\ SendOpen(q, iss, next, end, over) /\ SendOpen(r, iss, next, end, over)
       /\ r.t_state = p.t_state
  BY <1>11, <1>13, SendAside DEF Quiet, Aside
<1>16. CASE Predicted(p, s0) /\ PureAck(p, s0, cwnd) /\ t = OnPureAck(p, s0, cwnd)
  <2>1. s0.ack \in Int
    BY <1>16 DEF Predicted, Newest
  <2> QED  BY <1>16, <2>1, OnPureAckTimed DEF TimedLeft, t
<1>17. CASE t = OnPureData(p, s0, cwnd, k)
  BY <1>8, <1>17, OnPureDataTimed DEF TimedLeft, t
<1>18. CASE t = DropWithReset(tcp_close(q, "reset"))
  BY <1>18, CloseTimed DEF t
<1>19. CASE t = q
  BY <1>14, <1>19 DEF TimedLeft, t
<1>20. CASE t = DropAfterAck(q, cwnd)
  <2>1. Armed(q, sent, end)
    BY <1>14 DEF Timed
  <2> QED  BY <1>15, <1>20, <2>1, DropAfterAckTimed DEF TimedLeft, t
<1>21. CASE t = tcp_close(r, "reset")
  BY <1>21, CloseTimed DEF t
<1>22. CASE t = DropWithReset(tcp_drop(r, cwnd))
  BY <1>22, CloseTimed DEF tcp_drop, t
<1>23. CASE t = r
  BY <1>14, <1>23 DEF TimedLeft, t
<1>24. CASE /\ "ACK" \in s.flags
            /\ \/ r.t_state = SYN_RECEIVED /\ t = AckOfSyn(r, s, cwnd, k)
               \/ r.t_state # SYN_RECEIVED /\ t = AckStates(r, s, cwnd, k)
  <2>1. s.ack \in Int /\ s.win \in Nat /\ s.ack # iss /\ "ACK" \in s0.flags
    BY <1>10, <1>24 DEF Newest
  <2>2. /\ Fresh(p, g, sent) /\ g.seq <= sent /\ ("FIN" \in g.flags => g.fin)
        /\ Text(g) \/ g.seq = sent \/ "ACKNOW" \in q.t_flags
    BY <1>1, <1>2, <1>3, <1>8, <2>1, TrimLeftTells
  <2>3. RecvOpen(q, sent) /\ Fresh(q, g, sent)
    <3>1. Socket(q) /\ SameInput(p, q) /\ q.rcv_adv = p.rcv_adv
      BY <1>1, <1>2, TrimLeftSocket
    <3>2. RecvOpen(q, sent)
      BY <3>1, RecvAside
    <3> QED  BY <2>2, <3>1, <3>2 DEF Fresh, Within, SameInput
  <2>4. s.seq \in Int /\ s.seq <= sent /\ Tells(r, s, sent)
    BY <1>4, <1>5, <1>6, <2>2, <2>3, TrimRightTells
  <2>5. Heard(r, s, sent)
    BY <2>1, <2>4 DEF Heard
  <2>6. CASE r.t_state = SYN_RECEIVED /\ t = AckOfSyn(r, s, cwnd, k)
    <3>1. Timed(t, sent, end)
      BY <1>14, <1>15, <2>1, <2>5, <2>6, AckOfSynTimed
    <3> QED  BY <3>1 DEF TimedLeft, t
  <2>7. CASE r.t_state # SYN_RECEIVED /\ t = AckStates(r, s, cwnd, k)
    <3>1. r.t_state \in CLOSED .. TIME_WAIT /\ r.t_state >= SYN_RECEIVED
      BY <1>15 DEF SendOpen, Sends, Stage, RecvOpen, Phase, SYN_RECEIVED, TIME_WAIT
    <3>2. r.t_state >= ESTABLISHED
      BY <2>7, <3>1 DEF CLOSED, SYN_RECEIVED, ESTABLISHED, TIME_WAIT
    <3>3. TimedLeft(t, sent, end)
      BY <1>14, <1>15, <2>5, <2>7, <3>2, AckStatesTimed
    <3> QED  BY <3>3 DEF t
  <2> QED  BY <1>24, <2>6, <2>7
<1> QED  BY <1>7, <1>16, <1>17, <1>18, <1>19, <1>20, <1>21, <1>22, <1>23, <1>24 DEF t
-----------------------------------------------------------------------------
(* The timers, as an invariant *)

\* The number behind all that the socket has read of the host's stream.
Behind == Number(made, host.read + 1)

SocketTimed ==
    /\ Exists /\ Connecting => so.snd_wl1 = 0 /\ so.snd_wl2 = 0
    /\ Exists /\ ~Connecting => Timed(so, guest.nxt, Behind)

TimerInv == GuestWin \in Nat /\ SocketTimed

LEMMA CwndsMore == Cwnds \subseteq Nat \ {0}
BY Sizes DEF Cwnds

LEMMA TimedMore ==
    ASSUME NEW p, NEW sent \in Int, NEW more \in Int, sent <= more, NEW end, Timed(p, sent, end)
    PROVE  Timed(p, more, end)
BY DEF Timed, Armed

\* The function under way has returned.
LEMMA TimedReturns ==
    ASSUME NEW p, Socket(p), Returns(p), p.t_state = CLOSED \/ "ISFCONNECTING" \notin p.so_state,
           TimedLeft(p, guest'.nxt, Behind')
    PROVE  SocketTimed'
<1>1. PICK q : q = [p EXCEPT !.out = {}]
  OBVIOUS
<1>2. so' = q
  BY <1>1 DEF Returns
<1>3. /\ q.t_state = p.t_state /\ q.so_state = p.so_state /\ q.timers = p.timers
      /\ q.so_snd = p.so_snd /\ q.snd_una = p.snd_una /\ q.snd_nxt = p.snd_nxt
      /\ q.snd_wnd = p.snd_wnd /\ q.snd_wl1 = p.snd_wl1 /\ q.snd_wl2 = p.snd_wl2
      /\ q.t_dupacks = p.t_dupacks
  BY <1>1 DEF Socket, FieldNames
<1>4. (Exists' <=> p.t_state # CLOSED) /\ (Connecting' <=> "ISFCONNECTING" \in p.so_state)
  BY <1>2, <1>3 DEF Exists, Connecting
<1>5. ASSUME p.t_state # CLOSED PROVE Timed(so', guest'.nxt, Behind')
  <2>1. PICK sent, end : sent = guest'.nxt /\ end = Behind'
    OBVIOUS
  <2>2. Timed(p, sent, end)
    BY <1>5, <2>1 DEF TimedLeft
  <2>3. Timed(q, sent, end)
    BY <1>3, <2>2 DEF Timed, Armed, Watched, Shrunk, Used
  <2> QED  BY <1>2, <2>1, <2>3
<1> QED  BY <1>4, <1>5 DEF SocketTimed

\* What is known of an open socket.
LEMMA OpenIs ==
    ASSUME StreamInv, Exists, ~Connecting
    PROVE  /\ made \in Nat /\ host.read \in Nat /\ guest.nxt \in Nat /\ so.out = {}
           /\ SendOpen(so, Number(made, 0), host.read + 1, Behind, Over)
           /\ RecvOpen(so, guest.nxt) /\ Socket(so)
<1>1. PICK R : SendInv(R)
  BY DEF StreamInv
<1>2. R[made] = host.read /\ made \in Nat /\ so.out = {}
  BY <1>1 DEF SendInv, SocketSends, Reads
<1>3. SendOpen(so, Number(made, 0), R[made] + 1, Number(made, R[made] + 1), Over)
  BY <1>1 DEF SendInv, SocketSends
<1>4. SendOpen(so, Number(made, 0), host.read + 1, Behind, Over)
  BY <1>2, <1>3 DEF Behind
<1>5. host.read \in Nat
  BY DEF StreamInv, HostInv
<1>6. RecvOpen(so, guest.nxt) /\ Socket(so) /\ guest.nxt \in Nat
  BY RecvKind DEF StreamInv, RecvInv, Exists, Connecting
<1> QED  BY <1>2, <1>4, <1>5, <1>6

\* A step of slirp that reads nothing of the host.
LEMMA TimedKeeps ==
    ASSUME NEW p, Socket(p), Returns(p), p.t_state = CLOSED \/ "ISFCONNECTING" \notin p.so_state,
           TimedLeft(p, guest.nxt, Behind), UNCHANGED <<made, guest, host>>
    PROVE  SocketTimed'
<1>1. guest'.nxt = guest.nxt /\ Behind' = Behind
  BY DEF Behind
<1>2. TimedLeft(p, guest'.nxt, Behind')
  BY <1>1
<1> QED  BY <1>2, TimedReturns

\* A call of tcp_output that ends such a step.
LEMMA OutputKeeps ==
    ASSUME NEW p, NEW iss, NEW next, NEW over, SendOpen(p, iss, next, Behind, over),
           Armed(p, guest.nxt, Behind), NEW cwnd \in Nat \ {0}, NEW force \in BOOLEAN,
           force => "PERSIST" \in p.timers, "ISFCONNECTING" \notin p.so_state,
           NEW q, q = tcp_output(p, cwnd, force), Returns(q), UNCHANGED <<made, guest, host>>
    PROVE  SocketTimed'
<1>1. PICK end : end = Behind
  OBVIOUS
<1>2. SendOpen(p, iss, next, end, over) /\ Armed(p, guest.nxt, end)
  BY <1>1
<1>3. Timed(q, guest.nxt, end)
  BY <1>2, OutputTimed
<1>4. Socket(p)
  BY DEF SendOpen
<1>5. Socket(q) /\ q.so_state = p.so_state
  BY <1>4, OutputFields DEF SameInput
<1>6. TimedLeft(q, guest.nxt, Behind)
  BY <1>1, <1>3 DEF TimedLeft
<1> QED  BY <1>5, <1>6, TimedKeeps
LEMMA ConnectedTimed ==
    ASSUME StreamInv, SocketTimed, Connected
    PROVE  SocketTimed'
<1>0. PICK R : SendInv(R)
  BY DEF StreamInv
<1>1. Exists /\ Connecting /\ RecvPending(so) /\ guest.nxt \in Nat
  BY RecvKind DEF StreamInv, RecvInv, Connected, Exists, Connecting
<1>2. /\ made \in Nat /\ so.so_snd = <<>> /\ so.snd_wnd = 0 /\ so.out = {}
      /\ so.snd_wl1 = 0 /\ so.snd_wl2 = 0
  BY <1>0, <1>1 DEF SendInv, Reads, SocketSends, SocketTimed
<1>3. PICK iss : iss = made * IssIncr
  OBVIOUS
<1>4. PICK p : p = [so EXCEPT !.so_state = {}, !.iss = iss, !.snd_una = iss, !.snd_nxt = iss,
                              !.snd_max = iss, !.rcv_nxt = 1, !.rcv_adv = 1, !.t_flags = {"ACKNOW"}]
  OBVIOUS
<1>5. PICK no, q : no = FALSE /\ q = tcp_output(p, Mss, no)
  OBVIOUS
<1>6. Returns(q)
  BY <1>3, <1>4, <1>5 DEF Connected
<1>7. /\ Socket(p) /\ p.t_state = SYN_RECEIVED /\ p.so_state = {} /\ p.t_flags = {"ACKNOW"}
      /\ p.so_snd = <<>> /\ p.snd_wnd = 0 /\ p.out = {} /\ p.iss = iss /\ p.snd_una = iss
      /\ p.snd_nxt = iss /\ p.snd_max = iss /\ p.snd_wl1 = 0 /\ p.snd_wl2 = 0 /\ p.timers = {}
  BY <1>1, <1>2, <1>4 DEF RecvPending, Socket, FieldNames
<1>8. iss \in Nat /\ iss = Number(made, 0) /\ Number(made, 1) = iss + 1
  BY <1>2, <1>3, NumberIs
<1>9. PICK over : over <=> FALSE
  BY Zenon
<1>10. PICK next, end : next = 1 /\ end = iss + 1
  OBVIOUS
<1>11. SendOpen(p, iss, next, end, over)
  <2>1. Sequence(p, iss, next, end)
    <3>1. Stretch(p.so_snd, 1, next)
      BY <1>7, <1>10, StretchEmpty
    <3> QED  BY <1>7, <1>8, <1>10, <3>1 DEF Sequence
  <2>2. Stage(p, iss, end, over)
    BY <1>7, <1>8, <1>10 DEF Stage, FinStates, CLOSED, SYN_RECEIVED, ESTABLISHED, FIN_WAIT_1,
       CLOSING, LAST_ACK, FIN_WAIT_2, TIME_WAIT
  <2> QED  BY <1>7, <2>1, <2>2 DEF SendOpen, Sends, OutSaid
<1>12. Armed(p, guest.nxt, end)
  BY <1>1, <1>7, <1>8 DEF Armed, SYN_RECEIVED, FIN_WAIT_2, TIME_WAIT
<1>13. Mss \in Nat \ {0}
  BY Sizes
<1>14. Timed(q, guest.nxt, end)
  BY <1>5, <1>11, <1>12, <1>13, OutputTimed
<1>15. Socket(q) /\ q.so_state = {}
  BY <1>5, <1>7, OutputFields DEF SameInput
<1>16. guest'.nxt = guest.nxt /\ Behind' = end
  <2>1. host' = NewHost /\ UNCHANGED <<made, guest>>
    BY Zenon DEF Connected
  <2>2. host'.read + 1 = 1
    BY <2>1 DEF NewHost
  <2> QED  BY <1>8, <1>10, <2>1, <2>2 DEF Behind
<1>17. TimedLeft(q, guest'.nxt, Behind')
  BY <1>14, <1>16 DEF TimedLeft
<1> QED  BY <1>6, <1>15, <1>17, TimedReturns

LEMMA ConnectFailsTimed ==
    ASSUME StreamInv, ConnectFails
    PROVE  SocketTimed'
<1>1. PICK q : q = tcp_close(so, "refused")
  OBVIOUS
<1>2. PICK p : p = DropWithReset(q) /\ Returns(p)
  BY <1>1 DEF ConnectFails
<1>3. Socket(so)
  BY RecvKind DEF StreamInv, RecvInv
<1>4. Socket(q) /\ q.t_state = CLOSED
  BY <1>1, <1>3, CloseFields
<1>5. Socket(p) /\ p.t_state = CLOSED
  BY <1>2, <1>4 DEF DropWithReset, Socket, FieldNames
<1>6. TimedLeft(p, guest.nxt, Behind)
  BY <1>1, <1>2, CloseTimed
<1>7. UNCHANGED <<made, guest, host>>
  BY Zenon DEF ConnectFails
<1> QED  BY <1>2, <1>5, <1>6, <1>7, TimedKeeps

LEMMA SoReadTimed ==
    ASSUME StreamInv, SocketTimed, SoRead
    PROVE  SocketTimed'
<1>1. RecvOpen(so, guest.nxt) /\ so.t_state >= ESTABLISHED
  BY RecvKind DEF StreamInv, RecvInv, SoRead
<1>2. Exists /\ ~Connecting
  BY <1>1 DEF RecvOpen, Phase, Exists, Connecting, CLOSED, SYN_RECEIVED, TIME_WAIT
<1>3. PICK n \in 1 .. Min({host.sent - host.read, SndSpace - Len(so.so_snd)}), cwnd \in Cwnds :
        /\ Returns(tcp_output([so EXCEPT !.so_snd = @ \o [i \in 1 .. n |-> host.read + i]],
                              cwnd, FALSE))
        /\ host' = [host EXCEPT !.read = @ + n]
  BY DEF SoRead
<1>4. PICK read \in Nat, sent0 \in Nat : read = host.read /\ sent0 = host.sent /\ read <= sent0
  BY DEF StreamInv, HostInv
<1>5. /\ made \in Nat /\ so.out = {} /\ Socket(so) /\ guest.nxt \in Nat
      /\ SendOpen(so, Number(made, 0), host.read + 1, Behind, Over)
  BY <1>2, OpenIs
<1>6. PICK next, end, iss : next = read + 1 /\ end = Behind /\ iss = Number(made, 0)
  OBVIOUS
<1>7. PICK over : over <=> Over
  BY Zenon
<1>8. SendOpen(so, iss, next, end, over)
  <2>1. PICK o : o = Over
    OBVIOUS
  <2>2. SendOpen(so, iss, next, end, o)
    BY <1>4, <1>5, <1>6, <2>1
  <2>3. o => over
    BY <1>7, <2>1
  <2> QED  BY <2>2, <2>3, SendMore
<1>9. \E a \in Nat \ {0} : Stretch(so.so_snd, a, next)
  BY <1>8 DEF SendOpen, Sends, Sequence
<1>10. PICK len \in Nat : len = Len(so.so_snd)
  BY <1>9, StretchLen
<1>11. n \in Nat \ {0} /\ n <= sent0 - read
  <2>0. SndSpace \in Int /\ SndSpace - len \in Int /\ sent0 - read \in Int
    BY Sizes
  <2>1. PICK x \in Int, y \in Int : /\ x = host.sent - host.read /\ y = SndSpace - Len(so.so_snd)
                                 /\ x = sent0 - read
    BY <1>4, <1>10, <2>0
  <2>2. Min({x, y}) \in Int /\ Min({x, y}) <= x
    BY <2>1, MinOfTwo
  <2>3. n \in 1 .. Min({x, y})
    BY <2>1
  <2> QED  BY <1>4, <2>1, <2>2, <2>3
<1>12. ~Over
  <2>1. host.read # host.sent
    BY <1>4, <1>11
  <2>2. ~host.reset
    BY DEF SoRead
  <2> QED  BY <2>1, <2>2 DEF Over
<1>13. PICK k \in Nat : k = read + n
  BY <1>4, <1>11
<1>14. PICK next2, end2 : next2 = k + 1 /\ end2 = Number(made, next2)
  OBVIOUS
<1>15. next2 = next + n /\ end2 = end + n
  <2>1. PICK x \in Nat, y \in Nat, c \in Nat : x = next /\ y = next2 /\ c = n /\ y = x + c
    BY <1>4, <1>6, <1>11, <1>13, <1>14
  <2>2. Number(made, x) = Number(made, 0) + x /\ Number(made, y) = Number(made, 0) + y
        /\ Number(made, 0) \in Nat
    BY <1>5, <2>1, NumberIs
  <2>3. PICK z \in Nat : z = Number(made, 0)
    BY <2>2
  <2>4. end = z + x /\ end2 = z + y
    BY <1>4, <1>6, <1>14, <2>1, <2>2, <2>3 DEF Behind
  <2> QED  BY <2>1, <2>4
<1>16. PICK t : t = [i \in 1 .. n |-> read + i]
  OBVIOUS
<1>17. Stretch(t, next, next2)
  <2>1. t = [i \in 1 .. n |-> next + i - 1]
    <3>1. \A i \in 1 .. n : read + i = next + i - 1
      BY <1>4, <1>6, <1>11
    <3> QED  BY <1>16, <3>1
  <2>2. next \in Nat /\ next > 0 /\ n \in Nat
    BY <1>4, <1>6, <1>11
  <2> QED  BY <1>15, <2>1, <2>2, StretchOf
<1>18. PICK d : d = so.so_snd \o t
  OBVIOUS
<1>19. PICK p : p = [so EXCEPT !.so_snd = d]
  OBVIOUS
<1>20. ~over
  BY <1>7, <1>12
<1>21. SendOpen(p, iss, next2, end2, over)
  BY <1>1, <1>5, <1>8, <1>11, <1>15, <1>17, <1>18, <1>19, <1>20, ReadSends
<1>22. so.t_state \notin FinStates
  BY <1>8, <1>20 DEF SendOpen, Sends, Stage
<1>23. Armed(p, guest.nxt, end2) /\ Socket(p) /\ p.so_state = so.so_state
  <2>1. Armed(so, guest.nxt, end)
    BY <1>2, <1>6 DEF SocketTimed, Timed
  <2>2. /\ Socket(p) /\ p.so_state = so.so_state /\ p.t_state = so.t_state
        /\ p.timers = so.timers /\ p.snd_wnd = so.snd_wnd /\ p.snd_wl1 = so.snd_wl1
        /\ p.snd_wl2 = so.snd_wl2 /\ p.snd_una = so.snd_una /\ p.snd_nxt = so.snd_nxt
    BY <1>5, <1>19 DEF Socket, FieldNames
  <2> QED  BY <1>22, <2>1, <2>2 DEF Armed, FinStates
<1>24. PICK no, q : no = FALSE /\ q = tcp_output(p, cwnd, no)
  OBVIOUS
<1>25. Returns(q)
  <2>1. t = [i \in 1 .. n |-> host.read + i]
    BY <1>4, <1>16
  <2>2. p = [so EXCEPT !.so_snd = @ \o [i \in 1 .. n |-> host.read + i]]
    BY <1>18, <1>19, <2>1
  <2> QED  BY <1>3, <1>24, <2>2
<1>26. cwnd \in Nat \ {0}
  BY CwndsMore
<1>27. Timed(q, guest.nxt, end2)
  BY <1>21, <1>23, <1>24, <1>26, OutputTimed
<1>28. Socket(q) /\ q.so_state = p.so_state
  BY <1>23, <1>24, OutputFields DEF SameInput
<1>29. guest'.nxt = guest.nxt /\ Behind' = end2
  <2>1. UNCHANGED <<made, guest>>
    BY Zenon DEF SoRead
  <2>2. host'.read = host.read + n
    BY <1>3 DEF StreamInv, HostInv
  <2>3. host'.read + 1 = next2
    BY <1>4, <1>13, <1>14, <2>2
  <2> QED  BY <1>14, <2>1, <2>3 DEF Behind
<1>30. TimedLeft(q, guest'.nxt, Behind')
  BY <1>27, <1>29 DEF TimedLeft
<1>31. "ISFCONNECTING" \notin q.so_state
  BY <1>2, <1>23, <1>28 DEF Connecting
<1> QED  BY <1>25, <1>28, <1>30, <1>31, TimedReturns
LEMMA SoReadEndsTimed ==
    ASSUME StreamInv, SocketTimed, SoReadEnds \/ SoWriteFails
    PROVE  SocketTimed'
<1>1. RecvOpen(so, guest.nxt) /\ so.t_state >= ESTABLISHED
  BY RecvKind DEF StreamInv, RecvInv, SoReadEnds, SoWriteFails
<1>2. Exists /\ ~Connecting
  BY <1>1 DEF RecvOpen, Phase, Exists, Connecting, CLOSED, SYN_RECEIVED, TIME_WAIT
<1>3. Socket(so) /\ SendOpen(so, Number(made, 0), host.read + 1, Behind, Over)
  BY <1>2, OpenIs
<1>4. Armed(so, guest.nxt, Behind) /\ Over /\ UNCHANGED <<made, guest, host>>
  BY <1>2, Zenon DEF SocketTimed, Timed, SoReadEnds, SoWriteFails, Over
<1>5. PICK p : /\ p = sofcantrcvmore(so) \/ p = sofcantsendmore(so)
               /\ \E cwnd \in Cwnds : Returns(tcp_sockclosed(p, cwnd))
  <2>1. CASE SoReadEnds
    <3>1. \E cwnd \in Cwnds : Returns(tcp_sockclosed(sofcantrcvmore(so), cwnd))
      BY <2>1 DEF SoReadEnds
    <3> QED  BY <3>1
  <2>2. CASE SoWriteFails
    <3>1. \E cwnd \in Cwnds : Returns(tcp_sockclosed(sofcantsendmore(so), cwnd))
      BY <2>2 DEF SoWriteFails
    <3> QED  BY <3>1
  <2> QED  BY <2>1, <2>2
<1>6. PICK cwnd \in Cwnds : Returns(tcp_sockclosed(p, cwnd))
  BY <1>5
<1>7. PICK r : r = [p EXCEPT !.t_state = AfterEnd(p.t_state)]
  OBVIOUS
<1>8. Quiet(so, p) /\ "ISFCONNECTING" \notin p.so_state
  <2>1. CASE p = sofcantrcvmore(so)
    BY <1>2, <1>3, <2>1 DEF sofcantrcvmore, Quiet, Aside, SameSend, Socket, FieldNames, Connecting
  <2>2. CASE p = sofcantsendmore(so)
    BY <1>2, <1>3, <2>2 DEF sofcantsendmore, Quiet, Aside, SameSend, Socket, FieldNames, Connecting
  <2> QED  BY <1>5, <2>1, <2>2
<1>9. /\ Socket(r) /\ r.t_state = AfterEnd(so.t_state) /\ SameSend(so, r)
      /\ r.so_state = p.so_state /\ r.timers = so.timers /\ r.snd_wl1 = so.snd_wl1
      /\ r.snd_wl2 = so.snd_wl2
  BY <1>7, <1>8 DEF Quiet, Aside, Socket, FieldNames, SameSend
<1>10. PICK iss, next, end, over : /\ iss = Number(made, 0) /\ next = host.read + 1
                                  /\ end = Behind /\ over = Over
  OBVIOUS
<1>11. SendOpen(r, iss, next, end, over)
  <2>1. over
    BY <1>4, <1>10
  <2>2. SendOpen(so, iss, next, end, over)
    BY <1>3, <1>10
  <2> QED  BY <1>1, <1>9, <2>1, <2>2, EndSends
<1>12. Armed(r, guest.nxt, Behind)
  <2>1. r.t_state \in {FIN_WAIT_2, TIME_WAIT} => so.t_state \in {FIN_WAIT_2, TIME_WAIT}
    BY <1>9 DEF AfterEnd, SYN_RECEIVED, ESTABLISHED, CLOSE_WAIT, FIN_WAIT_1, LAST_ACK,
       FIN_WAIT_2, TIME_WAIT
  <2> QED  BY <1>4, <1>9, <2>1 DEF Armed, SameSend
<1>13. PICK no, q : no = FALSE /\ q = tcp_output(r, cwnd, no) /\ Returns(q)
  BY <1>7, <1>6, SockClosedIs
<1>14. cwnd \in Nat \ {0}
  BY CwndsMore
<1>15. SendOpen(r, iss, next, Behind, over) /\ "ISFCONNECTING" \notin r.so_state
  BY <1>8, <1>9, <1>10, <1>11
<1> QED  BY <1>4, <1>12, <1>13, <1>14, <1>15, OutputKeeps

LEMMA SoWriteTimed ==
    ASSUME StreamInv, SocketTimed, SoWrite
    PROVE  SocketTimed'
<1>1. RecvOpen(so, guest.nxt)
  BY RecvKind DEF StreamInv, RecvInv, SoWrite
<1>2. Exists /\ ~Connecting
  BY <1>1 DEF RecvOpen, Phase, Exists, Connecting, CLOSED, SYN_RECEIVED, TIME_WAIT
<1>3. Socket(so)
  BY <1>2, OpenIs
<1>4. PICK n \in 1 .. Len(so.so_rcv) :
        LET p == [so EXCEPT !.got = @ \o SubSeq(so.so_rcv, 1, n), !.so_rcv = From(@, n)] IN
        Returns(IF "FWDRAIN" \in p.so_state /\ p.so_rcv = <<>> THEN sofcantsendmore(p) ELSE p)
  BY DEF SoWrite
<1>5. PICK t, f, p : /\ t = Take(so.so_rcv, n) /\ f = From(so.so_rcv, n)
                     /\ p = [so EXCEPT !.got = @ \o t, !.so_rcv = f]
  OBVIOUS
<1>6. PICK q : Returns(q) /\ (q = p \/ q = sofcantsendmore(p))
  BY <1>4, <1>5 DEF Take
<1>7. Quiet(so, p) /\ p.so_state = so.so_state
  BY <1>3, <1>5 DEF Quiet, Aside, SameSend, Socket, FieldNames
<1>8. Quiet(so, q) /\ "ISFCONNECTING" \notin q.so_state
  <2>1. CASE q = p
    BY <1>2, <1>7, <2>1 DEF Connecting
  <2>2. CASE q = sofcantsendmore(p)
    <3>1. Quiet(p, q) /\ "ISFCONNECTING" \notin q.so_state
      BY <1>2, <1>7, <2>2 DEF sofcantsendmore, Quiet, Aside, SameSend, Socket, FieldNames, Connecting
    <3> QED  BY <1>7, <3>1, QuietTwice
  <2> QED  BY <1>6, <2>1, <2>2
<1>9. PICK end : end = Behind
  OBVIOUS
<1>10. Timed(so, guest.nxt, end)
  BY <1>2, <1>9 DEF SocketTimed
<1>11. Timed(q, guest.nxt, end)
  BY <1>8, <1>10, QuietTimed DEF Timed
<1>12. TimedLeft(q, guest.nxt, Behind)
  BY <1>9, <1>11 DEF TimedLeft
<1>13. UNCHANGED <<made, guest, host>>
  BY Zenon DEF SoWrite
<1> QED  BY <1>6, <1>8, <1>12, <1>13, TimedKeeps DEF Quiet, Aside

LEMMA TimersTimed ==
    ASSUME StreamInv, SocketTimed,
           \/ tcp_fasttimo \/ RexmtTimeout \/ RexmtGivesUp \/ PersistTimeout
           \/ KeepTimeout \/ TwoMslTimeout
    PROVE  SocketTimed'
<1>0. UNCHANGED <<made, guest, host>>
  BY Zenon DEF tcp_fasttimo, RexmtTimeout, RexmtGivesUp, PersistTimeout, KeepTimeout,
               TwoMslTimeout
<1>1. Socket(so) /\ Recv(so, guest.nxt)
  BY RecvKind DEF StreamInv, RecvInv
<1>2. RecvOpen(so, guest.nxt) => Exists /\ ~Connecting
  BY DEF RecvOpen, Phase, Exists, Connecting, CLOSED, SYN_RECEIVED, TIME_WAIT
<1>3. PICK iss, next, end, over : /\ iss = Number(made, 0) /\ next = host.read + 1
                                  /\ end = Behind /\ over = Over
  OBVIOUS
<1>4. RecvOpen(so, guest.nxt) =>
        /\ SendOpen(so, iss, next, end, over) /\ Armed(so, guest.nxt, end)
        /\ "ISFCONNECTING" \notin so.so_state
  BY <1>2, <1>3, OpenIs DEF SocketTimed, Timed, Connecting
<1>5. ASSUME NEW q, NEW x, NEW why, q = tcp_close(x, why), Returns(q) PROVE SocketTimed'
  <2>1. Socket(q) /\ q.t_state = CLOSED
    BY <1>5 DEF tcp_close, NewSocket, Socket, FieldNames
  <2>2. TimedLeft(q, guest.nxt, Behind)
    BY <1>5, CloseTimed
  <2> QED  BY <1>0, <1>5, <2>1, <2>2, TimedKeeps
<1>6. CASE tcp_fasttimo
  <2>1. RecvOpen(so, guest.nxt)
    BY <1>1, <1>6, RecvKind DEF tcp_fasttimo
  <2>2. PICK p, a : /\ p = [so EXCEPT !.t_flags = @ \ {"DELACK"}]
                    /\ a = [p EXCEPT !.t_flags = @ \cup {"ACKNOW"}]
    OBVIOUS
  <2>3. PICK cwnd \in Cwnds : Returns(DropAfterAck([so EXCEPT !.t_flags = @ \ {"DELACK"}], cwnd))
    BY <1>6 DEF tcp_fasttimo
  <2>4. PICK no, q : no = FALSE /\ q = tcp_output(a, cwnd, no) /\ Returns(q)
    BY <2>2, <2>3 DEF DropAfterAck
  <2>5. /\ Aside(so, a) /\ a.timers = so.timers /\ a.snd_wl1 = so.snd_wl1
        /\ a.snd_wl2 = so.snd_wl2 /\ a.so_state = so.so_state
    BY <1>1, <2>2 DEF Aside, SameSend, Socket, FieldNames
  <2>6. SendOpen(a, iss, next, end, over)
    BY <1>4, <2>1, <2>5, SendAside
  <2>7. Armed(a, guest.nxt, end)
    BY <1>4, <2>1, <2>5 DEF Armed, Aside, SameSend
  <2>8. cwnd \in Nat \ {0}
    BY CwndsMore
  <2>9. SendOpen(a, iss, next, Behind, over) /\ Armed(a, guest.nxt, Behind)
        /\ "ISFCONNECTING" \notin a.so_state
    BY <1>3, <1>4, <2>1, <2>5, <2>6, <2>7
  <2> QED  BY <1>0, <2>4, <2>8, <2>9, OutputKeeps
<1>7. CASE RexmtTimeout
  <2>1. RecvOpen(so, guest.nxt)
    BY <1>1, <1>7, RecvKind DEF RexmtTimeout
  <2>2. PICK p : p = [so EXCEPT !.snd_nxt = so.snd_una, !.t_dupacks = 0]
    OBVIOUS
  <2>3. PICK no, q : no = FALSE /\ q = tcp_output(p, Mss, no) /\ Returns(q)
    BY <1>7, <2>2 DEF RexmtTimeout
  <2>4. /\ Socket(p) /\ p.t_state = so.t_state /\ p.so_snd = so.so_snd /\ p.iss = so.iss
        /\ p.snd_una = so.snd_una /\ p.snd_max = so.snd_max /\ p.snd_wnd = so.snd_wnd
        /\ p.out = so.out /\ p.t_flags = so.t_flags /\ p.snd_nxt = so.snd_una
        /\ p.timers = so.timers /\ p.snd_wl1 = so.snd_wl1 /\ p.snd_wl2 = so.snd_wl2
        /\ p.so_state = so.so_state
    BY <1>1, <2>2 DEF Socket, FieldNames
  <2>5. so.snd_una \in Nat /\ so.snd_max \in Nat /\ so.snd_una <= so.snd_max
    BY <1>4, <2>1 DEF SendOpen, Sends, Sequence
  <2>6. p.snd_nxt \in Nat /\ so.snd_una <= p.snd_nxt /\ p.snd_nxt <= so.snd_max
    BY <2>4, <2>5
  <2>7. SendOpen(p, iss, next, end, over)
    BY <1>4, <2>1, <2>4, <2>6, SendMoved
  <2>8. Armed(p, guest.nxt, end)
    BY <1>4, <2>1, <2>4, <2>5 DEF Armed
  <2>9. Mss \in Nat \ {0}
    BY Sizes
  <2>10. SendOpen(p, iss, next, Behind, over) /\ Armed(p, guest.nxt, Behind)
         /\ "ISFCONNECTING" \notin p.so_state
    BY <1>3, <1>4, <2>1, <2>4, <2>7, <2>8
  <2> QED  BY <1>0, <2>3, <2>9, <2>10, OutputKeeps
<1>8. CASE RexmtGivesUp
  BY <1>5, <1>8 DEF RexmtGivesUp, tcp_drop
<1>9. CASE PersistTimeout
  <2>1. RecvOpen(so, guest.nxt)
    BY <1>1, <1>9, RecvKind DEF PersistTimeout
  <2>2. PICK cwnd \in Cwnds : Returns(tcp_output(so, cwnd, TRUE))
    BY <1>9 DEF PersistTimeout
  <2>3. PICK yes, q : yes = TRUE /\ q = tcp_output(so, cwnd, yes) /\ Returns(q)
    BY <2>2
  <2>4. cwnd \in Nat \ {0} /\ "PERSIST" \in so.timers
    BY <1>9, CwndsMore DEF PersistTimeout
  <2>5. SendOpen(so, iss, next, Behind, over) /\ Armed(so, guest.nxt, Behind)
        /\ "ISFCONNECTING" \notin so.so_state
    BY <1>3, <1>4, <2>1
  <2> QED  BY <1>0, <2>3, <2>4, <2>5, OutputKeeps
<1>10. CASE KeepTimeout
  BY <1>5, <1>10 DEF KeepTimeout, tcp_drop
<1>11. CASE TwoMslTimeout
  BY <1>5, <1>11 DEF TwoMslTimeout
<1> QED  BY <1>6, <1>7, <1>8, <1>9, <1>10, <1>11
\* Nothing of the socket changes, but the guest may have sent more.
LEMMA SameTimed ==
    ASSUME StreamInv, SocketTimed, UNCHANGED <<so, made>>, host'.read = host.read,
           guest'.nxt \in Nat, guest.nxt <= guest'.nxt
    PROVE  SocketTimed'
<1>1. (Exists' <=> Exists) /\ (Connecting' <=> Connecting) /\ Behind' = Behind
  BY DEF Exists, Connecting, Behind
<1>2. guest.nxt \in Nat
  BY DEF StreamInv, RecvInv
<1>3. PICK end : end = Behind
  OBVIOUS
<1>4. Timed(so, guest.nxt, end) => Timed(so, guest'.nxt, end)
  BY <1>2, TimedMore
<1> QED  BY <1>1, <1>3, <1>4 DEF SocketTimed

LEMMA InputTimed ==
    ASSUME StreamInv, SocketTimed, NEW sent \in Nat, guest.nxt <= sent, guest'.nxt = sent,
           NEW s, FromGuest(s, sent), Newest(s, sent),
           "ACK" \in s.flags => \A j \in Nat : s.ack # Number(j, 0),
           Exists => Within(so, s), tcp_input(s), UNCHANGED host
    PROVE  SocketTimed'
<1>1. Socket(so) /\ Recv(so, guest.nxt) /\ Recv(so, sent) /\ guest.nxt \in Nat
  BY RecvKind, RecvMore DEF StreamInv, RecvInv
<1>2. CASE OnSyn
  <2>1. CASE \E refusal \in {{Rst}, {}} : Returns([NewSocket EXCEPT !.out = refusal])
    <3>1. PICK refusal, p : p = [NewSocket EXCEPT !.out = refusal] /\ Returns(p)
      BY <2>1
    <3>2. Socket(p) /\ p.t_state = CLOSED /\ p.timers = {}
      BY <3>1 DEF NewSocket, Socket, FieldNames
    <3>3. TimedLeft(p, guest'.nxt, Behind')
      BY <3>2 DEF TimedLeft
    <3> QED  BY <3>1, <3>2, <3>3, TimedReturns
  <2>2. CASE Returns([NewSocket EXCEPT !.t_state = SYN_RECEIVED, !.so_state = {"ISFCONNECTING"}])
    <3>1. PICK p : /\ p = [NewSocket EXCEPT !.t_state = SYN_RECEIVED,
                                            !.so_state = {"ISFCONNECTING"}]
                   /\ Returns(p)
      BY <2>2
    <3>2. PICK q : q = [p EXCEPT !.out = {}]
      OBVIOUS
    <3>3. q.so_state = {"ISFCONNECTING"} /\ q.snd_wl1 = 0 /\ q.snd_wl2 = 0
      BY <3>1, <3>2 DEF NewSocket
    <3>4. so' = q
      BY <3>1, <3>2 DEF Returns
    <3> QED  BY <3>3, <3>4 DEF SocketTimed, Connecting
  <2> QED  BY <1>2, <2>1, <2>2 DEF OnSyn
<1>3. CASE ~Exists /\ Returns(DropWithReset(so))
  <2>1. PICK p : p = DropWithReset(so)
    OBVIOUS
  <2>2. so.t_state = CLOSED /\ so.timers = {}
    BY <1>1, <1>3, RecvKind DEF Exists, RecvClosed
  <2>3. Socket(p) /\ p.t_state = CLOSED /\ p.timers = {}
    BY <1>1, <2>1, <2>2 DEF DropWithReset, Socket, FieldNames
  <2>4. TimedLeft(p, guest'.nxt, Behind')
    BY <2>3 DEF TimedLeft
  <2> QED  BY <1>3, <2>1, <2>3, <2>4, TimedReturns
<1>4. CASE UNCHANGED <<so, wire, made>>
  BY <1>4, SameTimed
<1>5. CASE /\ Exists /\ ~Connecting /\ UNCHANGED made
           /\ \E cwnd \in Cwnds, k \in Taken : Returns(OnSegment(so, s, cwnd, k))
  <2>1. PICK cwnd \in Cwnds, k \in Taken : Returns(OnSegment(so, s, cwnd, k))
    BY <1>5
  <2>2. PICK p : p = OnSegment(so, s, cwnd, k) /\ Returns(p)
    BY <2>1
  <2>3. cwnd \in Nat \ {0} /\ k \in Nat /\ sent \in Int
    BY CwndsMore, TakenIs
  <2>4. RecvOpen(so, sent)
    BY <1>1, <1>5, RecvKind DEF Exists, Connecting
  <2>5. Left(p, sent)
    BY <1>5, <2>2, <2>3, <2>4, OnSegmentRecv
  <2>6. PICK iss, next, end, over : /\ iss = Number(made, 0) /\ next = host.read + 1
                                    /\ end = Behind /\ over = Over
    OBVIOUS
  <2>7. SendOpen(so, iss, next, end, over) /\ made \in Nat
    BY <1>5, <2>6, OpenIs
  <2>8. Timed(so, sent, end)
    <3>1. Timed(so, guest.nxt, end)
      BY <1>5, <2>6 DEF SocketTimed
    <3> QED  BY <1>1, <2>3, <3>1, TimedMore
  <2>9. "ACK" \in s.flags => s.ack # iss
    BY <2>6, <2>7
  <2>10. TimedLeft(p, sent, end)
    BY <1>5, <2>2, <2>3, <2>4, <2>7, <2>8, <2>9, OnSegmentTimed
  <2>11. Behind' = end
    BY <1>5, <2>6 DEF Behind
  <2>12. Socket(p) /\ (p.t_state = CLOSED \/ "ISFCONNECTING" \notin p.so_state)
    BY <2>5, LeftIs DEF Left, RecvOpen, RecvClosed
  <2>13. TimedLeft(p, guest'.nxt, Behind')
    BY <2>10, <2>11
  <2> QED  BY <2>2, <2>12, <2>13, TimedReturns
<1> QED  BY <1>2, <1>3, <1>4, <1>5 DEF tcp_input

LEMMA SendsTimed ==
    ASSUME StreamInv, TimerInv, NEW seq \in Nat \ {0}, NEW n \in Nat, NEW flags \in {{}, {"FIN"}},
           seq + n <= GuestFin \/ (n = 0 /\ flags = {}),
           "FIN" \in flags => seq + n = GuestFin, Polite(seq, n, flags),
           n = 0 /\ flags = {} => seq = guest.nxt,
           GuestSends(seq, n, flags)
    PROVE  TimerInv'
<1>0. PICK end \in Nat : end = seq + n
  OBVIOUS
<1>1. PICK to \in Nat : to = end + IF "FIN" \in flags THEN 1 ELSE 0
  OBVIOUS
<1>2. /\ guest.nxt \in Nat /\ Recv(so, guest.nxt) /\ guest.st = "est"
      /\ DOMAIN guest = {"st", "nxt", "rcv", "got", "read"}
  BY DEF StreamInv, RecvInv, GuestSends
<1>3. PICK nxt : nxt = Max({guest.nxt, to})
  OBVIOUS
<1>4. nxt \in Nat /\ nxt >= guest.nxt /\ nxt >= to /\ (nxt = guest.nxt \/ nxt = to)
  BY <1>1, <1>2, <1>3, MaxOfTwo
<1>5. guest' = [guest EXCEPT !.nxt = nxt] /\ UNCHANGED host
  BY <1>0, <1>1, <1>3, Zenon DEF GuestSends
<1>6. guest'.nxt = nxt /\ guest'.got = guest.got /\ guest'.read = guest.read
  BY <1>2, <1>5
<1>7. GuestWin' \in Nat
  BY <1>6 DEF GuestWin, TimerInv
<1>8. CASE tcp_input(GuestSegment(seq, n, flags))
  <2>1. PICK s : s = GuestSegment(seq, n, flags)
    OBVIOUS
  <2>2. FromGuest(s, nxt)
    <3>1. end <= GuestFin \/ (n = 0 /\ flags = {})
      BY <1>0
    <3>2. "FIN" \in flags => end = GuestFin
      BY <1>0
    <3>3. to <= nxt /\ nxt \in Int
      BY <1>4
    <3> QED  BY <1>0, <1>1, <2>1, <3>1, <3>2, <3>3, SegmentIs
  <2>3. /\ s.ack = guest.rcv /\ s.win = GuestWin /\ s.seq = seq
        /\ s.flags = {"ACK"} \cup flags /\ s.data = [i \in 1 .. n |-> seq + i - 1]
    BY <2>1 DEF GuestSegment
  <2>4. PICK R : SendInv(R) /\ GuestInv(R)
    BY DEF StreamInv
  <2>5. s.ack \in Int /\ \A j \in Nat : s.ack # Number(j, 0)
    <3>1. guest.rcv \in Nat /\ \A j \in Nat : guest.rcv # Number(j, 0)
      BY <1>2, <2>4, GuestAcks DEF SendInv
    <3> QED  BY <2>3, <3>1
  <2>6. Newest(s, nxt)
    <3>1. s.win \in Nat
      BY <2>3 DEF TimerInv
    <3>2. s.seq <= nxt
      BY <1>0, <1>1, <1>4, <2>3
    <3>3. Text(s) \/ s.seq = nxt
      <4>1. CASE n = 0 /\ flags = {}
        BY <1>0, <1>1, <1>4, <2>3, <4>1
      <4>2. CASE "FIN" \in flags
        BY <2>3, <4>2 DEF Text
      <4>3. CASE n # 0
        <5>1. DOMAIN s.data = 1 .. n /\ 1 \in 1 .. n
          BY <2>3, <4>3
        <5>2. s.data # <<>>
          BY <5>1
        <5> QED  BY <5>2 DEF Text
      <4> QED  BY <4>1, <4>2, <4>3
    <3> QED  BY <2>5, <3>1, <3>2, <3>3 DEF Newest
  <2>8. Exists => Within(so, s)
    BY <2>1, SegmentWithin
  <2>7. SocketTimed'
    BY <1>4, <1>5, <1>6, <1>8, <2>1, <2>2, <2>5, <2>6, <2>8, InputTimed DEF TimerInv
  <2> QED  BY <1>7, <2>7 DEF TimerInv
<1>9. CASE UNCHANGED <<so, made, wire>>
  <2>1. SocketTimed'
    BY <1>4, <1>5, <1>6, <1>9, SameTimed DEF TimerInv
  <2> QED  BY <1>7, <2>1 DEF TimerInv
<1> QED  BY <1>8, <1>9 DEF GuestSends
\* A step of the guest that slirp answers.
LEMMA GuestTimed ==
    ASSUME ~FinOnProbe, StreamInv, TimerInv,
           GuestSyn \/ GuestAck \/ GuestData \/ GuestFins \/ GuestResets
    PROVE  TimerInv'
<1>1. /\ guest.nxt \in Nat /\ (guest.st = "est" => guest.nxt >= 1)
      /\ DOMAIN guest = {"st", "nxt", "rcv", "got", "read"}
  BY DEF StreamInv, RecvInv
<1>2. ASSUME NEW s, FromGuest(s, guest.nxt), tcp_input(s), "ACK" \notin s.flags, s.data = <<>>,
             UNCHANGED host, guest'.nxt = guest.nxt, guest'.got = guest.got, guest'.read = guest.read
      PROVE  TimerInv'
  <2>1. Newest(s, guest.nxt)
    BY <1>2 DEF Newest
  <2>2. SocketTimed'
    BY <1>1, <1>2, <2>1, InputTimed DEF TimerInv, Within
  <2>3. GuestWin' \in Nat
    BY <1>2 DEF GuestWin, TimerInv
  <2> QED  BY <2>2, <2>3 DEF TimerInv
<1>3. CASE GuestSyn
  <2>1. PICK s : s = [seq |-> 0, ack |-> 0, win |-> 0, flags |-> {"SYN"}, fin |-> FALSE,
                       data |-> <<>>]
    OBVIOUS
  <2>2. FromGuest(s, guest.nxt) /\ "ACK" \notin s.flags /\ s.data = <<>>
    BY <2>1 DEF FromGuest, Segment
  <2>3. tcp_input(s) /\ UNCHANGED <<guest, host>>
    BY <1>3, <2>1, Zenon DEF GuestSyn
  <2> QED  BY <1>2, <2>2, <2>3
<1>4. CASE GuestAck
  <2>1. guest.nxt \in Nat \ {0}
    BY <1>1, <1>4 DEF GuestAck, GuestSends
  <2>2. PICK seq \in Nat \ {0}, n \in Nat, flags \in {{}, {"FIN"}} :
          n = 0 /\ flags = {} /\ seq = guest.nxt /\ GuestSends(seq, n, flags)
    BY <1>4, <2>1 DEF GuestAck
  <2> QED  BY <2>2, SendsTimed DEF Polite
<1>5. CASE GuestData
  <2>1. PICK seq \in 1 .. guest.nxt, n \in 1 .. Mss, flags \in {{}, {"FIN"}} :
          /\ seq + n <= GuestFin
          /\ "FIN" \in flags => seq + n = GuestFin
          /\ Exists /\ "FIN" \in flags => seq + n <= so.rcv_adv
          /\ GuestSends(seq, n, flags)
    BY <1>5 DEF GuestData
  <2>2. seq \in Nat \ {0} /\ n \in Nat /\ n # 0 /\ Polite(seq, n, flags)
    BY <1>1, <2>1, Sizes DEF Polite
  <2> QED  BY <2>1, <2>2, SendsTimed
<1>6. CASE GuestFins
  <2>1. PICK seq \in Nat \ {0}, n \in Nat, flags \in {{}, {"FIN"}} :
          n = 0 /\ seq = GuestFin /\ flags = {"FIN"} /\ GuestSends(seq, n, flags)
    BY <1>6, Sizes DEF GuestFins
  <2>2. seq + n = GuestFin /\ seq + n <= GuestFin /\ Polite(seq, n, flags)
    BY <2>1, Sizes DEF Polite
  <2> QED  BY <2>1, <2>2, SendsTimed
<1>7. CASE GuestResets
  <2>1. PICK seq, s : /\ s = [seq |-> seq, ack |-> 0, win |-> 0, flags |-> {"RST"},
                             fin |-> FALSE, data |-> <<>>]
                      /\ tcp_input(s)
    BY <1>7 DEF GuestResets
  <2>2. FromGuest(s, guest.nxt) /\ "ACK" \notin s.flags /\ s.data = <<>>
    BY <2>1 DEF FromGuest, Segment
  <2>3. guest' = [guest EXCEPT !.st = "dead"] /\ UNCHANGED host
    BY <1>7, Zenon DEF GuestResets
  <2>4. guest'.nxt = guest.nxt /\ guest'.got = guest.got /\ guest'.read = guest.read
    BY <1>1, <2>3
  <2> QED  BY <1>2, <2>1, <2>2, <2>3, <2>4
<1> QED  BY <1>3, <1>4, <1>5, <1>6, <1>7

\* The guest takes something in, or its application does: the window stays a number.
LEMMA TakesTimed ==
    ASSUME StreamInv, TimerInv,
           GuestGetsSyn \/ GuestGetsByte \/ GuestGetsFin \/ GuestGetsRst \/ GuestReads
    PROVE  TimerInv'
<1>1. /\ guest.nxt \in Nat /\ (guest.st = "syn" => guest.nxt = 0)
      /\ DOMAIN guest = {"st", "nxt", "rcv", "got", "read"}
  BY DEF StreamInv, RecvInv
<1>2. UNCHANGED <<so, made, wire, host>>
  BY Zenon DEF GuestGetsSyn, GuestGetsByte, GuestGetsFin, GuestGetsRst, GuestReads
<1>3. guest.got \in Seq(Nat) /\ guest.read \in Nat /\ GuestWindow \in Nat
  BY Sizes DEF StreamInv, GuestInv
<1>4. PICK len \in Nat : len = Len(guest.got)
  BY <1>3
<1>5. GuestWin = GuestWindow - (len - guest.read) /\ GuestWin \in Nat
  BY <1>4 DEF GuestWin, TimerInv
<1>6. /\ guest'.nxt \in Nat /\ guest.nxt <= guest'.nxt
      /\ GuestWin' \in Nat
  <2>1. CASE GuestGetsSyn
    <3>1. PICK seq : guest' = [guest EXCEPT !.st = "est", !.rcv = seq, !.nxt = 1]
      BY <2>1 DEF GuestGetsSyn
    <3>2. guest'.nxt = 1 /\ guest'.got = guest.got /\ guest'.read = guest.read /\ guest.nxt = 0
      BY <1>1, <2>1, <3>1 DEF GuestGetsSyn
    <3> QED  BY <1>5, <3>2 DEF GuestWin
  <2>2. CASE GuestGetsByte
    <3>1. PICK b : guest' = [guest EXCEPT !.rcv = @ + 1, !.got = Append(@, b)]
      BY <2>2 DEF GuestGetsByte
    <3>2. guest'.nxt = guest.nxt /\ guest'.got = Append(guest.got, b) /\ guest'.read = guest.read
      BY <1>1, <3>1
    <3>3. Len(guest'.got) = len + 1
      BY <1>3, <1>4, <3>2
    <3>4. GuestWin > 0
      BY <2>2 DEF GuestGetsByte
    <3>5. GuestWin' = GuestWindow - ((len + 1) - guest.read)
      <4>1. GuestWin' = GuestWindow - (Len(guest'.got) - guest'.read)
        BY DEF GuestWin
      <4>2. PICK l : l = Len(guest'.got)
        OBVIOUS
      <4>3. GuestWin' = GuestWindow - (l - guest'.read) /\ l = len + 1
        BY <3>3, <4>1, <4>2
      <4> QED  BY <3>2, <4>3
    <3> QED  BY <1>1, <1>3, <1>5, <3>2, <3>4, <3>5
  <2>3. CASE GuestGetsFin \/ GuestGetsRst
    <3>1. guest'.nxt = guest.nxt /\ guest'.got = guest.got /\ guest'.read = guest.read
      BY <1>1, <2>3 DEF GuestGetsFin, GuestGetsRst
    <3> QED  BY <1>1, <1>5, <3>1 DEF GuestWin
  <2>4. CASE GuestReads
    <3>1. guest' = [guest EXCEPT !.read = @ + 1] /\ guest.read < len
      BY <1>4, <2>4 DEF GuestReads
    <3>2. guest'.nxt = guest.nxt /\ guest'.got = guest.got /\ guest'.read = guest.read + 1
      BY <1>1, <3>1
    <3>3. GuestWin' = GuestWindow - (len - (guest.read + 1))
      BY <1>4, <3>2 DEF GuestWin
    <3> QED  BY <1>1, <1>3, <1>5, <3>2, <3>3
  <2> QED  BY <2>1, <2>2, <2>3, <2>4
<1>7. SocketTimed'
  BY <1>2, <1>6, SameTimed DEF TimerInv
<1> QED  BY <1>6, <1>7 DEF TimerInv

LEMMA NextTimer ==
    ASSUME ~FinOnProbe, StreamInv, TimerInv, [Next]_vars
    PROVE  TimerInv'
<1>1. ASSUME UNCHANGED guest, SocketTimed' PROVE TimerInv'
  BY <1>1 DEF TimerInv, GuestWin
<1>2. CASE Slirp
  <2>1. UNCHANGED guest
    BY <1>2, Zenon DEF Slirp, Connected, ConnectFails, SoRead, SoReadEnds, SoWrite, SoWriteFails,
       tcp_fasttimo, RexmtTimeout, RexmtGivesUp, PersistTimeout, KeepTimeout, TwoMslTimeout
  <2>2. SocketTimed
    BY DEF TimerInv
  <2>3. SocketTimed'
    BY <1>2, <2>2, ConnectedTimed, ConnectFailsTimed, SoReadTimed, SoReadEndsTimed, SoWriteTimed,
       TimersTimed DEF Slirp
  <2> QED  BY <1>1, <2>1, <2>3
<1>3. CASE GuestSyn \/ GuestAck \/ GuestData \/ GuestFins \/ GuestResets
  BY <1>3, GuestTimed
<1>4. CASE GuestGetsSyn \/ GuestGetsByte \/ GuestGetsFin \/ GuestGetsRst \/ GuestReads
  BY <1>4, TakesTimed
<1>5. CASE HostSends \/ HostEnds \/ HostResets \/ UNCHANGED vars
  <2>1. UNCHANGED <<so, made, wire, guest>>
    BY <1>5, Zenon DEF HostSends, HostEnds, HostResets, vars
  <2>2. host'.read = host.read
    <3>1. DOMAIN host = {"sent", "read", "eof", "reset", "early"}
      BY DEF StreamInv, HostInv
    <3> QED  BY <1>5, <3>1 DEF HostSends, HostEnds, HostResets, vars
  <2>3. guest'.nxt \in Nat /\ guest.nxt <= guest'.nxt
    BY <2>1 DEF StreamInv, RecvInv
  <2>4. SocketTimed'
    BY <2>1, <2>2, <2>3, SameTimed DEF TimerInv
  <2> QED  BY <1>1, <2>1, <2>4
<1> QED  BY <1>2, <1>3, <1>4, <1>5 DEF Next, Environment

LEMMA InitTimer == Init => TimerInv
<1> SUFFICES ASSUME Init PROVE TimerInv
  OBVIOUS
<1>1. ~Exists
  BY DEF Init, NewSocket, Exists
<1>2. Len(guest.got) = 0 /\ guest.read = 0
  BY DEF Init
<1>3. GuestWin \in Nat
  BY <1>2, Sizes DEF GuestWin
<1> QED  BY <1>1, <1>3 DEF TimerInv, SocketTimed

LEMMA SpecTimer ==
    ASSUME ~FinOnProbe
    PROVE  Spec => [](StreamInv /\ TimerInv)
<1>1. StreamInv /\ TimerInv /\ [Next]_vars => TimerInv'
  BY NextTimer
<1> QED  BY <1>1, InitTimer, SpecStream, PTL DEF Spec

\* A timer runs for what is unacknowledged, and for what an open window could take.
LEMMA TimersAre == StreamInv /\ TimerInv => TimersRun
<1> SUFFICES ASSUME StreamInv, TimerInv PROVE TimersRun
  OBVIOUS
<1>1. Recv(so, guest.nxt)
  BY DEF StreamInv, RecvInv
<1>2. CASE ~Exists \/ Connecting
  <2>1. so.timers = {} /\ ~(so.t_state >= ESTABLISHED)
    BY <1>1, <1>2, RecvKind DEF Exists, Connecting, RecvClosed, RecvPending, CLOSED, SYN_RECEIVED,
       ESTABLISHED
  <2> QED  BY <2>1 DEF TimersRun
<1>3. CASE Exists /\ ~Connecting
  <2>1. Timed(so, guest.nxt, Behind)
    BY <1>3 DEF TimerInv, SocketTimed
  <2>2. ~("REXMT" \in so.timers /\ "PERSIST" \in so.timers)
    BY <2>1 DEF Timed, Armed
  <2>3. ASSUME so.snd_una < so.snd_nxt \/ (so.so_snd # <<>> /\ so.snd_wnd > 0)
        PROVE  "REXMT" \in so.timers \/ "PERSIST" \in so.timers
    BY <2>1, <2>3 DEF Timed, Armed, Watched
  <2> QED  BY <2>2, <2>3 DEF TimersRun
<1> QED  BY <1>2, <1>3

\* While something is unacknowledged, or waits for an open window, the retransmission or
\* the persist timer runs, never both: through every order of acks, window updates, reads
\* of the host, timeouts and closes (tcp_output, tcp_input's restart of the timer and its
\* fast retransmission, tcp_timers); provided that the guest sends no FIN with data beyond
\* the window.
THEOREM TimersNeverStop ==
    ASSUME ~FinOnProbe
    PROVE  Spec => []TimersRun
<1> QED  BY TimersAre, SpecTimer, PTL

=============================================================================
