---------------------------- MODULE SlirpTcpProofs ----------------------------
(***************************************************************************)
(* Proofs about the TCP of slirp, for any sizes of streams, buffers,       *)
(* segments and windows: the window that is promised has room in the       *)
(* socket buffer, what the host is given is a beginning of the guest's     *)
(* stream, what the guest is given a beginning of the host's, and each is  *)
(* told of the end of the other's stream only after all of it.  The timers *)
(* are in SlirpTimerProofs.                                                *)
(*                                                                         *)
(* The first invariant is RecvInv: what the host was given, what waits for *)
(* it in so_rcv and what is acknowledged are one stretch of the guest's    *)
(* stream (Flow), the segments that came early are pieces of it that       *)
(* neither overlap nor pass the window (Ahead), and rcv_adv never passes   *)
(* the end of the socket buffer.                                           *)
(*                                                                         *)
(* The second is StreamInv: what waits in so_snd is the end of what was    *)
(* read from the host and begins at snd_una (Sequence), the state says how *)
(* far the connection can be (Stage), and all that was sent to the guest   *)
(* has each byte under its own number (Said), which no two sockets share.  *)
(*                                                                         *)
(* The third is EndInv: where the connection stands when the host is told  *)
(* that the guest's stream has ended, or will be (EndOpen, EndClosed).     *)
(*                                                                         *)
(* In each part there is one lemma for each function of tcp_input.c and    *)
(* tcp_output.c that is given a socket, in the order of their calls, and   *)
(* one for each action.                                                    *)
(***************************************************************************)
EXTENDS SlirpTcp, SequenceTheorems, WellFoundedInduction, TLAPS

-----------------------------------------------------------------------------
(* Numbers *)

Below == OpToRel(<, Nat)

LEMMA BelowIsWellFounded == IsWellFoundedOn(Below, Nat)
BY NatLessThanWellFounded, Zenon DEF Below

LEMMA BelowIs == \A x, y \in Nat : x < y => <<x, y>> \in Below
BY DEF Below, OpToRel

LEMMA LeastNat ==
    ASSUME NEW T, T \subseteq Nat, T # {}
    PROVE  \E x \in T : \A y \in T : x <= y
<1>1. PICK x \in T : \A y \in T : ~ (<<y, x>> \in Below)
  BY BelowIsWellFounded, WFMin
<1>2. x \in Nat /\ \A y \in T : y \in Nat /\ ~ (y < x)
  BY <1>1, BelowIs
<1> QED  BY <1>2

\* A set of numbers that is bounded has a greatest one, which is its Max.
LEMMA MaxIs ==
    ASSUME NEW T, T \subseteq Int, T # {}, NEW bound \in Int, \A x \in T : x <= bound
    PROVE  Max(T) \in T /\ \A x \in T : x <= Max(T)
<1> DEFINE D == {bound - x : x \in T}
<1>1. D \subseteq Nat
  <2> SUFFICES ASSUME NEW x \in T PROVE bound - x \in Nat
    OBVIOUS
  <2>1. x \in Int /\ x <= bound
    OBVIOUS
  <2> QED  BY <2>1
<1>0. D # {}
  OBVIOUS
<1>2. PICK d \in D : \A y \in D : d <= y
  BY <1>0, <1>1, LeastNat
<1>3. PICK x \in T : d = bound - x
  OBVIOUS
<1>4. \A y \in T : x >= y
  <2> SUFFICES ASSUME NEW y \in T PROVE x >= y
    OBVIOUS
  <2>1. d <= bound - y
    BY <1>2
  <2> QED  BY <2>1, <1>3
<1>5. \E z \in T : \A y \in T : z >= y
  BY <1>4
<1>6. Max(T) \in T /\ \A y \in T : Max(T) >= y
  BY <1>5 DEF Max
<1>7. Max(T) \in Int /\ \A y \in T : y \in Int
  BY <1>6
<1> QED  BY <1>6, <1>7

LEMMA MaxOfTwo ==
    ASSUME NEW a \in Int, NEW b \in Int
    PROVE  Max({a, b}) = IF a >= b THEN a ELSE b
<1> DEFINE m == IF a >= b THEN a ELSE b
<1>1. m \in {a, b} /\ m \in Int /\ \A y \in {a, b} : m >= y
  OBVIOUS
<1>2. \A x \in {a, b} : (\A y \in {a, b} : x >= y) => x = m
  OBVIOUS
<1> HIDE DEF m
<1>3. Max({a, b}) = m
  BY <1>1, <1>2 DEF Max
<1> QED  BY <1>3 DEF m

LEMMA MinOfTwo ==
    ASSUME NEW a \in Int, NEW b \in Int
    PROVE  Min({a, b}) = IF a <= b THEN a ELSE b
<1> DEFINE m == IF a <= b THEN a ELSE b
<1>1. m \in {a, b} /\ m \in Int /\ \A y \in {a, b} : m <= y
  OBVIOUS
<1>2. \A x \in {a, b} : (\A y \in {a, b} : x <= y) => x = m
  OBVIOUS
<1> HIDE DEF m
<1>3. Min({a, b}) = m
  BY <1>1, <1>2 DEF Min
<1> QED  BY <1>3 DEF m

-----------------------------------------------------------------------------
(* Stretches of a stream *)

\* s is the bytes of a stream from a up to b, exclusive.  A stream numbers its
\* bytes from 1.
Stretch(s, a, b) ==
    /\ s \in Seq(Nat) /\ a \in Nat /\ b \in Nat
    /\ b = a + Len(s)
    /\ \A i \in 1 .. Len(s) : s[i] = a + (i - 1)

\* The first n elements of s; the model writes the right side.
Take(s, n) == SubSeq(s, 1, n)

LEMMA StretchLen ==
    ASSUME NEW s, NEW a, NEW b, Stretch(s, a, b)
    PROVE  /\ s \in Seq(Nat) /\ Len(s) \in Nat /\ a \in Nat /\ b \in Nat
           /\ a <= b /\ b = a + Len(s) /\ Len(s) = b - a
           /\ (s = <<>> <=> a = b)
<1>1. s \in Seq(Nat) /\ Len(s) \in Nat /\ a \in Nat /\ b \in Nat /\ b = a + Len(s)
  BY DEF Stretch
<1>2. s = <<>> <=> Len(s) = 0
  BY <1>1
<1> QED  BY <1>1, <1>2

LEMMA StretchEmpty ==
    ASSUME NEW a \in Nat
    PROVE  Stretch(<<>>, a, a)
BY DEF Stretch

LEMMA StretchConcat ==
    ASSUME NEW s, NEW t, NEW a, NEW b, NEW c, Stretch(s, a, b), Stretch(t, b, c)
    PROVE  Stretch(s \o t, a, c)
<1>1. /\ s \in Seq(Nat) /\ a \in Nat /\ b \in Nat /\ b = a + Len(s)
      /\ \A i \in 1 .. Len(s) : s[i] = a + (i - 1)
  BY DEF Stretch
<1>2. /\ t \in Seq(Nat) /\ c \in Nat /\ c = b + Len(t)
      /\ \A i \in 1 .. Len(t) : t[i] = b + (i - 1)
  BY DEF Stretch
<1>3. PICK m \in Nat, n \in Nat : m = Len(s) /\ n = Len(t)
  BY <1>1, <1>2
<1>4. PICK u : u = s \o t
  OBVIOUS
<1>5. /\ u \in Seq(Nat) /\ Len(u) = m + n
      /\ \A i \in 1 .. m + n : u[i] = IF i <= m THEN s[i] ELSE t[i - m]
  BY <1>1, <1>2, <1>3, <1>4, ConcatProperties
<1>6. ASSUME NEW i \in 1 .. m + n PROVE u[i] = a + (i - 1)
  <2>1. CASE i <= m
    BY <1>1, <1>3, <1>5, <2>1
  <2>2. CASE i > m
    <3>1. i - m \in 1 .. n /\ u[i] = t[i - m]
      BY <1>5, <2>2
    <3>2. t[i - m] = b + ((i - m) - 1)
      BY <3>1, <1>2, <1>3
    <3> QED  BY <3>1, <3>2, <1>1, <1>3
  <2>3. i <= m \/ i > m
    OBVIOUS
  <2> QED  BY <2>1, <2>2, <2>3
<1>7. c = a + Len(u)
  BY <1>1, <1>2, <1>3, <1>5
<1>8. Stretch(u, a, c)
  BY <1>1, <1>2, <1>5, <1>6, <1>7 DEF Stretch
<1> QED  BY <1>4, <1>8

LEMMA StretchTake ==
    ASSUME NEW s, NEW a, NEW b, Stretch(s, a, b), NEW n \in Nat, n <= Len(s), NEW c, c = a + n
    PROVE  Stretch(Take(s, n), a, c) /\ Len(Take(s, n)) = n
<1>1. /\ s \in Seq(Nat) /\ a \in Nat
      /\ \A i \in 1 .. Len(s) : s[i] = a + (i - 1)
  BY DEF Stretch
<1>2. PICK u : u = SubSeq(s, 1, n)
  OBVIOUS
<1>3. u \in Seq(Nat) /\ Len(u) = n /\ \A k \in 1 .. n : u[k] = a + (k - 1)
  BY <1>1, <1>2
<1>4. Stretch(u, a, c)
  BY <1>1, <1>3 DEF Stretch
<1> QED  BY <1>2, <1>3, <1>4 DEF Take

LEMMA StretchFrom ==
    ASSUME NEW s, NEW a, NEW b, Stretch(s, a, b), NEW n \in Nat, n <= Len(s), NEW c, c = a + n
    PROVE  Stretch(From(s, n), c, b) /\ Len(From(s, n)) = Len(s) - n
<1>1. /\ s \in Seq(Nat) /\ a \in Nat /\ b \in Nat /\ b = a + Len(s) /\ Len(s) \in Nat
      /\ \A i \in 1 .. Len(s) : s[i] = a + (i - 1)
  BY DEF Stretch
<1>2. PICK m \in Nat : m = Len(s)
  BY <1>1
<1>3. PICK u : u = SubSeq(s, n + 1, m)
  OBVIOUS
<1>4. u \in Seq(Nat) /\ Len(u) = m - n /\ \A k \in 1 .. m - n : u[k] = a + ((n + k) - 1)
  BY <1>1, <1>2, <1>3
<1>5. Stretch(u, c, b)
  BY <1>1, <1>2, <1>4 DEF Stretch
<1> QED  BY <1>2, <1>3, <1>4, <1>5 DEF From

\* All of a stretch, and none.
LEMMA TakeAll ==
    ASSUME NEW s \in Seq(Nat)
    PROVE  Take(s, Len(s)) = s /\ From(s, 0) = s /\ Take(s, 0) = <<>>
<1>1. SubSeq(s, 1, Len(s)) = s
  OBVIOUS
<1>2. SubSeq(s, 0 + 1, Len(s)) = s
  OBVIOUS
<1>3. SubSeq(s, 1, 0) = <<>>
  OBVIOUS
<1> QED  BY <1>1, <1>2, <1>3 DEF Take, From

\* What the model writes as a function.
LEMMA StretchOf ==
    ASSUME NEW a \in Nat, NEW n \in Nat, NEW s, s = [i \in 1 .. n |-> a + i - 1], a > 0
    PROVE  Stretch(s, a, a + n) /\ Len(s) = n
<1>1. \A i \in 1 .. n : a + i - 1 \in Nat
  OBVIOUS
<1>2. s \in Seq(Nat) /\ Len(s) = n /\ \A i \in 1 .. n : s[i] = a + i - 1
  BY <1>1
<1> QED  BY <1>2 DEF Stretch

LEMMA CountIs ==
    ASSUME NEW s \in Seq(Nat)
    PROVE  IsCount(s) <=> Stretch(s, 1, Len(s) + 1)
<1>1. Len(s) \in Nat /\ DOMAIN s = 1 .. Len(s)
  OBVIOUS
<1>2. ASSUME IsCount(s) PROVE Stretch(s, 1, Len(s) + 1)
  <2>1. \A i \in 1 .. Len(s) : s[i] = i
    BY <1>1, <1>2 DEF IsCount
  <2> QED  BY <1>1, <2>1 DEF Stretch
<1>3. ASSUME Stretch(s, 1, Len(s) + 1) PROVE IsCount(s)
  <2>1. \A i \in 1 .. Len(s) : s[i] = i
    BY <1>1, <1>3 DEF Stretch
  <2>2. s = [i \in 1 .. Len(s) |-> s[i]]
    BY <1>1
  <2> QED  BY <2>1, <2>2 DEF IsCount
<1> QED  BY <1>2, <1>3 DEF Stretch, IsCount

LEMMA Sizes ==
    /\ Mss \in Nat \ {0} /\ SndSpace \in Nat \ {0} /\ RcvSpace \in Nat \ {0}
    /\ WndMod \in Nat \ {0} /\ GuestWindow \in Nat \ {0}
    /\ GuestBytes \in Nat /\ HostBytes \in Nat /\ IssIncr \in Nat /\ MaxSockets \in Nat
    /\ HostBytes + 2 < IssIncr
    /\ GuestFin \in Nat \ {0} /\ GuestFin = GuestBytes + 1
<1>1. /\ Mss \in Nat \ {0} /\ SndSpace \in Nat \ {0} /\ RcvSpace \in Nat \ {0}
      /\ WndMod \in Nat \ {0} /\ GuestWindow \in Nat \ {0}
  BY TcpAssumption
<1>2. GuestBytes \in Nat /\ HostBytes \in Nat /\ IssIncr \in Nat /\ MaxSockets \in Nat
  BY TcpAssumption
<1> QED  BY <1>1, <1>2, TcpAssumption DEF GuestFin

-----------------------------------------------------------------------------
(* The socket, and what tcp_output leaves alone *)

FieldNames ==
    {"t_state", "so_state", "so_snd", "so_rcv", "reass", "t_flags", "timers", "t_dupacks", "iss",
     "snd_una", "snd_nxt", "snd_max", "snd_wnd", "snd_wl1", "snd_wl2", "max_sndwnd",
     "rcv_nxt", "rcv_adv", "got", "end", "out"}

Socket(p) == DOMAIN p = FieldNames

\* What the function that turned p into q did not touch.
SameInput(p, q) ==
    /\ q.t_state = p.t_state /\ q.so_state = p.so_state
    /\ q.so_rcv = p.so_rcv /\ q.reass = p.reass /\ q.rcv_nxt = p.rcv_nxt
    /\ q.got = p.got /\ q.end = p.end

SameOutput(p, q) ==
    /\ q.t_state = p.t_state /\ q.so_snd = p.so_snd /\ q.iss = p.iss /\ q.snd_una = p.snd_una

LEMMA OutputIs ==
    ASSUME NEW p, NEW cwnd, NEW force
    PROVE  tcp_output(p, cwnd, force)
               = SendOrWait(BeforeSend(p, cwnd, force), ToSend(p, cwnd, force), force)
<1>1. \A x : Let(x, LAMBDA d : SendOrWait(BeforeSend(p, cwnd, force), d, force))
               = SendOrWait(BeforeSend(p, cwnd, force), x, force)
  BY DEF Let
<1> QED  BY <1>1 DEF tcp_output, Let

LEMMA SendFields ==
    ASSUME NEW p, Socket(p), NEW d, NEW force
    PROVE  LET q == Send(p, d, force) IN
           /\ Socket(q) /\ SameInput(p, q) /\ SameOutput(p, q)
           /\ q.rcv_adv = IF Advertise(p) > 0 THEN Max({p.rcv_adv, p.rcv_nxt + Advertise(p)})
                          ELSE p.rcv_adv
BY DEF Socket, FieldNames, SameInput, SameOutput, Send

LEMMA BeforeSendFields ==
    ASSUME NEW p, Socket(p), NEW cwnd, NEW force
    PROVE  LET q == BeforeSend(p, cwnd, force) IN
           /\ Socket(q) /\ SameInput(p, q) /\ SameOutput(p, q) /\ q.rcv_adv = p.rcv_adv
           /\ q.out = p.out /\ q.t_flags = p.t_flags /\ q.snd_max = p.snd_max
           /\ q.snd_nxt = p.snd_nxt \/ q.snd_nxt = p.snd_una
BY DEF Socket, FieldNames, SameInput, SameOutput, BeforeSend

LEMMA SendOrWaitFields ==
    ASSUME NEW p, Socket(p), NEW d, NEW force
    PROVE  LET q == SendOrWait(p, d, force) IN
           /\ Socket(q) /\ SameInput(p, q) /\ SameOutput(p, q)
           /\ \/ q.rcv_adv = p.rcv_adv
              \/ q.rcv_adv = Max({p.rcv_adv, p.rcv_nxt + Advertise(p)}) /\ Advertise(p) > 0
<1>1. SendOrWait(p, d, force) = Send(p, d, force)
      \/ SendOrWait(p, d, force) = [p EXCEPT !.timers = @ \cup {"PERSIST"}]
      \/ SendOrWait(p, d, force) = p
  BY DEF SendOrWait
<1>2. CASE SendOrWait(p, d, force) = Send(p, d, force)
  BY <1>2, SendFields
<1>3. CASE SendOrWait(p, d, force) = [p EXCEPT !.timers = @ \cup {"PERSIST"}]
  BY <1>3 DEF Socket, FieldNames, SameInput, SameOutput
<1>4. CASE SendOrWait(p, d, force) = p
  BY <1>4 DEF SameInput, SameOutput
<1> QED  BY <1>1, <1>2, <1>3, <1>4

\* The window that is promised is in the buffer.
LEMMA AdvertiseIs ==
    ASSUME NEW p, p.so_rcv \in Seq(Nat), Len(p.so_rcv) <= RcvSpace,
           p.rcv_nxt \in Int, p.rcv_adv \in Int, p.rcv_adv <= p.rcv_nxt + sbspace(p)
    PROVE  Advertise(p) \in Int /\ Advertise(p) <= sbspace(p) /\ sbspace(p) \in Nat
<1>1. sbspace(p) \in Nat
  <2>1. Len(p.so_rcv) \in Nat
    OBVIOUS
  <2> QED  BY <2>1, Sizes DEF sbspace
<1>2. p.rcv_adv - p.rcv_nxt \in Int /\ p.rcv_adv - p.rcv_nxt <= sbspace(p)
  BY <1>1
<1> DEFINE win == IF sbspace(p) < RcvSpace \div 4 /\ sbspace(p) < Mss THEN 0 ELSE sbspace(p)
<1>3. win \in Nat /\ win <= sbspace(p)
  BY <1>1
<1> HIDE DEF win
<1>4. Max({win, p.rcv_adv - p.rcv_nxt}) \in Int /\ Max({win, p.rcv_adv - p.rcv_nxt}) <= sbspace(p)
  BY <1>1, <1>2, <1>3, MaxOfTwo
<1>5. Advertise(p) = Max({win, p.rcv_adv - p.rcv_nxt})
  BY DEF Advertise, win
<1> QED  BY <1>1, <1>4, <1>5

LEMMA OutputFields ==
    ASSUME NEW p, Socket(p), NEW cwnd, NEW force
    PROVE  LET q == tcp_output(p, cwnd, force) IN
           /\ Socket(q) /\ SameInput(p, q) /\ SameOutput(p, q)
<1>1. PICK b : b = BeforeSend(p, cwnd, force)
  OBVIOUS
<1>2. Socket(b) /\ SameInput(p, b) /\ SameOutput(p, b)
  BY <1>1, BeforeSendFields
<1>3. PICK d : d = ToSend(p, cwnd, force)
  OBVIOUS
<1>4. tcp_output(p, cwnd, force) = SendOrWait(b, d, force)
  BY <1>1, <1>3, OutputIs
<1>5. PICK q : q = SendOrWait(b, d, force)
  OBVIOUS
<1>6. Socket(q) /\ SameInput(b, q) /\ SameOutput(b, q)
  BY <1>2, <1>5, SendOrWaitFields
<1> QED  BY <1>2, <1>4, <1>5, <1>6 DEF SameInput, SameOutput

LEMMA OutputPromises ==
    ASSUME NEW p, Socket(p), p.so_rcv \in Seq(Nat), Len(p.so_rcv) <= RcvSpace,
           p.rcv_nxt \in Int, p.rcv_adv \in Int, p.rcv_adv <= p.rcv_nxt + sbspace(p),
           NEW cwnd, NEW force
    PROVE  LET q == tcp_output(p, cwnd, force) IN
           q.rcv_adv \in Int /\ q.rcv_adv <= p.rcv_nxt + sbspace(p)
<1>1. PICK b : b = BeforeSend(p, cwnd, force)
  OBVIOUS
<1>2. Socket(b) /\ SameInput(p, b) /\ b.rcv_adv = p.rcv_adv
  BY <1>1, BeforeSendFields
<1>3. PICK d : d = ToSend(p, cwnd, force)
  OBVIOUS
<1>4. tcp_output(p, cwnd, force) = SendOrWait(b, d, force)
  BY <1>1, <1>3, OutputIs
<1>5. b.so_rcv = p.so_rcv /\ b.rcv_nxt = p.rcv_nxt /\ sbspace(b) = sbspace(p)
  BY <1>2 DEF SameInput, sbspace
<1>6. Advertise(b) \in Int /\ Advertise(b) <= sbspace(b) /\ sbspace(b) \in Nat
  BY <1>2, <1>5, AdvertiseIs
<1>7. PICK q : q = SendOrWait(b, d, force)
  OBVIOUS
<1>8. \/ q.rcv_adv = b.rcv_adv
      \/ q.rcv_adv = Max({b.rcv_adv, b.rcv_nxt + Advertise(b)}) /\ Advertise(b) > 0
  BY <1>2, <1>7, SendOrWaitFields
<1>9. q.rcv_adv \in Int /\ q.rcv_adv <= p.rcv_nxt + sbspace(p)
  <2>1. b.rcv_nxt + Advertise(b) \in Int /\ b.rcv_nxt + Advertise(b) <= p.rcv_nxt + sbspace(p)
    BY <1>5, <1>6
  <2>2. b.rcv_adv \in Int /\ b.rcv_adv <= p.rcv_nxt + sbspace(p)
    BY <1>2
  <2>3. Max({b.rcv_adv, b.rcv_nxt + Advertise(b)}) \in {b.rcv_adv, b.rcv_nxt + Advertise(b)}
    BY <2>1, <2>2, MaxOfTwo
  <2> QED  BY <1>8, <2>1, <2>2, <2>3
<1> QED  BY <1>4, <1>7, <1>9
-----------------------------------------------------------------------------
(* The queue of segments that came early *)

\* A stretch of the guest's stream, with its end if it says so.
Piece(e) ==
    /\ e \in [seq : Nat \ {0}, data : Seq(Nat), fin : BOOLEAN]
    /\ Stretch(e.data, e.seq, EndOf(e))
    /\ EndOf(e) <= GuestFin
    /\ e.fin => EndOf(e) = GuestFin
    /\ e.data = <<>> => e.fin

Fin1(e) == IF e.fin THEN 1 ELSE 0

\* All of it lies after "after", ends at "edge" at the latest, and was sent when
\* the guest had got to "sent".
Ahead(queue, after, edge, sent) ==
    \A e \in queue : /\ Piece(e)
                     /\ after < e.seq
                     /\ EndOf(e) <= edge
                     /\ EndOf(e) + Fin1(e) <= sent

LEMMA PieceEnd ==
    ASSUME NEW e, Piece(e)
    PROVE  /\ EndOf(e) \in Nat \ {0} /\ e.seq \in Nat \ {0} /\ e.seq <= EndOf(e)
           /\ Len(e.data) \in Nat /\ EndOf(e) = e.seq + Len(e.data)
           /\ Fin1(e) \in Nat
<1>1. e.seq \in Nat \ {0} /\ Len(e.data) \in Nat
  BY DEF Piece
<1> QED  BY <1>1 DEF EndOf, Fin1

\* A piece without its first i bytes.
LEMMA TrimIs ==
    ASSUME NEW e, Piece(e), NEW i \in Int, 0 < i, i < Len(e.data)
    PROVE  /\ Piece(Trim(e, i)) /\ Trim(e, i).seq = e.seq + i /\ Trim(e, i).fin = e.fin
           /\ EndOf(Trim(e, i)) = EndOf(e)
<1>1. /\ e.seq \in Nat \ {0} /\ Len(e.data) \in Nat /\ i \in Nat /\ i <= Len(e.data)
      /\ EndOf(e) = e.seq + Len(e.data)
  BY PieceEnd
<1>2. PICK d : d = From(e.data, i)
  OBVIOUS
<1>3. PICK c \in Nat \ {0} : c = e.seq + i
  BY <1>1
<1>4. Stretch(e.data, e.seq, EndOf(e))
  BY DEF Piece
<1>5. Stretch(d, c, EndOf(e)) /\ Len(d) = Len(e.data) - i
  BY <1>1, <1>2, <1>3, <1>4, StretchFrom
<1>6. PICK f : f = Trim(e, i)
  OBVIOUS
<1>7. d \in Seq(Nat) /\ d # <<>>
  BY <1>1, <1>5 DEF Stretch
<1>8. /\ f \in [seq : Nat \ {0}, data : Seq(Nat), fin : BOOLEAN]
      /\ f.seq = c /\ f.data = d /\ f.fin = e.fin
  <2>1. e \in [seq : Nat \ {0}, data : Seq(Nat), fin : BOOLEAN]
    BY DEF Piece
  <2>2. f = [e EXCEPT !.seq = c, !.data = d]
    BY <1>2, <1>3, <1>6 DEF Trim
  <2> HIDE <1>2, <1>6
  <2> QED  BY <2>1, <2>2, <1>7
<1>9. EndOf(f) = EndOf(e)
  BY <1>1, <1>3, <1>5, <1>8 DEF EndOf
<1>10. Piece(f)
  <2>1. EndOf(e) <= GuestFin /\ (e.fin => EndOf(e) = GuestFin)
    BY DEF Piece
  <2> QED  BY <2>1, <1>5, <1>7, <1>8, <1>9 DEF Piece
<1> QED  BY <1>3, <1>6, <1>8, <1>9, <1>10

LEMMA EnqueueAhead ==
    ASSUME NEW queue, NEW e, NEW after \in Int, NEW edge, NEW sent,
           Ahead(queue, after, edge, sent), Ahead({e}, after, edge, sent)
    PROVE  Ahead(Enqueue(queue, e), after, edge, sent)
<1> DEFINE before == {q \in queue : q.seq <= e.seq}
           later == queue \ before
           i == IF before = {} THEN 0 ELSE Max({EndOf(q) : q \in before}) - e.seq
           f == IF i > 0 THEN Trim(e, i) ELSE e
           over(q) == EndOf(f) - q.seq
           rest == {q \in later : over(q) <= 0}
           cut == {Trim(q, over(q)) : q \in {r \in later : over(r) > 0 /\ over(r) < Len(r.data)}}
<1>1. Piece(e) /\ after < e.seq /\ EndOf(e) <= edge /\ EndOf(e) + Fin1(e) <= sent
  BY DEF Ahead
<1>2. i \in Int
  <2>1. CASE before = {}
    BY <2>1
  <2>2. CASE before # {}
    <3> DEFINE T == {EndOf(q) : q \in before}
    <3>1. T # {} /\ T \subseteq Int /\ \A x \in T : x <= GuestFin
      <4>1. \A q \in before : EndOf(q) \in Int /\ EndOf(q) <= GuestFin
        BY PieceEnd DEF Ahead, Piece
      <4> QED  BY <4>1, <2>2
    <3>2. Max(T) \in Int
      <4> HIDE DEF T
      <4>1. GuestFin \in Int
        BY Sizes
      <4> QED  BY <3>1, <4>1, MaxIs
    <3>3. e.seq \in Int
      BY <1>1, PieceEnd
    <3> QED  BY <3>2, <3>3, <2>2
  <2> QED  BY <2>1, <2>2
<1>3. CASE i > 0 /\ i >= Len(e.data)
  <2>1. Enqueue(queue, e) = queue
    BY <1>3 DEF Enqueue
  <2> QED  BY <2>1
<1>4. CASE ~(i > 0 /\ i >= Len(e.data))
  <2>1. Enqueue(queue, e) = before \cup {f} \cup rest \cup cut
    BY <1>4 DEF Enqueue
  <2> HIDE DEF i
  <2>2. Piece(f) /\ e.seq <= f.seq /\ EndOf(f) = EndOf(e) /\ f.fin = e.fin
    <3>1. Len(e.data) \in Nat /\ e.seq \in Nat
      BY <1>1, PieceEnd
    <3>2. CASE i > 0
      BY <3>1, <3>2, <1>1, <1>2, <1>4, TrimIs
    <3>3. CASE ~(i > 0)
      BY <3>1, <3>3, <1>1
    <3> QED  BY <3>2, <3>3
  <2> HIDE DEF f
  <2>3. after < f.seq /\ EndOf(f) <= edge /\ EndOf(f) + Fin1(f) <= sent
    <3>1. e.seq \in Int /\ f.seq \in Int
      BY <1>1, <2>2, PieceEnd
    <3> QED  BY <3>1, <1>1, <2>2 DEF Fin1
  <2>4. ASSUME NEW q \in later, over(q) > 0, over(q) < Len(q.data)
        PROVE  /\ Piece(Trim(q, over(q))) /\ after < Trim(q, over(q)).seq
               /\ EndOf(Trim(q, over(q))) <= edge
               /\ EndOf(Trim(q, over(q))) + Fin1(Trim(q, over(q))) <= sent
    <3>1. Piece(q) /\ after < q.seq /\ EndOf(q) <= edge /\ EndOf(q) + Fin1(q) <= sent
      BY DEF Ahead
    <3>2. over(q) \in Int /\ q.seq \in Int
      BY <2>2, <3>1, PieceEnd
    <3> HIDE DEF over
    <3>3. /\ Piece(Trim(q, over(q))) /\ Trim(q, over(q)).seq = q.seq + over(q)
          /\ Trim(q, over(q)).fin = q.fin /\ EndOf(Trim(q, over(q))) = EndOf(q)
      BY <2>4, <3>1, <3>2, TrimIs
    <3> QED  BY <2>4, <3>1, <3>2, <3>3 DEF Fin1
  <2>5. Ahead(before \cup {f} \cup rest, after, edge, sent)
    BY <2>2, <2>3 DEF Ahead
  <2>6. Ahead(cut, after, edge, sent)
    BY <2>4 DEF Ahead
  <2> QED  BY <2>1, <2>5, <2>6 DEF Ahead
<1> QED  BY <1>3, <1>4

-----------------------------------------------------------------------------
(* The receive side: the socket buffer, and the stream that goes through it *)

\* Of the send side, what the function that turned p into q did not touch.
SameSend(p, q) ==
    /\ q.so_snd = p.so_snd /\ q.iss = p.iss /\ q.snd_una = p.snd_una /\ q.snd_nxt = p.snd_nxt
    /\ q.snd_max = p.snd_max /\ q.snd_wnd = p.snd_wnd /\ q.out = p.out
    /\ ("SENTFIN" \in q.t_flags <=> "SENTFIN" \in p.t_flags)

LEMMA SpaceIs ==
    ASSUME NEW p, p.so_rcv \in Seq(Nat), Len(p.so_rcv) <= RcvSpace
    PROVE  sbspace(p) \in Nat /\ sbspace(p) = RcvSpace - Len(p.so_rcv) /\ Len(p.so_rcv) \in Nat
<1>1. Len(p.so_rcv) \in Nat /\ RcvSpace \in Nat
  BY Sizes
<1> QED  BY <1>1 DEF sbspace

\* The first n bytes of data have gone to the host, the rest into the buffer.
Appended(p, q, data, n) ==
    /\ n <= Len(data) /\ (p.so_rcv # <<>> => n = 0)
    /\ q.got = p.got \o Take(data, n)
    /\ q.so_rcv = p.so_rcv \o From(data, n)

\* What sbappend does when there is room.
LEMMA AppendIs ==
    ASSUME NEW p, Socket(p), p.so_rcv \in Seq(Nat), Len(p.so_rcv) <= RcvSpace,
           NEW data \in Seq(Nat), Len(data) <= sbspace(p), NEW k \in Nat
    PROVE  LET q == sbappend(p, data, k) IN
           /\ Socket(q) /\ SameSend(p, q) /\ q.end = p.end
           /\ q.t_state = p.t_state /\ q.so_state = p.so_state /\ q.reass = p.reass
           /\ q.rcv_nxt = p.rcv_nxt /\ q.rcv_adv = p.rcv_adv
           /\ \E n \in Nat : Appended(p, q, data, n)
<1>1. PICK n : n = IF p.so_rcv = <<>> THEN Min({k, Len(data)}) ELSE 0
  OBVIOUS
<1>2. n \in Nat /\ n <= Len(data) /\ (p.so_rcv # <<>> => n = 0)
  <2>1. Len(data) \in Nat
    OBVIOUS
  <2>2. Min({k, Len(data)}) = IF k <= Len(data) THEN k ELSE Len(data)
    BY <2>1, MinOfTwo
  <2> QED  BY <1>1, <2>1, <2>2
<1>3. PICK f : f = From(data, n)
  OBVIOUS
<1>4. f \in Seq(Nat) /\ Len(f) = Len(data) - n
  <2>1. \A i \in n + 1 .. Len(data) : data[i] \in Nat
    BY <1>2
  <2>2. f = SubSeq(data, n + 1, Len(data))
    BY <1>3 DEF From
  <2> QED  BY <1>2, <2>1, <2>2
<1>5. PICK t : t = Take(data, n)
  OBVIOUS
<1>6. PICK a : a = [p EXCEPT !.got = p.got \o t]
  OBVIOUS
<1>7. /\ Socket(a) /\ SameSend(p, a) /\ a.end = p.end /\ a.t_state = p.t_state
      /\ a.so_state = p.so_state /\ a.reass = p.reass /\ a.rcv_nxt = p.rcv_nxt
      /\ a.rcv_adv = p.rcv_adv /\ a.so_rcv = p.so_rcv /\ a.got = p.got \o t
  BY <1>6 DEF Socket, FieldNames, SameSend
<1>8. sbspace(p) \in Nat /\ sbspace(a) = sbspace(p)
  BY <1>7, SpaceIs DEF sbspace
<1>9. PICK room : room = IF sbspace(a) = 0 THEN RcvSpace ELSE sbspace(a)
  OBVIOUS
<1>10. Min({Len(f), room}) = Len(f)
  <2>1. room \in Nat /\ Len(f) <= room /\ Len(f) \in Nat
    BY <1>2, <1>4, <1>8, <1>9, Sizes
  <2> QED  BY <2>1, MinOfTwo
<1>11. SubSeq(f, 1, Min({Len(f), room})) = f
  <2>1. Take(f, Len(f)) = f
    BY <1>4, TakeAll
  <2> QED  BY <1>10, <2>1 DEF Take
<1>12. sbappend(p, data, k) = sbappendsb(a, f)
  BY <1>1, <1>3, <1>5, <1>6 DEF sbappend, Take
<1>13. PICK q : q = [a EXCEPT !.so_rcv = a.so_rcv \o f]
  OBVIOUS
<1>14. sbappendsb(a, f) = q
  BY <1>9, <1>11, <1>13 DEF sbappendsb
<1>15. /\ Socket(q) /\ SameSend(p, q) /\ q.end = p.end /\ q.t_state = p.t_state
       /\ q.so_state = p.so_state /\ q.reass = p.reass /\ q.rcv_nxt = p.rcv_nxt
       /\ q.rcv_adv = p.rcv_adv /\ q.so_rcv = p.so_rcv \o f /\ q.got = p.got \o t
  BY <1>7, <1>13 DEF Socket, FieldNames, SameSend
<1>16. Appended(p, q, data, n)
  BY <1>2, <1>3, <1>5, <1>15 DEF Appended
<1> QED  BY <1>2, <1>12, <1>14, <1>15, <1>16

\* Nothing appended, nothing changed.
LEMMA AppendNothing ==
    ASSUME NEW p, Socket(p), p.so_rcv \in Seq(Nat), Len(p.so_rcv) <= RcvSpace,
           p.got \in Seq(Nat), NEW k \in Nat
    PROVE  LET q == sbappend(p, <<>>, k) IN q.got = p.got /\ q.so_rcv = p.so_rcv
<1>1. <<>> \in Seq(Nat) /\ Len(<<>>) = 0 /\ 0 <= sbspace(p)
  BY SpaceIs
<1>2. PICK q : q = sbappend(p, <<>>, k)
  OBVIOUS
<1>3. PICK n \in Nat : Appended(p, q, <<>>, n)
  BY <1>1, <1>2, AppendIs
<1>4. /\ n = 0 /\ q.got = p.got \o Take(<<>>, n)
      /\ q.so_rcv = p.so_rcv \o From(<<>>, n)
  BY <1>1, <1>3 DEF Appended
<1>5. Take(<<>>, 0) = <<>> /\ From(<<>>, 0) = <<>>
  BY <1>1, TakeAll
<1> QED  BY <1>2, <1>4, <1>5, ConcatEmptySeq

\* The bytes that follow those in the buffer are appended to the stream.
LEMMA AppendDelivers ==
    ASSUME NEW p, Socket(p), Len(p.so_rcv) <= RcvSpace, NEW k \in Nat,
           NEW x, NEW y, NEW z, NEW data, Len(data) <= sbspace(p),
           Stretch(p.got, 1, x), Stretch(p.so_rcv, x, y), Stretch(data, y, z)
    PROVE  LET q == sbappend(p, data, k) IN
           \E m \in Nat : /\ Stretch(q.got, 1, m) /\ Stretch(q.so_rcv, m, z)
                          /\ x <= m /\ Len(q.so_rcv) <= RcvSpace
<1>1. /\ p.so_rcv \in Seq(Nat) /\ data \in Seq(Nat) /\ x \in Nat /\ y \in Nat /\ z \in Nat
      /\ Len(p.so_rcv) \in Nat /\ Len(data) \in Nat /\ y = x + Len(p.so_rcv) /\ z = y + Len(data)
      /\ (p.so_rcv = <<>> <=> x = y)
  BY StretchLen
<1>2. PICK q : q = sbappend(p, data, k)
  OBVIOUS
<1>3a. PICK n \in Nat : Appended(p, q, data, n)
  BY <1>1, <1>2, AppendIs
<1>3. /\ n <= Len(data) /\ (p.so_rcv # <<>> => n = 0)
      /\ q.got = p.got \o Take(data, n)
      /\ q.so_rcv = p.so_rcv \o From(data, n)
  BY <1>3a DEF Appended
<1>4. PICK c \in Nat : c = y + n
  BY <1>1
<1>5. Stretch(Take(data, n), y, c) /\ Stretch(From(data, n), c, z)
  BY <1>1, <1>3, <1>4, StretchTake, StretchFrom
<1>6. CASE n = 0
  <2>1. c = y
    BY <1>1, <1>4, <1>6
  <2>2. Stretch(p.so_rcv \o From(data, n), x, z)
    BY <1>5, <2>1, StretchConcat
  <2>3. Take(data, n) = <<>>
    BY <1>1, <1>6, TakeAll
  <2>4. p.got \in Seq(Nat)
    BY StretchLen
  <2>5. q.got = p.got
    BY <1>3, <2>3, <2>4, ConcatEmptySeq
  <2>6. Stretch(q.so_rcv, x, z) /\ Stretch(q.got, 1, x)
    BY <1>3, <2>2, <2>5
  <2>7. Len(q.so_rcv) <= RcvSpace
    <3>1. Len(q.so_rcv) = z - x
      BY <2>6, StretchLen
    <3>2. sbspace(p) = RcvSpace - Len(p.so_rcv) /\ RcvSpace \in Nat
      BY <1>1, SpaceIs, Sizes
    <3> QED  BY <1>1, <3>1, <3>2
  <2>8. x <= x
    BY <1>1
  <2> QED  BY <1>1, <1>2, <2>6, <2>7, <2>8
<1>7. CASE n # 0
  <2>1. x = y
    BY <1>1, <1>3, <1>7
  <2>2. Stretch(p.got \o Take(data, n), 1, c)
    BY <1>5, <2>1, StretchConcat
  <2>3. From(data, n) \in Seq(Nat)
    BY <1>5, StretchLen
  <2>4. q.so_rcv = From(data, n)
    <3>1. p.so_rcv = <<>>
      BY <1>3, <1>7
    <3> QED  BY <1>3, <2>3, <3>1, ConcatEmptySeq
  <2>5. Stretch(q.so_rcv, c, z) /\ Stretch(q.got, 1, c)
    BY <1>3, <1>5, <2>2, <2>4
  <2>6. Len(q.so_rcv) <= RcvSpace
    <3>1. Len(q.so_rcv) = z - c
      BY <2>5, StretchLen
    <3>2. sbspace(p) = RcvSpace - Len(p.so_rcv) /\ RcvSpace \in Nat
      BY <1>1, SpaceIs, Sizes
    <3> QED  BY <1>1, <1>4, <2>1, <3>1, <3>2
  <2>7. x <= c
    BY <1>1, <1>4, <2>1
  <2> QED  BY <1>2, <1>4, <2>5, <2>6, <2>7
<1> QED  BY <1>6, <1>7

-----------------------------------------------------------------------------
(* The receive side of an open socket.  "sent" is how far the guest has got *)

\* The host still takes what comes.
Usable(p) == "FCANTSENDMORE" \notin p.so_state /\ "NOFDREF" \notin p.so_state

\* The window begins at rcv_nxt and ends here.
Edge(p) == p.rcv_nxt + sbspace(p)

\* The end of the bytes that were received; the FIN is counted, but is none.
Upto(n) == IF n <= GuestFin THEN n ELSE GuestFin

Types(p) ==
    /\ p.rcv_nxt \in Nat \ {0} /\ p.rcv_adv \in Int
    /\ p.so_rcv \in Seq(Nat) /\ p.got \in Seq(Nat)

\* What is promised fits, and what the host was given and what waits for it are
\* the bytes up to rcv_nxt.
Flow(p, sent) ==
    /\ Types(p)
    /\ p.rcv_nxt <= GuestFin + 1
    /\ p.rcv_nxt <= sent \/ p.rcv_nxt = 1
    /\ Len(p.so_rcv) <= RcvSpace
    /\ p.rcv_adv <= Edge(p)
    /\ \E m \in Nat : /\ Stretch(p.got, 1, m)
                      /\ Usable(p) => Stretch(p.so_rcv, m, Upto(p.rcv_nxt))

LEMMA EdgeIs ==
    ASSUME NEW p, Types(p), Len(p.so_rcv) <= RcvSpace
    PROVE  /\ Edge(p) \in Nat /\ Edge(p) = p.rcv_nxt + sbspace(p) /\ sbspace(p) \in Nat
           /\ sbspace(p) = RcvSpace - Len(p.so_rcv) /\ p.rcv_nxt <= Edge(p)
<1>1. sbspace(p) \in Nat /\ sbspace(p) = RcvSpace - Len(p.so_rcv) /\ p.rcv_nxt \in Nat
  BY SpaceIs DEF Types
<1> QED  BY <1>1 DEF Edge

LEMMA AheadMore ==
    ASSUME NEW queue, NEW after \in Int, NEW edge \in Int, NEW sent \in Int,
           Ahead(queue, after, edge, sent),
           NEW edge2 \in Int, NEW sent2 \in Int, edge <= edge2, sent <= sent2
    PROVE  Ahead(queue, after, edge2, sent2)
<1> SUFFICES ASSUME NEW e \in queue
             PROVE  /\ Piece(e) /\ after < e.seq /\ EndOf(e) <= edge2 
                    /\ EndOf(e) + Fin1(e) <= sent2
  BY DEF Ahead
<1>1. Piece(e) /\ after < e.seq /\ EndOf(e) <= edge /\ EndOf(e) + Fin1(e) <= sent
  BY DEF Ahead
<1>2. EndOf(e) \in Int /\ Fin1(e) \in Int
  BY <1>1, PieceEnd
<1> QED  BY <1>1, <1>2

\* The segments in turn cover the bytes up to the end of the last one.
LEMMA TurnIs ==
    ASSUME NEW queue, NEW nxt \in Nat \ {0}, NEW edge \in Int, NEW sent \in Int,
           Ahead(queue, nxt - 1, edge, sent), NEW e0 \in queue, e0.seq = nxt
    PROVE  LET turn == InTurn(queue, nxt)
               end == Max({EndOf(e) : e \in turn})
           IN  /\ end \in Nat /\ nxt <= end /\ end <= edge /\ end <= sent /\ end <= GuestFin
               /\ \A b \in nxt .. end - 1 : \E e \in turn : e.seq <= b /\ b < EndOf(e)
               /\ Ahead(queue \ turn, end, edge, sent)
               /\ \A e \in turn : EndOf(e) <= end
<1> DEFINE turn == InTurn(queue, nxt)
           T == {EndOf(e) : e \in turn}
           end == Max(T)
<1>1. \A e \in queue : /\ Piece(e) /\ EndOf(e) \in Nat /\ e.seq \in Nat /\ nxt <= e.seq
                       /\ e.seq <= EndOf(e) /\ EndOf(e) <= edge /\ EndOf(e) <= sent
                       /\ EndOf(e) <= GuestFin
  <2> SUFFICES ASSUME NEW e \in queue
               PROVE  /\ Piece(e) /\ EndOf(e) \in Nat /\ e.seq \in Nat /\ nxt <= e.seq
                      /\ e.seq <= EndOf(e) /\ EndOf(e) <= edge /\ EndOf(e) <= sent
                      /\ EndOf(e) <= GuestFin
    OBVIOUS
  <2>1. Piece(e) /\ nxt - 1 < e.seq /\ EndOf(e) <= edge /\ EndOf(e) + Fin1(e) <= sent
    BY DEF Ahead
  <2>2. EndOf(e) \in Nat /\ e.seq \in Nat /\ e.seq <= EndOf(e) /\ Fin1(e) \in Nat
    BY <2>1, PieceEnd
  <2>3. EndOf(e) <= GuestFin
    BY <2>1 DEF Piece
  <2> QED  BY <2>1, <2>2, <2>3
<1>2. turn \subseteq queue
  BY DEF InTurn
<1>3. e0 \in turn
  <2>1. nxt .. nxt - 1 = {}
    OBVIOUS
  <2> QED  BY <2>1, <1>1 DEF InTurn
<1>4. end \in T /\ \A x \in T : x <= end
  <2>1. T \subseteq Int /\ T # {} /\ \A x \in T : x <= GuestFin
    BY <1>1, <1>2, <1>3
  <2>2. GuestFin \in Int
    BY Sizes
  <2> HIDE DEF T
  <2> QED  BY <2>1, <2>2, MaxIs
<1>5. PICK last \in turn : end = EndOf(last)
  BY <1>4
<1> HIDE DEF end
<1>6. \A e \in turn : EndOf(e) <= end
  BY <1>4
<1>7. end \in Nat /\ nxt <= end /\ end <= edge /\ end <= sent /\ end <= GuestFin
  BY <1>1, <1>2, <1>5
<1>8. \A e \in turn : \A b \in nxt .. e.seq - 1 : \E f \in queue : f.seq <= b /\ b < EndOf(f)
  BY DEF InTurn
<1>9. ASSUME NEW e \in queue, \A b \in nxt .. e.seq - 1 : \E f \in queue : f.seq <= b /\ b < EndOf(f)
      PROVE  e \in turn
  BY <1>1, <1>9 DEF InTurn
<1> HIDE DEF turn
<1>10. ASSUME NEW b \in nxt .. end - 1
       PROVE  \E e \in turn : e.seq <= b /\ b < EndOf(e)
  <2>1. CASE last.seq <= b
    BY <1>5, <1>7, <2>1
  <2>2. CASE b < last.seq
    <3>1. last.seq \in Nat
      BY <1>1, <1>2
    <3>2. PICK f \in queue : f.seq <= b /\ b < EndOf(f)
      BY <1>7, <1>8, <2>2, <3>1
    <3>3. \A c \in nxt .. f.seq - 1 : c \in nxt .. last.seq - 1
      BY <1>1, <1>7, <2>2, <3>1, <3>2
    <3>4. f \in turn
      BY <1>8, <1>9, <3>3
    <3> QED  BY <3>2, <3>4
  <2>3. last.seq \in Nat /\ b \in Int
    BY <1>1, <1>2
  <2> QED  BY <2>1, <2>2, <2>3
<1>11. ASSUME NEW e \in queue \ turn
       PROVE  end < e.seq
  <2> SUFFICES ASSUME e.seq <= end PROVE FALSE
    BY <1>1, <1>7
  <2>1. \A b \in nxt .. e.seq - 1 : b \in nxt .. end - 1
    BY <1>1, <1>7
  <2>2. e \in turn
    BY <1>2, <1>9, <1>10, <2>1
  <2> QED  BY <2>2
<1>12. Ahead(queue \ turn, end, edge, sent)
  BY <1>11 DEF Ahead
<1> QED  BY <1>6, <1>7, <1>10, <1>12 DEF end, turn

\* What a function of the receive side keeps.
Keeps(p, q) ==
    /\ SameSend(p, q) /\ q.end = p.end
    /\ q.t_state = p.t_state /\ q.so_state = p.so_state

\* The guest's stream has come in whole, with its end.
AllCame(q, sent) == q.rcv_nxt = GuestFin /\ q.reass = {} /\ GuestFin + 1 <= sent

\* To the socket buffer, unless the host takes no more.
Pass(p, data, k) ==
    IF "FCANTSENDMORE" \in p.so_state THEN p ELSE sbappend(p, data, k)

\* Bytes that come in their turn go into the stream.
LEMMA Receive ==
    ASSUME NEW p, Socket(p), NEW sent \in Int, Flow(p, sent), NEW k \in Nat,
           NEW data, NEW end \in Nat, p.rcv_nxt <= end, end <= Edge(p), end <= GuestFin,
           end <= sent \/ end = p.rcv_nxt,
           Stretch(data, p.rcv_nxt, end),
           "NOFDREF" \in p.so_state => end = p.rcv_nxt,
           NEW p1, Socket(p1), Keeps(p, p1), p1.rcv_nxt = end, p1.rcv_adv = p.rcv_adv,
           p1.so_rcv = p.so_rcv, p1.got = p.got
    PROVE  LET q == Pass(p1, data, k)
           IN  /\ Socket(q) /\ Keeps(p, q) /\ Flow(q, sent)
               /\ q.rcv_nxt = end /\ q.reass = p1.reass /\ Edge(p) <= Edge(q)
<1>1. /\ Types(p) /\ Len(p.so_rcv) <= RcvSpace /\ p.rcv_adv <= Edge(p) /\ p.rcv_nxt \in Nat \ {0}
      /\ p.so_rcv \in Seq(Nat) /\ p.got \in Seq(Nat) /\ p.rcv_adv \in Int
      /\ p.rcv_nxt <= sent \/ p.rcv_nxt = 1
  BY DEF Flow, Types
<1>2. /\ Edge(p) \in Nat /\ Edge(p) = p.rcv_nxt + sbspace(p) /\ sbspace(p) \in Nat
      /\ sbspace(p) = RcvSpace - Len(p.so_rcv)
  BY <1>1, EdgeIs
<1>3. PICK m \in Nat : /\ Stretch(p.got, 1, m)
                       /\ Usable(p) => Stretch(p.so_rcv, m, Upto(p.rcv_nxt))
  BY DEF Flow
<1>4. Types(p1)
  BY <1>1 DEF Types
<1>5. Edge(p1) = end + sbspace(p) /\ Edge(p1) \in Nat /\ sbspace(p1) = sbspace(p)
  <2>1. Len(p1.so_rcv) <= RcvSpace
    BY <1>1
  <2>2. sbspace(p1) = sbspace(p)
    BY DEF sbspace
  <2> QED  BY <1>4, <2>1, <2>2, EdgeIs
<1>6. Edge(p) <= Edge(p1)
  BY <1>1, <1>2, <1>5
<1>7. Len(data) <= sbspace(p1) /\ data \in Seq(Nat) /\ Len(data) \in Nat
      /\ (data = <<>> <=> p.rcv_nxt = end)
  <2>1. /\ data \in Seq(Nat) /\ Len(data) \in Nat /\ Len(data) = end - p.rcv_nxt
        /\ (data = <<>> <=> p.rcv_nxt = end)
    BY StretchLen
  <2> QED  BY <2>1, <1>1, <1>2, <1>5
<1>8. end <= sent \/ end = 1
  BY <1>1
<1>9. ASSUME NEW q, q = p1 /\ "FCANTSENDMORE" \in p.so_state
      PROVE  /\ Socket(q) /\ Keeps(p, q) /\ Flow(q, sent)
             /\ q.rcv_nxt = end /\ q.reass = p1.reass /\ Edge(p) <= Edge(q)
  <2>1. Flow(q, sent)
    <3>1. ~ Usable(q)
      BY <1>9 DEF Usable, Keeps
    <3>2. q.rcv_nxt <= GuestFin + 1 /\ q.rcv_adv <= Edge(q)
      <4>1. q.rcv_adv = p.rcv_adv /\ q.rcv_nxt = end /\ GuestFin \in Int
        BY <1>9, Sizes
      <4>2. p.rcv_adv \in Int /\ p.rcv_adv <= Edge(p) /\ Edge(p) \in Int
        BY <1>1, <1>2
      <4>3. Edge(q) = Edge(p1)
        BY <1>9
      <4> QED  BY <4>1, <4>2, <4>3, <1>5, <1>6
    <3> QED  BY <3>1, <3>2, <1>1, <1>3, <1>4, <1>8, <1>9 DEF Flow
  <2> QED  BY <1>6, <1>9, <2>1
<1>10. ASSUME NEW q, q = sbappend(p1, data, k) /\ "FCANTSENDMORE" \notin p.so_state
      PROVE  /\ Socket(q) /\ Keeps(p, q) /\ Flow(q, sent)
             /\ q.rcv_nxt = end /\ q.reass = p1.reass /\ Edge(p) <= Edge(q)
  <2>1. p1.so_rcv \in Seq(Nat) /\ Len(p1.so_rcv) <= RcvSpace
    BY <1>1
  <2>2. /\ Socket(q) /\ SameSend(p1, q) /\ q.end = p1.end
        /\ q.t_state = p1.t_state /\ q.so_state = p1.so_state /\ q.reass = p1.reass
        /\ q.rcv_nxt = p1.rcv_nxt /\ q.rcv_adv = p1.rcv_adv
    BY <1>7, <1>10, <2>1, AppendIs
  <2>3. Keeps(p, q)
    BY <2>2 DEF Keeps, SameSend
  <2>4. CASE Usable(p)
    <3>1. Upto(p.rcv_nxt) = p.rcv_nxt /\ Upto(end) = end
      BY <1>1, Sizes DEF Upto
    <3>2. Stretch(p1.got, 1, m) /\ Stretch(p1.so_rcv, m, p.rcv_nxt)
      BY <1>3, <2>4, <3>1
    <3>3. PICK c \in Nat : /\ Stretch(q.got, 1, c) /\ Stretch(q.so_rcv, c, end)
                           /\ m <= c /\ Len(q.so_rcv) <= RcvSpace
      BY <1>7, <1>10, <2>1, <3>2, AppendDelivers
    <3>4. /\ q.got \in Seq(Nat) /\ q.so_rcv \in Seq(Nat) /\ Len(q.so_rcv) = end - c
          /\ Len(p.so_rcv) = p.rcv_nxt - m
      <4>1. Stretch(p.so_rcv, m, p.rcv_nxt)
        BY <1>3, <2>4, <3>1
      <4>2. Len(p.so_rcv) = p.rcv_nxt - m
        BY <4>1, StretchLen
      <4>3. q.got \in Seq(Nat)
        BY <3>3, StretchLen
      <4>4. q.so_rcv \in Seq(Nat) /\ Len(q.so_rcv) = end - c
        BY <3>3, StretchLen
      <4> QED  BY <4>2, <4>3, <4>4
    <3>5. Types(q)
      BY <1>4, <2>2, <3>4 DEF Types
    <3>6. Edge(q) = end + (RcvSpace - Len(q.so_rcv)) /\ Edge(q) \in Nat
      BY <2>2, <3>3, <3>5, EdgeIs
    <3>7. Edge(p) <= Edge(q)
      BY <1>1, <1>2, <3>3, <3>4, <3>6, Sizes
    <3>8. q.rcv_adv <= Edge(q) /\ q.rcv_nxt <= GuestFin + 1
      <4>1. q.rcv_adv = p.rcv_adv /\ q.rcv_nxt = end /\ GuestFin \in Int
        BY <2>2, Sizes
      <4>2. p.rcv_adv \in Int /\ p.rcv_adv <= Edge(p) /\ Edge(p) \in Int
        BY <1>1, <1>2
      <4> QED  BY <4>1, <4>2, <3>6, <3>7
    <3>9. Flow(q, sent)
      BY <1>8, <2>2, <3>1, <3>3, <3>5, <3>8 DEF Flow
    <3> QED  BY <2>2, <2>3, <3>7, <3>9
  <2>5. CASE ~ Usable(p)
    <3>1. end = p.rcv_nxt /\ data = <<>>
      BY <1>7, <1>10, <2>5 DEF Usable
    <3>2. q.got = p.got /\ q.so_rcv = p.so_rcv
      BY <1>1, <1>10, <2>1, <3>1, AppendNothing
    <3>3. Types(q) /\ ~ Usable(q)
      BY <1>4, <2>2, <2>3, <2>5, <3>2 DEF Types, Usable, Keeps
    <3>4. Edge(q) = Edge(p)
      BY <2>2, <3>1, <3>2 DEF Edge, sbspace
    <3>5. q.rcv_adv <= Edge(q) /\ q.rcv_nxt <= GuestFin + 1
      BY <1>1, <2>2, <3>4, Sizes
    <3>6. Flow(q, sent)
      BY <1>1, <1>3, <1>8, <2>2, <3>2, <3>3, <3>5 DEF Flow
    <3> QED  BY <1>2, <2>2, <2>3, <3>4, <3>6
  <2> QED  BY <2>4, <2>5
<1>11. PICK q : q = Pass(p1, data, k)
  OBVIOUS
<1>12. p1.so_state = p.so_state
  BY DEF Keeps
<1> QED  BY <1>9, <1>10, <1>11, <1>12 DEF Pass

LEMMA PresentIs ==
    ASSUME NEW p, Socket(p), NEW sent \in Int, Flow(p, sent), NEW k \in Nat,
           Ahead(p.reass, p.rcv_nxt - 1, Edge(p), sent),
           p.t_state \in Nat, p.t_state >= ESTABLISHED,
           "NOFDREF" \in p.so_state => \A e \in p.reass : e.seq = p.rcv_nxt => e.data = <<>>
    PROVE  LET r == Present(p, k) IN
           /\ r = [so |-> r.so, fin |-> r.fin]
           /\ Socket(r.so) /\ Keeps(p, r.so) /\ Flow(r.so, sent)
           /\ Ahead(r.so.reass, r.so.rcv_nxt, Edge(r.so), sent)
           /\ r.fin => AllCame(r.so, sent)
<1> DEFINE turn == InTurn(p.reass, p.rcv_nxt)
           end == Max({EndOf(e) : e \in turn})
           holder(b) == CHOOSE e \in turn : e.seq <= b /\ b < EndOf(e)
           data == [i \in 1 .. end - p.rcv_nxt |->
                       holder(p.rcv_nxt + i - 1).data
                           [(p.rcv_nxt + i - 1) - holder(p.rcv_nxt + i - 1).seq + 1]]
           p1 == [p EXCEPT !.reass = @ \ turn, !.rcv_nxt = end]
           fin == \E e \in turn : e.fin /\ \A f \in turn : f.seq <= e.seq
           q == IF "FCANTSENDMORE" \in p.so_state THEN p1 ELSE sbappend(p1, data, k)
<1>1. Types(p) /\ Len(p.so_rcv) <= RcvSpace /\ p.rcv_nxt \in Nat \ {0}
  BY DEF Flow, Types
<1>2. CASE ~ \E e \in p.reass : e.seq = p.rcv_nxt
  <2>1. Present(p, k) = [so |-> p, fin |-> FALSE]
    BY <1>2 DEF Present
  <2>2. Ahead(p.reass, p.rcv_nxt, Edge(p), sent)
    <3> SUFFICES ASSUME NEW e \in p.reass
                 PROVE  /\ Piece(e) /\ p.rcv_nxt < e.seq /\ EndOf(e) <= Edge(p)
                        /\ EndOf(e) + Fin1(e) <= sent
      BY DEF Ahead
    <3>1. /\ Piece(e) /\ p.rcv_nxt - 1 < e.seq /\ EndOf(e) <= Edge(p)
          /\ EndOf(e) + Fin1(e) <= sent
      BY DEF Ahead
    <3>2. e.seq \in Nat /\ e.seq # p.rcv_nxt
      BY <1>2, <3>1, PieceEnd
    <3> QED  BY <1>1, <3>1, <3>2
  <2> QED  BY <2>1, <2>2 DEF Keeps, SameSend
<1>3. ASSUME NEW e0 \in p.reass, e0.seq = p.rcv_nxt
      PROVE  LET r == Present(p, k) IN
             /\ r = [so |-> r.so, fin |-> r.fin]
             /\ Socket(r.so) /\ Keeps(p, r.so) /\ Flow(r.so, sent)
             /\ Ahead(r.so.reass, r.so.rcv_nxt, Edge(r.so), sent)
             /\ r.fin => AllCame(r.so, sent)
  <2>1. Present(p, k) = [so |-> q, fin |-> fin]
    <3>1. ~(p.t_state < ESTABLISHED \/ ~\E e \in p.reass : e.seq = p.rcv_nxt)
      BY <1>3 DEF ESTABLISHED
    <3> QED  BY <3>1, Zenon DEF Present
  <2>2. Edge(p) \in Int
    BY <1>1, EdgeIs
  <2>3. /\ end \in Nat /\ p.rcv_nxt <= end /\ end <= Edge(p) /\ end <= sent /\ end <= GuestFin
        /\ \A b \in p.rcv_nxt .. end - 1 : \E e \in turn : e.seq <= b /\ b < EndOf(e)
        /\ Ahead(p.reass \ turn, end, Edge(p), sent)
        /\ \A e \in turn : EndOf(e) <= end
    BY <1>1, <1>3, <2>2, TurnIs
  <2>4. turn \subseteq p.reass
    BY DEF InTurn
  <2>5. Socket(p1) /\ Keeps(p, p1) /\ p1.rcv_nxt = end /\ p1.rcv_adv = p.rcv_adv
        /\ p1.so_rcv = p.so_rcv /\ p1.got = p.got /\ p1.reass = p.reass \ turn
    BY DEF Socket, FieldNames, Keeps, SameSend
  <2> HIDE DEF end, turn, p1, fin
  <2>6. Stretch(data, p.rcv_nxt, end)
    <3>1. PICK n \in Nat : n = end - p.rcv_nxt
      BY <1>1, <2>3
    <3>2. ASSUME NEW i \in 1 .. n
          PROVE  holder(p.rcv_nxt + i - 1).data
                     [(p.rcv_nxt + i - 1) - holder(p.rcv_nxt + i - 1).seq + 1] = p.rcv_nxt + i - 1
      <4>1. PICK b \in p.rcv_nxt .. end - 1 : b = p.rcv_nxt + i - 1
        BY <1>1, <2>3, <3>1
      <4>2. PICK h : h = holder(b)
        OBVIOUS
      <4>3. \E e \in turn : e.seq <= b /\ b < EndOf(e)
        BY <2>3
      <4>4. h \in turn /\ h.seq <= b /\ b < EndOf(h)
        BY <4>2, <4>3
      <4>5. Piece(h)
        BY <2>4, <4>4 DEF Ahead
      <4>6. /\ \A j \in 1 .. Len(h.data) : h.data[j] = h.seq + (j - 1)
            /\ h.seq \in Nat \ {0} /\ Len(h.data) \in Nat /\ EndOf(h) = h.seq + Len(h.data)
        BY <4>5, PieceEnd DEF Piece, Stretch
      <4>7. PICK j \in 1 .. Len(h.data) : j = b - h.seq + 1
        BY <1>1, <2>3, <4>4, <4>6
      <4>8. h.data[j] = b
        BY <1>1, <2>3, <4>6, <4>7
      <4> HIDE DEF holder
      <4> QED  BY <4>1, <4>2, <4>7, <4>8
    <3> HIDE DEF holder
    <3>3. data = [i \in 1 .. n |-> p.rcv_nxt + i - 1]
      BY <3>1, <3>2
    <3>4. Stretch(data, p.rcv_nxt, p.rcv_nxt + n)
      <4> HIDE DEF data
      <4>1. PICK a \in Nat \ {0} : a = p.rcv_nxt
        BY <1>1
      <4>2. data = [i \in 1 .. n |-> a + i - 1]
        BY <3>3, <4>1
      <4>3. Stretch(data, a, a + n)
        BY <4>2, StretchOf
      <4> QED  BY <4>1, <4>3
    <3>5. p.rcv_nxt + n = end
      BY <1>1, <2>3, <3>1
    <3> QED  BY <3>4, <3>5
  <2> HIDE DEF data
  <2>7. "NOFDREF" \in p.so_state => end = p.rcv_nxt
    <3> SUFFICES ASSUME "NOFDREF" \in p.so_state PROVE end = p.rcv_nxt
      OBVIOUS
    <3>1. Piece(e0) /\ e0.data = <<>>
      BY <1>3 DEF Ahead
    <3>2. EndOf(e0) = GuestFin /\ EndOf(e0) = e0.seq + Len(e0.data) /\ Len(e0.data) = 0
          /\ e0.seq \in Nat
      BY <3>1, PieceEnd DEF Piece
    <3>3. p.rcv_nxt = GuestFin
      BY <1>3, <3>2
    <3> QED  BY <3>3, <1>1, <2>3
  <2>8. q = Pass(p1, data, k)
    BY <2>5 DEF Pass, Keeps
  <2> HIDE DEF q
  <2>9. /\ Socket(q) /\ Keeps(p, q) /\ Flow(q, sent)
        /\ q.rcv_nxt = end /\ q.reass = p1.reass /\ Edge(p) <= Edge(q)
    BY <2>3, <2>5, <2>6, <2>7, <2>8, Receive
  <2>10. Ahead(q.reass, q.rcv_nxt, Edge(q), sent)
    <3>1. Edge(q) \in Int
      <4>1. Types(q) /\ Len(q.so_rcv) <= RcvSpace
        BY <2>9 DEF Flow
      <4> QED  BY <4>1, EdgeIs
    <3>2. end \in Int /\ sent <= sent
      BY <2>3
    <3> QED  BY <2>2, <2>3, <2>5, <2>9, <3>1, <3>2, AheadMore
  <2>11. ASSUME fin PROVE AllCame(q, sent)
    <3>1. PICK e \in turn : e.fin
      BY <2>11 DEF fin
    <3>2. Piece(e) /\ EndOf(e) + Fin1(e) <= sent
      BY <2>4, <3>1 DEF Ahead
    <3>3. EndOf(e) = GuestFin /\ Fin1(e) = 1
      BY <3>1, <3>2 DEF Piece, Fin1
    <3>4. end = GuestFin
      BY <2>3, <3>1, <3>3, Sizes
    <3>5. q.reass = {}
      <4> SUFFICES ASSUME NEW x \in q.reass PROVE FALSE
        OBVIOUS
      <4>1. Piece(x) /\ end < x.seq
        BY <2>3, <2>5, <2>9 DEF Ahead
      <4>2. EndOf(x) <= GuestFin /\ x.seq <= EndOf(x) /\ EndOf(x) \in Nat /\ x.seq \in Nat
        BY <4>1, PieceEnd DEF Piece
      <4> QED  BY <4>1, <4>2, <3>4, Sizes
    <3> QED  BY <2>9, <3>2, <3>3, <3>4, <3>5 DEF AllCame
  <2> QED  BY <2>1, <2>9, <2>10, <2>11
<1> QED  BY <1>2, <1>3

-----------------------------------------------------------------------------
(* The receive side through the functions of tcp_input *)

USE DEF CLOSED, SYN_RECEIVED, ESTABLISHED, CLOSE_WAIT, FIN_WAIT_1, CLOSING, LAST_ACK,
        FIN_WAIT_2, TIME_WAIT

\* How the state of the connection and that of the socket go together.
Phase(p) ==
    /\ p.t_state \in SYN_RECEIVED .. TIME_WAIT
    /\ "ISFCONNECTING" \notin p.so_state
    /\ "FCANTSENDMORE" \in p.so_state => p.t_state >= CLOSE_WAIT
    /\ "FWDRAIN" \in p.so_state => p.t_state >= CLOSE_WAIT
    /\ "FCANTRCVMORE" \in p.so_state => p.t_state > CLOSE_WAIT
    /\ "NOFDREF" \in p.so_state => p.t_state > CLOSE_WAIT /\ "ISFCONNECTED" \notin p.so_state
    /\ p.t_state = SYN_RECEIVED => p.so_state = {} /\ p.reass = {}

RecvOpen(p, sent) ==
    /\ Socket(p) /\ Phase(p) /\ Flow(p, sent)
    /\ Ahead(p.reass, p.rcv_nxt, Edge(p), sent)

RecvClosed(p) ==
    /\ Socket(p) /\ p.t_state = CLOSED /\ p.so_state = {"NOFDREF"}
    /\ p.t_flags = {} /\ p.timers = {}
    /\ p.so_rcv = <<>> /\ p.reass = {} /\ p.rcv_nxt = 0 /\ p.rcv_adv = 0
    /\ \E m \in Nat : Stretch(p.got, 1, m)

LEMMA FlowSame ==
    ASSUME NEW p, NEW sent, Flow(p, sent), NEW q,
           q.rcv_nxt = p.rcv_nxt, q.so_rcv = p.so_rcv, q.got = p.got,
           Usable(q) => Usable(p), q.rcv_adv \in Int, q.rcv_adv <= Edge(p)
    PROVE  Flow(q, sent) /\ Edge(q) = Edge(p)
<1>1. Edge(q) = Edge(p)
  BY DEF Edge, sbspace
<1>2. Types(q)
  BY DEF Types, Flow
<1> QED  BY <1>1, <1>2 DEF Flow

LEMMA RecvSame ==
    ASSUME NEW p, NEW sent, RecvOpen(p, sent), NEW q, Socket(q), SameInput(p, q),
           q.rcv_adv \in Int, q.rcv_adv <= Edge(p)
    PROVE  RecvOpen(q, sent) /\ Edge(q) = Edge(p)
<1>1. Flow(p, sent) /\ Phase(p) /\ Ahead(p.reass, p.rcv_nxt, Edge(p), sent)
  BY DEF RecvOpen
<1>2. q.rcv_nxt = p.rcv_nxt /\ q.so_rcv = p.so_rcv /\ q.got = p.got /\ q.reass = p.reass
      /\ q.so_state = p.so_state /\ q.t_state = p.t_state
  BY DEF SameInput
<1>3. Usable(q) => Usable(p)
  BY <1>2 DEF Usable
<1>4. Flow(q, sent) /\ Edge(q) = Edge(p)
  BY <1>1, <1>2, <1>3, FlowSame
<1>5. Phase(q)
  BY <1>1, <1>2 DEF Phase
<1> QED  BY <1>1, <1>2, <1>4, <1>5 DEF RecvOpen

\* What changes only fields of the send side.
LEMMA RecvAside ==
    ASSUME NEW p, NEW sent, RecvOpen(p, sent), NEW q, Socket(q), SameInput(p, q),
           q.rcv_adv = p.rcv_adv
    PROVE  RecvOpen(q, sent) /\ Edge(q) = Edge(p)
<1>1. p.rcv_adv \in Int /\ p.rcv_adv <= Edge(p)
  BY DEF RecvOpen, Flow, Types
<1> QED  BY <1>1, RecvSame

LEMMA RecvOutput ==
    ASSUME NEW p, NEW sent, RecvOpen(p, sent), NEW cwnd, NEW force
    PROVE  LET q == tcp_output(p, cwnd, force) IN RecvOpen(q, sent) /\ Edge(q) = Edge(p)
<1>1. PICK q : q = tcp_output(p, cwnd, force)
  OBVIOUS
<1>2. Socket(p) /\ Types(p) /\ Len(p.so_rcv) <= RcvSpace /\ p.rcv_adv <= Edge(p)
  BY DEF RecvOpen, Flow
<1>3. Socket(q) /\ SameInput(p, q)
  BY <1>1, <1>2, OutputFields
<1>4. q.rcv_adv \in Int /\ q.rcv_adv <= p.rcv_nxt + sbspace(p)
  <2>1. /\ p.so_rcv \in Seq(Nat) /\ p.rcv_nxt \in Int /\ p.rcv_adv \in Int
        /\ p.rcv_adv <= p.rcv_nxt + sbspace(p)
    BY <1>2 DEF Types, Edge
  <2> QED  BY <2>1, <1>1, <1>2, OutputPromises
<1>5. RecvOpen(q, sent) /\ Edge(q) = Edge(p)
  BY <1>3, <1>4, RecvSame DEF Edge
<1> QED  BY <1>1, <1>5

\* The piece that a segment is.
PieceOf(s) == [seq |-> s.seq, data |-> s.data, fin |-> s.fin]

\* Segment s, if it has text, is one that tcp_reass may take on socket p.
Acceptable(p, s, sent) ==
    s.data # <<>> \/ "FIN" \in s.flags =>
        /\ Piece(PieceOf(s))
        /\ p.rcv_nxt <= s.seq
        /\ EndOf(PieceOf(s)) <= Edge(p)
        /\ EndOf(PieceOf(s)) + Fin1(PieceOf(s)) <= sent
        /\ "NOFDREF" \in p.so_state => s.data = <<>>

LEMMA ReassRecv ==
    ASSUME NEW p, NEW sent \in Int, RecvOpen(p, sent), p.t_state >= ESTABLISHED, NEW k \in Nat,
           NEW s, Acceptable(p, s, sent), s.data # <<>> \/ "FIN" \in s.flags
    PROVE  LET r == TCP_REASS(p, s, k) IN
           /\ RecvOpen(r.so, sent) /\ Keeps(p, r.so)
           /\ r.fin => AllCame(r.so, sent)
<1>1. /\ Socket(p) /\ Phase(p) /\ Flow(p, sent) /\ Types(p) /\ Len(p.so_rcv) <= RcvSpace
      /\ Ahead(p.reass, p.rcv_nxt, Edge(p), sent)
      /\ p.rcv_nxt \in Nat \ {0} /\ p.rcv_adv \in Int /\ p.rcv_adv <= Edge(p)
  BY DEF RecvOpen, Flow, Types
<1>2. Edge(p) \in Nat
  BY <1>1, EdgeIs
<1>3. PICK e : e = PieceOf(s)
  OBVIOUS
<1>4. e.seq = s.seq /\ e.data = s.data /\ e.fin = s.fin
  BY <1>3 DEF PieceOf
<1>5. /\ Piece(e) /\ p.rcv_nxt <= e.seq /\ EndOf(e) <= Edge(p) /\ EndOf(e) + Fin1(e) <= sent
      /\ "NOFDREF" \in p.so_state => e.data = <<>>
  BY <1>3, <1>4 DEF Acceptable
<1>6. /\ EndOf(e) \in Nat /\ EndOf(e) = e.seq + Len(e.data) /\ Len(e.data) \in Nat
      /\ e.seq \in Nat \ {0} /\ Fin1(e) \in Nat /\ EndOf(e) <= GuestFin
      /\ Stretch(e.data, e.seq, EndOf(e)) /\ (e.fin => EndOf(e) = GuestFin /\ Fin1(e) = 1)
  BY <1>5, PieceEnd DEF Piece, Fin1
<1>7. CASE s.seq = p.rcv_nxt /\ p.reass = {} /\ p.t_state = ESTABLISHED
  <2>1. PICK p1 : p1 = [p EXCEPT !.rcv_nxt = @ + Len(s.data), !.t_flags = @ \cup {"DELACK"}]
    OBVIOUS
  <2>2. PICK q : q = sbappend(p1, s.data, k)
    OBVIOUS
  <2>3. TCP_REASS(p, s, k) = [so |-> q, fin |-> e.fin]
    BY <1>3, <1>7, <2>1, <2>2 DEF TCP_REASS, PieceOf
  <2>4. /\ Socket(p1) /\ Keeps(p, p1) /\ p1.rcv_nxt = p.rcv_nxt + Len(s.data)
        /\ p1.rcv_adv = p.rcv_adv /\ p1.so_rcv = p.so_rcv /\ p1.got = p.got
        /\ p1.reass = p.reass
    BY <1>1, <2>1 DEF Socket, FieldNames, Keeps, SameSend
  <2>5. p1.rcv_nxt = EndOf(e)
    BY <1>4, <1>6, <1>7, <2>4
  <2>6. q = Pass(p1, e.data, k)
    <3>1. "FCANTSENDMORE" \notin p.so_state
      BY <1>1, <1>7 DEF Phase
    <3> QED  BY <1>4, <2>2, <2>4, <3>1 DEF Pass, Keeps
  <2>7. /\ Socket(q) /\ Keeps(p, q) /\ Flow(q, sent)
        /\ q.rcv_nxt = EndOf(e) /\ q.reass = p1.reass
    <3>1. /\ p.rcv_nxt <= EndOf(e) /\ EndOf(e) <= sent
          /\ Stretch(e.data, p.rcv_nxt, EndOf(e))
      BY <1>1, <1>4, <1>5, <1>6, <1>7
    <3>2. "NOFDREF" \in p.so_state => EndOf(e) = p.rcv_nxt
      <4>1. "NOFDREF" \notin p.so_state
        BY <1>1, <1>7 DEF Phase
      <4> QED  BY <4>1
    <3> QED  BY <1>1, <1>5, <1>6, <2>4, <2>5, <2>6, <3>1, <3>2, Receive
  <2>8. Ahead(q.reass, q.rcv_nxt, Edge(q), sent) /\ q.reass = {}
    BY <1>7, <2>4, <2>7 DEF Ahead
  <2>9. Phase(q)
    BY <1>1, <1>7, <2>7 DEF Phase, Keeps
  <2>10. e.fin => AllCame(q, sent)
    BY <1>5, <1>6, <2>7, <2>8 DEF AllCame
  <2>11. RecvOpen(q, sent)
    BY <2>7, <2>8, <2>9 DEF RecvOpen
  <2> QED  BY <2>3, <2>7, <2>10, <2>11
<1>8. CASE ~(s.seq = p.rcv_nxt /\ p.reass = {} /\ p.t_state = ESTABLISHED)
  <2>1. PICK p1 : p1 = [p EXCEPT !.reass = Enqueue(@, e)]
    OBVIOUS
  <2>2. PICK r : r = Present(p1, k)
    OBVIOUS
  <2>3. TCP_REASS(p, s, k) = [r EXCEPT !.so.t_flags = @ \cup {"ACKNOW"}]
    BY <1>3, <1>8, <2>1, <2>2 DEF TCP_REASS, PieceOf
  <2>4. /\ Socket(p1) /\ Keeps(p, p1) /\ p1.rcv_nxt = p.rcv_nxt
        /\ p1.rcv_adv = p.rcv_adv /\ p1.so_rcv = p.so_rcv /\ p1.got = p.got
        /\ p1.reass = Enqueue(p.reass, e)
    BY <1>1, <2>1 DEF Socket, FieldNames, Keeps, SameSend
  <2>5. Flow(p1, sent) /\ Edge(p1) = Edge(p)
    <3>1. Usable(p1) => Usable(p)
      BY <2>4 DEF Usable, Keeps
    <3>2. p1.rcv_adv \in Int /\ p1.rcv_adv <= Edge(p)
      BY <1>1, <2>4
    <3> QED  BY <1>1, <2>4, <3>1, <3>2, FlowSame
  <2>6. Ahead(p1.reass, p1.rcv_nxt - 1, Edge(p1), sent)
    <3>1. PICK a \in Int : a = p.rcv_nxt - 1
      BY <1>1
    <3>2. Ahead(p.reass, a, Edge(p), sent)
      <4> SUFFICES ASSUME NEW f \in p.reass
                   PROVE  /\ Piece(f) /\ a < f.seq /\ EndOf(f) <= Edge(p)
                          /\ EndOf(f) + Fin1(f) <= sent
        BY DEF Ahead
      <4>1. /\ Piece(f) /\ p.rcv_nxt < f.seq /\ EndOf(f) <= Edge(p)
            /\ EndOf(f) + Fin1(f) <= sent
        BY <1>1 DEF Ahead
      <4>2. f.seq \in Nat
        BY <4>1, PieceEnd
      <4> QED  BY <1>1, <3>1, <4>1, <4>2
    <3>3. Ahead({e}, a, Edge(p), sent)
      <4>1. a < e.seq
        BY <1>1, <1>5, <1>6, <3>1
      <4> QED  BY <1>5, <4>1 DEF Ahead
    <3>4. Ahead(Enqueue(p.reass, e), a, Edge(p), sent)
      BY <3>2, <3>3, EnqueueAhead
    <3> QED  BY <2>4, <2>5, <3>1, <3>4
  <2>7. ASSUME "NOFDREF" \in p1.so_state, NEW f \in p1.reass, f.seq = p1.rcv_nxt
        PROVE  f.data = <<>>
    <3>1. "NOFDREF" \in p.so_state /\ e.data = <<>>
      BY <1>5, <2>4, <2>7 DEF Keeps
    <3>2. e.seq = GuestFin
      <4>1. EndOf(e) = e.seq
        <5>1. Len(e.data) = 0
          BY <3>1
        <5> QED  BY <1>6, <5>1
      <4>2. e.fin
        BY <1>5, <3>1 DEF Piece
      <4> QED  BY <1>6, <4>1, <4>2
    <3>3. CASE p.rcv_nxt < e.seq
      <4>1. Ahead({e}, p.rcv_nxt, Edge(p), sent)
        BY <1>5, <3>3 DEF Ahead
      <4>2. Ahead(Enqueue(p.reass, e), p.rcv_nxt, Edge(p), sent)
        BY <1>1, <4>1, EnqueueAhead
      <4>3. p.rcv_nxt < f.seq
        BY <2>4, <2>7, <4>2 DEF Ahead
      <4> QED  BY <1>1, <2>4, <2>7, <4>3
    <3>4. CASE p.rcv_nxt = e.seq
      <4>1. Piece(f)
        BY <2>6, <2>7 DEF Ahead
      <4>2. EndOf(f) <= GuestFin /\ Stretch(f.data, f.seq, EndOf(f)) /\ f.seq = GuestFin
        BY <2>4, <2>7, <3>2, <3>4, <4>1 DEF Piece
      <4>3. f.seq = EndOf(f)
        BY <4>2, StretchLen
      <4> QED  BY <4>2, <4>3, StretchLen
    <3> QED  BY <1>1, <1>5, <1>6, <3>3, <3>4
  <2>8. p1.t_state = p.t_state /\ p1.t_state \in Nat /\ p1.t_state >= ESTABLISHED
    BY <1>1, <2>4 DEF Phase, Keeps
  <2>9. /\ r = [so |-> r.so, fin |-> r.fin]
        /\ Socket(r.so) /\ Keeps(p1, r.so) /\ Flow(r.so, sent)
        /\ Ahead(r.so.reass, r.so.rcv_nxt, Edge(r.so), sent)
        /\ r.fin => AllCame(r.so, sent)
    BY <2>2, <2>4, <2>5, <2>6, <2>7, <2>8, PresentIs
  <2>10. PICK u : u = r.so
    OBVIOUS
  <2>11. PICK q : q = [u EXCEPT !.t_flags = @ \cup {"ACKNOW"}]
    OBVIOUS
  <2>12. TCP_REASS(p, s, k) = [so |-> q, fin |-> r.fin]
    BY <2>3, <2>9, <2>10, <2>11
  <2>13. Socket(q) /\ SameInput(u, q) /\ q.rcv_adv = u.rcv_adv /\ Keeps(u, q)
    BY <2>9, <2>10, <2>11 DEF Socket, FieldNames, SameInput, Keeps, SameSend
  <2>14. Keeps(p, u) /\ Keeps(p, q)
    BY <2>4, <2>9, <2>10, <2>13 DEF Keeps, SameSend
  <2>15. RecvOpen(u, sent)
    <3>1. Phase(u)
      BY <1>1, <2>14 DEF Phase, Keeps
    <3> QED  BY <3>1, <2>9, <2>10 DEF RecvOpen
  <2>16. RecvOpen(q, sent)
    BY <2>13, <2>15, RecvAside
  <2>17. r.fin => AllCame(q, sent)
    BY <2>9, <2>10, <2>13 DEF AllCame, SameInput
  <2> QED  BY <2>12, <2>14, <2>16, <2>17
<1> QED  BY <1>7, <1>8

LEMMA CantSendMoreFields ==
    ASSUME NEW p, Socket(p)
    PROVE  LET q == sofcantsendmore(p) IN
           /\ Socket(q) /\ SameSend(p, q) /\ q.t_state = p.t_state
           /\ q.so_rcv = p.so_rcv /\ q.reass = p.reass /\ q.rcv_nxt = p.rcv_nxt
           /\ q.rcv_adv = p.rcv_adv /\ q.got = p.got
           /\ q.so_state = IF "FCANTRCVMORE" \in p.so_state THEN {"NOFDREF"}
                           ELSE (p.so_state \ {"ISFCONNECTING"}) \cup {"FCANTSENDMORE"}
           /\ q.end = IF "NOFDREF" \in p.so_state THEN p.end ELSE "eof"
BY DEF Socket, FieldNames, SameSend, sofcantsendmore

\* Shutting the socket for writing: the stream it has had stays as it is.
LEMMA CantSendMoreRecv ==
    ASSUME NEW p, NEW sent, RecvOpen(p, sent), p.t_state >= ESTABLISHED,
           NEW q, Socket(q), NEW p0, p0 = sofcantsendmore(p),
           q.so_state = p0.so_state, q.t_state \in CLOSE_WAIT .. TIME_WAIT,
           "FCANTRCVMORE" \in p.so_state \/ "NOFDREF" \in p.so_state => q.t_state > CLOSE_WAIT,
           q.so_rcv = p.so_rcv, q.reass = p.reass, q.rcv_nxt = p.rcv_nxt, q.rcv_adv = p.rcv_adv,
           q.got = p.got
    PROVE  RecvOpen(q, sent)
<1>1. /\ Socket(p) /\ Phase(p) /\ Flow(p, sent) /\ Ahead(p.reass, p.rcv_nxt, Edge(p), sent)
      /\ p.rcv_adv \in Int /\ p.rcv_adv <= Edge(p)
  BY DEF RecvOpen, Flow, Types
<1>2. q.so_state = IF "FCANTRCVMORE" \in p.so_state THEN {"NOFDREF"}
                   ELSE (p.so_state \ {"ISFCONNECTING"}) \cup {"FCANTSENDMORE"}
  BY <1>1, CantSendMoreFields
<1>3. ~ Usable(q)
  BY <1>2 DEF Usable
<1>4. Flow(q, sent) /\ Edge(q) = Edge(p)
  BY <1>1, <1>3, FlowSame
<1>5. Phase(q)
  <2>1. CASE "FCANTRCVMORE" \in p.so_state
    BY <1>1, <1>2, <2>1 DEF Phase
  <2>2. CASE "FCANTRCVMORE" \notin p.so_state
    BY <1>1, <1>2, <2>2 DEF Phase
  <2> QED  BY <2>1, <2>2
<1> QED  BY <1>1, <1>4, <1>5 DEF RecvOpen

\* The states the FIN of the guest leads to.
AfterFin(state) ==
    IF state \in {SYN_RECEIVED, ESTABLISHED} THEN CLOSE_WAIT
    ELSE IF state = FIN_WAIT_1 THEN CLOSING
    ELSE IF state = FIN_WAIT_2 THEN TIME_WAIT
    ELSE state

\* The FIN is acknowledged.
CountFin(p) == [p EXCEPT !.t_flags = @ \cup {"ACKNOW"}, !.rcv_nxt = @ + 1]

LEMMA OnFinIs ==
    ASSUME NEW p, Socket(p)
    PROVE  LET p1 == CountFin(p)
               q == OnFin(p)
           IN  /\ Socket(q) /\ SameSend(p, q) /\ q.t_state = AfterFin(p.t_state)
               /\ q.so_rcv = p.so_rcv /\ q.reass = p.reass /\ q.rcv_nxt = p.rcv_nxt + 1
               /\ q.rcv_adv = p.rcv_adv /\ q.got = p.got
               /\ \/ /\ p.so_rcv # <<>> /\ q.so_state = p.so_state \cup {"FWDRAIN"}
                     /\ q.end = p.end
                  \/ /\ p.so_rcv = <<>> /\ q.so_state = sofcantsendmore(p1).so_state
                     /\ q.end = sofcantsendmore(p1).end
<1>1. PICK p1 : p1 = CountFin(p)
  OBVIOUS
<1>2. /\ Socket(p1) /\ SameSend(p, p1) /\ p1.t_state = p.t_state /\ p1.so_rcv = p.so_rcv
      /\ p1.reass = p.reass /\ p1.rcv_nxt = p.rcv_nxt + 1 /\ p1.rcv_adv = p.rcv_adv
      /\ p1.got = p.got /\ p1.so_state = p.so_state /\ p1.end = p.end
  BY <1>1 DEF Socket, FieldNames, SameSend, CountFin
<1>3. PICK d : d = sofwdrain(p1)
  OBVIOUS
<1>4. /\ Socket(d) /\ SameSend(p, d) /\ d.t_state = p.t_state /\ d.so_rcv = p.so_rcv
      /\ d.reass = p.reass /\ d.rcv_nxt = p.rcv_nxt + 1 /\ d.rcv_adv = p.rcv_adv /\ d.got = p.got
      /\ \/ /\ p.so_rcv # <<>> /\ d.so_state = p.so_state \cup {"FWDRAIN"} /\ d.end = p.end
         \/ /\ p.so_rcv = <<>> /\ d.so_state = sofcantsendmore(p1).so_state
            /\ d.end = sofcantsendmore(p1).end
  <2>1. CASE p.so_rcv # <<>>
    <3>1. d = [p1 EXCEPT !.so_state = @ \cup {"FWDRAIN"}]
      BY <1>2, <1>3, <2>1 DEF sofwdrain
    <3> QED  BY <1>2, <2>1, <3>1 DEF Socket, FieldNames, SameSend
  <2>2. CASE p.so_rcv = <<>>
    <3>1. d = sofcantsendmore(p1)
      BY <1>2, <1>3, <2>2 DEF sofwdrain
    <3>2. /\ Socket(d) /\ SameSend(p1, d) /\ d.t_state = p1.t_state
          /\ d.so_rcv = p1.so_rcv /\ d.reass = p1.reass /\ d.rcv_nxt = p1.rcv_nxt
          /\ d.rcv_adv = p1.rcv_adv /\ d.got = p1.got
      BY <1>2, <3>1, CantSendMoreFields
    <3> QED  BY <1>2, <2>2, <3>1, <3>2 DEF SameSend
  <2> QED  BY <2>1, <2>2
<1>5. PICK q : q = OnFin(p)
  OBVIOUS
<1>6. \/ /\ p.t_state \in {SYN_RECEIVED, ESTABLISHED} /\ q = [d EXCEPT !.t_state = CLOSE_WAIT]
      \/ p.t_state = FIN_WAIT_1 /\ q = [d EXCEPT !.t_state = CLOSING]
      \/ p.t_state = FIN_WAIT_2 /\ q = [d EXCEPT !.t_state = TIME_WAIT, !.timers = {"2MSL"}]
      \/ p.t_state \notin {SYN_RECEIVED, ESTABLISHED, FIN_WAIT_1, FIN_WAIT_2} /\ q = d
  BY <1>1, <1>3, <1>5 DEF OnFin, CountFin
<1>7. /\ Socket(q) /\ SameSend(d, q) /\ q.t_state = AfterFin(p.t_state) /\ q.so_rcv = d.so_rcv
      /\ q.reass = d.reass /\ q.rcv_nxt = d.rcv_nxt /\ q.rcv_adv = d.rcv_adv /\ q.got = d.got
      /\ q.so_state = d.so_state /\ q.end = d.end
  <2>1. CASE p.t_state \in {SYN_RECEIVED, ESTABLISHED} /\ q = [d EXCEPT !.t_state = CLOSE_WAIT]
    BY <1>4, <2>1 DEF Socket, FieldNames, SameSend, AfterFin
  <2>2. CASE p.t_state = FIN_WAIT_1 /\ q = [d EXCEPT !.t_state = CLOSING]
    BY <1>4, <2>2 DEF Socket, FieldNames, SameSend, AfterFin
  <2>3. CASE /\ p.t_state = FIN_WAIT_2
             /\ q = [d EXCEPT !.t_state = TIME_WAIT, !.timers = {"2MSL"}]
    BY <1>4, <2>3 DEF Socket, FieldNames, SameSend, AfterFin
  <2>4. CASE /\ p.t_state \notin {SYN_RECEIVED, ESTABLISHED, FIN_WAIT_1, FIN_WAIT_2}
             /\ q = d
    BY <1>4, <2>4 DEF SameSend, AfterFin
  <2> QED  BY <1>6, <2>1, <2>2, <2>3, <2>4
<1>8. SameSend(p, q)
  BY <1>4, <1>7 DEF SameSend
<1> QED  BY <1>1, <1>4, <1>5, <1>7, <1>8

LEMMA OnFinRecv ==
    ASSUME NEW p, NEW sent \in Int, RecvOpen(p, sent), p.t_state >= ESTABLISHED, AllCame(p, sent)
    PROVE  RecvOpen(OnFin(p), sent) /\ OnFin(p).t_state >= ESTABLISHED
<1>1. /\ Socket(p) /\ Phase(p) /\ Flow(p, sent) /\ Types(p)
      /\ p.rcv_adv \in Int /\ p.rcv_adv <= Edge(p)
  BY DEF RecvOpen, Flow, Types
<1>2. p.rcv_nxt = GuestFin /\ p.reass = {} /\ GuestFin + 1 <= sent /\ GuestFin \in Nat
  BY Sizes DEF AllCame
<1>3. PICK p1 : p1 = CountFin(p)
  OBVIOUS
<1>4. /\ Socket(p1) /\ p1.t_state = p.t_state /\ p1.so_rcv = p.so_rcv
      /\ p1.reass = p.reass /\ p1.rcv_nxt = GuestFin + 1 /\ p1.rcv_adv = p.rcv_adv
      /\ p1.got = p.got /\ p1.so_state = p.so_state
  BY <1>1, <1>2, <1>3 DEF Socket, FieldNames, CountFin
<1>5. RecvOpen(p1, sent)
  <2>1. Types(p1)
    BY <1>1, <1>2, <1>4 DEF Types
  <2>2. Edge(p1) \in Int /\ p1.rcv_adv <= Edge(p1)
    <3>1. Edge(p) = p.rcv_nxt + sbspace(p) /\ sbspace(p) \in Nat /\ Len(p1.so_rcv) <= RcvSpace
      BY <1>1, <1>4, EdgeIs DEF Flow
    <3>2. Edge(p1) = p1.rcv_nxt + sbspace(p) /\ Edge(p1) \in Nat
      BY <2>1, <1>4, <3>1, EdgeIs DEF sbspace
    <3> QED  BY <1>1, <1>2, <1>4, <3>1, <3>2
  <2>3. Upto(p1.rcv_nxt) = Upto(p.rcv_nxt) /\ (Usable(p1) <=> Usable(p))
    BY <1>2, <1>4 DEF Upto, Usable
  <2>4. Flow(p1, sent)
    <3>1. /\ Len(p1.so_rcv) <= RcvSpace
          /\ \E m \in Nat : /\ Stretch(p1.got, 1, m)
                            /\ Usable(p1) => Stretch(p1.so_rcv, m, Upto(p1.rcv_nxt))
      BY <1>1, <1>4, <2>3 DEF Flow
    <3>2. p1.rcv_nxt <= GuestFin + 1 /\ p1.rcv_nxt <= sent
      BY <1>2, <1>4
    <3> QED  BY <2>1, <2>2, <3>1, <3>2 DEF Flow
  <2>5. Phase(p1)
    BY <1>1, <1>4 DEF Phase
  <2>6. Ahead(p1.reass, p1.rcv_nxt, Edge(p1), sent)
    BY <1>2, <1>4 DEF Ahead
  <2> QED  BY <1>4, <2>4, <2>5, <2>6 DEF RecvOpen
<1>6. PICK q : q = OnFin(p)
  OBVIOUS
<1>7. /\ Socket(q) /\ q.t_state = AfterFin(p.t_state)
      /\ q.so_rcv = p1.so_rcv /\ q.reass = p1.reass /\ q.rcv_nxt = p1.rcv_nxt
      /\ q.rcv_adv = p1.rcv_adv /\ q.got = p1.got
      /\ \/ q.so_state = p1.so_state \cup {"FWDRAIN"}
         \/ q.so_state = sofcantsendmore(p1).so_state
  BY <1>1, <1>2, <1>3, <1>4, <1>6, OnFinIs
<1>8. /\ q.t_state \in CLOSE_WAIT .. TIME_WAIT
      /\ p.t_state > CLOSE_WAIT => q.t_state > CLOSE_WAIT
  BY <1>1, <1>7 DEF Phase, AfterFin
<1>9. CASE q.so_state = p1.so_state \cup {"FWDRAIN"}
  <2>1. Usable(q) => Usable(p1)
    BY <1>9 DEF Usable
  <2>2. Flow(p1, sent) /\ Ahead(p1.reass, p1.rcv_nxt, Edge(p1), sent) /\ Phase(p1)
        /\ p1.rcv_adv \in Int /\ p1.rcv_adv <= Edge(p1)
    BY <1>5 DEF RecvOpen, Flow, Types
  <2>3. Flow(q, sent) /\ Edge(q) = Edge(p1)
    BY <1>7, <2>1, <2>2, FlowSame
  <2>4. Phase(q)
    BY <1>4, <1>8, <1>9, <2>2 DEF Phase
  <2> QED  BY <1>6, <1>7, <1>8, <2>2, <2>3, <2>4 DEF RecvOpen
<1>10. CASE q.so_state = sofcantsendmore(p1).so_state
  <2>1. "FCANTRCVMORE" \in p1.so_state \/ "NOFDREF" \in p1.so_state => q.t_state > CLOSE_WAIT
    BY <1>1, <1>4, <1>8 DEF Phase
  <2>2. p1.t_state >= ESTABLISHED
    BY <1>4
  <2>3. RecvOpen(q, sent)
    BY <1>5, <1>7, <1>8, <1>10, <2>1, <2>2, CantSendMoreRecv
  <2> QED  BY <1>6, <1>8, <2>3
<1> QED  BY <1>7, <1>9, <1>10

LEMMA WindowOfFields ==
    ASSUME NEW p, Socket(p), NEW s
    PROVE  LET q == WindowOf(p, s) IN
           /\ Socket(q) /\ SameInput(p, q) /\ SameOutput(p, q) /\ q.rcv_adv = p.rcv_adv
           /\ q.snd_nxt = p.snd_nxt /\ q.snd_max = p.snd_max /\ q.out = p.out
           /\ q.t_flags = p.t_flags /\ (q.snd_wnd = p.snd_wnd \/ q.snd_wnd = s.win)
BY DEF Socket, FieldNames, SameInput, SameOutput, WindowOf

LEMMA Step6Recv ==
    ASSUME NEW p, NEW sent \in Int, RecvOpen(p, sent), p.t_state >= ESTABLISHED, NEW k \in Nat,
           NEW s, Acceptable(p, s, sent), NEW needoutput, NEW cwnd
    PROVE  RecvOpen(Step6(p, s, needoutput, cwnd, k), sent)
<1>1. PICK w : w = WindowOf(p, s)
  OBVIOUS
<1>2. Socket(w) /\ SameInput(p, w) /\ w.rcv_adv = p.rcv_adv
  BY <1>1, WindowOfFields DEF RecvOpen
<1>3. RecvOpen(w, sent) /\ Edge(w) = Edge(p)
  BY <1>2, RecvAside
<1>4. Acceptable(w, s, sent) /\ w.t_state >= ESTABLISHED
  BY <1>2, <1>3 DEF Acceptable, SameInput
<1>5. PICK text : text = ((s.data # <<>> \/ "FIN" \in s.flags) /\ p.t_state < TIME_WAIT)
  OBVIOUS
<1>6. PICK r : r = IF text THEN TCP_REASS(w, s, k) ELSE [so |-> w, fin |-> FALSE]
  OBVIOUS
<1>7. /\ RecvOpen(r.so, sent) /\ r.so.t_state >= ESTABLISHED
      /\ r.fin => AllCame(r.so, sent)
  <2>1. CASE text
    <3>1. r = TCP_REASS(w, s, k) /\ (s.data # <<>> \/ "FIN" \in s.flags)
      BY <1>5, <1>6, <2>1
    <3>2. /\ RecvOpen(r.so, sent) /\ Keeps(w, r.so)
          /\ r.fin => AllCame(r.so, sent)
      BY <1>3, <1>4, <3>1, ReassRecv
    <3> QED  BY <1>4, <3>2 DEF Keeps
  <2>2. CASE ~ text
    <3>1. r = [so |-> w, fin |-> FALSE]
      BY <1>6, <2>2
    <3> QED  BY <3>1, <1>3, <1>4
  <2> QED  BY <2>1, <2>2
<1>8. PICK q : q = IF r.fin THEN OnFin(r.so) ELSE r.so
  OBVIOUS
<1>9. RecvOpen(q, sent)
  BY <1>7, <1>8, OnFinRecv
<1>10. \/ Step6(p, s, needoutput, cwnd, k) = tcp_output(q, cwnd, FALSE)
       \/ Step6(p, s, needoutput, cwnd, k) = q
  BY <1>1, <1>5, <1>6, <1>8 DEF Step6
<1> QED  BY <1>9, <1>10, RecvOutput

\* What an ack of new data changes is of the send side.
LEMMA NewAckFields ==
    ASSUME NEW p, Socket(p), NEW s
    PROVE  LET q == NewAck(p, s).so IN
           /\ Socket(q) /\ SameInput(p, q) /\ q.rcv_adv = p.rcv_adv
           /\ q.iss = p.iss /\ q.out = p.out /\ q.t_flags = p.t_flags /\ q.snd_max = p.snd_max
           /\ q.snd_una = s.ack /\ q.snd_nxt = Max({p.snd_nxt, s.ack})
           /\ q.so_snd = From(p.so_snd, Min({s.ack - p.snd_una, Len(p.so_snd)}))
           /\ q.snd_wnd = Less(p.snd_wnd, Min({s.ack - p.snd_una, Len(p.so_snd)}))
<1>1. PICK b : b = Sbdrop(p, s.ack - p.snd_una)
  OBVIOUS
<1>2. /\ Socket(b) /\ SameInput(p, b) /\ b.rcv_adv = p.rcv_adv
      /\ b.iss = p.iss /\ b.out = p.out /\ b.t_flags = p.t_flags /\ b.snd_max = p.snd_max
      /\ b.snd_nxt = p.snd_nxt /\ b.snd_wnd = p.snd_wnd
      /\ b.so_snd = From(p.so_snd, Min({s.ack - p.snd_una, Len(p.so_snd)}))
  BY <1>1 DEF Sbdrop, Socket, FieldNames, SameInput
<1>3. PICK c : c = RestartRexmt(b, s.ack)
  OBVIOUS
<1>4. /\ Socket(c) /\ SameInput(b, c) /\ c.rcv_adv = b.rcv_adv /\ c.so_snd = b.so_snd
      /\ c.iss = b.iss /\ c.out = b.out /\ c.t_flags = b.t_flags /\ c.snd_max = b.snd_max
      /\ c.snd_nxt = b.snd_nxt /\ c.snd_wnd = b.snd_wnd
  BY <1>2, <1>3 DEF RestartRexmt, Socket, FieldNames, SameInput
<1>5. PICK wnd : wnd = Less(c.snd_wnd, Min({s.ack - p.snd_una, Len(p.so_snd)}))
  OBVIOUS
<1>6. PICK nxt : nxt = Max({c.snd_nxt, s.ack})
  OBVIOUS
<1>7. PICK q : q = [c EXCEPT !.t_dupacks = 0, !.snd_wnd = wnd, !.snd_una = s.ack, !.snd_nxt = nxt]
  OBVIOUS
<1>8. NewAck(p, s).so = q
  BY <1>1, <1>3, <1>5, <1>6, <1>7 DEF NewAck
<1>9. /\ Socket(q) /\ SameInput(c, q) /\ q.rcv_adv = c.rcv_adv /\ q.so_snd = c.so_snd
      /\ q.iss = c.iss /\ q.out = c.out /\ q.t_flags = c.t_flags /\ q.snd_max = c.snd_max
      /\ q.snd_una = s.ack /\ q.snd_nxt = nxt /\ q.snd_wnd = wnd
  BY <1>4, <1>7 DEF Socket, FieldNames, SameInput
<1>10. SameInput(p, q)
  BY <1>2, <1>4, <1>9 DEF SameInput
<1> QED  BY <1>2, <1>4, <1>5, <1>6, <1>8, <1>9, <1>10

LEMMA NewAckRecv ==
    ASSUME NEW p, NEW sent, RecvOpen(p, sent), NEW s
    PROVE  LET q == NewAck(p, s).so IN
           RecvOpen(q, sent) /\ Edge(q) = Edge(p) /\ SameInput(p, q)
<1>1. PICK q : q = NewAck(p, s).so
  OBVIOUS
<1>2. Socket(q) /\ SameInput(p, q) /\ q.rcv_adv = p.rcv_adv
  BY <1>1, NewAckFields DEF RecvOpen
<1> QED  BY <1>1, <1>2, RecvAside

LEMMA CloseIs ==
    ASSUME NEW p, NEW m \in Nat, Stretch(p.got, 1, m), NEW why
    PROVE  RecvClosed(tcp_close(p, why)) /\ RecvClosed(DropWithReset(tcp_close(p, why)))
<1>1. PICK q : q = tcp_close(p, why)
  OBVIOUS
<1>2. /\ Socket(q) /\ q.t_state = CLOSED /\ q.so_state = {"NOFDREF"} /\ q.so_rcv = <<>>
      /\ q.t_flags = {} /\ q.timers = {}
      /\ q.reass = {} /\ q.rcv_nxt = 0 /\ q.rcv_adv = 0 /\ q.got = p.got
  BY <1>1 DEF tcp_close, NewSocket, Socket, FieldNames
<1>3. RecvClosed(q)
  BY <1>2 DEF RecvClosed
<1>4. PICK r : r = DropWithReset(q)
  OBVIOUS
<1>5. /\ Socket(r) /\ r.t_state = CLOSED /\ r.so_state = {"NOFDREF"} /\ r.so_rcv = <<>>
      /\ r.t_flags = {} /\ r.timers = {}
      /\ r.reass = {} /\ r.rcv_nxt = 0 /\ r.rcv_adv = 0 /\ r.got = p.got
  BY <1>2, <1>4 DEF DropWithReset, Socket, FieldNames
<1>6. RecvClosed(r)
  BY <1>5 DEF RecvClosed
<1> QED  BY <1>1, <1>3, <1>4, <1>6

LEMMA CloseRecv ==
    ASSUME NEW p, NEW sent, RecvOpen(p, sent), NEW why
    PROVE  RecvClosed(tcp_close(p, why)) /\ RecvClosed(DropWithReset(tcp_close(p, why)))
<1>1. PICK m \in Nat : Stretch(p.got, 1, m)
  BY DEF RecvOpen, Flow
<1> QED  BY <1>1, CloseIs

LEMMA DropRecv ==
    ASSUME NEW p, NEW sent, RecvOpen(p, sent), NEW cwnd
    PROVE  RecvClosed(tcp_drop(p, cwnd)) /\ RecvClosed(DropWithReset(tcp_drop(p, cwnd)))
<1>1. PICK c : c = [p EXCEPT !.t_state = CLOSED]
  OBVIOUS
<1>2. Socket(c) /\ c.got = p.got
  BY <1>1 DEF RecvOpen, Socket, FieldNames
<1>3. PICK force, q : force = FALSE /\ q = tcp_output(c, cwnd, force)
  OBVIOUS
<1>4. q.got = p.got
  BY <1>2, <1>3, OutputFields DEF SameInput
<1>5. tcp_drop(p, cwnd) = tcp_close(q, "dropped")
  BY <1>1, <1>3 DEF tcp_drop
<1>6. PICK m \in Nat : Stretch(p.got, 1, m)
  BY DEF RecvOpen, Flow
<1> QED  BY <1>4, <1>5, <1>6, CloseIs

\* What tcp_input may leave: the connection open, or closed.
Left(p, sent) == RecvOpen(p, sent) \/ RecvClosed(p)

\* The ack of the FIN moves the state on, or ends the connection.
LEMMA FinAckedRecv ==
    ASSUME NEW p, NEW sent, RecvOpen(p, sent), p.t_state >= ESTABLISHED
    PROVE  LET q == FinAcked(p) IN
           IF p.t_state = LAST_ACK THEN RecvClosed(q)
           ELSE /\ RecvOpen(q, sent) /\ q.t_state >= ESTABLISHED /\ Edge(q) = Edge(p)
                /\ q.rcv_nxt = p.rcv_nxt /\ q.so_state = p.so_state
<1>1. PICK q : q = FinAcked(p)
  OBVIOUS
<1>2. CASE p.t_state = LAST_ACK
  <2>1. q = tcp_close(p, "done")
    BY <1>1, <1>2 DEF FinAcked
  <2>2. RecvClosed(q)
    BY <2>1, CloseRecv
  <2> QED  BY <1>1, <1>2, <2>2
<1>3. CASE p.t_state # LAST_ACK
  <2>1. /\ Socket(p) /\ Flow(p, sent) /\ Phase(p) /\ Ahead(p.reass, p.rcv_nxt, Edge(p), sent)
        /\ p.rcv_adv \in Int /\ p.rcv_adv <= Edge(p)
    BY DEF RecvOpen, Flow, Types
  <2>2. /\ Socket(q) /\ q.so_state = p.so_state /\ q.so_rcv = p.so_rcv /\ q.reass = p.reass
        /\ q.rcv_nxt = p.rcv_nxt /\ q.rcv_adv = p.rcv_adv /\ q.got = p.got
        /\ \/ q.t_state = p.t_state
           \/ p.t_state \in {FIN_WAIT_1, CLOSING} /\ q.t_state \in {FIN_WAIT_2, TIME_WAIT}
    <3>1. CASE p.t_state = FIN_WAIT_1
      <4>0. PICK t : t = p.timers \cup IF "FCANTRCVMORE" \in p.so_state THEN {"2MSL"} ELSE {}
        OBVIOUS
      <4>1. q = [p EXCEPT !.t_state = FIN_WAIT_2, !.timers = t]
        BY <1>1, <3>1, <4>0 DEF FinAcked
      <4> QED  BY <2>1, <3>1, <4>1 DEF Socket, FieldNames
    <3>2. CASE p.t_state = CLOSING
      <4>1. q = [p EXCEPT !.t_state = TIME_WAIT, !.timers = {"2MSL"}]
        BY <1>1, <3>2 DEF FinAcked
      <4> QED  BY <2>1, <3>2, <4>1 DEF Socket, FieldNames
    <3>3. CASE p.t_state \notin {FIN_WAIT_1, CLOSING, LAST_ACK}
      <4>1. q = p
        BY <1>1, <3>3 DEF FinAcked
      <4> QED  BY <2>1, <4>1
    <3> QED  BY <1>3, <3>1, <3>2, <3>3
  <2>3. Usable(q) => Usable(p)
    BY <2>2 DEF Usable
  <2>4. Flow(q, sent) /\ Edge(q) = Edge(p)
    BY <2>1, <2>2, <2>3, FlowSame
  <2>5. Phase(q) /\ q.t_state >= ESTABLISHED
    BY <2>1, <2>2 DEF Phase
  <2> QED  BY <1>1, <1>3, <2>1, <2>2, <2>4, <2>5 DEF RecvOpen
<1> QED  BY <1>2, <1>3

LEMMA DropAfterAckRecv ==
    ASSUME NEW p, NEW sent, RecvOpen(p, sent), NEW cwnd
    PROVE  RecvOpen(DropAfterAck(p, cwnd), sent)
<1>1. PICK q : q = [p EXCEPT !.t_flags = @ \cup {"ACKNOW"}]
  OBVIOUS
<1>2. Socket(q) /\ SameInput(p, q) /\ q.rcv_adv = p.rcv_adv
  BY <1>1 DEF RecvOpen, Socket, FieldNames, SameInput
<1>3. RecvOpen(q, sent)
  BY <1>2, RecvAside
<1> QED  BY <1>1, <1>3, RecvOutput DEF DropAfterAck

LEMMA FastRexmtRecv ==
    ASSUME NEW p, NEW sent, RecvOpen(p, sent), NEW s
    PROVE  RecvOpen(FastRexmt(p, s), sent)
<1>1. PICK b : b = [p EXCEPT !.t_dupacks = @ + 1, !.snd_nxt = s.ack, !.timers = @ \ {"REXMT"}]
  OBVIOUS
<1>2. Socket(b) /\ SameInput(p, b) /\ b.rcv_adv = p.rcv_adv
  BY <1>1 DEF RecvOpen, Socket, FieldNames, SameInput
<1>3. PICK q : q = tcp_output(b, Mss, FALSE)
  OBVIOUS
<1>4. RecvOpen(q, sent)
  BY <1>2, <1>3, RecvAside, RecvOutput
<1>5. PICK nxt : nxt = Max({q.snd_nxt, p.snd_nxt})
  OBVIOUS
<1>6. PICK r : r = [q EXCEPT !.snd_nxt = nxt]
  OBVIOUS
<1>7. Socket(r) /\ SameInput(q, r) /\ r.rcv_adv = q.rcv_adv
  BY <1>4, <1>6 DEF RecvOpen, Socket, FieldNames, SameInput
<1>8. FastRexmt(p, s) = r
  BY <1>1, <1>3, <1>5, <1>6 DEF FastRexmt
<1> QED  BY <1>4, <1>7, <1>8, RecvAside

LEMMA AcceptableSame ==
    ASSUME NEW p, NEW s, NEW sent, Acceptable(p, s, sent),
           NEW q, q.rcv_nxt = p.rcv_nxt, Edge(q) = Edge(p), q.so_state = p.so_state
    PROVE  Acceptable(q, s, sent)
BY DEF Acceptable

LEMMA AckStatesRecv ==
    ASSUME NEW p, NEW sent \in Int, RecvOpen(p, sent), p.t_state >= ESTABLISHED, NEW k \in Nat,
           NEW s, Acceptable(p, s, sent), NEW cwnd
    PROVE  Left(AckStates(p, s, cwnd, k), sent)
<1> DEFINE r == AckStates(p, s, cwnd, k)
<1>0. Socket(p)
  BY DEF RecvOpen
<1>1. PICK dups : dups = IF CountedDup(p, s) THEN p.t_dupacks + 1 ELSE 0
  OBVIOUS
<1>2. PICK p1 : p1 = [p EXCEPT !.t_dupacks = dups]
  OBVIOUS
<1>3. PICK p2 : p2 = [p EXCEPT !.t_dupacks = 0]
  OBVIOUS
<1>4. PICK a : a = NewAck(p, s)
  OBVIOUS
<1>5. PICK q : q = IF a.finAcked THEN FinAcked(a.so) ELSE a.so
  OBVIOUS
<1>6. PICK w : w = [q EXCEPT !.timers = @ \cup {"2MSL"}]
  OBVIOUS
<1>7. \/ r = FastRexmt(p, s)
      \/ r = tcp_output(p, cwnd, FALSE)
      \/ r = Step6(p1, s, FALSE, cwnd, k)
      \/ r = DropAfterAck(p2, cwnd)
      \/ p.t_state = LAST_ACK /\ a.finAcked /\ r = q
      \/ p.t_state = TIME_WAIT /\ r = DropAfterAck(w, cwnd)
      \/ ~(p.t_state = LAST_ACK /\ a.finAcked) /\ r = Step6(q, s, a.output, cwnd, k)
  BY <1>1, <1>2, <1>3, <1>4, <1>5, <1>6 DEF AckStates
<1> HIDE DEF r
<1>8. ASSUME NEW x, Socket(x), SameInput(p, x), x.rcv_adv = p.rcv_adv
      PROVE  /\ RecvOpen(x, sent) /\ Edge(x) = Edge(p) /\ x.t_state >= ESTABLISHED
             /\ Acceptable(x, s, sent)
  <2>1. RecvOpen(x, sent) /\ Edge(x) = Edge(p)
    BY <1>8, RecvAside
  <2>2. x.t_state = p.t_state /\ x.rcv_nxt = p.rcv_nxt /\ x.so_state = p.so_state
    BY <1>8 DEF SameInput
  <2> QED  BY <2>1, <2>2, AcceptableSame
<1>9. /\ RecvOpen(p1, sent) /\ p1.t_state >= ESTABLISHED /\ Acceptable(p1, s, sent)
  <2>1. Socket(p1) /\ SameInput(p, p1) /\ p1.rcv_adv = p.rcv_adv
    BY <1>0, <1>2 DEF Socket, FieldNames, SameInput
  <2> QED  BY <1>8, <2>1
<1>10. RecvOpen(p2, sent)
  <2>1. Socket(p2) /\ SameInput(p, p2) /\ p2.rcv_adv = p.rcv_adv
    BY <1>0, <1>3 DEF Socket, FieldNames, SameInput
  <2> QED  BY <1>8, <2>1
<1>11. RecvOpen(a.so, sent) /\ Edge(a.so) = Edge(p) /\ SameInput(p, a.so)
  BY <1>4, NewAckRecv
<1>12. a.so.t_state = p.t_state /\ a.so.rcv_nxt = p.rcv_nxt /\ a.so.so_state = p.so_state
  BY <1>11 DEF SameInput
<1>13. ASSUME ~(p.t_state = LAST_ACK /\ a.finAcked)
       PROVE  RecvOpen(q, sent) /\ q.t_state >= ESTABLISHED /\ Acceptable(q, s, sent)
  <2>1. CASE a.finAcked
    <3>1. q = FinAcked(a.so) /\ a.so.t_state # LAST_ACK /\ a.so.t_state >= ESTABLISHED
      BY <1>5, <1>12, <1>13, <2>1
    <3>2. /\ RecvOpen(q, sent) /\ q.t_state >= ESTABLISHED /\ Edge(q) = Edge(a.so)
          /\ q.rcv_nxt = a.so.rcv_nxt /\ q.so_state = a.so.so_state
      BY <1>11, <3>1, FinAckedRecv
    <3> QED  BY <1>11, <1>12, <3>2, AcceptableSame
  <2>2. CASE ~ a.finAcked
    <3>1. q = a.so
      BY <1>5, <2>2
    <3> QED  BY <1>11, <1>12, <3>1, AcceptableSame
  <2> QED  BY <2>1, <2>2
<1>14. CASE r = FastRexmt(p, s)
  BY <1>14, FastRexmtRecv DEF Left, r
<1>15. CASE r = tcp_output(p, cwnd, FALSE)
  BY <1>15, RecvOutput DEF Left, r
<1>16. CASE r = Step6(p1, s, FALSE, cwnd, k)
  <2>1. PICK no : no = FALSE
    OBVIOUS
  <2>2. RecvOpen(Step6(p1, s, no, cwnd, k), sent)
    BY <1>9, Step6Recv
  <2> QED  BY <1>16, <2>1, <2>2 DEF Left, r
<1>17. CASE r = DropAfterAck(p2, cwnd)
  BY <1>10, <1>17, DropAfterAckRecv DEF Left, r
<1>18. CASE p.t_state = LAST_ACK /\ a.finAcked /\ r = q
  <2>1. q = FinAcked(a.so) /\ a.so.t_state = LAST_ACK
    BY <1>5, <1>12, <1>18
  <2>2. RecvClosed(q)
    BY <1>11, <2>1, FinAckedRecv
  <2> QED  BY <1>18, <2>2 DEF Left, r
<1>19. CASE p.t_state = TIME_WAIT /\ r = DropAfterAck(w, cwnd)
  <2>1. RecvOpen(q, sent)
    BY <1>13, <1>19
  <2>2. Socket(w) /\ SameInput(q, w) /\ w.rcv_adv = q.rcv_adv
    BY <1>6, <2>1 DEF RecvOpen, Socket, FieldNames, SameInput
  <2>3. RecvOpen(w, sent)
    BY <2>1, <2>2, RecvAside
  <2> QED  BY <1>19, <2>3, DropAfterAckRecv DEF Left, r
<1>20. CASE ~(p.t_state = LAST_ACK /\ a.finAcked) /\ r = Step6(q, s, a.output, cwnd, k)
  <2>1. RecvOpen(r, sent)
    BY <1>13, <1>20, Step6Recv
  <2> QED  BY <2>1 DEF Left, r
<1> QED  BY <1>7, <1>14, <1>15, <1>16, <1>17, <1>18, <1>19, <1>20 DEF r

\* The socket with the host connected: nothing has come in yet but the SYN.
LEMMA AckOfSynRecv ==
    ASSUME NEW p, NEW sent \in Int, RecvOpen(p, sent), p.t_state = SYN_RECEIVED, NEW k \in Nat,
           NEW s, Acceptable(p, s, sent), NEW cwnd
    PROVE  Left(AckOfSyn(p, s, cwnd, k), sent)
<1> DEFINE r == AckOfSyn(p, s, cwnd, k)
<1>1. /\ Socket(p) /\ Flow(p, sent) /\ p.so_state = {} /\ p.reass = {}
      /\ p.rcv_adv \in Int /\ p.rcv_adv <= Edge(p)
  BY DEF RecvOpen, Phase, Flow, Types
<1>2. PICK wl1 : wl1 = s.seq - 1
  OBVIOUS
<1>3. PICK states : states = (p.so_state \ {"ISFCONNECTING", "FWDRAIN", "NOFDREF"})
                             \cup {"ISFCONNECTED"}
  OBVIOUS
<1>4. PICK p1 : p1 = [p EXCEPT !.t_state = ESTABLISHED, !.snd_una = s.ack,
                               !.so_state = states, !.snd_wl1 = wl1]
  OBVIOUS
<1>5. /\ Socket(p1) /\ p1.t_state = ESTABLISHED /\ p1.so_state = states /\ p1.reass = {}
      /\ p1.so_rcv = p.so_rcv /\ p1.rcv_nxt = p.rcv_nxt /\ p1.rcv_adv = p.rcv_adv
      /\ p1.got = p.got
  BY <1>1, <1>4 DEF Socket, FieldNames
<1>6. RecvOpen(p1, sent) /\ Edge(p1) = Edge(p)
  <2>1. Usable(p1) /\ Usable(p)
    BY <1>1, <1>3, <1>5 DEF Usable
  <2>2. Flow(p1, sent) /\ Edge(p1) = Edge(p)
    BY <1>1, <1>5, <2>1, FlowSame
  <2>3. Phase(p1)
    BY <1>1, <1>3, <1>5 DEF Phase
  <2>4. Ahead(p1.reass, p1.rcv_nxt, Edge(p1), sent)
    BY <1>5 DEF Ahead
  <2> QED  BY <1>5, <2>2, <2>3, <2>4 DEF RecvOpen
<1>7. Present(p1, k).so = p1
  BY <1>5 DEF Present
<1>8. PICK a : a = NewAck(p1, s)
  OBVIOUS
<1>9. /\ RecvOpen(a.so, sent) /\ Edge(a.so) = Edge(p) /\ a.so.t_state = ESTABLISHED
      /\ a.so.rcv_nxt = p.rcv_nxt /\ "NOFDREF" \notin a.so.so_state
  <2>1. RecvOpen(a.so, sent) /\ Edge(a.so) = Edge(p1) /\ SameInput(p1, a.so)
    BY <1>6, <1>8, NewAckRecv
  <2> QED  BY <1>1, <1>3, <1>5, <1>6, <2>1 DEF SameInput
<1>10. Acceptable(a.so, s, sent)
  BY <1>9 DEF Acceptable
<1>11. r = DropWithReset(p) \/ r = Step6(a.so, s, a.output, cwnd, k)
  BY <1>2, <1>3, <1>4, <1>7, <1>8 DEF AckOfSyn
<1> HIDE DEF r
<1>12. CASE r = DropWithReset(p)
  <2>1. Socket(r) /\ SameInput(p, r) /\ r.rcv_adv = p.rcv_adv
    BY <1>1, <1>12 DEF DropWithReset, Socket, FieldNames, SameInput
  <2>2. RecvOpen(r, sent)
    BY <2>1, RecvAside
  <2> QED  BY <2>2 DEF Left, r
<1>13. CASE r = Step6(a.so, s, a.output, cwnd, k)
  <2>1. RecvOpen(r, sent)
    BY <1>9, <1>10, <1>13, Step6Recv
  <2> QED  BY <2>1 DEF Left, r
<1> QED  BY <1>11, <1>12, <1>13 DEF r

LEMMA OnPureAckRecv ==
    ASSUME NEW p, NEW sent, RecvOpen(p, sent), NEW s, NEW cwnd
    PROVE  RecvOpen(OnPureAck(p, s, cwnd), sent)
<1>1. PICK b : b = Sbdrop(p, s.ack - p.snd_una)
  OBVIOUS
<1>2. PICK c : c = [b EXCEPT !.snd_una = s.ack]
  OBVIOUS
<1>3. PICK q : q = RestartRexmt(c, s.ack)
  OBVIOUS
<1>4. Socket(b) /\ SameInput(p, b) /\ b.rcv_adv = p.rcv_adv
  BY <1>1 DEF RecvOpen, Sbdrop, Socket, FieldNames, SameInput
<1>5. Socket(c) /\ SameInput(b, c) /\ c.rcv_adv = b.rcv_adv
  BY <1>2, <1>4 DEF Socket, FieldNames, SameInput
<1>6. Socket(q) /\ SameInput(c, q) /\ q.rcv_adv = c.rcv_adv
  BY <1>3, <1>5 DEF RestartRexmt, Socket, FieldNames, SameInput
<1>7. RecvOpen(q, sent)
  <2>1. RecvOpen(b, sent)
    BY <1>4, RecvAside
  <2>2. RecvOpen(c, sent)
    BY <1>5, <2>1, RecvAside
  <2> QED  BY <1>6, <2>2, RecvAside
<1>8. OnPureAck(p, s, cwnd) = q \/ OnPureAck(p, s, cwnd) = tcp_output(q, cwnd, FALSE)
  BY <1>1, <1>2, <1>3 DEF OnPureAck
<1> QED  BY <1>7, <1>8, RecvOutput

\* Data that was predicted goes straight to the host, or into the buffer.
LEMMA OnPureDataRecv ==
    ASSUME NEW p, NEW sent \in Int, RecvOpen(p, sent), NEW k \in Nat, NEW cwnd,
           NEW s, Piece(PieceOf(s)), EndOf(PieceOf(s)) <= sent,
           p.t_state = ESTABLISHED, s.seq = p.rcv_nxt, PureData(p, s)
    PROVE  RecvOpen(OnPureData(p, s, cwnd, k), sent)
<1>1. /\ Socket(p) /\ Phase(p) /\ Flow(p, sent) /\ Types(p) /\ Len(p.so_rcv) <= RcvSpace
      /\ p.rcv_nxt \in Nat \ {0} /\ p.rcv_adv \in Int /\ p.rcv_adv <= Edge(p)
      /\ p.reass = {} /\ Len(s.data) <= sbspace(p)
  BY DEF RecvOpen, Flow, Types, PureData
<1>2. Edge(p) \in Nat /\ Edge(p) = p.rcv_nxt + sbspace(p) /\ sbspace(p) \in Nat
  BY <1>1, EdgeIs
<1>3. PICK e : e = PieceOf(s)
  OBVIOUS
<1>4. e.seq = s.seq /\ e.data = s.data
  BY <1>3 DEF PieceOf
<1>5. /\ EndOf(e) \in Nat /\ EndOf(e) = p.rcv_nxt + Len(s.data) /\ Len(s.data) \in Nat
      /\ EndOf(e) <= GuestFin /\ Stretch(s.data, p.rcv_nxt, EndOf(e))
  BY <1>3, <1>4, PieceEnd DEF Piece
<1>6. PICK end \in Nat : end = EndOf(e)
  BY <1>5
<1>7. PICK p1 : p1 = [p EXCEPT !.rcv_nxt = @ + Len(s.data)]
  OBVIOUS
<1>8. /\ Socket(p1) /\ Keeps(p, p1) /\ p1.rcv_nxt = end
      /\ p1.rcv_adv = p.rcv_adv /\ p1.so_rcv = p.so_rcv /\ p1.got = p.got
      /\ p1.reass = p.reass
  BY <1>1, <1>5, <1>6, <1>7 DEF Socket, FieldNames, Keeps, SameSend
<1>9. PICK q : q = sbappend(p1, s.data, k)
  OBVIOUS
<1>10. q = Pass(p1, s.data, k)
  <2>1. "FCANTSENDMORE" \notin p.so_state
    BY <1>1 DEF Phase
  <2> QED  BY <1>8, <1>9, <2>1 DEF Pass, Keeps
<1>11. /\ Socket(q) /\ Keeps(p, q) /\ Flow(q, sent)
       /\ q.rcv_nxt = end /\ q.reass = p1.reass
  <2>1. p.rcv_nxt <= end /\ end <= Edge(p) /\ end <= GuestFin /\ end <= sent
        /\ Stretch(s.data, p.rcv_nxt, end)
    BY <1>1, <1>2, <1>3, <1>5, <1>6
  <2>2. "NOFDREF" \in p.so_state => end = p.rcv_nxt
    <3>1. "NOFDREF" \notin p.so_state
      BY <1>1 DEF Phase
    <3> QED  BY <3>1
  <2> QED  BY <1>1, <1>8, <1>10, <2>1, <2>2, Receive
<1>12. Ahead(q.reass, q.rcv_nxt, Edge(q), sent)
  BY <1>1, <1>8, <1>11 DEF Ahead
<1>13. Phase(q)
  BY <1>1, <1>11 DEF Phase, Keeps
<1>14. RecvOpen(q, sent)
  BY <1>11, <1>12, <1>13 DEF RecvOpen
<1>15. PICK u : u = [q EXCEPT !.t_flags = @ \cup {"ACKNOW"}]
  OBVIOUS
<1>16. Socket(u) /\ SameInput(q, u) /\ u.rcv_adv = q.rcv_adv
  BY <1>11, <1>15 DEF Socket, FieldNames, SameInput
<1>17. RecvOpen(u, sent)
  BY <1>14, <1>16, RecvAside
<1>18. OnPureData(p, s, cwnd, k) = tcp_output(u, cwnd, FALSE)
  BY <1>7, <1>9, <1>15 DEF OnPureData
<1> QED  BY <1>17, <1>18, RecvOutput

-----------------------------------------------------------------------------
(* Segments of the guest, and their trimming *)

Segment(s) ==
    /\ DOMAIN s = {"seq", "ack", "win", "flags", "fin", "data"}
    /\ s = [seq |-> s.seq, ack |-> s.ack, win |-> s.win, flags |-> s.flags, fin |-> s.fin,
            data |-> s.data]

Text(s) == s.data # <<>> \/ "FIN" \in s.flags

\* A segment that acknowledges carries bytes of the guest's stream, and those
\* that it has got to.
FromGuest(s, sent) ==
    /\ Segment(s)
    /\ "ACK" \in s.flags =>
         /\ s.flags \subseteq {"ACK", "FIN"}
         /\ s.fin \in BOOLEAN /\ (s.fin <=> "FIN" \in s.flags)
         /\ s.seq \in Nat
         /\ Stretch(s.data, s.seq, s.seq + Len(s.data))
         /\ Text(s) => /\ Piece(PieceOf(s))
                       /\ EndOf(PieceOf(s)) + Fin1(PieceOf(s)) <= sent

\* The data of a segment with a FIN is within the promised window.
Within(p, s) == s.fin /\ s.data # <<>> => s.seq + Len(s.data) <= p.rcv_adv

\* As FromGuest and Within, and nothing of it was received before.
Fresh(p, g, sent) ==
    /\ Segment(g) /\ g.fin \in BOOLEAN /\ Within(p, g)
    /\ "SYN" \notin g.flags
    /\ g.seq \in Nat /\ g.data \in Seq(Nat)
    /\ Text(g) => /\ Piece(PieceOf(g)) /\ p.rcv_nxt <= g.seq
                  /\ EndOf(PieceOf(g)) + Fin1(PieceOf(g)) <= sent

LEMMA TrimLeftSocket ==
    ASSUME NEW p, NEW sent, RecvOpen(p, sent), NEW s
    PROVE  LET q == TrimLeft(p, s).so IN
           Socket(q) /\ SameInput(p, q) /\ q.rcv_adv = p.rcv_adv
<1>1. PICK u : u = [p EXCEPT !.t_flags = @ \cup {"ACKNOW"}]
  OBVIOUS
<1>2. TrimLeft(p, s).so = p \/ TrimLeft(p, s).so = u
  BY <1>1 DEF TrimLeft
<1>3. Socket(p) /\ Socket(u) /\ SameInput(p, u) /\ u.rcv_adv = p.rcv_adv /\ SameInput(p, p)
  BY <1>1 DEF RecvOpen, Socket, FieldNames, SameInput
<1> QED  BY <1>2, <1>3

LEMMA TrimLeftIs ==
    ASSUME NEW p, p.rcv_nxt \in Nat, NEW sent \in Int, NEW s, FromGuest(s, sent),
           "ACK" \in s.flags, Within(p, s)
    PROVE  Fresh(p, TrimLeft(p, s).seg, sent)
<1>1. /\ Segment(s) /\ "SYN" \notin s.flags /\ s.flags \subseteq {"ACK", "FIN"} /\ s.seq \in Nat
      /\ s.fin \in BOOLEAN /\ (s.fin <=> "FIN" \in s.flags)
      /\ Stretch(s.data, s.seq, s.seq + Len(s.data))
      /\ Text(s) => /\ Piece(PieceOf(s))
                    /\ EndOf(PieceOf(s)) + Fin1(PieceOf(s)) <= sent
  BY DEF FromGuest
<1>4. s.data \in Seq(Nat) /\ Len(s.data) \in Nat
  BY <1>1 DEF Stretch
<1>2. CASE p.rcv_nxt <= s.seq
  <2>1. TrimLeft(p, s).seg = s
    BY <1>2 DEF TrimLeft
  <2> QED  BY <1>1, <1>2, <1>4, <2>1 DEF Fresh
<1>3. CASE ~(p.rcv_nxt <= s.seq)
  <2>1. PICK old \in Nat \ {0} : old = p.rcv_nxt - s.seq
    BY <1>1, <1>3
  <2>2. PICK len \in Nat : len = Len(s.data)
    BY <1>4
  <2> DEFINE syn == IF s.seq < p.rcv_nxt /\ "SYN" \in s.flags THEN 1 ELSE 0
             ago == p.rcv_nxt - s.seq - syn
             nothing == ago > Len(s.data) \/ (ago = Len(s.data) /\ "FIN" \notin s.flags)
             drop == IF nothing THEN Len(s.data) ELSE ago
             gone == {"SYN"} \cup IF nothing THEN {"FIN"} ELSE {}
  <2>5. TrimLeft(p, s).seg = [s EXCEPT !.seq = @ + syn + drop, !.data = From(@, drop),
                                       !.flags = @ \ gone]
    BY <1>3 DEF TrimLeft
  <2>6. syn = 0
    BY <1>1
  <2>7. ago = old
    BY <1>1, <2>1, <2>6
  <2>8. nothing <=> (old > len \/ (old = len /\ "FIN" \notin s.flags))
    BY <2>2, <2>7
  <2>9. drop = IF nothing THEN len ELSE old
    BY <2>2, <2>7
  <2> HIDE DEF syn, ago, nothing, drop, gone
  <2>3. CASE old > len \/ (old = len /\ "FIN" \notin s.flags)
    <3>1. PICK d : d = From(s.data, len)
      OBVIOUS
    <3>0. PICK end \in Nat : end = s.seq + len
      BY <1>1
    <3>2. Stretch(d, end, end) /\ s.seq + len \in Nat
      <4>1. Stretch(s.data, s.seq, end)
        BY <1>1, <2>2, <3>0
      <4>2. len <= Len(s.data)
        BY <2>2
      <4>3. Stretch(From(s.data, len), end, end)
        BY <3>0, <4>1, <4>2, StretchFrom
      <4> QED  BY <1>1, <3>1, <4>3
    <3>3. d = <<>> /\ d \in Seq(Nat)
      BY <3>2, StretchLen
    <3>4. PICK g : g = [s EXCEPT !.seq = @ + 0 + len, !.data = d,
                                 !.flags = @ \ ({"SYN"} \cup {"FIN"})]
      OBVIOUS
    <3>5. TrimLeft(p, s).seg = g
      <4>1. nothing /\ drop = len /\ gone = {"SYN"} \cup {"FIN"}
        BY <2>3, <2>8, <2>9 DEF gone
      <4> QED  BY <2>5, <2>6, <3>1, <3>4, <4>1
    <3>6. /\ Segment(g) /\ g.seq = s.seq + 0 + len /\ g.data = d
          /\ g.flags = s.flags \ ({"SYN"} \cup {"FIN"}) /\ g.fin = s.fin
      BY <1>1, <3>4 DEF Segment
    <3>7. ~ Text(g)
      BY <3>3, <3>6 DEF Text
    <3>8. g.seq \in Nat /\ g.data \in Seq(Nat) /\ "SYN" \notin g.flags
      BY <3>2, <3>3, <3>6, <1>1
    <3>9. g.fin \in BOOLEAN /\ Within(p, g)
      BY <1>1, <3>3, <3>6 DEF Within
    <3> QED  BY <3>5, <3>6, <3>7, <3>8, <3>9 DEF Fresh
  <2>4. CASE ~(old > len \/ (old = len /\ "FIN" \notin s.flags))
    <3>1. PICK d : d = From(s.data, old)
      OBVIOUS
    <3>2. PICK c \in Nat \ {0} : c = s.seq + old
      BY <1>1
    <3>3. PICK end \in Nat : end = s.seq + len
      BY <1>1
    <3>4. Stretch(s.data, s.seq, end)
      BY <1>1, <2>2, <3>3
    <3>5. Stretch(d, c, end) /\ Len(d) = len - old
      <4>1. old \in Nat /\ old <= Len(s.data)
        BY <2>2, <2>4
      <4>2. Stretch(From(s.data, old), c, end) /\ Len(From(s.data, old)) = Len(s.data) - old
        BY <3>2, <3>4, <4>1, StretchFrom
      <4> QED  BY <2>2, <3>1, <4>2
    <3>6. d \in Seq(Nat)
      BY <3>5 DEF Stretch
    <3>7. PICK g : g = [s EXCEPT !.seq = @ + 0 + old, !.data = d, !.flags = @ \ ({"SYN"} \cup {})]
      OBVIOUS
    <3>8. TrimLeft(p, s).seg = g
      <4>1. ~nothing /\ drop = old /\ gone = {"SYN"} \cup {}
        BY <2>4, <2>8, <2>9 DEF gone
      <4> QED  BY <2>5, <2>6, <3>1, <3>7, <4>1
    <3>9. Segment(g) /\ g.seq = c /\ g.data = d /\ g.flags = s.flags /\ g.fin = s.fin
      <4>1. /\ Segment(g) /\ g.seq = s.seq + 0 + old /\ g.data = d
            /\ g.flags = s.flags \ ({"SYN"} \cup {}) /\ g.fin = s.fin
        BY <1>1, <3>7 DEF Segment
      <4>2. s.seq + 0 + old = c
        BY <1>1, <3>2
      <4>3. s.flags \ ({"SYN"} \cup {}) = s.flags
        BY <1>1
      <4> QED  BY <4>1, <4>2, <4>3
    <3>10. PICK e, f : e = PieceOf(s) /\ f = PieceOf(g)
      OBVIOUS
    <3>11. /\ e.seq = s.seq /\ e.data = s.data /\ (e.fin <=> "FIN" \in s.flags) /\ f.seq = c
           /\ f.data = d /\ (f.fin <=> "FIN" \in s.flags)
           /\ f \in [seq : Nat \ {0}, data : Seq(Nat), fin : BOOLEAN]
      <4>1. f = [seq |-> c, data |-> d, fin |-> s.fin]
        BY <3>9, <3>10 DEF PieceOf
      <4>2. e = [seq |-> s.seq, data |-> s.data, fin |-> s.fin]
        BY <3>10 DEF PieceOf
      <4> QED  BY <1>1, <3>2, <3>6, <4>1, <4>2
    <3>12. ASSUME Text(g)
           PROVE  Piece(f) /\ p.rcv_nxt <= g.seq /\ EndOf(f) + Fin1(f) <= sent
      <4>1. Text(s)
        <5>1. CASE "FIN" \in s.flags
          BY <5>1 DEF Text
        <5>2. CASE "FIN" \notin s.flags
          <6>1. len # 0
            BY <2>4, <5>2
          <6>2. s.data # <<>>
            BY <2>2, <6>1
          <6> QED  BY <6>2 DEF Text
        <5> QED  BY <5>1, <5>2
      <4>2. Piece(e) /\ EndOf(e) + Fin1(e) <= sent
        BY <1>1, <3>10, <4>1, Zenon
      <4>3. EndOf(e) = end /\ EndOf(f) = end
        <5>1. Len(s.data) = len /\ Len(d) = len - old
          BY <2>2, <3>5
        <5>2. EndOf(e) = s.seq + len /\ EndOf(f) = c + (len - old)
          BY <3>11, <5>1 DEF EndOf
        <5> QED  BY <1>1, <3>2, <3>3, <5>2
      <4>4. Fin1(f) = Fin1(e)
        BY <3>11 DEF Fin1
      <4>5. d = <<>> => "FIN" \in s.flags
        <5>1. d = <<>> => len = old
          BY <2>1, <2>2, <3>5
        <5> QED  BY <2>4, <5>1
      <4>6. Piece(f)
        BY <3>5, <3>11, <4>2, <4>3, <4>5 DEF Piece
      <4>7. p.rcv_nxt <= g.seq
        BY <1>1, <2>1, <3>2, <3>9
      <4> QED  BY <4>2, <4>3, <4>4, <4>6, <4>7
    <3>13. g.seq \in Nat /\ g.data \in Seq(Nat) /\ "SYN" \notin g.flags /\ g.fin \in BOOLEAN
      BY <1>1, <3>6, <3>9
    <3>14. Within(p, g)
      <4> SUFFICES ASSUME g.fin, g.data # <<>> PROVE g.seq + Len(g.data) <= p.rcv_adv
        BY DEF Within
      <4>1. g.seq = c /\ Len(g.data) = len - old
        BY <3>5, <3>9
      <4>2. s.data # <<>>
        <5>1. len # 0
          BY <2>1, <2>2, <3>5, <3>6, <3>9
        <5> QED  BY <2>2, <5>1
      <4>3. s.seq + len <= p.rcv_adv
        BY <2>2, <3>9, <4>2 DEF Within
      <4>4. g.seq + Len(g.data) = s.seq + len
        BY <1>1, <3>2, <4>1
      <4> QED  BY <4>3, <4>4
    <3> QED  BY <3>8, <3>9, <3>10, <3>12, <3>13, <3>14 DEF Fresh
  <2> QED  BY <2>3, <2>4
<1> QED  BY <1>2, <1>3

LEMMA BeyondIs ==
    ASSUME NEW p, NEW sent, RecvOpen(p, sent), NEW g, g.seq \in Nat, g.data \in Seq(Nat)
    PROVE  /\ Beyond(p, g) = g.seq + Len(g.data) - Edge(p) /\ Beyond(p, g) \in Int
           /\ rcv_wnd(p) = sbspace(p)
<1>1. /\ Types(p) /\ Len(p.so_rcv) <= RcvSpace /\ p.rcv_adv <= Edge(p)
      /\ p.rcv_nxt \in Nat /\ p.rcv_adv \in Int
  BY DEF RecvOpen, Flow, Types
<1>2. Edge(p) \in Nat /\ Edge(p) = p.rcv_nxt + sbspace(p) /\ sbspace(p) \in Nat
  BY <1>1, EdgeIs
<1>3. PICK a \in Int : a = p.rcv_adv - p.rcv_nxt
  BY <1>1
<1>4. a <= sbspace(p)
  BY <1>1, <1>2, <1>3
<1>5. Max({sbspace(p), a}) = sbspace(p)
  BY <1>2, <1>4, MaxOfTwo
<1>6. rcv_wnd(p) = sbspace(p)
  BY <1>3, <1>5 DEF rcv_wnd
<1>7. Len(g.data) \in Nat
  OBVIOUS
<1> QED  BY <1>2, <1>6, <1>7 DEF Beyond

LEMMA TrimRightIs ==
    ASSUME NEW p, NEW sent \in Int, RecvOpen(p, sent), NEW g, Fresh(p, g, sent),
           "NOFDREF" \in p.so_state => g.data = <<>>
    PROVE  Acceptable(p, TrimRight(p, g), sent)
<1>1. /\ Segment(g) /\ g.seq \in Nat /\ g.data \in Seq(Nat) /\ Len(g.data) \in Nat
      /\ g.fin \in BOOLEAN /\ Within(p, g)
      /\ Text(g) => /\ Piece(PieceOf(g)) /\ p.rcv_nxt <= g.seq
                    /\ EndOf(PieceOf(g)) + Fin1(PieceOf(g)) <= sent
  BY DEF Fresh
<1>2. PICK beyond \in Int : beyond = Beyond(p, g) /\ beyond = g.seq + Len(g.data) - Edge(p)
  BY <1>1, BeyondIs
<1>3. Edge(p) \in Nat
  BY EdgeIs DEF RecvOpen, Flow
<1>4. CASE beyond <= 0
  <2>1. TrimRight(p, g) = g
    BY <1>2, <1>4 DEF TrimRight
  <2>2. EndOf(PieceOf(g)) <= Edge(p)
    <3>1. EndOf(PieceOf(g)) = g.seq + Len(g.data)
      BY DEF EndOf, PieceOf
    <3> QED  BY <1>1, <1>2, <1>3, <1>4, <3>1
  <2> QED  BY <1>1, <2>1, <2>2 DEF Acceptable, Text
<1>5. CASE beyond > 0
  <2>0. PICK len \in Nat : len = Len(g.data)
    BY <1>1
  <2>1. PICK n \in Int : n = Len(g.data) - beyond
    <3>1. len - beyond \in Int
      BY <2>0
    <3> QED  BY <2>0, <3>1
  <2>2. PICK d : d = Take(g.data, n)
    OBVIOUS
  <2>3. PICK s : s = [g EXCEPT !.data = d, !.flags = @ \ {"FIN"}]
    OBVIOUS
  <2>4. TrimRight(p, g) = s
    BY <1>2, <1>5, <2>1, <2>2, <2>3 DEF TrimRight, Take
  <2>5. s.seq = g.seq /\ s.data = d /\ "FIN" \notin s.flags /\ s.fin = g.fin
    BY <1>1, <2>3 DEF Segment
  <2>6. CASE n <= 0
    <3>1. d = <<>>
      BY <1>1, <2>2, <2>6 DEF Take
    <3> QED  BY <2>4, <2>5, <3>1 DEF Acceptable
  <2>7. CASE n > 0
    <3>1. g.data # <<>> /\ n \in Nat /\ n <= Len(g.data) /\ n < Len(g.data)
      BY <1>1, <1>5, <2>1, <2>7
    <3>2. "NOFDREF" \notin p.so_state
      BY <3>1
    <3>3. PICK e, f : e = PieceOf(g) /\ f = PieceOf(s)
      OBVIOUS
    <3>4. /\ Piece(e) /\ p.rcv_nxt <= g.seq /\ EndOf(e) + Fin1(e) <= sent
      BY <1>1, <3>1, <3>3 DEF Text
    <3>5. e.seq = g.seq /\ e.data = g.data
      BY <3>3 DEF PieceOf
    <3>6. f = [seq |-> g.seq, data |-> d, fin |-> FALSE]
      <4>1. p.rcv_adv <= Edge(p) /\ p.rcv_adv \in Int
        BY DEF RecvOpen, Flow, Types
      <4>2. ~ g.fin
        <5>1. g.fin => g.seq + Len(g.data) <= p.rcv_adv
          BY <1>1, <3>1 DEF Within
        <5> QED  BY <1>1, <1>2, <1>3, <1>5, <4>1, <5>1
      <4>3. s.fin = FALSE
        BY <1>1, <2>5, <4>2
      <4> QED  BY <2>5, <3>3, <4>3 DEF PieceOf
    <3>7. /\ g.seq \in Nat \ {0} /\ EndOf(e) \in Nat /\ EndOf(e) = g.seq + Len(g.data)
          /\ Fin1(e) \in Nat /\ EndOf(e) <= GuestFin /\ Stretch(g.data, g.seq, EndOf(e))
      BY <3>4, <3>5, PieceEnd DEF Piece
    <3>8. PICK end \in Nat : end = g.seq + n
      BY <3>1, <3>7
    <3>9. Stretch(d, g.seq, end) /\ Len(d) = n
      BY <2>2, <3>1, <3>7, <3>8, StretchTake
    <3>10. f.seq = g.seq /\ f.data = d /\ f.fin = FALSE
      BY <3>6
    <3>11. EndOf(f) = end /\ Fin1(f) = 0
      BY <3>8, <3>9, <3>10 DEF EndOf, Fin1
    <3>12. end <= Edge(p) /\ end <= EndOf(e)
      <4>1. PICK edge \in Nat : edge = Edge(p)
        BY <1>3
      <4>2. PICK seq, last \in Nat : seq = g.seq /\ last = EndOf(e)
        BY <3>7
      <4>3. beyond = seq + len - edge
        BY <1>2, <2>0, <4>1, <4>2
      <4>4. n = len - beyond /\ end = seq + n /\ last = seq + len /\ n <= len
        BY <2>0, <2>1, <3>1, <3>7, <3>8, <4>2
      <4>5. n = len - (seq + len - edge)
        BY <4>3, <4>4
      <4>6. n = edge - seq
        BY <4>5
      <4>7. end = edge
        BY <4>4, <4>6
      <4>8. end <= last
        BY <4>4
      <4> QED  BY <4>1, <4>2, <4>7, <4>8
    <3>13. Piece(f)
      <4>1. d \in Seq(Nat) /\ d # <<>>
        BY <2>7, <3>9 DEF Stretch
      <4>2. f \in [seq : Nat \ {0}, data : Seq(Nat), fin : BOOLEAN]
        BY <3>6, <3>7, <4>1
      <4>3. EndOf(f) <= GuestFin
        BY <3>7, <3>11, <3>12, Sizes
      <4> QED  BY <3>9, <3>10, <3>11, <4>1, <4>2, <4>3 DEF Piece
    <3>14. EndOf(f) + Fin1(f) <= sent
      BY <3>4, <3>7, <3>11, <3>12
    <3> QED  BY <2>4, <2>5, <3>2, <3>3, <3>4, <3>11, <3>12, <3>13, <3>14 DEF Acceptable
  <2> QED  BY <2>6, <2>7
<1> QED  BY <1>4, <1>5

LEMMA TrimLeftFlags ==
    ASSUME NEW p, NEW s, Segment(s)
    PROVE  LET g == TrimLeft(p, s).seg IN
           Segment(g) /\ ("ACK" \in g.flags => "ACK" \in s.flags)
<1> DEFINE g == TrimLeft(p, s).seg
<1>1. g = s \/ \E seq, data, gone : g = [s EXCEPT !.seq = seq, !.data = data, !.flags = @ \ gone]
  <2>1. CASE p.rcv_nxt <= s.seq
    BY <2>1 DEF TrimLeft
  <2>2. CASE ~(p.rcv_nxt <= s.seq)
    <3> DEFINE syn == IF s.seq < p.rcv_nxt /\ "SYN" \in s.flags THEN 1 ELSE 0
               ago == p.rcv_nxt - s.seq - syn
               nothing == ago > Len(s.data) \/ (ago = Len(s.data) /\ "FIN" \notin s.flags)
               drop == IF nothing THEN Len(s.data) ELSE ago
               gone == {"SYN"} \cup IF nothing THEN {"FIN"} ELSE {}
    <3>1. g = [s EXCEPT !.seq = @ + syn + drop, !.data = From(@, drop), !.flags = @ \ gone]
      BY <2>2 DEF TrimLeft
    <3> HIDE DEF syn, ago, nothing, drop, gone, g
    <3>2. PICK x, y : x = s.seq + syn + drop /\ y = From(s.data, drop)
      OBVIOUS
    <3>3. g = [s EXCEPT !.seq = x, !.data = y, !.flags = @ \ gone]
      BY <3>1, <3>2
    <3> QED  BY <3>3 DEF g
  <2> QED  BY <2>1, <2>2
<1> HIDE DEF g
<1>2. Segment(g) /\ ("ACK" \in g.flags => "ACK" \in s.flags)
  BY <1>1 DEF Segment
<1> QED  BY <1>2 DEF g

\* A segment that was received, whatever it is, leaves the receive side as it should be.
LEMMA OnSegmentRecv ==
    ASSUME NEW p, NEW sent \in Int, RecvOpen(p, sent), NEW k \in Nat, NEW cwnd,
           NEW s0, FromGuest(s0, sent), Within(p, s0)
    PROVE  Left(OnSegment(p, s0, cwnd, k), sent)
<1> DEFINE t == OnSegment(p, s0, cwnd, k)
<1>1. PICK l : l = TrimLeft(p, s0)
  OBVIOUS
<1>2. PICK q : q = l.so
  OBVIOUS
<1>3. PICK g : g = l.seg
  OBVIOUS
<1>4. PICK s : s = TrimRight(q, g)
  OBVIOUS
<1>5. PICK u : u = [q EXCEPT !.t_flags = @ \cup {"ACKNOW"}]
  OBVIOUS
<1>6. PICK r : r = IF Beyond(q, g) > 0 /\ Beyond(q, g) >= Len(g.data) THEN u ELSE q
  OBVIOUS
<1>7. \/ Predicted(p, s0) /\ t = OnPureAck(p, s0, cwnd)
      \/ Predicted(p, s0) /\ PureData(p, s0) /\ t = OnPureData(p, s0, cwnd, k)
      \/ t = DropWithReset(tcp_close(q, "reset"))
      \/ t = q
      \/ t = DropAfterAck(q, cwnd)
      \/ t = tcp_close(r, "reset")
      \/ t = DropWithReset(tcp_drop(r, cwnd))
      \/ t = r
      \/ /\ ~("NOFDREF" \in q.so_state /\ q.t_state > CLOSE_WAIT /\ g.data # <<>>)
         /\ "ACK" \in s.flags
         /\ \/ r.t_state = SYN_RECEIVED /\ t = AckOfSyn(r, s, cwnd, k)
            \/ r.t_state # SYN_RECEIVED /\ t = AckStates(r, s, cwnd, k)
  BY <1>1, <1>2, <1>3, <1>4, <1>5, <1>6 DEF OnSegment
<1> HIDE DEF t
<1>8. Socket(q) /\ SameInput(p, q) /\ q.rcv_adv = p.rcv_adv
  BY <1>1, <1>2, TrimLeftSocket
<1>9. RecvOpen(q, sent)
  BY <1>8, RecvAside
<1>10. Socket(u) /\ SameInput(q, u) /\ u.rcv_adv = q.rcv_adv
  BY <1>5, <1>8 DEF Socket, FieldNames, SameInput
<1>11. RecvOpen(u, sent) /\ Edge(u) = Edge(q)
  BY <1>9, <1>10, RecvAside
<1>12. RecvOpen(r, sent) /\ Edge(r) = Edge(q) /\ r.rcv_nxt = q.rcv_nxt /\ r.so_state = q.so_state
       /\ r.t_state = q.t_state
  BY <1>6, <1>9, <1>10, <1>11 DEF SameInput
<1>13. CASE Predicted(p, s0) /\ t = OnPureAck(p, s0, cwnd)
  BY <1>13, OnPureAckRecv DEF Left, t
<1>14. CASE Predicted(p, s0) /\ PureData(p, s0) /\ t = OnPureData(p, s0, cwnd, k)
  <2>1. s0.flags = {"ACK"} /\ s0.data # <<>> /\ p.t_state = ESTABLISHED /\ s0.seq = p.rcv_nxt
    BY <1>14 DEF Predicted, PureData
  <2>2. Piece(PieceOf(s0)) /\ EndOf(PieceOf(s0)) + Fin1(PieceOf(s0)) <= sent
    BY <2>1 DEF FromGuest, Text
  <2>3. EndOf(PieceOf(s0)) <= sent
    BY <2>2, PieceEnd
  <2>4. RecvOpen(t, sent)
    BY <1>14, <2>1, <2>2, <2>3, OnPureDataRecv
  <2> QED  BY <2>4 DEF Left, t
<1>15. CASE t = DropWithReset(tcp_close(q, "reset"))
  BY <1>9, <1>15, CloseRecv DEF Left, t
<1>16. CASE t = q
  BY <1>9, <1>16 DEF Left, t
<1>17. CASE t = DropAfterAck(q, cwnd)
  BY <1>9, <1>17, DropAfterAckRecv DEF Left, t
<1>18. CASE t = tcp_close(r, "reset")
  BY <1>12, <1>18, CloseRecv DEF Left, t
<1>19. CASE t = DropWithReset(tcp_drop(r, cwnd))
  BY <1>12, <1>19, DropRecv DEF Left, t
<1>20. CASE t = r
  BY <1>12, <1>20 DEF Left, t
<1>21. CASE /\ ~("NOFDREF" \in q.so_state /\ q.t_state > CLOSE_WAIT /\ g.data # <<>>)
            /\ "ACK" \in s.flags
            /\ \/ r.t_state = SYN_RECEIVED /\ t = AckOfSyn(r, s, cwnd, k)
               \/ r.t_state # SYN_RECEIVED /\ t = AckStates(r, s, cwnd, k)
  <2>1. "NOFDREF" \in q.so_state => g.data = <<>>
    <3>1. Phase(q)
      BY <1>9 DEF RecvOpen
    <3> QED  BY <1>21, <3>1 DEF Phase
  <2>2. Segment(s0)
    BY DEF FromGuest
  <2>3. Segment(g) /\ ("ACK" \in g.flags => "ACK" \in s0.flags)
    BY <1>1, <1>3, <2>2, TrimLeftFlags
  <2>4. "ACK" \in s.flags => "ACK" \in g.flags
    BY <1>4, <2>3 DEF TrimRight, Segment
  <2>5. "ACK" \in s0.flags
    BY <1>21, <2>3, <2>4
  <2>6. p.rcv_nxt \in Nat /\ q.rcv_nxt = p.rcv_nxt
    BY <1>8 DEF RecvOpen, Flow, Types, SameInput
  <2>7. Fresh(p, g, sent)
    BY <1>1, <1>3, <2>5, <2>6, TrimLeftIs
  <2>8. Fresh(q, g, sent)
    BY <1>8, <2>6, <2>7 DEF Fresh, Within
  <2>9. Acceptable(q, s, sent)
    BY <1>4, <1>9, <2>1, <2>8, TrimRightIs
  <2>10. Acceptable(r, s, sent)
    BY <1>12, <2>9, AcceptableSame
  <2>11. CASE r.t_state = SYN_RECEIVED /\ t = AckOfSyn(r, s, cwnd, k)
    <3>1. Left(t, sent)
      BY <1>12, <2>10, <2>11, AckOfSynRecv
    <3> QED  BY <3>1 DEF t
  <2>12. CASE r.t_state # SYN_RECEIVED /\ t = AckStates(r, s, cwnd, k)
    <3>1. r.t_state >= ESTABLISHED
      BY <1>12, <2>12 DEF RecvOpen, Phase
    <3>2. Left(t, sent)
      BY <1>12, <2>10, <2>12, <3>1, AckStatesRecv
    <3> QED  BY <3>2 DEF t
  <2> QED  BY <1>21, <2>11, <2>12
<1> QED  BY <1>7, <1>13, <1>14, <1>15, <1>16, <1>17, <1>18, <1>19, <1>20, <1>21 DEF t

-----------------------------------------------------------------------------
(* The receive side as an invariant *)

\* A socket whose connection to the host is on its way.
RecvPending(p) ==
    /\ Socket(p) /\ p.t_state = SYN_RECEIVED /\ p.so_state = {"ISFCONNECTING"}
    /\ p.t_flags = {} /\ p.timers = {}
    /\ p.so_rcv = <<>> /\ p.reass = {} /\ p.rcv_nxt = 0 /\ p.rcv_adv = 0 /\ p.got = <<>>

Recv(p, sent) == Left(p, sent) \/ RecvPending(p)

RecvInv ==
    /\ Recv(so, guest.nxt)
    /\ guest.nxt \in Nat
    /\ guest.st = "est" => guest.nxt >= 1
    /\ guest.st = "syn" => guest.nxt = 0
    /\ DOMAIN guest = {"st", "nxt", "rcv", "got", "read"}

\* Which of the three a socket is.
LEMMA RecvKind ==
    ASSUME NEW p, NEW sent, Recv(p, sent)
    PROVE  /\ p.t_state = CLOSED => RecvClosed(p)
           /\ p.t_state # CLOSED /\ "ISFCONNECTING" \in p.so_state => RecvPending(p)
           /\ p.t_state # CLOSED /\ "ISFCONNECTING" \notin p.so_state => RecvOpen(p, sent)
           /\ "ISFCONNECTED" \in p.so_state => RecvOpen(p, sent) /\ p.t_state >= ESTABLISHED
           /\ p.t_flags # {} \/ p.timers # {} => RecvOpen(p, sent)
           /\ Socket(p)
<1>1. RecvOpen(p, sent) =>
        /\ p.t_state # CLOSED /\ "ISFCONNECTING" \notin p.so_state /\ Socket(p)
        /\ "ISFCONNECTED" \in p.so_state => p.t_state >= ESTABLISHED
  BY DEF RecvOpen, Phase
<1>2. RecvClosed(p) => /\ p.t_state = CLOSED /\ p.so_state = {"NOFDREF"} /\ p.t_flags = {}
                       /\ p.timers = {} /\ Socket(p)
  BY DEF RecvClosed
<1>3. RecvPending(p) => /\ p.t_state # CLOSED /\ p.so_state = {"ISFCONNECTING"} /\ p.t_flags = {}
                        /\ p.timers = {} /\ Socket(p)
  BY DEF RecvPending
<1> QED  BY <1>1, <1>2, <1>3 DEF Recv, Left

\* More that the guest has sent makes no difference.
LEMMA RecvMore ==
    ASSUME NEW p, NEW sent \in Int, Recv(p, sent), NEW sent2 \in Int, sent <= sent2
    PROVE  Recv(p, sent2)
<1>1. CASE RecvOpen(p, sent)
  <2>1. /\ Flow(p, sent) /\ Ahead(p.reass, p.rcv_nxt, Edge(p), sent) /\ p.rcv_nxt \in Nat
        /\ Types(p) /\ Len(p.so_rcv) <= RcvSpace
    BY <1>1 DEF RecvOpen, Flow, Types
  <2>2. p.rcv_nxt <= sent2 \/ p.rcv_nxt = 1
    <3>1. p.rcv_nxt <= sent \/ p.rcv_nxt = 1
      BY <2>1 DEF Flow
    <3> QED  BY <2>1, <3>1
  <2>3. Flow(p, sent2)
    BY <2>1, <2>2 DEF Flow
  <2>4. Edge(p) \in Int
    BY <2>1, EdgeIs
  <2>5. Edge(p) <= Edge(p) /\ p.rcv_nxt \in Int
    BY <2>1, <2>4
  <2>6. Ahead(p.reass, p.rcv_nxt, Edge(p), sent2)
    BY <2>1, <2>4, <2>5, AheadMore
  <2> QED  BY <1>1, <2>3, <2>6 DEF RecvOpen, Recv, Left
<1>2. CASE RecvClosed(p)
  BY <1>2 DEF Recv, Left
<1>3. CASE RecvPending(p)
  BY <1>3 DEF Recv
<1> QED  BY <1>1, <1>2, <1>3 DEF Recv, Left

\* The function that was under way has returned.
LEMMA ReturnsRecv ==
    ASSUME NEW p, NEW sent, Recv(p, sent), Returns(p)
    PROVE  Recv(so', sent)
<1>1. PICK q : q = [p EXCEPT !.out = {}]
  OBVIOUS
<1>2. so' = q
  BY <1>1 DEF Returns
<1>3. Socket(p)
  BY RecvKind
<1>4. /\ Socket(q) /\ SameInput(p, q) /\ q.rcv_adv = p.rcv_adv /\ q.t_flags = p.t_flags
      /\ q.timers = p.timers
  BY <1>1, <1>3 DEF Socket, FieldNames, SameInput
<1>5. CASE RecvOpen(p, sent)
  <2>1. RecvOpen(q, sent)
    BY <1>4, <1>5, RecvAside
  <2> QED  BY <1>2, <2>1 DEF Recv, Left
<1>6. CASE RecvClosed(p)
  <2>1. RecvClosed(q)
    BY <1>4, <1>6 DEF RecvClosed, SameInput
  <2> QED  BY <1>2, <2>1 DEF Recv, Left
<1>7. CASE RecvPending(p)
  <2>1. RecvPending(q)
    BY <1>4, <1>7 DEF RecvPending, SameInput
  <2> QED  BY <1>2, <2>1 DEF Recv
<1> QED  BY <1>5, <1>6, <1>7 DEF Recv, Left

LEMMA TakenIs == Taken \subseteq Nat
BY Sizes DEF Taken

LEMMA InputRecv ==
    ASSUME NEW sent \in Int, Recv(so, sent), NEW s, FromGuest(s, sent),
           Exists => Within(so, s), tcp_input(s)
    PROVE  Recv(so', sent)
<1>1. CASE ~Exists /\ s.flags = {"SYN"} /\ OnSyn
  <2>1. CASE \E refusal \in {{Rst}, {}} : Returns([NewSocket EXCEPT !.out = refusal])
    <3>1. PICK refusal, p : p = [NewSocket EXCEPT !.out = refusal] /\ Returns(p)
      BY <2>1
    <3>2. /\ Socket(p) /\ p.t_state = CLOSED /\ p.so_state = {"NOFDREF"} /\ p.so_rcv = <<>>
          /\ p.t_flags = {} /\ p.timers = {}
          /\ p.reass = {} /\ p.rcv_nxt = 0 /\ p.rcv_adv = 0 /\ p.got = <<>>
      BY <3>1 DEF NewSocket, Socket, FieldNames
    <3>3. Stretch(p.got, 1, 1)
      BY <3>2, StretchEmpty
    <3>4. Recv(p, sent)
      BY <3>2, <3>3 DEF RecvClosed, Recv, Left
    <3> QED  BY <3>1, <3>4, ReturnsRecv
  <2>2. CASE Returns([NewSocket EXCEPT !.t_state = SYN_RECEIVED, !.so_state = {"ISFCONNECTING"}])
    <3>1. PICK p : /\ p = [NewSocket EXCEPT !.t_state = SYN_RECEIVED,
                                             !.so_state = {"ISFCONNECTING"}]
                   /\ Returns(p)
      BY <2>2
    <3>2. RecvPending(p)
      BY <3>1 DEF NewSocket, Socket, FieldNames, RecvPending
    <3> QED  BY <3>1, <3>2, ReturnsRecv DEF Recv
  <2> QED  BY <1>1, <2>1, <2>2 DEF OnSyn
<1>2. CASE ~Exists /\ Returns(DropWithReset(so))
  <2>1. RecvClosed(so)
    BY <1>2, RecvKind DEF Exists
  <2>2. PICK p : p = DropWithReset(so)
    OBVIOUS
  <2>3. RecvClosed(p)
    <3>1. Socket(so)
      BY <2>1 DEF RecvClosed
    <3>2. /\ Socket(p) /\ SameInput(so, p) /\ p.rcv_adv = so.rcv_adv /\ p.t_flags = so.t_flags
          /\ p.timers = so.timers
      BY <2>2, <3>1 DEF DropWithReset, SameInput, Socket, FieldNames
    <3> QED  BY <2>1, <3>2 DEF RecvClosed, SameInput
  <2> QED  BY <1>2, <2>2, <2>3, ReturnsRecv DEF Recv, Left
<1>3. CASE UNCHANGED so
  BY <1>3
<1>4. CASE Exists /\ ~Connecting /\ \E cwnd \in Cwnds, k \in Taken : Returns(OnSegment(so, s, cwnd, k))
  <2>0. PICK cwnd \in Cwnds, k \in Taken : Returns(OnSegment(so, s, cwnd, k))
    BY <1>4
  <2>1. k \in Nat
    BY TakenIs
  <2>2. RecvOpen(so, sent)
    BY <1>4, RecvKind DEF Exists, Connecting
  <2>3. PICK p : p = OnSegment(so, s, cwnd, k)
    OBVIOUS
  <2>4. Left(p, sent)
    BY <1>4, <2>1, <2>2, <2>3, OnSegmentRecv
  <2> QED  BY <2>0, <2>3, <2>4, ReturnsRecv DEF Recv
<1> QED  BY <1>1, <1>2, <1>3, <1>4 DEF tcp_input

\* The guest sends no FIN with data beyond the window.
Polite(seq, n, flags) == Exists /\ "FIN" \in flags /\ n # 0 => seq + n <= so.rcv_adv

LEMMA SegmentWithin ==
    ASSUME NEW seq \in Nat \ {0}, NEW n \in Nat, NEW flags, Polite(seq, n, flags), Exists
    PROVE  Within(so, GuestSegment(seq, n, flags))
<1>1. PICK d : d = [i \in 1 .. n |-> seq + i - 1]
  OBVIOUS
<1>2. PICK s : s = GuestSegment(seq, n, flags)
  OBVIOUS
<1>3. s.seq = seq /\ s.data = d /\ s.fin = ("FIN" \in flags)
  BY <1>1, <1>2 DEF GuestSegment
<1>4. Len(d) = n /\ (d # <<>> => n # 0)
  <2>1. Stretch(d, seq, seq + n) /\ Len(d) = n
    BY <1>1, StretchOf
  <2>2. n = 0 => d = <<>>
    BY <1>1
  <2> QED  BY <2>1, <2>2
<1>5. Within(so, s)
  BY <1>3, <1>4 DEF Within, Polite
<1> QED  BY <1>2, <1>5

\* The segments that the guest may send.
LEMMA SegmentIs ==
    ASSUME NEW seq \in Nat \ {0}, NEW n \in Nat, NEW flags \in {{}, {"FIN"}},
           NEW end \in Nat, end = seq + n,
           end <= GuestFin \/ (n = 0 /\ flags = {}),
           "FIN" \in flags => end = GuestFin,
           NEW to \in Nat, to = end + IF "FIN" \in flags THEN 1 ELSE 0,
           NEW sent \in Int, to <= sent
    PROVE  FromGuest(GuestSegment(seq, n, flags), sent)
<1>1. PICK s : s = GuestSegment(seq, n, flags)
  OBVIOUS
<1>2. PICK d : d = [i \in 1 .. n |-> seq + i - 1]
  OBVIOUS
<1>3. s = [seq |-> seq, ack |-> guest.rcv, win |-> GuestWin, flags |-> {"ACK"} \cup flags,
           fin |-> "FIN" \in flags, data |-> d]
  BY <1>1, <1>2 DEF GuestSegment
<1>5. PICK fin \in BOOLEAN : fin <=> "FIN" \in flags
  BY Zenon
<1>4. s.seq = seq /\ s.data = d /\ s.flags = {"ACK"} \cup flags /\ Segment(s) /\ s.fin = fin
  <2>1. ("FIN" \in flags) = fin
    BY <1>5
  <2> QED  BY <1>3, <2>1 DEF Segment
<1>6. Stretch(d, seq, end) /\ Len(d) = n
  <2>1. Stretch(d, seq, seq + n) /\ Len(d) = n
    BY <1>2, StretchOf
  <2> QED  BY <2>1
<1>7. Stretch(s.data, s.seq, s.seq + Len(s.data))
  BY <1>4, <1>6
<1>8. ASSUME Text(s)
      PROVE  Piece(PieceOf(s)) /\ EndOf(PieceOf(s)) + Fin1(PieceOf(s)) <= sent
  <2>2. PICK e : e = PieceOf(s)
    OBVIOUS
  <2>4. e = [seq |-> seq, data |-> d, fin |-> fin]
    BY <1>4, <2>2 DEF PieceOf
  <2>5. e.seq = seq /\ e.data = d /\ e.fin = fin
    BY <2>4
  <2>6. EndOf(e) = end
    BY <1>6, <2>5 DEF EndOf
  <2>7. d \in Seq(Nat) /\ (d = <<>> <=> n = 0)
    <3>1. d \in Seq(Nat)
      BY <1>6 DEF Stretch
    <3> QED  BY <1>6, <3>1
  <2>8. n # 0 \/ "FIN" \in flags
    BY <1>4, <1>8, <2>7 DEF Text
  <2>9. end <= GuestFin
    BY <2>8
  <2>10. e \in [seq : Nat \ {0}, data : Seq(Nat), fin : BOOLEAN]
    BY <2>4, <2>7
  <2>11. (e.fin => end = GuestFin) /\ (d = <<>> => e.fin)
    BY <1>5, <2>5, <2>7, <2>8
  <2>12. Piece(e)
    BY <1>6, <2>5, <2>6, <2>9, <2>10, <2>11 DEF Piece
  <2>13. EndOf(e) + Fin1(e) <= sent
    <3>1. Fin1(e) = IF "FIN" \in flags THEN 1 ELSE 0
      BY <1>5, <2>5 DEF Fin1
    <3> QED  BY <2>6, <3>1
  <2> QED  BY <2>2, <2>12, <2>13
<1>9. /\ s.flags \subseteq {"ACK", "FIN"} /\ s.seq \in Nat
      /\ s.fin \in BOOLEAN /\ (s.fin <=> "FIN" \in s.flags)
  BY <1>4, <1>5
<1>10. FromGuest(s, sent)
  BY <1>4, <1>7, <1>8, <1>9 DEF FromGuest
<1> QED  BY <1>1, <1>10

LEMMA SendsRecv ==
    ASSUME RecvInv, NEW seq \in Nat \ {0}, NEW n \in Nat, NEW flags \in {{}, {"FIN"}},
           seq + n <= GuestFin \/ (n = 0 /\ flags = {}),
           "FIN" \in flags => seq + n = GuestFin, Polite(seq, n, flags),
           GuestSends(seq, n, flags)
    PROVE  RecvInv'
<1>0. PICK end \in Nat : end = seq + n
  OBVIOUS
<1>1. PICK to \in Nat : to = end + IF "FIN" \in flags THEN 1 ELSE 0
  OBVIOUS
<1>2. guest.nxt \in Nat /\ guest.st = "est" /\ guest.nxt >= 1 /\ Recv(so, guest.nxt)
      /\ DOMAIN guest = {"st", "nxt", "rcv", "got", "read"}
  BY DEF RecvInv, GuestSends
<1>3. PICK nxt : nxt = Max({guest.nxt, to})
  OBVIOUS
<1>4. nxt \in Nat /\ nxt >= guest.nxt /\ nxt >= to
  BY <1>1, <1>2, <1>3, MaxOfTwo
<1>5. guest' = [guest EXCEPT !.nxt = nxt]
  BY <1>0, <1>1, <1>3 DEF GuestSends
<1>6. guest'.nxt = nxt /\ guest'.st = "est" /\ DOMAIN guest' = DOMAIN guest
  BY <1>2, <1>5
<1>7. Recv(so, nxt)
  BY <1>2, <1>4, RecvMore
<1>8. Recv(so', nxt)
  <2>1. CASE tcp_input(GuestSegment(seq, n, flags))
    <3>1. PICK s : s = GuestSegment(seq, n, flags)
      OBVIOUS
    <3>2. FromGuest(s, nxt)
      <4>1. end <= GuestFin \/ (n = 0 /\ flags = {})
        BY <1>0
      <4>2. "FIN" \in flags => end = GuestFin
        BY <1>0
      <4>3. to <= nxt /\ nxt \in Int
        BY <1>4
      <4> QED  BY <1>0, <1>1, <3>1, <4>1, <4>2, <4>3, SegmentIs
    <3>3. Exists => Within(so, s)
      BY <3>1, SegmentWithin
    <3> QED  BY <1>4, <1>7, <2>1, <3>1, <3>2, <3>3, InputRecv
  <2>2. CASE UNCHANGED so
    BY <1>7, <2>2
  <2> QED  BY <2>1, <2>2 DEF GuestSends
<1>9. nxt >= 1
  BY <1>2, <1>4
<1> QED  BY <1>2, <1>4, <1>6, <1>8, <1>9 DEF RecvInv

LEMMA InitRecv == Init => RecvInv
<1> SUFFICES ASSUME Init PROVE RecvInv
  OBVIOUS
<1>1. guest = [st |-> "syn", nxt |-> 0, rcv |-> 0, got |-> <<>>, read |-> 0] /\ so = NewSocket
  BY DEF Init
<1>2. /\ Socket(so) /\ so.t_state = CLOSED /\ so.so_state = {"NOFDREF"} /\ so.so_rcv = <<>>
      /\ so.t_flags = {} /\ so.timers = {}
      /\ so.reass = {} /\ so.rcv_nxt = 0 /\ so.rcv_adv = 0 /\ so.got = <<>>
  BY <1>1 DEF NewSocket, Socket, FieldNames
<1>3. Stretch(so.got, 1, 1)
  BY <1>2, StretchEmpty
<1>4. RecvClosed(so)
  BY <1>2, <1>3 DEF RecvClosed
<1> QED  BY <1>1, <1>4 DEF RecvInv, Recv, Left

-----------------------------------------------------------------------------
(* The receive side through the actions of slirp *)

\* The connection to the host is there, and nothing has come in yet.
LEMMA ConnectedRecv ==
    ASSUME NEW sent \in Int, Recv(so, sent), Connected
    PROVE  Recv(so', sent)
<1>1. RecvPending(so)
  BY RecvKind DEF Connected, Exists, Connecting
<1>2. PICK iss : iss = made * IssIncr
  OBVIOUS
<1>3. PICK p : p = [so EXCEPT !.so_state = {}, !.iss = iss, !.snd_una = iss, !.snd_nxt = iss,
                              !.snd_max = iss, !.rcv_nxt = 1, !.rcv_adv = 1, !.t_flags = {"ACKNOW"}]
  OBVIOUS
<1>4. PICK q : q = tcp_output(p, Mss, FALSE)
  OBVIOUS
<1>5. Returns(q)
  BY <1>2, <1>3, <1>4 DEF Connected
<1>6. /\ Socket(p) /\ p.t_state = SYN_RECEIVED /\ p.so_state = {} /\ p.rcv_nxt = 1
      /\ p.rcv_adv = 1 /\ p.so_rcv = <<>> /\ p.reass = {} /\ p.got = <<>>
  BY <1>1, <1>3 DEF RecvPending, Socket, FieldNames
<1>7. RecvOpen(p, sent)
  <2>1. Types(p)
    BY <1>6 DEF Types
  <2>2. Len(p.so_rcv) <= RcvSpace
    BY <1>6, Sizes
  <2>3. p.rcv_adv <= Edge(p)
    BY <1>6, <2>1, <2>2, EdgeIs
  <2>4. Stretch(p.got, 1, 1) /\ Stretch(p.so_rcv, 1, Upto(p.rcv_nxt))
    <3>1. Upto(1) = 1
      BY Sizes DEF Upto
    <3> QED  BY <1>6, <3>1, StretchEmpty
  <2>5. p.rcv_nxt <= GuestFin + 1
    BY <1>6, Sizes
  <2>6. Flow(p, sent)
    BY <1>6, <2>1, <2>2, <2>3, <2>4, <2>5 DEF Flow
  <2>7. Phase(p)
    BY <1>6 DEF Phase
  <2>8. Ahead(p.reass, p.rcv_nxt, Edge(p), sent)
    BY <1>6 DEF Ahead
  <2> QED  BY <1>6, <2>6, <2>7, <2>8 DEF RecvOpen
<1>8. RecvOpen(q, sent)
  BY <1>4, <1>7, RecvOutput
<1> QED  BY <1>5, <1>8, ReturnsRecv DEF Recv, Left

LEMMA ConnectFailsRecv ==
    ASSUME NEW sent \in Int, Recv(so, sent), ConnectFails
    PROVE  Recv(so', sent)
<1>1. RecvPending(so)
  BY RecvKind DEF ConnectFails, Exists, Connecting
<1>2. Stretch(so.got, 1, 1)
  BY <1>1, StretchEmpty DEF RecvPending
<1>3. PICK p : p = DropWithReset(tcp_close(so, "refused")) /\ Returns(p)
  BY DEF ConnectFails
<1>4. RecvClosed(p)
  BY <1>2, <1>3, CloseIs
<1> QED  BY <1>3, <1>4, ReturnsRecv DEF Recv, Left

LEMMA SoReadRecv ==
    ASSUME NEW sent \in Int, Recv(so, sent), SoRead
    PROVE  Recv(so', sent)
<1>1. RecvOpen(so, sent)
  BY RecvKind DEF SoRead
<1>2. PICK n, cwnd :
        Returns(tcp_output([so EXCEPT !.so_snd = @ \o [i \in 1 .. n |-> host.read + i]],
                           cwnd, FALSE))
  BY DEF SoRead
<1>3. PICK d : d = so.so_snd \o [i \in 1 .. n |-> host.read + i]
  OBVIOUS
<1>4. PICK p : p = [so EXCEPT !.so_snd = d]
  OBVIOUS
<1>5. PICK q : q = tcp_output(p, cwnd, FALSE) /\ Returns(q)
  BY <1>2, <1>3, <1>4
<1>6. Socket(p) /\ SameInput(so, p) /\ p.rcv_adv = so.rcv_adv
  BY <1>1, <1>4 DEF RecvOpen, Socket, FieldNames, SameInput
<1>7. RecvOpen(q, sent)
  BY <1>1, <1>5, <1>6, RecvAside, RecvOutput
<1> QED  BY <1>5, <1>7, ReturnsRecv DEF Recv, Left

\* The states tcp_sockclosed leads to.
AfterEnd(state) ==
    IF state \in {SYN_RECEIVED, ESTABLISHED} THEN FIN_WAIT_1
    ELSE IF state = CLOSE_WAIT THEN LAST_ACK
    ELSE state

LEMMA SockClosedIs ==
    ASSUME NEW p, NEW cwnd
    PROVE  tcp_sockclosed(p, cwnd)
               = tcp_output([p EXCEPT !.t_state = AfterEnd(p.t_state)], cwnd, FALSE)
<1>1. AfterEnd(p.t_state) = CASE p.t_state \in {SYN_RECEIVED, ESTABLISHED} -> FIN_WAIT_1
                              [] p.t_state = CLOSE_WAIT -> LAST_ACK
                              [] OTHER -> p.t_state
  BY DEF AfterEnd
<1> QED  BY <1>1 DEF tcp_sockclosed

\* soread found the end of the host's stream.
LEMMA SoReadEndsRecv ==
    ASSUME NEW sent \in Int, Recv(so, sent), SoReadEnds
    PROVE  Recv(so', sent)
<1>1. RecvOpen(so, sent) /\ so.t_state >= ESTABLISHED
  BY RecvKind DEF SoReadEnds
<1>2. PICK p : p = sofcantrcvmore(so)
  OBVIOUS
<1>3. PICK r : r = [p EXCEPT !.t_state = AfterEnd(p.t_state)]
  OBVIOUS
<1>4. PICK cwnd, q : q = tcp_output(r, cwnd, FALSE) /\ Returns(q)
  BY <1>2, <1>3, SockClosedIs DEF SoReadEnds
<1>5. /\ Socket(so) /\ Phase(so) /\ Flow(so, sent) /\ Ahead(so.reass, so.rcv_nxt, Edge(so), sent)
      /\ so.rcv_adv \in Int /\ so.rcv_adv <= Edge(so)
  BY <1>1 DEF RecvOpen, Flow, Types
<1>6. /\ Socket(p) /\ p.t_state = so.t_state /\ p.so_rcv = so.so_rcv /\ p.reass = so.reass
      /\ p.rcv_nxt = so.rcv_nxt /\ p.rcv_adv = so.rcv_adv /\ p.got = so.got
      /\ p.so_state = IF "FCANTSENDMORE" \in so.so_state THEN {"NOFDREF"}
                      ELSE (so.so_state \ {"ISFCONNECTING"}) \cup {"FCANTRCVMORE"}
  BY <1>2, <1>5 DEF sofcantrcvmore, Socket, FieldNames
<1>7. /\ Socket(r) /\ r.t_state = AfterEnd(so.t_state) /\ r.so_rcv = so.so_rcv
      /\ r.reass = so.reass /\ r.rcv_nxt = so.rcv_nxt /\ r.rcv_adv = so.rcv_adv
      /\ r.got = so.got /\ r.so_state = p.so_state
  BY <1>3, <1>6 DEF Socket, FieldNames
<1>8. Usable(r) => Usable(so)
  BY <1>6, <1>7 DEF Usable
<1>9. Flow(r, sent) /\ Edge(r) = Edge(so)
  BY <1>5, <1>7, <1>8, FlowSame
<1>10. Phase(r)
  <2>1. r.t_state \in FIN_WAIT_1 .. TIME_WAIT
    BY <1>1, <1>5, <1>7 DEF AfterEnd, Phase
  <2>2. CASE "FCANTSENDMORE" \in so.so_state
    BY <1>5, <1>6, <1>7, <2>1, <2>2 DEF Phase
  <2>3. CASE "FCANTSENDMORE" \notin so.so_state
    BY <1>5, <1>6, <1>7, <2>1, <2>3 DEF Phase, SoReadEnds
  <2> QED  BY <2>2, <2>3
<1>11. RecvOpen(r, sent)
  BY <1>5, <1>7, <1>9, <1>10 DEF RecvOpen
<1>12. RecvOpen(q, sent)
  BY <1>4, <1>11, RecvOutput
<1> QED  BY <1>4, <1>12, ReturnsRecv DEF Recv, Left

\* What the host takes from the buffer follows what it was given.
LEMMA HostTakes ==
    ASSUME NEW p, NEW sent \in Int, RecvOpen(p, sent), Usable(p), NEW n \in Nat, n <= Len(p.so_rcv),
           NEW t, t = Take(p.so_rcv, n), NEW f, f = From(p.so_rcv, n),
           NEW q, Socket(q), q.t_state = p.t_state, q.so_state = p.so_state, q.so_rcv = f,
           q.reass = p.reass, q.rcv_nxt = p.rcv_nxt, q.rcv_adv = p.rcv_adv, q.got = p.got \o t
    PROVE  RecvOpen(q, sent)
<1>1. /\ Socket(p) /\ Phase(p) /\ Flow(p, sent) /\ Types(p) /\ Len(p.so_rcv) <= RcvSpace
      /\ Ahead(p.reass, p.rcv_nxt, Edge(p), sent)
      /\ p.rcv_adv \in Int /\ p.rcv_adv <= Edge(p) /\ p.so_rcv \in Seq(Nat)
      /\ p.rcv_nxt \in Nat \ {0}
  BY DEF RecvOpen, Flow, Types
<1>2. PICK m, to : /\ m \in Nat /\ Stretch(p.got, 1, m) /\ Stretch(p.so_rcv, m, to)
                   /\ to = Upto(p.rcv_nxt)
  BY <1>1 DEF Flow
<1>3. PICK len \in Nat : len = Len(p.so_rcv)
  BY <1>1
<1>4. n \in Nat /\ n <= len
  BY <1>3
<1>5. PICK c \in Nat : c = m + n
  BY <1>2, <1>4
<1>6. Stretch(t, m, c) /\ Stretch(f, c, to) /\ Len(f) = len - n
  BY <1>2, <1>3, <1>4, <1>5, StretchTake, StretchFrom
<1>7. Stretch(q.got, 1, c) /\ Stretch(q.so_rcv, c, Upto(q.rcv_nxt))
  BY <1>2, <1>6, StretchConcat
<1>8. Types(q) /\ Len(q.so_rcv) <= RcvSpace /\ Len(q.so_rcv) = len - n
  <2>1. q.got \in Seq(Nat)
    BY <1>7, StretchLen
  <2>2. q.so_rcv \in Seq(Nat)
    BY <1>7, StretchLen
  <2>3. Types(q)
    BY <1>1, <2>1, <2>2 DEF Types
  <2>4. Len(q.so_rcv) = len - n
    BY <1>6
  <2>5. len <= RcvSpace /\ RcvSpace \in Nat
    BY <1>1, <1>3, Sizes
  <2> QED  BY <1>4, <2>3, <2>4, <2>5
<1>9. Edge(p) \in Nat /\ Edge(p) = p.rcv_nxt + (RcvSpace - len)
  BY <1>1, <1>3, EdgeIs
<1>10. Edge(q) \in Nat /\ Edge(q) = p.rcv_nxt + (RcvSpace - (len - n))
  BY <1>8, EdgeIs
<1>11. Edge(p) <= Edge(q)
  <2>1. PICK x, space, a, b : x = p.rcv_nxt /\ space = RcvSpace /\ a = Edge(p) /\ b = Edge(q)
    OBVIOUS
  <2>2. a = x + (space - len) /\ b = x + (space - (len - n)) /\ x \in Nat /\ space \in Nat
    BY <1>1, <1>9, <1>10, <2>1, Sizes
  <2>3. a <= b
    BY <1>4, <2>2
  <2> QED  BY <2>1, <2>3
<1>12. q.rcv_adv <= Edge(q)
  BY <1>1, <1>9, <1>10, <1>11
<1>13. q.rcv_nxt <= GuestFin + 1 /\ (q.rcv_nxt <= sent \/ q.rcv_nxt = 1)
  BY <1>1 DEF Flow
<1>14. Flow(q, sent)
  BY <1>7, <1>8, <1>12, <1>13 DEF Flow
<1>15. Ahead(q.reass, q.rcv_nxt, Edge(q), sent)
  <2>1. sent <= sent /\ p.rcv_nxt \in Int /\ Edge(p) \in Int /\ Edge(q) \in Int
    BY <1>1, <1>9, <1>10
  <2> QED  BY <1>1, <1>11, <2>1, AheadMore
<1>16. Phase(q)
  BY <1>1 DEF Phase
<1> QED  BY <1>14, <1>15, <1>16 DEF RecvOpen

LEMMA SoWriteRecv ==
    ASSUME NEW sent \in Int, Recv(so, sent), SoWrite
    PROVE  Recv(so', sent)
<1>1. RecvOpen(so, sent) /\ so.t_state >= ESTABLISHED
  BY RecvKind DEF SoWrite
<1>2. Usable(so)
  BY <1>1 DEF RecvOpen, Phase, Usable, SoWrite
<1>3. PICK n \in 1 .. Len(so.so_rcv) :
        LET p == [so EXCEPT !.got = @ \o SubSeq(so.so_rcv, 1, n), !.so_rcv = From(@, n)] IN
        Returns(IF "FWDRAIN" \in p.so_state /\ p.so_rcv = <<>> THEN sofcantsendmore(p) ELSE p)
  BY DEF SoWrite
<1>4. PICK t, f, p : /\ t = Take(so.so_rcv, n) /\ f = From(so.so_rcv, n)
                     /\ p = [so EXCEPT !.got = @ \o t, !.so_rcv = f]
  OBVIOUS
<1>5. PICK q : /\ q = IF "FWDRAIN" \in p.so_state /\ p.so_rcv = <<>> THEN sofcantsendmore(p) ELSE p
               /\ Returns(q)
  BY <1>3, <1>4 DEF Take
<1>6. RecvOpen(p, sent) /\ p.t_state = so.t_state
  <2>1. Socket(so) /\ so.so_rcv \in Seq(Nat)
    BY <1>1 DEF RecvOpen, Flow, Types
  <2>2. /\ Socket(p) /\ p.t_state = so.t_state /\ p.so_state = so.so_state /\ p.so_rcv = f
        /\ p.reass = so.reass /\ p.rcv_nxt = so.rcv_nxt /\ p.rcv_adv = so.rcv_adv
        /\ p.got = so.got \o t
    BY <1>4, <2>1 DEF Socket, FieldNames
  <2>3. PICK len \in Nat : len = Len(so.so_rcv)
    BY <2>1
  <2>4. n \in Nat /\ n <= Len(so.so_rcv)
    BY <2>3
  <2>5. RecvOpen(p, sent)
    BY <1>1, <1>2, <1>4, <2>2, <2>4, HostTakes
  <2> QED  BY <2>2, <2>5
<1>7. Socket(p) /\ Phase(p) /\ p.t_state >= ESTABLISHED
  BY <1>1, <1>6 DEF RecvOpen
<1>8. RecvOpen(q, sent)
  <2>1. CASE "FWDRAIN" \in p.so_state /\ p.so_rcv = <<>>
    <3>1. q = sofcantsendmore(p)
      BY <1>5, <2>1
    <3>2. /\ Socket(q) /\ q.t_state = p.t_state
          /\ q.so_rcv = p.so_rcv /\ q.reass = p.reass /\ q.rcv_nxt = p.rcv_nxt
          /\ q.rcv_adv = p.rcv_adv /\ q.got = p.got
      BY <1>7, <3>1, CantSendMoreFields
    <3>3. /\ q.t_state \in CLOSE_WAIT .. TIME_WAIT
          /\ "FCANTRCVMORE" \in p.so_state \/ "NOFDREF" \in p.so_state => q.t_state > CLOSE_WAIT
      BY <1>7, <2>1, <3>2 DEF Phase
    <3> QED  BY <1>6, <1>7, <3>1, <3>2, <3>3, CantSendMoreRecv
  <2>2. CASE ~("FWDRAIN" \in p.so_state /\ p.so_rcv = <<>>)
    BY <1>5, <1>6, <2>2
  <2> QED  BY <2>1, <2>2
<1> QED  BY <1>5, <1>8, ReturnsRecv DEF Recv, Left

LEMMA SoWriteFailsRecv ==
    ASSUME NEW sent \in Int, Recv(so, sent), SoWriteFails
    PROVE  Recv(so', sent)
<1>1. RecvOpen(so, sent) /\ so.t_state >= ESTABLISHED
  BY RecvKind DEF SoWriteFails
<1>2. PICK p : p = sofcantsendmore(so)
  OBVIOUS
<1>3. PICK r : r = [p EXCEPT !.t_state = AfterEnd(p.t_state)]
  OBVIOUS
<1>4. PICK cwnd, q : q = tcp_output(r, cwnd, FALSE) /\ Returns(q)
  BY <1>2, <1>3, SockClosedIs DEF SoWriteFails
<1>5. Socket(so) /\ Phase(so)
  BY <1>1 DEF RecvOpen
<1>6. /\ Socket(p) /\ p.t_state = so.t_state /\ p.so_rcv = so.so_rcv /\ p.reass = so.reass
      /\ p.rcv_nxt = so.rcv_nxt /\ p.rcv_adv = so.rcv_adv /\ p.got = so.got
  BY <1>2, <1>5, CantSendMoreFields
<1>7. /\ Socket(r) /\ r.t_state = AfterEnd(so.t_state) /\ r.so_rcv = so.so_rcv
      /\ r.reass = so.reass /\ r.rcv_nxt = so.rcv_nxt /\ r.rcv_adv = so.rcv_adv
      /\ r.got = so.got /\ r.so_state = p.so_state
  BY <1>3, <1>6 DEF Socket, FieldNames
<1>8. r.t_state \in FIN_WAIT_1 .. TIME_WAIT
  BY <1>1, <1>5, <1>7 DEF AfterEnd, Phase
<1>9. RecvOpen(r, sent)
  <2>1. r.t_state \in CLOSE_WAIT .. TIME_WAIT /\ r.t_state > CLOSE_WAIT
    BY <1>8
  <2> QED  BY <1>1, <1>2, <1>7, <2>1, CantSendMoreRecv
<1>10. RecvOpen(q, sent)
  BY <1>4, <1>9, RecvOutput
<1> QED  BY <1>4, <1>10, ReturnsRecv DEF Recv, Left

LEMMA TimersRecv ==
    ASSUME NEW sent \in Int, Recv(so, sent),
           \/ tcp_fasttimo \/ RexmtTimeout \/ RexmtGivesUp \/ PersistTimeout
           \/ KeepTimeout \/ TwoMslTimeout
    PROVE  Recv(so', sent)
<1>1. CASE tcp_fasttimo
  <2>1. RecvOpen(so, sent)
    BY <1>1, RecvKind DEF tcp_fasttimo
  <2>2. PICK p : p = [so EXCEPT !.t_flags = @ \ {"DELACK"}]
    OBVIOUS
  <2>3. PICK cwnd, q : q = DropAfterAck(p, cwnd) /\ Returns(q)
    BY <1>1, <2>2 DEF tcp_fasttimo
  <2>4. Socket(p) /\ SameInput(so, p) /\ p.rcv_adv = so.rcv_adv
    BY <2>1, <2>2 DEF RecvOpen, Socket, FieldNames, SameInput
  <2>5. RecvOpen(q, sent)
    BY <2>1, <2>3, <2>4, RecvAside, DropAfterAckRecv
  <2> QED  BY <2>3, <2>5, ReturnsRecv DEF Recv, Left
<1>2. CASE RexmtTimeout
  <2>1. RecvOpen(so, sent)
    BY <1>2, RecvKind DEF RexmtTimeout
  <2>2. PICK p : p = [so EXCEPT !.snd_nxt = so.snd_una, !.t_dupacks = 0]
    OBVIOUS
  <2>3. PICK q : q = tcp_output(p, Mss, FALSE) /\ Returns(q)
    BY <1>2, <2>2 DEF RexmtTimeout
  <2>4. Socket(p) /\ SameInput(so, p) /\ p.rcv_adv = so.rcv_adv
    BY <2>1, <2>2 DEF RecvOpen, Socket, FieldNames, SameInput
  <2>5. RecvOpen(q, sent)
    BY <2>1, <2>3, <2>4, RecvAside, RecvOutput
  <2> QED  BY <2>3, <2>5, ReturnsRecv DEF Recv, Left
<1>3. CASE RexmtGivesUp
  <2>1. RecvOpen(so, sent)
    BY <1>3, RecvKind DEF RexmtGivesUp
  <2>2. PICK q : q = tcp_drop(so, Mss) /\ Returns(q)
    BY <1>3 DEF RexmtGivesUp
  <2>3. RecvClosed(q)
    BY <2>1, <2>2, DropRecv
  <2> QED  BY <2>2, <2>3, ReturnsRecv DEF Recv, Left
<1>4. CASE PersistTimeout
  <2>1. RecvOpen(so, sent)
    BY <1>4, RecvKind DEF PersistTimeout
  <2>2. PICK cwnd, q : q = tcp_output(so, cwnd, TRUE) /\ Returns(q)
    BY <1>4 DEF PersistTimeout
  <2>3. RecvOpen(q, sent)
    BY <2>1, <2>2, RecvOutput
  <2> QED  BY <2>2, <2>3, ReturnsRecv DEF Recv, Left
<1>5. CASE KeepTimeout
  <2>1. CASE Connecting
    <3>1. PICK q : q = tcp_close(so, "dropped") /\ Returns(q)
      BY <1>5, <2>1 DEF KeepTimeout
    <3>2. RecvPending(so)
      BY <1>5, <2>1, RecvKind DEF KeepTimeout, Exists, Connecting
    <3>3. Stretch(so.got, 1, 1)
      BY <3>2, StretchEmpty DEF RecvPending
    <3>4. RecvClosed(q)
      BY <3>1, <3>3, CloseIs
    <3> QED  BY <3>1, <3>4, ReturnsRecv DEF Recv, Left
  <2>2. CASE ~ Connecting
    <3>1. PICK q : q = tcp_drop(so, Mss) /\ Returns(q)
      BY <1>5, <2>2 DEF KeepTimeout
    <3>2. RecvOpen(so, sent)
      BY <1>5, <2>2, RecvKind DEF KeepTimeout, Exists, Connecting
    <3>3. RecvClosed(q)
      BY <3>1, <3>2, DropRecv
    <3> QED  BY <3>1, <3>3, ReturnsRecv DEF Recv, Left
  <2> QED  BY <2>1, <2>2
<1>6. CASE TwoMslTimeout
  <2>1. RecvOpen(so, sent)
    BY <1>6, RecvKind DEF TwoMslTimeout
  <2>2. PICK why, q : q = tcp_close(so, why) /\ Returns(q)
    BY <1>6 DEF TwoMslTimeout
  <2>3. RecvClosed(q)
    BY <2>1, <2>2, CloseRecv
  <2> QED  BY <2>2, <2>3, ReturnsRecv DEF Recv, Left
<1> QED  BY <1>1, <1>2, <1>3, <1>4, <1>5, <1>6

LEMMA NextRecv ==
    ASSUME ~FinOnProbe, RecvInv, [Next]_vars
    PROVE  RecvInv'
<1>1. /\ Recv(so, guest.nxt) /\ guest.nxt \in Nat
      /\ guest.st = "est" => guest.nxt >= 1
      /\ guest.st = "syn" => guest.nxt = 0
      /\ DOMAIN guest = {"st", "nxt", "rcv", "got", "read"}
  BY DEF RecvInv
<1>2. ASSUME Recv(so', guest.nxt), UNCHANGED guest PROVE RecvInv'
  BY <1>1, <1>2 DEF RecvInv
<1>3. CASE Slirp
  <2>1. CASE Connected
    <3>1. UNCHANGED guest
      BY <2>1, Zenon DEF Connected
    <3> QED  BY <1>1, <1>2, <2>1, <3>1, ConnectedRecv
  <2>2. CASE ConnectFails
    <3>1. UNCHANGED guest
      BY <2>2, Zenon DEF ConnectFails
    <3> QED  BY <1>1, <1>2, <2>2, <3>1, ConnectFailsRecv
  <2>3. CASE SoRead
    <3>1. UNCHANGED guest
      BY <2>3, Zenon DEF SoRead
    <3> QED  BY <1>1, <1>2, <2>3, <3>1, SoReadRecv
  <2>4. CASE SoReadEnds
    <3>1. UNCHANGED guest
      BY <2>4, Zenon DEF SoReadEnds
    <3> QED  BY <1>1, <1>2, <2>4, <3>1, SoReadEndsRecv
  <2>5. CASE SoWrite
    <3>1. UNCHANGED guest
      BY <2>5, Zenon DEF SoWrite
    <3> QED  BY <1>1, <1>2, <2>5, <3>1, SoWriteRecv
  <2>6. CASE SoWriteFails
    <3>1. UNCHANGED guest
      BY <2>6, Zenon DEF SoWriteFails
    <3> QED  BY <1>1, <1>2, <2>6, <3>1, SoWriteFailsRecv
  <2>7. CASE \/ tcp_fasttimo \/ RexmtTimeout \/ RexmtGivesUp \/ PersistTimeout
             \/ KeepTimeout \/ TwoMslTimeout
    <3>1. UNCHANGED guest
      BY <2>7 DEF tcp_fasttimo, RexmtTimeout, RexmtGivesUp, PersistTimeout, KeepTimeout,
                  TwoMslTimeout
    <3> QED  BY <1>1, <1>2, <2>7, <3>1, TimersRecv
  <2> QED  BY <1>3, <2>1, <2>2, <2>3, <2>4, <2>5, <2>6, <2>7 DEF Slirp
<1>4. CASE GuestSyn
  <2>1. PICK s : s = [seq |-> 0, ack |-> 0, win |-> 0, flags |-> {"SYN"}, fin |-> FALSE,
                  data |-> <<>>]
    OBVIOUS
  <2>2. FromGuest(s, guest.nxt) /\ Within(so, s)
    BY <2>1 DEF FromGuest, Segment, Within
  <2> QED  BY <1>1, <1>2, <1>4, <2>1, <2>2, InputRecv DEF GuestSyn
<1>5. CASE GuestAck
  <2>1. guest.nxt \in Nat \ {0}
    BY <1>1, <1>5 DEF GuestAck, GuestSends
  <2>2. PICK seq \in Nat \ {0}, n \in Nat, flags \in {{}, {"FIN"}} :
          n = 0 /\ flags = {} /\ GuestSends(seq, n, flags)
    BY <1>5, <2>1 DEF GuestAck
  <2> QED  BY <2>2, SendsRecv DEF Polite
<1>6. CASE GuestData
  <2>1. PICK seq \in 1 .. guest.nxt, n \in 1 .. Mss, flags \in {{}, {"FIN"}} :
          /\ seq + n <= GuestFin
          /\ "FIN" \in flags => seq + n = GuestFin
          /\ Exists /\ "FIN" \in flags => FinOnProbe \/ seq + n <= so.rcv_adv
          /\ GuestSends(seq, n, flags)
    BY <1>6 DEF GuestData
  <2>2. seq \in Nat \ {0} /\ n \in Nat /\ Polite(seq, n, flags)
    BY <1>1, <2>1, Sizes DEF Polite
  <2> QED  BY <2>1, <2>2, SendsRecv
<1>7. CASE GuestFins
  <2>1. PICK seq \in Nat \ {0}, n \in Nat, flags \in {{}, {"FIN"}} :
          n = 0 /\ seq = GuestFin /\ flags = {"FIN"} /\ GuestSends(seq, n, flags)
    BY <1>7, Sizes DEF GuestFins
  <2>2. seq + n = GuestFin /\ seq + n <= GuestFin
    BY <2>1, Sizes
  <2> QED  BY <2>1, <2>2, SendsRecv DEF Polite
<1>8. CASE GuestResets
  <2>1. PICK seq, s : /\ s = [seq |-> seq, ack |-> 0, win |-> 0, flags |-> {"RST"},
                             fin |-> FALSE, data |-> <<>>]
                      /\ tcp_input(s)
    BY <1>8 DEF GuestResets
  <2>2. FromGuest(s, guest.nxt) /\ Within(so, s)
    BY <2>1 DEF FromGuest, Segment, Within
  <2>3. Recv(so', guest.nxt)
    BY <1>1, <2>1, <2>2, InputRecv
  <2>4. guest' = [guest EXCEPT !.st = "dead"]
    BY <1>8 DEF GuestResets
  <2> QED  BY <1>1, <2>3, <2>4 DEF RecvInv
<1>9. CASE GuestGetsSyn
  <2>1. /\ guest.st = "syn" /\ UNCHANGED so
        /\ \E w \in wire : guest' = [guest EXCEPT !.st = "est", !.rcv = w.seq + 1, !.nxt = 1]
    BY <1>9 DEF GuestGetsSyn
  <2>2. guest.nxt = 0 /\ guest'.nxt = 1 /\ guest'.st = "est" /\ DOMAIN guest' = DOMAIN guest
    BY <1>1, <2>1
  <2>3. Recv(so, 1)
    BY <1>1, <2>2, RecvMore
  <2> QED  BY <1>1, <2>1, <2>2, <2>3 DEF RecvInv
<1>10. CASE GuestGetsByte \/ GuestGetsFin \/ GuestGetsRst \/ GuestReads
  <2>1. CASE GuestGetsByte
    BY <1>1, <2>1 DEF GuestGetsByte, RecvInv
  <2>2. CASE GuestGetsFin
    BY <1>1, <2>2 DEF GuestGetsFin, RecvInv
  <2>3. CASE GuestGetsRst
    BY <1>1, <2>3 DEF GuestGetsRst, RecvInv
  <2>4. CASE GuestReads
    BY <1>1, <2>4 DEF GuestReads, RecvInv
  <2> QED  BY <1>10, <2>1, <2>2, <2>3, <2>4
<1>11. CASE HostSends \/ HostEnds \/ HostResets
  BY <1>1, <1>2, <1>11 DEF HostSends, HostEnds, HostResets
<1>12. CASE UNCHANGED vars
  BY <1>1, <1>2, <1>12 DEF vars
<1> QED
  BY <1>3, <1>4, <1>5, <1>6, <1>7, <1>8, <1>9, <1>10, <1>11, <1>12 DEF Next, Environment

LEMMA SpecRecv ==
    ASSUME ~FinOnProbe
    PROVE  Spec => []RecvInv
<1>1. Init => RecvInv
  BY InitRecv
<1>2. RecvInv /\ [Next]_vars => RecvInv'
  BY NextRecv
<1> QED  BY <1>1, <1>2, PTL DEF Spec

\* The window that slirp promises always has room in the socket buffer, whatever the sizes
\* of buffer and segment, and however segments are lost, repeated, split and reordered
\* (tcp_output's rcv_adv, tcp_input's trimming, tcp_reass, sbappend), provided that the guest
\* sends no FIN with data beyond the window.
THEOREM PromiseFits ==
    ASSUME ~FinOnProbe
    PROVE  Spec => []RcvFits
<1>1. RecvInv => RcvFits
  <2> SUFFICES ASSUME RecvInv PROVE RcvFits
    OBVIOUS
  <2>1. CASE RecvOpen(so, guest.nxt)
    <3>1. Types(so) /\ Len(so.so_rcv) <= RcvSpace /\ so.rcv_adv <= Edge(so)
      BY <2>1 DEF RecvOpen, Flow
    <3>2. Edge(so) = so.rcv_nxt + sbspace(so) /\ sbspace(so) \in Nat
      BY <3>1, EdgeIs
    <3> QED  BY <3>1, <3>2 DEF RcvFits, Types
  <2>2. CASE RecvClosed(so) \/ RecvPending(so)
    <3>1. so.so_rcv = <<>> /\ so.rcv_nxt = 0 /\ so.rcv_adv = 0
      BY <2>2 DEF RecvClosed, RecvPending
    <3> QED  BY <3>1, Sizes DEF RcvFits, sbspace
  <2> QED  BY <2>1, <2>2 DEF RecvInv, Recv, Left
<1> QED  BY <1>1, SpecRecv, PTL

\* The half of StreamsIntact about the guest's bytes.
GuestStreamIntact ==
    /\ IsCount(so.got)
    /\ Exists => so.rcv_nxt <= Max({guest.nxt, 1})
    /\ Exists /\ ~Connecting /\ so.so_state \cap {"FCANTSENDMORE", "NOFDREF"} = {}
        => so.got \o so.so_rcv = [i \in 1 .. Min({so.rcv_nxt - 1, GuestBytes}) |-> i]

LEMMA RecvGuest == RecvInv => GuestStreamIntact
<1> SUFFICES ASSUME RecvInv PROVE GuestStreamIntact
  OBVIOUS
<1>1. PICK m \in Nat : Stretch(so.got, 1, m)
  <2>1. CASE RecvOpen(so, guest.nxt)
    BY <2>1 DEF RecvOpen, Flow
  <2>2. CASE RecvClosed(so)
    BY <2>2 DEF RecvClosed
  <2>3. CASE RecvPending(so)
    BY <2>3, StretchEmpty DEF RecvPending
  <2> QED  BY <2>1, <2>2, <2>3 DEF RecvInv, Recv, Left
<1>2. IsCount(so.got)
  <2>1. so.got \in Seq(Nat) /\ m = Len(so.got) + 1
    BY <1>1, StretchLen
  <2> QED  BY <1>1, <2>1, CountIs
<1>3. ASSUME Exists PROVE so.rcv_nxt <= Max({guest.nxt, 1})
  <2>0. guest.nxt \in Nat
    BY DEF RecvInv
  <2>1. Max({guest.nxt, 1}) = IF guest.nxt >= 1 THEN guest.nxt ELSE 1
    BY <2>0, MaxOfTwo
  <2>2. CASE RecvOpen(so, guest.nxt)
    <3>1. so.rcv_nxt <= guest.nxt \/ so.rcv_nxt = 1
      BY <2>2 DEF RecvOpen, Flow
    <3>2. so.rcv_nxt \in Nat
      BY <2>2 DEF RecvOpen, Flow, Types
    <3> QED  BY <2>0, <2>1, <3>1, <3>2
  <2>3. CASE RecvPending(so)
    BY <2>0, <2>1, <2>3 DEF RecvPending
  <2>4. CASE RecvClosed(so)
    BY <1>3, <2>4 DEF RecvClosed, Exists
  <2> QED  BY <2>2, <2>3, <2>4 DEF RecvInv, Recv, Left
<1>4. ASSUME Exists, ~Connecting, so.so_state \cap {"FCANTSENDMORE", "NOFDREF"} = {}
      PROVE  so.got \o so.so_rcv = [i \in 1 .. Min({so.rcv_nxt - 1, GuestBytes}) |-> i]
  <2>1. RecvOpen(so, guest.nxt)
    BY <1>4, RecvKind DEF RecvInv, Exists, Connecting
  <2>2. Usable(so)
    BY <1>4 DEF Usable
  <2>3. PICK n \in Nat : Stretch(so.got, 1, n) /\ Stretch(so.so_rcv, n, Upto(so.rcv_nxt))
    BY <2>1, <2>2 DEF RecvOpen, Flow
  <2>4. PICK all : all = so.got \o so.so_rcv
    OBVIOUS
  <2>5. Stretch(all, 1, Upto(so.rcv_nxt))
    BY <2>3, <2>4, StretchConcat
  <2>6. all \in Seq(Nat) /\ Upto(so.rcv_nxt) = Len(all) + 1
    BY <2>5, StretchLen
  <2>7. IsCount(all)
    BY <2>5, <2>6, CountIs
  <2>8. so.rcv_nxt \in Nat
    BY <2>1 DEF RecvOpen, Flow, Types
  <2>9. PICK a \in Int : a = so.rcv_nxt - 1
    BY <2>8
  <2>10. Min({a, GuestBytes}) = IF a <= GuestBytes THEN a ELSE GuestBytes
    BY Sizes, MinOfTwo
  <2>11. Min({a, GuestBytes}) = Len(all)
    BY <2>6, <2>8, <2>9, <2>10, Sizes DEF Upto
  <2> QED  BY <2>4, <2>7, <2>9, <2>11 DEF IsCount
<1> QED  BY <1>2, <1>3, <1>4 DEF GuestStreamIntact

\* What the host is given is a beginning of the guest's stream, and slirp acknowledges no
\* more than the guest has sent, and nothing that it has cut off or forgotten, provided that
\* the guest sends no FIN with data beyond the window.
THEOREM GuestBytesIntact ==
    ASSUME ~FinOnProbe
    PROVE  Spec => []GuestStreamIntact
BY RecvGuest, SpecRecv, PTL

-----------------------------------------------------------------------------
HIDE DEF CLOSED, SYN_RECEIVED, ESTABLISHED, CLOSE_WAIT, FIN_WAIT_1, CLOSING, LAST_ACK,
         FIN_WAIT_2, TIME_WAIT

-----------------------------------------------------------------------------
(* The send side of a socket.  Of the stream of the host, "next" is the    *)
(* first byte that slirp has not read, and "end" its sequence number;      *)
(* "over" says that there will be no more.                                 *)

FinStates == {FIN_WAIT_1, CLOSING, LAST_ACK, FIN_WAIT_2, TIME_WAIT}

\* What waits in so_snd is the end of what was read, and begins at snd_una.
Sequence(p, iss, next, end) ==
    /\ iss \in Nat /\ next \in Nat \ {0} /\ end = iss + next
    /\ p.iss = iss /\ p.snd_una \in Nat /\ p.snd_nxt \in Nat /\ p.snd_max \in Nat
    /\ p.snd_wnd \in Int
    /\ iss <= p.snd_una /\ p.snd_una <= p.snd_nxt /\ p.snd_nxt <= p.snd_max
    /\ p.snd_max <= end + 1
    /\ "SENTFIN" \in p.t_flags <=> p.snd_max = end + 1
    /\ \E a \in Nat \ {0} : Stretch(p.so_snd, a, next)
    /\ p.so_snd # <<>> => p.snd_una + Len(p.so_snd) = end

\* How far the connection can be in a state: the FIN is sent when the host has
\* closed, and acknowledged when FIN_WAIT_2 is reached.
Stage(p, iss, end, over) ==
    /\ p.t_state \in CLOSED .. TIME_WAIT
    /\ p.t_state = SYN_RECEIVED =>
         p.snd_una = iss /\ end = iss + 1 /\ p.so_snd = <<>> /\ p.snd_max <= end
    /\ p.t_state >= ESTABLISHED =>
         \/ p.snd_una + Len(p.so_snd) = end
         \/ p.snd_una = end + 1 /\ p.t_state \in {FIN_WAIT_2, TIME_WAIT}
    /\ "SENTFIN" \in p.t_flags => p.t_state \in FinStates \cup {CLOSED}
    /\ p.t_state \in FinStates => over

\* What may be sent to the guest: the bytes read, each under its own number.
Said(w, iss, next, end) ==
    \/ w = Rst \/ w = Syn(iss) \/ w = Fin(end)
    \/ \E b \in Nat \ {0}, seq \in Nat : b < next /\ seq = iss + b /\ w = Byte(seq, b)

OutSaid(p, iss, next, end, over) ==
    /\ \A w \in p.out : Said(w, iss, next, end)
    /\ Fin(end) \in p.out => over

Sends(p, iss, next, end, over) ==
    /\ Sequence(p, iss, next, end) /\ Stage(p, iss, end, over)
    /\ OutSaid(p, iss, next, end, over)

LEMMA FlagsAre ==
    ASSUME NEW st \in CLOSED .. TIME_WAIT
    PROVE  /\ "SYN" \in tcp_outflags[st] <=> st = SYN_RECEIVED
           /\ "FIN" \in tcp_outflags[st] <=> st \in {FIN_WAIT_1, CLOSING, LAST_ACK}
<1>1. tcp_outflags[st] = CASE st = CLOSED -> {"RST", "ACK"}
                           [] st = SYN_RECEIVED -> {"SYN", "ACK"}
                           [] st \in {FIN_WAIT_1, CLOSING, LAST_ACK} -> {"FIN", "ACK"}
                           [] OTHER -> {"ACK"}
  BY DEF tcp_outflags
<1> QED
  BY <1>1 DEF CLOSED, SYN_RECEIVED, FIN_WAIT_1, CLOSING, LAST_ACK, TIME_WAIT

LEMMA Remainder ==
    ASSUME NEW a \in Nat, NEW m \in Nat \ {0}
    PROVE  a % m \in Nat /\ a % m <= a
OBVIOUS

LEMMA RoomIs ==
    ASSUME NEW p, NEW iss, NEW next, NEW end, Sequence(p, iss, next, end),
           NEW cwnd \in Int, NEW force
    PROVE  /\ Room(p, cwnd, force) \in Int
           /\ Room(p, cwnd, force) <= Len(p.so_snd) - (p.snd_nxt - p.snd_una)
<1>1. PICK a \in Nat \ {0} : Stretch(p.so_snd, a, next)
  BY DEF Sequence
<1>2. PICK len \in Nat : len = Len(p.so_snd)
  BY <1>1, StretchLen
<1>3. PICK win : win = Min({p.snd_wnd, cwnd})
  OBVIOUS
<1>4. win \in Int
  <2>1. p.snd_wnd \in Int
    BY DEF Sequence
  <2> QED  BY <1>3, <2>1, MinOfTwo
<1>5. PICK sw : sw = IF force /\ win = 0 THEN 1 ELSE win
  OBVIOUS
<1>6. sw \in Int
  BY <1>4, <1>5
<1>7. SendWindow(p, cwnd, force) = sw
  BY <1>3, <1>5 DEF SendWindow
<1>8. Min({len, sw}) \in Int /\ Min({len, sw}) <= len
  BY <1>6, MinOfTwo
<1>9. Room(p, cwnd, force) = Min({len, sw}) - (p.snd_nxt - p.snd_una)
  BY <1>2, <1>7 DEF Room
<1>10. p.snd_nxt \in Nat /\ p.snd_una \in Nat
  BY DEF Sequence
<1> QED  BY <1>2, <1>8, <1>9, <1>10

LEMMA ToSendIs ==
    ASSUME NEW p, Socket(p), NEW iss, NEW next, NEW end, Sequence(p, iss, next, end),
           p.t_state \in CLOSED .. TIME_WAIT,
           NEW cwnd \in Int, NEW force, NEW b, b = BeforeSend(p, cwnd, force),
           NEW d, d = ToSend(p, cwnd, force)
    PROVE  /\ d.n \in Nat /\ d.off = p.snd_nxt - p.snd_una
           /\ d.n > 0 => /\ b.snd_nxt = p.snd_nxt /\ p.so_snd # <<>>
                         /\ p.snd_nxt + d.n <= p.snd_una + Len(p.so_snd)
           /\ d.fin => /\ p.t_state \in {FIN_WAIT_1, CLOSING, LAST_ACK}
                       /\ b.snd_nxt + d.n >= b.snd_una + Len(b.so_snd)
<1>1. PICK room : room = Room(p, cwnd, force)
  OBVIOUS
<1>2. room \in Int /\ room <= Len(p.so_snd) - (p.snd_nxt - p.snd_una)
  BY <1>1, RoomIs
<1>3. PICK len : len = Max({room, 0})
  OBVIOUS
<1>4. len \in Nat /\ (len > 0 => len = room)
  BY <1>2, <1>3, MaxOfTwo
<1>5. len % Mss \in Nat /\ len % Mss <= len
  BY <1>4, Sizes, Remainder
<1> DEFINE off == p.snd_nxt - p.snd_una
           tail == len % Mss
           cc == Len(p.so_snd)
           wantsFin == /\ "FIN" \in tcp_outflags[p.t_state]
                       /\ ~(force /\ Min({p.snd_wnd, cwnd}) = 0 /\ off < cc)
           owed == \/ "ACKNOW" \in p.t_flags
                   \/ WindowUpdate(p)
                   \/ tcp_outflags[p.t_state] \cap {"SYN", "RST"} # {}
                   \/ /\ wantsFin
                      /\ b.snd_nxt + len >= b.snd_una + cc
                      /\ "SENTFIN" \notin p.t_flags \/ b.snd_nxt = b.snd_una
           smallOk == \/ len + off >= cc
                      \/ force
                      \/ p.max_sndwnd > 0 /\ tail >= p.max_sndwnd \div 2
                      \/ b.snd_nxt + (len - tail) < p.snd_max
                      \/ owed /\ len < Mss
           n == IF tail > 0 /\ ~smallOk THEN len - tail ELSE len
           fin == wantsFin /\ FinFits(b, b.snd_nxt + n)
<1>6. d = [off |-> off, n |-> n, owed |-> owed, fin |-> fin]
  BY <1>1, <1>3, Zenon DEF ToSend
<1>7. d.off = p.snd_nxt - p.snd_una
  <2> HIDE DEF off, n, owed, fin
  <2>1. d.off = off
    BY <1>6
  <2> QED  BY <2>1 DEF off
<1>8. /\ d.n = len \/ d.n = len - (len % Mss)
      /\ d.fin => "FIN" \in tcp_outflags[p.t_state] /\ FinFits(b, b.snd_nxt + d.n)
  <2>1. d.n = n /\ d.fin = fin
    <3> HIDE DEF off, n, owed, fin
    <3> QED  BY <1>6
  <2>2. n = len \/ n = len - (len % Mss)
    <3>1. CASE tail > 0 /\ ~smallOk
      BY <3>1, Zenon
    <3>2. CASE ~(tail > 0 /\ ~smallOk)
      BY <3>2, Zenon
    <3> QED  BY <3>1, <3>2
  <2>3. fin => "FIN" \in tcp_outflags[p.t_state] /\ FinFits(b, b.snd_nxt + n)
    <3> HIDE DEF n
    <3> QED  BY Zenon
  <2> HIDE DEF n, fin
  <2> QED  BY <2>1, <2>2, <2>3
<1> HIDE DEF off, tail, cc, wantsFin, owed, smallOk, n, fin
<1>9. d.n \in Nat /\ d.n <= len
  BY <1>4, <1>5, <1>8
<1>10. p.snd_nxt \in Nat /\ p.snd_una \in Nat /\ p.snd_una <= p.snd_nxt /\ Len(p.so_snd) \in Nat
  <2>1. PICK a \in Nat \ {0} : Stretch(p.so_snd, a, next)
    BY DEF Sequence
  <2> QED  BY <2>1, StretchLen DEF Sequence
<1>11. ASSUME d.n > 0
       PROVE  /\ b.snd_nxt = p.snd_nxt /\ p.so_snd # <<>>
              /\ p.snd_nxt + d.n <= p.snd_una + Len(p.so_snd)
  <2>1. room > 0 /\ d.n <= room
    BY <1>2, <1>4, <1>9, <1>11
  <2>2. b.snd_nxt = p.snd_nxt
    BY <1>1, <1>2, <2>1 DEF BeforeSend, Socket, FieldNames
  <2>3. Len(p.so_snd) > 0
    BY <1>2, <1>10, <2>1
  <2>4. p.so_snd # <<>>
    BY <2>3
  <2> QED  BY <1>2, <1>9, <1>10, <2>1, <2>2, <2>4
<1>12. d.fin => p.t_state \in {FIN_WAIT_1, CLOSING, LAST_ACK}
  BY <1>8, FlagsAre
<1>13. d.fin => b.snd_nxt + d.n >= b.snd_una + Len(b.so_snd)
  BY <1>8 DEF FinFits
<1> QED  BY <1>7, <1>9, <1>11, <1>12, <1>13

\* The sequence number of what Send begins with.
First(p, d) ==
    IF "SYN" \in tcp_outflags[p.t_state] THEN p.iss
    ELSE IF d.fin /\ "SENTFIN" \in p.t_flags /\ p.snd_nxt = p.snd_max
    THEN p.snd_nxt - 1 ELSE p.snd_nxt

\* The number after its last byte, SYN or FIN.
Last(p, d, upto) ==
    upto + (IF "SYN" \in tcp_outflags[p.t_state] THEN 1 ELSE 0) + (IF d.fin THEN 1 ELSE 0)

\* The i-th byte of what Send sends.
Nth(p, d, first, i) == Byte(first + i - 1, p.so_snd[d.off + i])

\* What Send does to the numbers of the sequence, and what it sends.
SentFrom(p, d, q, first, upto, nxt) ==
    /\ q.snd_wnd = p.snd_wnd
    /\ \/ /\ q.snd_nxt = first /\ q.snd_max = Max({p.snd_max, upto})
          /\ "SENTFIN" \in q.t_flags <=> "SENTFIN" \in p.t_flags
       \/ /\ q.snd_nxt = nxt /\ q.snd_max = Max({p.snd_max, nxt})
          /\ "SENTFIN" \in q.t_flags <=> "SENTFIN" \in p.t_flags \/ d.fin
    /\ \A w \in q.out :
         \/ w \in p.out
         \/ w = Rst
         \/ "SYN" \in tcp_outflags[p.t_state] /\ w = Syn(first)
         \/ d.fin /\ w = Fin(upto)
         \/ \E i \in 1 .. d.n : w = Nth(p, d, first, i)

LEMMA SendSays ==
    ASSUME NEW p, Socket(p), NEW d, NEW force, NEW first, first = First(p, d),
           NEW upto, upto = first + d.n, NEW nxt, nxt = Last(p, d, upto),
           NEW q, q = Send(p, d, force)
    PROVE  SentFrom(p, d, q, first, upto, nxt)
<1> DEFINE syn == "SYN" \in tcp_outflags[p.t_state]
           f == First(p, d)
           what == {Nth(p, d, f, i) : i \in 1 .. d.n}
                \cup (IF syn THEN {Syn(f)} ELSE {})
                \cup (IF d.fin THEN {Fin(f + d.n)} ELSE {})
                \cup (IF p.t_state = CLOSED THEN {Rst} ELSE {})
           probe == force /\ "PERSIST" \in p.timers
           nxt2 == f + d.n + (IF syn THEN 1 ELSE 0) + (IF d.fin THEN 1 ELSE 0)
           win == Advertise(p)
           arm == ~probe /\ "REXMT" \notin p.timers /\ nxt2 # p.snd_una
           timers == IF arm THEN (p.timers \ {"PERSIST"}) \cup {"REXMT"} ELSE p.timers
           adv == IF win > 0 THEN Max({p.rcv_adv, p.rcv_nxt + win}) ELSE p.rcv_adv
           flags == (p.t_flags \ {"ACKNOW", "DELACK"})
                        \cup (IF d.fin /\ ~probe THEN {"SENTFIN"} ELSE {})
           out == p.out \cup what
           max == Max({p.snd_max, IF probe THEN f + d.n ELSE nxt2})
           snd == IF probe THEN f ELSE nxt2
<1>1. q = [p EXCEPT !.out = out, !.snd_nxt = snd, !.snd_max = max, !.timers = timers,
                    !.rcv_adv = adv, !.t_flags = flags]
  BY Zenon DEF Send, First, Nth
<1>2. q.snd_wnd = p.snd_wnd /\ q.out = out /\ q.snd_nxt = snd /\ q.snd_max = max /\ q.t_flags = flags
  <2> HIDE DEF out, snd, max, timers, adv, flags
  <2> QED  BY <1>1 DEF Socket, FieldNames
<1>3. \A w \in what :
                \/ w = Rst
                \/ "SYN" \in tcp_outflags[p.t_state] /\ w = Syn(f)
                \/ d.fin /\ w = Fin(f + d.n)
                \/ \E i \in 1 .. d.n : w = Nth(p, d, f, i)
  BY Zenon
<1> HIDE DEF what, f
<1>4. f = first
  BY DEF f
<1>5. f + d.n = upto /\ nxt2 = nxt
  BY <1>4, Zenon DEF Last
<1>6. \A w \in q.out :
                \/ w \in p.out
                \/ w = Rst
                \/ "SYN" \in tcp_outflags[p.t_state] /\ w = Syn(first)
                \/ d.fin /\ w = Fin(upto)
                \/ \E i \in 1 .. d.n : w = Nth(p, d, first, i)
  BY <1>2, <1>3, <1>4, <1>5, Zenon
<1> HIDE DEF nxt2, probe
<1>7. CASE probe
  <2>1. /\ q.snd_nxt = first /\ q.snd_max = Max({p.snd_max, upto})
        /\ "SENTFIN" \in q.t_flags <=> "SENTFIN" \in p.t_flags
    BY <1>2, <1>4, <1>5, <1>7
  <2> QED  BY <1>2, <1>6, <2>1 DEF SentFrom
<1>8. CASE ~probe
  <2>1. /\ q.snd_nxt = nxt /\ q.snd_max = Max({p.snd_max, nxt})
        /\ "SENTFIN" \in q.t_flags <=> "SENTFIN" \in p.t_flags \/ d.fin
    BY <1>2, <1>5, <1>8
  <2> QED  BY <1>2, <1>6, <2>1 DEF SentFrom
<1> QED  BY <1>7, <1>8

LEMMA FinIsNone ==
    ASSUME NEW end, NEW seq, NEW b
    PROVE  Fin(end) # Rst /\ Fin(end) # Syn(seq) /\ Fin(end) # Byte(seq, b)
<1>1. Fin(end).what = "FIN" /\ Rst.what = "RST" /\ Syn(seq).what = "SYN"
      /\ Byte(seq, b).what = "DATA"
  BY DEF Fin, Rst, Syn, Byte
<1>2. "FIN" # "RST" /\ "FIN" # "SYN" /\ "FIN" # "DATA"
  OBVIOUS
<1> QED  BY <1>1, <1>2

\* Where Send begins and ends.
LEMMA SendFrom ==
    ASSUME NEW p, NEW iss, NEW next, NEW end, NEW over,
           Sequence(p, iss, next, end), Stage(p, iss, end, over), NEW d, d.n \in Nat,
           d.n > 0 => /\ p.so_snd # <<>>
                      /\ p.snd_nxt + d.n <= p.snd_una + Len(p.so_snd),
           d.fin => /\ p.t_state \in {FIN_WAIT_1, CLOSING, LAST_ACK}
                    /\ p.snd_nxt + d.n >= p.snd_una + Len(p.so_snd),
           NEW first, first = First(p, d), NEW upto, upto = first + d.n,
           NEW nxt, nxt = Last(p, d, upto)
    PROVE  /\ first \in Nat /\ upto \in Nat /\ nxt \in Nat
           /\ p.snd_una <= first /\ first <= upto /\ upto <= nxt /\ nxt <= end + 1
           /\ upto <= end \/ upto <= p.snd_max
           /\ d.fin => upto = end /\ nxt = end + 1
           /\ ~d.fin => nxt <= end \/ nxt <= p.snd_max
           /\ d.n > 0 => first = p.snd_nxt
           /\ p.t_state = SYN_RECEIVED => first = iss /\ nxt <= end /\ ~d.fin
<1>1. /\ p.snd_una \in Nat /\ p.snd_nxt \in Nat /\ p.snd_max \in Nat /\ end \in Nat /\ iss \in Nat
      /\ iss <= p.snd_una /\ p.snd_una <= p.snd_nxt /\ p.snd_nxt <= p.snd_max
      /\ p.snd_max <= end + 1 /\ iss < end /\ p.iss = iss
      /\ "SENTFIN" \in p.t_flags <=> p.snd_max = end + 1
  BY DEF Sequence
<1>2. PICK len \in Nat : len = Len(p.so_snd)
  BY StretchLen DEF Sequence
<1>3. "SYN" \in tcp_outflags[p.t_state] <=> p.t_state = SYN_RECEIVED
  BY FlagsAre DEF Stage
<1>4. CASE p.t_state = SYN_RECEIVED
  <2>1. d.n = 0 /\ ~d.fin
    BY <1>4 DEF Stage, SYN_RECEIVED, FIN_WAIT_1, CLOSING, LAST_ACK
  <2>2. first = iss /\ upto = iss /\ nxt = iss + 1
    BY <1>1, <1>3, <1>4, <2>1 DEF First, Last
  <2>3. p.snd_una = iss /\ end = iss + 1
    BY <1>4 DEF Stage
  <2> QED  BY <1>1, <1>4, <2>1, <2>2, <2>3
<1>5. CASE p.t_state # SYN_RECEIVED /\ d.fin
  <2>1. p.snd_una + len = end
    BY <1>2, <1>5 DEF Stage, ESTABLISHED, FIN_WAIT_1, CLOSING, LAST_ACK, FIN_WAIT_2, TIME_WAIT
  <2>2. nxt = upto + 1
    BY <1>1, <1>3, <1>5 DEF First, Last
  <2>3. d.n > 0 => p.snd_nxt + d.n = end /\ ~("SENTFIN" \in p.t_flags /\ p.snd_nxt = p.snd_max)
    BY <1>1, <1>2, <1>5, <2>1
  <2>4. d.n > 0 => first = p.snd_nxt
    BY <1>3, <1>5, <2>3 DEF First, Last
  <2>5. d.n = 0 => p.snd_nxt >= end
    BY <1>1, <1>2, <1>5, <2>1
  <2>6. d.n = 0 => first = end
    <3>1. CASE p.snd_nxt = end
      <4>1. ~("SENTFIN" \in p.t_flags /\ p.snd_nxt = p.snd_max)
        BY <1>1, <3>1
      <4> QED  BY <1>3, <1>5, <3>1, <4>1 DEF First, Last
    <3>2. CASE p.snd_nxt = end + 1
      <4>1. "SENTFIN" \in p.t_flags /\ p.snd_nxt = p.snd_max
        BY <1>1, <3>2
      <4> QED  BY <1>1, <1>3, <1>5, <3>2, <4>1 DEF First, Last
    <3> QED  BY <1>1, <2>5, <3>1, <3>2
  <2>7. upto = end /\ first \in Nat /\ p.snd_una <= first
    BY <1>1, <2>1, <2>3, <2>4, <2>6
  <2> QED  BY <1>1, <1>5, <2>2, <2>4, <2>7
<1>6. CASE p.t_state # SYN_RECEIVED /\ ~d.fin
  <2>1. first = p.snd_nxt /\ nxt = upto
    BY <1>1, <1>3, <1>6 DEF First, Last
  <2>2. d.n > 0 => p.snd_una + len = end /\ upto <= end
    BY <1>1, <1>2, <2>1 DEF Sequence
  <2> QED  BY <1>1, <1>6, <2>1, <2>2
<1> QED  BY <1>4, <1>5, <1>6

LEMMA SendSends ==
    ASSUME NEW p, Socket(p), NEW iss, NEW next, NEW end, NEW over,
           Sends(p, iss, next, end, over),
           NEW d, NEW force, d.n \in Nat,
           d.n > 0 => /\ d.off = p.snd_nxt - p.snd_una /\ p.so_snd # <<>>
                      /\ p.snd_nxt + d.n <= p.snd_una + Len(p.so_snd),
           d.fin => /\ p.t_state \in {FIN_WAIT_1, CLOSING, LAST_ACK}
                    /\ p.snd_nxt + d.n >= p.snd_una + Len(p.so_snd)
    PROVE  /\ Sends(Send(p, d, force), iss, next, end, over)
           /\ p.snd_max <= Send(p, d, force).snd_max
<1>1. Sequence(p, iss, next, end) /\ Stage(p, iss, end, over) /\ OutSaid(p, iss, next, end, over)
  BY DEF Sends
<1>2. PICK first : first = First(p, d)
  OBVIOUS
<1>3. PICK upto : upto = first + d.n
  OBVIOUS
<1>4. PICK nxt : nxt = Last(p, d, upto)
  OBVIOUS
<1>5. /\ first \in Nat /\ upto \in Nat /\ nxt \in Nat
      /\ p.snd_una <= first /\ first <= upto /\ upto <= nxt /\ nxt <= end + 1
      /\ upto <= end \/ upto <= p.snd_max
      /\ d.fin => upto = end /\ nxt = end + 1
      /\ ~d.fin => nxt <= end \/ nxt <= p.snd_max
      /\ d.n > 0 => first = p.snd_nxt
      /\ p.t_state = SYN_RECEIVED => first = iss /\ nxt <= end /\ ~d.fin
  BY <1>1, <1>2, <1>3, <1>4, SendFrom
<1>6. PICK q : q = Send(p, d, force)
  OBVIOUS
<1>7. /\ q.snd_wnd = p.snd_wnd
      /\ \/ /\ q.snd_nxt = first /\ q.snd_max = Max({p.snd_max, upto})
            /\ "SENTFIN" \in q.t_flags <=> "SENTFIN" \in p.t_flags
         \/ /\ q.snd_nxt = nxt /\ q.snd_max = Max({p.snd_max, nxt})
            /\ "SENTFIN" \in q.t_flags <=> "SENTFIN" \in p.t_flags \/ d.fin
      /\ \A w \in q.out :
                \/ w \in p.out
                \/ w = Rst
                \/ "SYN" \in tcp_outflags[p.t_state] /\ w = Syn(first)
                \/ d.fin /\ w = Fin(upto)
                \/ \E i \in 1 .. d.n : w = Nth(p, d, first, i)
  <2>1. SentFrom(p, d, q, first, upto, nxt)
    BY <1>2, <1>3, <1>4, <1>6, SendSays
  <2> QED  BY <2>1 DEF SentFrom
<1>8. Socket(q) /\ q.t_state = p.t_state /\ q.so_snd = p.so_snd /\ q.iss = p.iss
      /\ q.snd_una = p.snd_una
  BY <1>6, SendFields DEF SameOutput
<1>9. /\ p.snd_una \in Nat /\ p.snd_nxt \in Nat /\ p.snd_max \in Nat /\ end \in Nat /\ iss \in Nat
      /\ iss <= p.snd_una /\ p.snd_una <= p.snd_nxt /\ p.snd_nxt <= p.snd_max
      /\ p.snd_max <= end + 1 /\ next \in Nat \ {0} /\ end = iss + next /\ p.snd_wnd \in Int
      /\ p.iss = iss
      /\ "SENTFIN" \in p.t_flags <=> p.snd_max = end + 1
  BY <1>1 DEF Sequence
<1>10. PICK a \in Nat \ {0} : Stretch(p.so_snd, a, next)
  BY <1>1 DEF Sequence
<1>11. PICK len \in Nat : len = Len(p.so_snd)
  BY <1>10, StretchLen
<1>12. /\ q.snd_nxt \in Nat /\ q.snd_max \in Nat
       /\ p.snd_una <= q.snd_nxt /\ q.snd_nxt <= q.snd_max /\ q.snd_max <= end + 1
       /\ "SENTFIN" \in q.t_flags <=> q.snd_max = end + 1
       /\ "SENTFIN" \in q.t_flags => "SENTFIN" \in p.t_flags \/ d.fin
       /\ p.snd_max <= end /\ nxt <= end => q.snd_max <= end
       /\ p.snd_max <= q.snd_max
  <2>1. CASE /\ q.snd_nxt = first /\ q.snd_max = Max({p.snd_max, upto})
             /\ "SENTFIN" \in q.t_flags <=> "SENTFIN" \in p.t_flags
    <3>1. q.snd_max = IF p.snd_max >= upto THEN p.snd_max ELSE upto
      BY <1>5, <1>9, <2>1, MaxOfTwo
    <3> QED  BY <1>5, <1>9, <2>1, <3>1
  <2>2. CASE /\ q.snd_nxt = nxt /\ q.snd_max = Max({p.snd_max, nxt})
             /\ "SENTFIN" \in q.t_flags <=> "SENTFIN" \in p.t_flags \/ d.fin
    <3>1. q.snd_max = IF p.snd_max >= nxt THEN p.snd_max ELSE nxt
      BY <1>5, <1>9, <2>2, MaxOfTwo
    <3>2. PICK sent \in BOOLEAN : sent <=> "SENTFIN" \in p.t_flags
      OBVIOUS
    <3>3. PICK says \in BOOLEAN : says <=> "SENTFIN" \in q.t_flags
      OBVIOUS
    <3>4. PICK fin \in BOOLEAN : fin <=> d.fin
      OBVIOUS
    <3>5. says <=> sent \/ fin
      BY <2>2, <3>2, <3>3, <3>4
    <3>6. sent <=> p.snd_max = end + 1
      BY <1>9, <3>2
    <3>7. (fin => nxt = end + 1) /\ (~fin => nxt <= end \/ nxt <= p.snd_max)
      BY <1>5, <3>4
    <3>8. /\ q.snd_nxt \in Nat /\ q.snd_max \in Nat
          /\ p.snd_una <= q.snd_nxt /\ q.snd_nxt <= q.snd_max /\ q.snd_max <= end + 1
          /\ p.snd_max <= end /\ nxt <= end => q.snd_max <= end
          /\ p.snd_max <= q.snd_max
      BY <1>5, <1>9, <2>2, <3>1
    <3>9. says <=> q.snd_max = end + 1
      BY <1>5, <1>9, <3>1, <3>5, <3>6, <3>7
    <3> QED  BY <3>2, <3>3, <3>4, <3>5, <3>8, <3>9
  <2> QED  BY <1>7, <2>1, <2>2
<1>13. Sequence(q, iss, next, end)
  <2>1. q.so_snd # <<>> => q.snd_una + Len(q.so_snd) = end
    BY <1>1, <1>8 DEF Sequence
  <2> QED  BY <1>7, <1>8, <1>9, <1>10, <1>12, <2>1 DEF Sequence
<1>14. Stage(q, iss, end, over)
  <2>1. p.t_state = SYN_RECEIVED => q.snd_max <= end
    BY <1>1, <1>5, <1>12 DEF Stage
  <2>2. "SENTFIN" \in q.t_flags => q.t_state \in FinStates \cup {CLOSED}
    BY <1>1, <1>8, <1>12 DEF Stage, FinStates
  <2> QED  BY <1>1, <1>8, <2>1, <2>2 DEF Stage
<1>15. ASSUME NEW w \in q.out
       PROVE  Said(w, iss, next, end) /\ (w = Fin(end) => w \in p.out \/ d.fin)
  <2>1. CASE w \in p.out
    BY <1>1, <2>1 DEF OutSaid
  <2>2. CASE w = Rst
    BY <2>2, FinIsNone DEF Said
  <2>3. CASE "SYN" \in tcp_outflags[p.t_state] /\ w = Syn(first)
    <3>1. p.t_state = SYN_RECEIVED
      BY <1>1, <2>3, FlagsAre DEF Stage
    <3> QED  BY <1>5, <2>3, <3>1, FinIsNone DEF Said
  <2>4. CASE d.fin /\ w = Fin(upto)
    BY <1>5, <2>4 DEF Said
  <2>5. CASE \E i \in 1 .. d.n : w = Nth(p, d, first, i)
    <3>1. PICK i \in 1 .. d.n : w = Nth(p, d, first, i)
      BY <2>5
    <3>2. PICK seq : seq = first + i - 1
      OBVIOUS
    <3>3. PICK k : k = d.off + i
      OBVIOUS
    <3>4. /\ d.n > 0 /\ i \in Nat /\ 1 <= i /\ i <= d.n /\ first = p.snd_nxt
          /\ d.off = p.snd_nxt - p.snd_una /\ p.snd_una + len = end
          /\ p.snd_nxt + d.n <= p.snd_una + len
      BY <1>1, <1>5, <1>11 DEF Sequence
    <3>5. k \in 1 .. len
      <4>1. PICK off \in Int : off = d.off
        BY <1>9, <3>4
      <4>2. PICK n \in Nat : n = d.n
        OBVIOUS
      <4>3. off + n <= len /\ off >= 0
        <5>1. p.snd_nxt = p.snd_una + off
          BY <1>9, <3>4, <4>1
        <5>2. p.snd_una + off + n <= p.snd_una + len
          BY <3>4, <4>2, <5>1
        <5>3. PICK una \in Nat : una = p.snd_una
          BY <1>9
        <5>4. una <= una + off
          BY <1>9, <5>1, <5>3
        <5>5. una + off + n <= una + len
          BY <5>2, <5>3
        <5> QED  BY <5>4, <5>5
      <4>4. k = off + i /\ k \in Int
        BY <3>3, <3>4, <4>1
      <4>5. 1 <= k /\ k <= len
        BY <3>4, <4>1, <4>2, <4>3, <4>4
      <4> QED  BY <4>4, <4>5
    <3>6. PICK b : b = p.so_snd[k]
      OBVIOUS
    <3>7. b = a + (k - 1) /\ next = a + len
      BY <1>10, <1>11, <3>5, <3>6 DEF Stretch
    <3>8. b \in Nat \ {0} /\ b < next /\ seq \in Nat /\ seq = iss + b
      <4>1. b \in Nat \ {0} /\ b < next /\ k \in Nat
        BY <3>5, <3>7
      <4>2. p.snd_una = iss + a
        <5>1. p.snd_una + len = end /\ end = iss + next /\ next = a + len /\ p.snd_una \in Nat
          BY <1>9, <3>4, <3>7
        <5>2. p.snd_una \in Nat /\ iss \in Nat
          BY <1>9
        <5> QED  BY <5>1, <5>2
      <4>3. PICK off \in Int : off = d.off
        BY <1>9, <3>4
      <4>4. seq = p.snd_una + off + i - 1 /\ k = off + i
        <5>1. p.snd_nxt = p.snd_una + off
          BY <1>9, <3>4, <4>3
        <5>2. seq = p.snd_nxt + i - 1
          BY <3>2, <3>4
        <5> QED  BY <1>9, <3>3, <3>4, <4>3, <5>1, <5>2
      <4>5. seq = iss + b
        BY <1>9, <3>4, <3>7, <4>2, <4>4
      <4> QED  BY <1>9, <4>1, <4>5
    <3>9. w = Byte(seq, b)
      BY <3>1, <3>2, <3>3, <3>6 DEF Nth
    <3> QED  BY <3>8, <3>9, FinIsNone DEF Said
  <2> QED  BY <1>7, <2>1, <2>2, <2>3, <2>4, <2>5
<1>16. OutSaid(q, iss, next, end, over)
  <2>1. Fin(end) \in q.out => Fin(end) \in p.out \/ d.fin
    BY <1>15
  <2>2. d.fin => over
    BY <1>1 DEF Stage, FinStates
  <2>3. Fin(end) \in q.out => over
    BY <1>1, <2>1, <2>2 DEF OutSaid
  <2> QED  BY <1>15, <2>3 DEF OutSaid
<1> QED  BY <1>6, <1>12, <1>13, <1>14, <1>16 DEF Sends

\* tcp_output sends what is there and nothing else.
LEMMA OutputSends ==
    ASSUME NEW p, Socket(p), NEW iss, NEW next, NEW end, NEW over,
           Sends(p, iss, next, end, over),
           NEW cwnd \in Int, NEW force
    PROVE  LET q == tcp_output(p, cwnd, force) IN
           Socket(q) /\ Sends(q, iss, next, end, over) /\ p.snd_max <= q.snd_max
<1>1. PICK b : b = BeforeSend(p, cwnd, force)
  OBVIOUS
<1>2. PICK d : d = ToSend(p, cwnd, force)
  OBVIOUS
<1>3. PICK q : q = SendOrWait(b, d, force)
  OBVIOUS
<1>4. tcp_output(p, cwnd, force) = q
  BY <1>1, <1>2, <1>3, OutputIs
<1>5. Sequence(p, iss, next, end) /\ Stage(p, iss, end, over) /\ OutSaid(p, iss, next, end, over)
  BY DEF Sends
<1>6. /\ Socket(b) /\ SameOutput(p, b) /\ b.out = p.out /\ b.t_flags = p.t_flags
      /\ b.snd_max = p.snd_max /\ (b.snd_nxt = p.snd_nxt \/ b.snd_nxt = p.snd_una)
      /\ b.snd_wnd = p.snd_wnd
  <2>1. b.snd_wnd = p.snd_wnd
    BY <1>1 DEF BeforeSend, Socket, FieldNames
  <2> QED  BY <1>1, <2>1, BeforeSendFields
<1>7. Sends(b, iss, next, end, over)
  <2>1. Sequence(b, iss, next, end)
    BY <1>5, <1>6 DEF Sequence, SameOutput
  <2>2. Stage(b, iss, end, over)
    BY <1>5, <1>6 DEF Stage, SameOutput
  <2>3. OutSaid(b, iss, next, end, over)
    BY <1>5, <1>6 DEF OutSaid, SameOutput
  <2> QED  BY <2>1, <2>2, <2>3 DEF Sends
<1>8. /\ d.n \in Nat /\ d.off = p.snd_nxt - p.snd_una
      /\ d.n > 0 => /\ b.snd_nxt = p.snd_nxt /\ p.so_snd # <<>>
                    /\ p.snd_nxt + d.n <= p.snd_una + Len(p.so_snd)
      /\ d.fin => /\ p.t_state \in {FIN_WAIT_1, CLOSING, LAST_ACK}
                  /\ b.snd_nxt + d.n >= b.snd_una + Len(b.so_snd)
  BY <1>1, <1>2, <1>5, ToSendIs DEF Stage
<1>9. /\ d.n > 0 => /\ d.off = b.snd_nxt - b.snd_una /\ b.so_snd # <<>>
                    /\ b.snd_nxt + d.n <= b.snd_una + Len(b.so_snd)
      /\ d.fin => /\ b.t_state \in {FIN_WAIT_1, CLOSING, LAST_ACK}
                  /\ b.snd_nxt + d.n >= b.snd_una + Len(b.so_snd)
  BY <1>6, <1>8 DEF SameOutput
<1>10. q = Send(b, d, force) \/ q = [b EXCEPT !.timers = @ \cup {"PERSIST"}] \/ q = b
  BY <1>3 DEF SendOrWait
<1>11. CASE q = Send(b, d, force)
  <2>1. Sends(q, iss, next, end, over) /\ b.snd_max <= q.snd_max
    BY <1>6, <1>7, <1>8, <1>9, <1>11, SendSends
  <2>2. Socket(q)
    BY <1>6, <1>11, SendFields
  <2> QED  BY <1>4, <1>6, <2>1, <2>2
<1>12. CASE q = [b EXCEPT !.timers = @ \cup {"PERSIST"}]
  <2>1. /\ Socket(q) /\ SameOutput(b, q) /\ q.out = b.out /\ q.t_flags = b.t_flags
        /\ q.snd_max = b.snd_max /\ q.snd_nxt = b.snd_nxt /\ q.snd_wnd = b.snd_wnd
    BY <1>6, <1>12 DEF Socket, FieldNames, SameOutput
  <2>2. Sequence(q, iss, next, end) /\ Stage(q, iss, end, over) /\ OutSaid(q, iss, next, end, over)
    BY <1>7, <2>1 DEF Sends, Sequence, Stage, OutSaid, SameOutput
  <2>3. p.snd_max \in Nat
    BY <1>5 DEF Sequence
  <2>4. p.snd_max <= q.snd_max
    BY <1>6, <2>1, <2>3
  <2> QED  BY <1>4, <2>1, <2>2, <2>4 DEF Sends
<1>13. CASE q = b
  <2>1. p.snd_max \in Nat
    BY <1>5 DEF Sequence
  <2> QED  BY <1>4, <1>6, <1>7, <1>13, <2>1
<1> QED  BY <1>10, <1>11, <1>12, <1>13

-----------------------------------------------------------------------------
(* The send side through the functions of tcp_input *)

\* Of the connection, what the functions of the receive side leave alone.
Aside(p, q) == Socket(q) /\ SameSend(p, q) /\ q.t_state = p.t_state

LEMMA AppendAside ==
    ASSUME NEW p, Socket(p), NEW data, NEW k
    PROVE  Aside(p, sbappend(p, data, k))
<1>1. PICK n : n = IF p.so_rcv = <<>> THEN Min({k, Len(data)}) ELSE 0
  OBVIOUS
<1>2. PICK got : got = p.got \o SubSeq(data, 1, n)
  OBVIOUS
<1>3. PICK b : b = [p EXCEPT !.got = got]
  OBVIOUS
<1>4. PICK rest : rest = From(data, n)
  OBVIOUS
<1>5. sbappend(p, data, k) = sbappendsb(b, rest)
  BY <1>1, <1>2, <1>3, <1>4 DEF sbappend
<1>6. PICK room : room = IF sbspace(b) = 0 THEN RcvSpace ELSE sbspace(b)
  OBVIOUS
<1>7. PICK rcv : rcv = b.so_rcv \o SubSeq(rest, 1, Min({Len(rest), room}))
  OBVIOUS
<1>8. sbappendsb(b, rest) = [b EXCEPT !.so_rcv = rcv]
  BY <1>6, <1>7 DEF sbappendsb
<1>9. Aside(p, b)
  BY <1>3 DEF Aside, Socket, FieldNames, SameSend
<1>10. Aside(b, [b EXCEPT !.so_rcv = rcv])
  BY <1>9 DEF Aside, Socket, FieldNames, SameSend
<1> QED  BY <1>5, <1>8, <1>9, <1>10 DEF Aside, SameSend

LEMMA PresentAside ==
    ASSUME NEW p, Socket(p), NEW k
    PROVE  Aside(p, Present(p, k).so)
<1> DEFINE turn == InTurn(p.reass, p.rcv_nxt)
           end == Max({EndOf(e) : e \in turn})
           holder(b) == CHOOSE e \in turn : e.seq <= b /\ b < EndOf(e)
           data == [i \in 1 .. end - p.rcv_nxt |->
                       LET b == p.rcv_nxt + i - 1 IN holder(b).data[b - holder(b).seq + 1]]
           q == [p EXCEPT !.reass = @ \ turn, !.rcv_nxt = end]
<1>1. \/ Present(p, k).so = p
      \/ Present(p, k).so = q
      \/ Present(p, k).so = sbappend(q, data, k)
  BY Zenon DEF Present
<1>2. PICK d : d = data
  OBVIOUS
<1>3. PICK e, t : e = end /\ t = p.reass \ turn
  OBVIOUS
<1>4. q = [p EXCEPT !.reass = t, !.rcv_nxt = e]
  BY <1>3
<1>5. \/ Present(p, k).so = p
      \/ Present(p, k).so = q
      \/ Present(p, k).so = sbappend(q, d, k)
  BY <1>1, <1>2
<1> HIDE DEF q, turn, end, data
<1>6. Aside(p, q) /\ Aside(p, p)
  BY <1>4 DEF Aside, Socket, FieldNames, SameSend
<1>7. Aside(q, sbappend(q, d, k))
  BY <1>6, AppendAside DEF Aside
<1> QED  BY <1>5, <1>6, <1>7 DEF Aside, SameSend

LEMMA ReassAside ==
    ASSUME NEW p, Socket(p), NEW s, NEW k
    PROVE  Aside(p, TCP_REASS(p, s, k).so)
<1>1. PICK e : e = [seq |-> s.seq, data |-> s.data, fin |-> s.fin]
  OBVIOUS
<1>2. PICK queue : queue = Enqueue(p.reass, e)
  OBVIOUS
<1>3. PICK b : b = [p EXCEPT !.reass = queue]
  OBVIOUS
<1>4. PICK r : r = Present(b, k)
  OBVIOUS
<1>5. PICK nxt : nxt = p.rcv_nxt + Len(s.data)
  OBVIOUS
<1>6. PICK c : c = [p EXCEPT !.rcv_nxt = nxt, !.t_flags = @ \cup {"DELACK"}]
  OBVIOUS
<1>7. Aside(p, b) /\ Aside(p, c)
  BY <1>3, <1>6 DEF Aside, Socket, FieldNames, SameSend
<1>8. PICK data : data = s.data
  OBVIOUS
<1>9. CASE s.seq = p.rcv_nxt /\ p.reass = {} /\ p.t_state = ESTABLISHED
  <2>1. TCP_REASS(p, s, k).so = sbappend(c, data, k)
    BY <1>1, <1>5, <1>6, <1>8, <1>9 DEF TCP_REASS
  <2> QED  BY <1>7, <2>1, AppendAside DEF Aside, SameSend
<1>10. CASE ~(s.seq = p.rcv_nxt /\ p.reass = {} /\ p.t_state = ESTABLISHED)
  <2>1. TCP_REASS(p, s, k) = [r EXCEPT !.so.t_flags = @ \cup {"ACKNOW"}]
    BY <1>1, <1>2, <1>3, <1>4, <1>10 DEF TCP_REASS
  <2>2. r = [so |-> r.so, fin |-> r.fin]
    <3>1. \E x, y : r = [so |-> x, fin |-> y]
      BY <1>4, Zenon DEF Present
    <3> QED  BY <3>1
  <2>3. TCP_REASS(p, s, k).so = [r.so EXCEPT !.t_flags = @ \cup {"ACKNOW"}]
    BY <2>1, <2>2
  <2>4. Aside(b, r.so)
    BY <1>4, <1>7, PresentAside DEF Aside
  <2>5. Aside(r.so, [r.so EXCEPT !.t_flags = @ \cup {"ACKNOW"}])
    BY <2>4 DEF Aside, Socket, FieldNames, SameSend
  <2> QED  BY <1>7, <2>3, <2>4, <2>5 DEF Aside, SameSend
<1> QED  BY <1>9, <1>10

SendOpen(p, iss, next, end, over) == Socket(p) /\ Sends(p, iss, next, end, over)

\* Changes of the state that leave the stream as it is.
Follows(a, b) ==
    \/ b = a
    \/ /\ a >= ESTABLISHED /\ b \in ESTABLISHED .. TIME_WAIT
       /\ a \in FinStates <=> b \in FinStates
       /\ a \in {FIN_WAIT_2, TIME_WAIT} => b \in {FIN_WAIT_2, TIME_WAIT}

LEMMA SendSame ==
    ASSUME NEW p, NEW iss, NEW next, NEW end, NEW over, SendOpen(p, iss, next, end, over),
           NEW q, Socket(q), SameSend(p, q), Follows(p.t_state, q.t_state)
    PROVE  SendOpen(q, iss, next, end, over)
<1>1. Sequence(p, iss, next, end) /\ Stage(p, iss, end, over) /\ OutSaid(p, iss, next, end, over)
  BY DEF SendOpen, Sends
<1>2. Sequence(q, iss, next, end)
  BY <1>1 DEF Sequence, SameSend
<1>3. OutSaid(q, iss, next, end, over)
  BY <1>1 DEF OutSaid, SameSend
<1>4. Stage(q, iss, end, over)
  <2>1. CASE q.t_state = p.t_state
    BY <1>1, <2>1 DEF Stage, SameSend
  <2>2. CASE q.t_state # p.t_state
    <3>1. /\ p.t_state >= ESTABLISHED /\ q.t_state \in ESTABLISHED .. TIME_WAIT
          /\ p.t_state \in FinStates <=> q.t_state \in FinStates
          /\ p.t_state \in {FIN_WAIT_2, TIME_WAIT} => q.t_state \in {FIN_WAIT_2, TIME_WAIT}
          /\ p.t_state \in CLOSED .. TIME_WAIT
      BY <1>1, <2>2 DEF Follows, Stage
    <3>2. /\ q.t_state \in CLOSED .. TIME_WAIT /\ q.t_state # SYN_RECEIVED
          /\ q.t_state # CLOSED /\ p.t_state # CLOSED
      BY <3>1 DEF CLOSED, SYN_RECEIVED, ESTABLISHED, TIME_WAIT
    <3>3. \/ q.snd_una + Len(q.so_snd) = end
          \/ q.snd_una = end + 1 /\ q.t_state \in {FIN_WAIT_2, TIME_WAIT}
      <4>1. \/ p.snd_una + Len(p.so_snd) = end
            \/ p.snd_una = end + 1 /\ p.t_state \in {FIN_WAIT_2, TIME_WAIT}
        BY <1>1, <3>1 DEF Stage
      <4> QED  BY <3>1, <4>1 DEF SameSend
    <3>4. "SENTFIN" \in q.t_flags => q.t_state \in FinStates
      BY <1>1, <3>1, <3>2 DEF Stage, SameSend
    <3>5. q.t_state \in FinStates => over
      BY <1>1, <3>1 DEF Stage
    <3> QED  BY <3>2, <3>3, <3>4, <3>5 DEF Stage
  <2> QED  BY <2>1, <2>2
<1> QED  BY <1>2, <1>3, <1>4 DEF SendOpen, Sends

LEMMA SendAside ==
    ASSUME NEW p, NEW iss, NEW next, NEW end, NEW over, SendOpen(p, iss, next, end, over),
           NEW q, Aside(p, q)
    PROVE  SendOpen(q, iss, next, end, over)
<1>1. Socket(q) /\ SameSend(p, q) /\ Follows(p.t_state, q.t_state)
  BY DEF Aside, Follows
<1> QED  BY <1>1, SendSame

LEMMA OutputOpen ==
    ASSUME NEW p, NEW iss, NEW next, NEW end, NEW over, SendOpen(p, iss, next, end, over),
           NEW cwnd \in Int, NEW force
    PROVE  SendOpen(tcp_output(p, cwnd, force), iss, next, end, over)
BY OutputSends DEF SendOpen

LEMMA WindowSends ==
    ASSUME NEW p, NEW iss, NEW next, NEW end, NEW over, SendOpen(p, iss, next, end, over),
           NEW s, s.win \in Int
    PROVE  /\ SendOpen(WindowOf(p, s), iss, next, end, over)
           /\ WindowOf(p, s).t_state = p.t_state
<1>1. PICK q : q = WindowOf(p, s)
  OBVIOUS
<1>2. /\ Socket(q) /\ SameInput(p, q) /\ SameOutput(p, q)
      /\ q.snd_nxt = p.snd_nxt /\ q.snd_max = p.snd_max /\ q.out = p.out
      /\ q.t_flags = p.t_flags /\ (q.snd_wnd = p.snd_wnd \/ q.snd_wnd = s.win)
  BY <1>1, WindowOfFields DEF SendOpen
<1>3. Sequence(p, iss, next, end) /\ Stage(p, iss, end, over) /\ OutSaid(p, iss, next, end, over)
  BY DEF SendOpen, Sends
<1>4. Sequence(q, iss, next, end) /\ Stage(q, iss, end, over) /\ OutSaid(q, iss, next, end, over)
  BY <1>2, <1>3 DEF Sequence, Stage, OutSaid, SameOutput
<1> QED  BY <1>1, <1>2, <1>4 DEF SendOpen, Sends, SameOutput

LEMMA OnFinSends ==
    ASSUME NEW p, NEW iss, NEW next, NEW end, NEW over, SendOpen(p, iss, next, end, over),
           p.t_state >= ESTABLISHED
    PROVE  SendOpen(OnFin(p), iss, next, end, over)
<1>1. PICK q : q = OnFin(p)
  OBVIOUS
<1>2. Socket(q) /\ SameSend(p, q) /\ q.t_state = AfterFin(p.t_state)
  BY <1>1, OnFinIs DEF SendOpen
<1>3. p.t_state \in CLOSED .. TIME_WAIT
  BY DEF SendOpen, Sends, Stage
<1>4. Follows(p.t_state, q.t_state)
  BY <1>2, <1>3 DEF Follows, AfterFin, FinStates, CLOSED, SYN_RECEIVED, ESTABLISHED, CLOSE_WAIT,
                    FIN_WAIT_1, CLOSING, LAST_ACK, FIN_WAIT_2, TIME_WAIT
<1> QED  BY <1>1, <1>2, <1>4, SendSame

LEMMA Step6Sends ==
    ASSUME NEW p, NEW iss, NEW next, NEW end, NEW over, SendOpen(p, iss, next, end, over),
           p.t_state >= ESTABLISHED, NEW s, s.win \in Int, NEW needoutput, NEW cwnd \in Int, NEW k
    PROVE  SendOpen(Step6(p, s, needoutput, cwnd, k), iss, next, end, over)
<1>1. PICK w : w = WindowOf(p, s)
  OBVIOUS
<1>2. SendOpen(w, iss, next, end, over) /\ w.t_state = p.t_state
  BY <1>1, WindowSends
<1>3. PICK text : text = ((s.data # <<>> \/ "FIN" \in s.flags) /\ p.t_state < TIME_WAIT)
  OBVIOUS
<1>4. PICK r : r = IF text THEN TCP_REASS(w, s, k) ELSE [so |-> w, fin |-> FALSE]
  OBVIOUS
<1>5. SendOpen(r.so, iss, next, end, over) /\ r.so.t_state = p.t_state
  <2>1. CASE text
    <3>1. Aside(w, r.so)
      BY <1>2, <1>4, <2>1, ReassAside DEF SendOpen
    <3> QED  BY <1>2, <3>1, SendAside DEF Aside
  <2>2. CASE ~ text
    <3>1. r.so = w
      BY <1>4, <2>2
    <3> QED  BY <1>2, <3>1
  <2> QED  BY <2>1, <2>2
<1>6. PICK q : q = IF r.fin THEN OnFin(r.so) ELSE r.so
  OBVIOUS
<1>7. SendOpen(q, iss, next, end, over)
  BY <1>5, <1>6, OnFinSends
<1>8. \/ Step6(p, s, needoutput, cwnd, k) = tcp_output(q, cwnd, FALSE)
      \/ Step6(p, s, needoutput, cwnd, k) = q
  BY <1>1, <1>3, <1>4, <1>6 DEF Step6
<1> QED  BY <1>7, <1>8, OutputOpen

LEMMA DropAfterAckSends ==
    ASSUME NEW p, NEW iss, NEW next, NEW end, NEW over, SendOpen(p, iss, next, end, over),
           NEW cwnd \in Int
    PROVE  SendOpen(DropAfterAck(p, cwnd), iss, next, end, over)
<1>1. PICK q : q = [p EXCEPT !.t_flags = @ \cup {"ACKNOW"}]
  OBVIOUS
<1>2. Aside(p, q)
  BY <1>1 DEF SendOpen, Aside, Socket, FieldNames, SameSend
<1>3. SendOpen(q, iss, next, end, over)
  BY <1>2, SendAside
<1> QED  BY <1>1, <1>3, OutputOpen DEF DropAfterAck

\* Sending may start again anywhere between what was acknowledged and what was sent.
LEMMA SendMoved ==
    ASSUME NEW p, NEW iss, NEW next, NEW end, NEW over, SendOpen(p, iss, next, end, over),
           NEW q, Socket(q), q.t_state = p.t_state, q.so_snd = p.so_snd, q.iss = p.iss,
           q.snd_una = p.snd_una, q.snd_max = p.snd_max, q.snd_wnd = p.snd_wnd, q.out = p.out,
           "SENTFIN" \in q.t_flags <=> "SENTFIN" \in p.t_flags,
           q.snd_nxt \in Nat, p.snd_una <= q.snd_nxt, q.snd_nxt <= p.snd_max
    PROVE  SendOpen(q, iss, next, end, over)
<1>1. Sequence(p, iss, next, end) /\ Stage(p, iss, end, over) /\ OutSaid(p, iss, next, end, over)
  BY DEF SendOpen, Sends
<1>2. Sequence(q, iss, next, end)
  BY <1>1 DEF Sequence
<1>3. Stage(q, iss, end, over) /\ OutSaid(q, iss, next, end, over)
  BY <1>1 DEF Stage, OutSaid
<1> QED  BY <1>2, <1>3 DEF SendOpen, Sends

LEMMA FastRexmtSends ==
    ASSUME NEW p, NEW iss, NEW next, NEW end, NEW over, SendOpen(p, iss, next, end, over),
           NEW s, s.ack = p.snd_una
    PROVE  SendOpen(FastRexmt(p, s), iss, next, end, over)
<1>0. /\ p.snd_una \in Nat /\ p.snd_nxt \in Nat /\ p.snd_max \in Nat
      /\ p.snd_una <= p.snd_nxt /\ p.snd_nxt <= p.snd_max /\ Socket(p)
  BY DEF SendOpen, Sends, Sequence
<1>1. PICK b : b = [p EXCEPT !.t_dupacks = @ + 1, !.snd_nxt = s.ack, !.timers = @ \ {"REXMT"}]
  OBVIOUS
<1>2. /\ Socket(b) /\ b.t_state = p.t_state /\ b.so_snd = p.so_snd /\ b.iss = p.iss
      /\ b.snd_una = p.snd_una /\ b.snd_max = p.snd_max /\ b.snd_wnd = p.snd_wnd
      /\ b.out = p.out /\ b.t_flags = p.t_flags /\ b.snd_nxt = p.snd_una
  BY <1>0, <1>1 DEF Socket, FieldNames
<1>3. SendOpen(b, iss, next, end, over)
  BY <1>0, <1>2, SendMoved
<1>4. PICK force, q : force = FALSE /\ q = tcp_output(b, Mss, force)
  OBVIOUS
<1>5. Mss \in Int
  BY Sizes
<1>6. SendOpen(q, iss, next, end, over)
  BY <1>3, <1>4, <1>5, OutputOpen
<1>7. b.snd_max <= q.snd_max
  BY <1>3, <1>4, <1>5, OutputSends DEF SendOpen
<1>8. q.snd_una = p.snd_una
  BY <1>2, <1>4, OutputFields DEF SameOutput
<1>9. /\ q.snd_nxt \in Nat /\ q.snd_max \in Nat
      /\ q.snd_una <= q.snd_nxt /\ q.snd_nxt <= q.snd_max /\ Socket(q)
  BY <1>6 DEF SendOpen, Sends, Sequence
<1>10. PICK nxt : nxt = Max({q.snd_nxt, p.snd_nxt})
  OBVIOUS
<1>11. nxt = IF q.snd_nxt >= p.snd_nxt THEN q.snd_nxt ELSE p.snd_nxt
  BY <1>0, <1>9, <1>10, MaxOfTwo
<1>12. nxt \in Nat /\ q.snd_una <= nxt /\ nxt <= q.snd_max
  BY <1>0, <1>2, <1>7, <1>8, <1>9, <1>11
<1>13. PICK r : r = [q EXCEPT !.snd_nxt = nxt]
  OBVIOUS
<1>14. /\ Socket(r) /\ r.t_state = q.t_state /\ r.so_snd = q.so_snd /\ r.iss = q.iss
       /\ r.snd_una = q.snd_una /\ r.snd_max = q.snd_max /\ r.snd_wnd = q.snd_wnd
       /\ r.out = q.out /\ r.t_flags = q.t_flags /\ r.snd_nxt = nxt
  BY <1>9, <1>13 DEF Socket, FieldNames
<1>15. SendOpen(r, iss, next, end, over)
  BY <1>6, <1>12, <1>14, SendMoved
<1>16. FastRexmt(p, s) = r
  BY <1>1, <1>4, <1>10, <1>13 DEF FastRexmt
<1> QED  BY <1>15, <1>16

\* What an ack of new data does to the send side.
Acked(p, q, ack) ==
    /\ Socket(q) /\ q.t_state = p.t_state /\ q.iss = p.iss /\ q.out = p.out
    /\ "SENTFIN" \in q.t_flags <=> "SENTFIN" \in p.t_flags
    /\ q.snd_max = p.snd_max /\ q.snd_wnd \in Int
    /\ q.snd_una = ack /\ q.snd_nxt = Max({p.snd_nxt, ack})
    /\ q.so_snd = From(p.so_snd, Min({ack - p.snd_una, Len(p.so_snd)}))

LEMMA AckedSends ==
    ASSUME NEW p, NEW iss, NEW next, NEW end, NEW over, SendOpen(p, iss, next, end, over),
           p.t_state >= ESTABLISHED, NEW ack \in Int, p.snd_una <= ack, ack <= p.snd_max,
           NEW q, Acked(p, q, ack)
    PROVE  /\ Sequence(q, iss, next, end) /\ OutSaid(q, iss, next, end, over)
           /\ p.t_state \in FinStates => over
           /\ IF ack - p.snd_una > Len(p.so_snd)
              THEN q.snd_una = end + 1 /\ q.so_snd = <<>> /\ p.t_state \in FinStates
              ELSE Stage(q, iss, end, over)
<1>1. Sequence(p, iss, next, end) /\ Stage(p, iss, end, over) /\ OutSaid(p, iss, next, end, over)
  BY DEF SendOpen, Sends
<1>2. /\ p.snd_una \in Nat /\ p.snd_nxt \in Nat /\ p.snd_max \in Nat /\ end \in Nat /\ iss \in Nat
      /\ iss <= p.snd_una /\ p.snd_una <= p.snd_nxt /\ p.snd_nxt <= p.snd_max
      /\ p.snd_max <= end + 1 /\ next \in Nat \ {0} /\ end = iss + next /\ p.iss = iss
      /\ "SENTFIN" \in p.t_flags <=> p.snd_max = end + 1
  BY <1>1 DEF Sequence
<1>3. PICK a \in Nat \ {0} : Stretch(p.so_snd, a, next)
  BY <1>1 DEF Sequence
<1>4. PICK len \in Nat : len = Len(p.so_snd)
  BY <1>3, StretchLen
<1>5. PICK gone : gone = Min({ack - p.snd_una, len})
  OBVIOUS
<1>6. gone = (IF ack - p.snd_una <= len THEN ack - p.snd_una ELSE len) /\ gone \in Nat /\ gone <= len
  <2>1. ack - p.snd_una \in Nat
    BY <1>2
  <2>2. PICK k \in Nat : k = ack - p.snd_una
    BY <2>1
  <2>3. gone = IF k <= len THEN k ELSE len
    BY <1>5, <2>2, MinOfTwo
  <2> QED  BY <2>2, <2>3
<1>7. q.so_snd = From(p.so_snd, gone)
  BY <1>4, <1>5 DEF Acked
<1>8. PICK c : c = a + gone
  OBVIOUS
<1>9. c \in Nat \ {0} /\ Stretch(q.so_snd, c, next) /\ Len(q.so_snd) = len - gone
  <2>1. c \in Nat \ {0}
    BY <1>6, <1>8
  <2>2. gone \in Nat /\ gone <= Len(p.so_snd)
    BY <1>4, <1>6
  <2>3. Stretch(From(p.so_snd, gone), c, next) /\ Len(From(p.so_snd, gone)) = Len(p.so_snd) - gone
    BY <1>3, <1>8, <2>2, StretchFrom
  <2> QED  BY <1>4, <1>7, <2>1, <2>3
<1>10. /\ q.snd_una = ack /\ q.snd_nxt = Max({p.snd_nxt, ack}) /\ q.snd_max = p.snd_max
       /\ q.iss = iss /\ q.snd_wnd \in Int /\ q.out = p.out /\ q.t_state = p.t_state
       /\ "SENTFIN" \in q.t_flags <=> "SENTFIN" \in p.t_flags
  BY <1>2 DEF Acked
<1>11. q.snd_nxt = IF p.snd_nxt >= ack THEN p.snd_nxt ELSE ack
  BY <1>2, <1>10, MaxOfTwo
<1>12. /\ q.snd_una \in Nat /\ q.snd_nxt \in Nat /\ iss <= q.snd_una
       /\ q.snd_una <= q.snd_nxt /\ q.snd_nxt <= q.snd_max
  BY <1>2, <1>10, <1>11
<1>13. q.so_snd # <<>> => q.snd_una + Len(q.so_snd) = end
  <2> SUFFICES ASSUME q.so_snd # <<>> PROVE q.snd_una + Len(q.so_snd) = end
    OBVIOUS
  <2>1. Len(q.so_snd) # 0
    BY <1>9, StretchLen
  <2>2. len # 0 /\ gone = ack - p.snd_una
    BY <1>6, <1>9, <2>1
  <2>3. p.snd_una + len = end
    BY <1>1, <1>4, <2>2 DEF Sequence
  <2> QED  BY <1>2, <1>9, <1>10, <2>2, <2>3
<1>14. Sequence(q, iss, next, end)
  BY <1>2, <1>9, <1>10, <1>12, <1>13 DEF Sequence
<1>15. OutSaid(q, iss, next, end, over)
  BY <1>1, <1>10 DEF OutSaid
<1>16. \/ p.snd_una + len = end
       \/ p.snd_una = end + 1 /\ p.t_state \in {FIN_WAIT_2, TIME_WAIT}
  BY <1>1, <1>4 DEF Stage
<1>17. p.t_state # SYN_RECEIVED /\ p.t_state # CLOSED
  BY DEF CLOSED, SYN_RECEIVED, ESTABLISHED
<1>18. CASE ack - p.snd_una > len
  <2>1. p.snd_una + len = end
    <3>1. CASE p.snd_una = end + 1
      <4>1. ack > p.snd_una
        BY <1>2, <1>18
      <4>2. ack <= end + 1
        BY <1>2
      <4> QED  BY <1>2, <3>1, <4>1, <4>2
    <3> QED  BY <1>16, <3>1
  <2>2. ack = end + 1 /\ p.snd_max = end + 1
    BY <1>2, <1>4, <1>18, <2>1
  <2>3. p.t_state \in FinStates
    BY <1>1, <1>2, <1>17, <2>2 DEF Stage
  <2>4. Len(q.so_snd) = 0
    BY <1>6, <1>9, <1>18
  <2>5. q.so_snd = <<>>
    BY <1>9, <2>4, StretchLen
  <2> QED  BY <1>1, <1>4, <1>10, <1>14, <1>15, <1>18, <2>2, <2>3, <2>5 DEF Stage
<1>19. CASE ~(ack - p.snd_una > len)
  <2>1. gone = ack - p.snd_una
    BY <1>2, <1>6, <1>19
  <2>2. \/ q.snd_una + Len(q.so_snd) = end
        \/ q.snd_una = end + 1 /\ q.t_state \in {FIN_WAIT_2, TIME_WAIT}
    <3>1. CASE p.snd_una + len = end
      BY <1>2, <1>9, <1>10, <2>1, <3>1
    <3>2. CASE p.snd_una = end + 1 /\ p.t_state \in {FIN_WAIT_2, TIME_WAIT}
      BY <1>2, <1>10, <3>2
    <3> QED  BY <1>16, <3>1, <3>2
  <2>3. Stage(q, iss, end, over)
    BY <1>1, <1>10, <1>17, <2>2 DEF Stage
  <2> QED  BY <1>1, <1>4, <1>14, <1>15, <1>19, <2>3 DEF Stage
<1> QED  BY <1>18, <1>19

LEMMA LessIs ==
    ASSUME NEW wnd \in Int, NEW n \in Int
    PROVE  Less(wnd, n) \in Int
<1>1. PICK m \in Nat \ {0} : m = WndMod
  BY Sizes
<1>2. PICK x \in Int : x = wnd - n
  OBVIOUS
<1>3. x % m \in Int
  OBVIOUS
<1> QED  BY <1>1, <1>2, <1>3 DEF Less

LEMMA NewAckSends ==
    ASSUME NEW p, NEW iss, NEW next, NEW end, NEW over, SendOpen(p, iss, next, end, over),
           NEW s, s.ack \in Int
    PROVE  /\ Acked(p, NewAck(p, s).so, s.ack)
           /\ NewAck(p, s).finAcked <=> s.ack - p.snd_una > Len(p.so_snd)
<1>1. PICK q : q = NewAck(p, s).so
  OBVIOUS
<1>2. PICK len \in Nat : len = Len(p.so_snd)
  BY StretchLen DEF SendOpen, Sends, Sequence
<1>3. PICK gone : gone = Min({s.ack - p.snd_una, len})
  OBVIOUS
<1>4. gone \in Int
  <2>1. PICK k \in Int : k = s.ack - p.snd_una
    BY DEF SendOpen, Sends, Sequence
  <2> QED  BY <1>3, <2>1, MinOfTwo
<1>5. /\ Socket(q) /\ SameInput(p, q)
      /\ q.iss = p.iss /\ q.out = p.out /\ q.t_flags = p.t_flags /\ q.snd_max = p.snd_max
      /\ q.snd_una = s.ack /\ q.snd_nxt = Max({p.snd_nxt, s.ack})
      /\ q.so_snd = From(p.so_snd, Min({s.ack - p.snd_una, Len(p.so_snd)}))
      /\ q.snd_wnd = Less(p.snd_wnd, Min({s.ack - p.snd_una, Len(p.so_snd)}))
  BY <1>1, NewAckFields DEF SendOpen
<1>6. q.snd_wnd \in Int
  <2>1. q.snd_wnd = Less(p.snd_wnd, gone)
    BY <1>2, <1>3, <1>5
  <2>2. p.snd_wnd \in Int
    BY DEF SendOpen, Sends, Sequence
  <2> QED  BY <1>4, <2>1, <2>2, LessIs
<1>7. Acked(p, q, s.ack)
  BY <1>5, <1>6 DEF Acked, SameInput
<1>8. NewAck(p, s).finAcked <=> s.ack - p.snd_una > Len(p.so_snd)
  BY DEF NewAck
<1> QED  BY <1>1, <1>7, <1>8

\* The socket is gone; what was sent stays on its way.
SendGone(p, iss, next, end, over) ==
    Socket(p) /\ p.t_state = CLOSED /\ OutSaid(p, iss, next, end, over)

SendLeft(p, iss, next, end, over) ==
    SendOpen(p, iss, next, end, over) \/ SendGone(p, iss, next, end, over)

LEMMA ResetSaid ==
    ASSUME NEW p, Socket(p), NEW iss, NEW next, NEW end, NEW over,
           OutSaid(p, iss, next, end, over)
    PROVE  LET q == DropWithReset(p) IN
           /\ Socket(q) /\ OutSaid(q, iss, next, end, over) /\ q.out = p.out \cup {Rst}
           /\ SameInput(p, q) /\ q.iss = p.iss
<1>1. PICK q : q = DropWithReset(p)
  OBVIOUS
<1>2. /\ Socket(q) /\ SameInput(p, q) /\ q.out = p.out \cup {Rst} /\ q.iss = p.iss
  BY <1>1 DEF DropWithReset, Socket, FieldNames, SameInput
<1>3. ASSUME NEW w \in q.out PROVE Said(w, iss, next, end)
  <2>1. CASE w \in p.out
    BY <2>1 DEF OutSaid
  <2>2. CASE w = Rst
    BY <2>2 DEF Said
  <2> QED  BY <1>2, <2>1, <2>2
<1>4. Fin(end) \in q.out => over
  BY <1>2, FinIsNone DEF OutSaid
<1> QED  BY <1>1, <1>2, <1>3, <1>4 DEF OutSaid

LEMMA CloseGone ==
    ASSUME NEW p, NEW iss, NEW next, NEW end, NEW over, OutSaid(p, iss, next, end, over), NEW why
    PROVE  /\ SendGone(tcp_close(p, why), iss, next, end, over)
           /\ SendGone(DropWithReset(tcp_close(p, why)), iss, next, end, over)
<1>1. PICK q : q = tcp_close(p, why)
  OBVIOUS
<1>2. Socket(q) /\ q.t_state = CLOSED /\ q.out = p.out
  BY <1>1 DEF tcp_close, NewSocket, Socket, FieldNames
<1>3. SendGone(q, iss, next, end, over)
  BY <1>2 DEF SendGone, OutSaid
<1>4. SendGone(DropWithReset(q), iss, next, end, over)
  <2>1. PICK r : r = DropWithReset(q)
    OBVIOUS
  <2>2. Socket(r) /\ OutSaid(r, iss, next, end, over) /\ SameInput(q, r)
    BY <1>2, <1>3, <2>1, ResetSaid DEF SendGone
  <2> QED  BY <1>2, <2>1, <2>2 DEF SendGone, SameInput
<1> QED  BY <1>1, <1>3, <1>4

LEMMA DropGone ==
    ASSUME NEW p, NEW iss, NEW next, NEW end, NEW over, SendOpen(p, iss, next, end, over),
           NEW cwnd \in Int
    PROVE  /\ SendGone(tcp_drop(p, cwnd), iss, next, end, over)
           /\ SendGone(DropWithReset(tcp_drop(p, cwnd)), iss, next, end, over)
<1>1. PICK c : c = [p EXCEPT !.t_state = CLOSED]
  OBVIOUS
<1>2. Socket(c) /\ SameSend(p, c) /\ c.t_state = CLOSED
  BY <1>1 DEF SendOpen, Socket, FieldNames, SameSend
<1>3. Sequence(p, iss, next, end) /\ Stage(p, iss, end, over) /\ OutSaid(p, iss, next, end, over)
  BY DEF SendOpen, Sends
<1>4. Sequence(c, iss, next, end) /\ OutSaid(c, iss, next, end, over)
  BY <1>2, <1>3 DEF Sequence, OutSaid, SameSend
<1>5. Stage(c, iss, end, over)
  BY <1>2 DEF Stage, FinStates, CLOSED, SYN_RECEIVED, ESTABLISHED, FIN_WAIT_1, CLOSING, LAST_ACK,
              FIN_WAIT_2, TIME_WAIT
<1>6. SendOpen(c, iss, next, end, over)
  BY <1>2, <1>4, <1>5 DEF SendOpen, Sends
<1>7. PICK q : q = tcp_output(c, cwnd, FALSE)
  OBVIOUS
<1>8. SendOpen(q, iss, next, end, over)
  BY <1>6, <1>7, OutputOpen
<1>9. tcp_drop(p, cwnd) = tcp_close(q, "dropped")
  BY <1>1, <1>7 DEF tcp_drop
<1> QED  BY <1>8, <1>9, CloseGone DEF SendOpen, Sends

LEMMA FinAckedIs ==
    ASSUME NEW p, Socket(p)
    PROVE  LET q == FinAcked(p) IN
           IF p.t_state = LAST_ACK THEN q = tcp_close(p, "done")
           ELSE /\ Socket(q) /\ SameSend(p, q)
                /\ q.t_state = IF p.t_state = FIN_WAIT_1 THEN FIN_WAIT_2
                               ELSE IF p.t_state = CLOSING THEN TIME_WAIT ELSE p.t_state
<1>1. PICK q : q = FinAcked(p)
  OBVIOUS
<1>2. CASE p.t_state = LAST_ACK
  <2>1. q = tcp_close(p, "done")
    BY <1>1, <1>2 DEF FinAcked, FIN_WAIT_1, CLOSING, LAST_ACK
  <2> QED  BY <1>1, <1>2, <2>1
<1>3. CASE p.t_state = FIN_WAIT_1
  <2>1. PICK t : t = p.timers \cup IF "FCANTRCVMORE" \in p.so_state THEN {"2MSL"} ELSE {}
    OBVIOUS
  <2>2. q = [p EXCEPT !.t_state = FIN_WAIT_2, !.timers = t]
    BY <1>1, <1>3, <2>1 DEF FinAcked, FIN_WAIT_1, CLOSING, LAST_ACK
  <2>3. Socket(q) /\ SameSend(p, q) /\ q.t_state = FIN_WAIT_2
    BY <2>2 DEF Socket, FieldNames, SameSend
  <2> QED  BY <1>1, <1>3, <2>3 DEF FIN_WAIT_1, LAST_ACK
<1>4. CASE p.t_state = CLOSING
  <2>1. q = [p EXCEPT !.t_state = TIME_WAIT, !.timers = {"2MSL"}]
    BY <1>1, <1>4 DEF FinAcked, FIN_WAIT_1, CLOSING, LAST_ACK
  <2>2. Socket(q) /\ SameSend(p, q) /\ q.t_state = TIME_WAIT
    BY <2>1 DEF Socket, FieldNames, SameSend
  <2> QED  BY <1>1, <1>4, <2>2 DEF FIN_WAIT_1, CLOSING, LAST_ACK
<1>5. CASE p.t_state \notin {FIN_WAIT_1, CLOSING, LAST_ACK}
  <2>1. q = p
    BY <1>1, <1>5 DEF FinAcked
  <2> QED  BY <1>1, <1>5, <2>1 DEF SameSend
<1> QED  BY <1>2, <1>3, <1>4, <1>5

LEMMA NewAckLeaves ==
    ASSUME NEW p, NEW iss, NEW next, NEW end, NEW over, SendOpen(p, iss, next, end, over),
           p.t_state >= ESTABLISHED,
           NEW s, s.ack \in Int, p.snd_una <= s.ack, s.ack <= p.snd_max,
           NEW a, a = NewAck(p, s),
           NEW q, q = IF a.finAcked THEN FinAcked(a.so) ELSE a.so
    PROVE  IF p.t_state = LAST_ACK /\ a.finAcked THEN SendGone(q, iss, next, end, over)
           ELSE SendOpen(q, iss, next, end, over) /\ q.t_state >= ESTABLISHED
<1>1. PICK ack \in Int : ack = s.ack
  OBVIOUS
<1>2. PICK b : b = a.so
  OBVIOUS
<1>3. Acked(p, b, ack) /\ (a.finAcked <=> ack - p.snd_una > Len(p.so_snd))
  BY <1>1, <1>2, NewAckSends
<1>4. /\ Sequence(b, iss, next, end) /\ OutSaid(b, iss, next, end, over)
      /\ p.t_state \in FinStates => over
      /\ IF ack - p.snd_una > Len(p.so_snd)
         THEN b.snd_una = end + 1 /\ b.so_snd = <<>> /\ p.t_state \in FinStates
         ELSE Stage(b, iss, end, over)
  BY <1>1, <1>3, AckedSends
<1>5. Socket(b) /\ b.t_state = p.t_state
  BY <1>3 DEF Acked
<1>6. CASE ~ a.finAcked
  <2>1. q = b /\ Stage(b, iss, end, over)
    BY <1>2, <1>3, <1>4, <1>6
  <2> QED  BY <1>4, <1>5, <1>6, <2>1 DEF SendOpen, Sends
<1>7. CASE a.finAcked /\ p.t_state = LAST_ACK
  <2>1. q = tcp_close(b, "done")
    BY <1>2, <1>5, <1>7, FinAckedIs
  <2> QED  BY <1>4, <1>7, <2>1, CloseGone
<1>8. CASE a.finAcked /\ p.t_state # LAST_ACK
  <2>1. /\ Socket(q) /\ SameSend(b, q)
        /\ q.t_state = IF b.t_state = FIN_WAIT_1 THEN FIN_WAIT_2
                       ELSE IF b.t_state = CLOSING THEN TIME_WAIT ELSE b.t_state
    BY <1>2, <1>5, <1>8, FinAckedIs
  <2>2. b.snd_una = end + 1 /\ b.so_snd = <<>> /\ p.t_state \in FinStates /\ over
    BY <1>3, <1>4, <1>8
  <2>3. q.t_state \in {FIN_WAIT_2, TIME_WAIT}
    BY <1>5, <1>8, <2>1, <2>2 DEF FinStates
  <2>4. Sequence(q, iss, next, end) /\ OutSaid(q, iss, next, end, over)
    BY <1>4, <2>1 DEF Sequence, OutSaid, SameSend
  <2>5. Stage(q, iss, end, over)
    BY <2>1, <2>2, <2>3 DEF Stage, SameSend, FinStates, CLOSED, SYN_RECEIVED, ESTABLISHED,
                            FIN_WAIT_2, TIME_WAIT
  <2>6. q.t_state >= ESTABLISHED
    BY <2>3 DEF ESTABLISHED, FIN_WAIT_2, TIME_WAIT
  <2> QED  BY <1>8, <2>1, <2>4, <2>5, <2>6 DEF SendOpen, Sends
<1> QED  BY <1>6, <1>7, <1>8

LEMMA AckStatesSends ==
    ASSUME NEW p, NEW iss, NEW next, NEW end, NEW over, SendOpen(p, iss, next, end, over),
           p.t_state >= ESTABLISHED,
           NEW s, s.ack \in Int, s.win \in Int, NEW cwnd \in Int, NEW k
    PROVE  SendLeft(AckStates(p, s, cwnd, k), iss, next, end, over)
<1> DEFINE r == AckStates(p, s, cwnd, k)
<1>0. Socket(p) /\ p.snd_una \in Nat /\ p.snd_max \in Nat
  BY DEF SendOpen, Sends, Sequence
<1>1. PICK dups : dups = IF CountedDup(p, s) THEN p.t_dupacks + 1 ELSE 0
  OBVIOUS
<1>2. PICK p1 : p1 = [p EXCEPT !.t_dupacks = dups]
  OBVIOUS
<1>3. PICK p2 : p2 = [p EXCEPT !.t_dupacks = 0]
  OBVIOUS
<1>4. PICK a : a = NewAck(p, s)
  OBVIOUS
<1>5. PICK q : q = IF a.finAcked THEN FinAcked(a.so) ELSE a.so
  OBVIOUS
<1>6. PICK w : w = [q EXCEPT !.timers = @ \cup {"2MSL"}]
  OBVIOUS
<1>7. \/ CountedDup(p, s) /\ r = FastRexmt(p, s)
      \/ r = tcp_output(p, cwnd, FALSE)
      \/ r = Step6(p1, s, FALSE, cwnd, k)
      \/ r = DropAfterAck(p2, cwnd)
      \/ /\ ~(s.ack <= p.snd_una) /\ ~(s.ack > p.snd_max)
         /\ \/ p.t_state = LAST_ACK /\ a.finAcked /\ r = q
            \/ ~(p.t_state = LAST_ACK /\ a.finAcked) /\ r = DropAfterAck(w, cwnd)
            \/ ~(p.t_state = LAST_ACK /\ a.finAcked) /\ r = Step6(q, s, a.output, cwnd, k)
  BY <1>1, <1>2, <1>3, <1>4, <1>5, <1>6 DEF AckStates
<1> HIDE DEF r
<1>8. SendOpen(p1, iss, next, end, over) /\ p1.t_state >= ESTABLISHED
  <2>1. Aside(p, p1)
    BY <1>0, <1>2 DEF Aside, Socket, FieldNames, SameSend
  <2> QED  BY <2>1, SendAside DEF Aside
<1>9. SendOpen(p2, iss, next, end, over)
  <2>1. Aside(p, p2)
    BY <1>0, <1>3 DEF Aside, Socket, FieldNames, SameSend
  <2> QED  BY <2>1, SendAside DEF Aside
<1>10. CASE CountedDup(p, s) /\ r = FastRexmt(p, s)
  <2>1. s.ack = p.snd_una
    BY <1>10 DEF CountedDup
  <2> QED  BY <1>10, <2>1, FastRexmtSends DEF SendLeft, r
<1>11. CASE r = tcp_output(p, cwnd, FALSE)
  BY <1>11, OutputOpen DEF SendLeft, r
<1>12. CASE r = Step6(p1, s, FALSE, cwnd, k)
  <2>1. PICK no : no = FALSE
    OBVIOUS
  <2>2. SendOpen(Step6(p1, s, no, cwnd, k), iss, next, end, over)
    BY <1>8, Step6Sends
  <2> QED  BY <1>12, <2>1, <2>2 DEF SendLeft, r
<1>13. CASE r = DropAfterAck(p2, cwnd)
  BY <1>9, <1>13, DropAfterAckSends DEF SendLeft, r
<1>14. CASE /\ ~(s.ack <= p.snd_una) /\ ~(s.ack > p.snd_max)
            /\ \/ p.t_state = LAST_ACK /\ a.finAcked /\ r = q
               \/ ~(p.t_state = LAST_ACK /\ a.finAcked) /\ r = DropAfterAck(w, cwnd)
               \/ ~(p.t_state = LAST_ACK /\ a.finAcked) /\ r = Step6(q, s, a.output, cwnd, k)
  <2>1. p.snd_una <= s.ack /\ s.ack <= p.snd_max
    BY <1>0, <1>14
  <2>2. IF p.t_state = LAST_ACK /\ a.finAcked THEN SendGone(q, iss, next, end, over)
        ELSE SendOpen(q, iss, next, end, over) /\ q.t_state >= ESTABLISHED
    BY <1>4, <1>5, <2>1, NewAckLeaves
  <2>3. CASE p.t_state = LAST_ACK /\ a.finAcked /\ r = q
    BY <2>2, <2>3 DEF SendLeft, r
  <2>4. CASE ~(p.t_state = LAST_ACK /\ a.finAcked) /\ r = DropAfterAck(w, cwnd)
    <3>1. SendOpen(q, iss, next, end, over)
      BY <2>2, <2>4
    <3>2. Aside(q, w)
      BY <1>6, <3>1 DEF SendOpen, Aside, Socket, FieldNames, SameSend
    <3>3. SendOpen(w, iss, next, end, over)
      BY <3>1, <3>2, SendAside
    <3> QED  BY <2>4, <3>3, DropAfterAckSends DEF SendLeft, r
  <2>5. CASE ~(p.t_state = LAST_ACK /\ a.finAcked) /\ r = Step6(q, s, a.output, cwnd, k)
    <3>1. SendOpen(q, iss, next, end, over) /\ q.t_state >= ESTABLISHED
      BY <2>2, <2>5
    <3>2. SendOpen(r, iss, next, end, over)
      BY <2>5, <3>1, Step6Sends
    <3> QED  BY <3>2 DEF SendLeft, r
  <2> QED  BY <1>14, <2>3, <2>4, <2>5
<1> QED  BY <1>7, <1>10, <1>11, <1>12, <1>13, <1>14 DEF r

\* What header prediction does with the send buffer.
PureAckedBy(p, s, b, c, q) ==
    /\ b = Sbdrop(p, s.ack - p.snd_una) /\ c = [b EXCEPT !.snd_una = s.ack]
    /\ q = RestartRexmt(c, s.ack)

LEMMA PureAcked ==
    ASSUME NEW p, NEW iss, NEW next, NEW end, NEW over, SendOpen(p, iss, next, end, over),
           NEW s, s.ack \in Int, NEW cwnd, Predicted(p, s), PureAck(p, s, cwnd),
           NEW b, NEW c, NEW q, PureAckedBy(p, s, b, c, q)
    PROVE  SendOpen(q, iss, next, end, over)
<1>1. /\ Socket(p) /\ p.snd_una \in Nat /\ p.snd_max \in Nat /\ p.snd_nxt = p.snd_max
      /\ p.t_state = ESTABLISHED /\ p.snd_una <= s.ack /\ s.ack <= p.snd_max
      /\ p.snd_wnd \in Int
  BY DEF SendOpen, Sends, Sequence, Predicted, PureAck
<1>2. PICK gone : gone = Min({s.ack - p.snd_una, Len(p.so_snd)})
  OBVIOUS
<1>3. PICK rest : rest = From(p.so_snd, gone)
  OBVIOUS
<1>4. b = [p EXCEPT !.so_snd = rest]
  BY <1>2, <1>3 DEF PureAckedBy, Sbdrop
<1>5. /\ Socket(c) /\ c.t_state = p.t_state /\ c.iss = p.iss /\ c.out = p.out
      /\ c.t_flags = p.t_flags /\ c.snd_max = p.snd_max /\ c.snd_wnd = p.snd_wnd
      /\ c.snd_una = s.ack /\ c.snd_nxt = p.snd_nxt /\ c.so_snd = rest
  BY <1>1, <1>4 DEF PureAckedBy, Socket, FieldNames
<1>6. /\ Socket(q) /\ q.t_state = p.t_state /\ q.iss = p.iss /\ q.out = p.out
      /\ q.t_flags = p.t_flags /\ q.snd_max = p.snd_max /\ q.snd_wnd = p.snd_wnd
      /\ q.snd_una = s.ack /\ q.snd_nxt = p.snd_nxt /\ q.so_snd = rest
  <2>1. PICK t : t = IF s.ack = c.snd_max THEN c.timers \ {"REXMT"}
                     ELSE IF "PERSIST" \in c.timers THEN c.timers ELSE c.timers \cup {"REXMT"}
    OBVIOUS
  <2>2. q = [c EXCEPT !.timers = t]
    BY <2>1 DEF PureAckedBy, RestartRexmt
  <2> QED  BY <1>5, <2>2 DEF Socket, FieldNames
<1>7. PICK ack \in Int : ack = s.ack
  OBVIOUS
<1>8. Max({p.snd_nxt, ack}) = p.snd_nxt
  BY <1>1, <1>7, MaxOfTwo
<1>9. Acked(p, q, ack)
  BY <1>1, <1>2, <1>3, <1>6, <1>7, <1>8 DEF Acked
<1>10. p.t_state >= ESTABLISHED /\ p.t_state \notin FinStates
  BY <1>1 DEF FinStates, ESTABLISHED, FIN_WAIT_1, CLOSING, LAST_ACK, FIN_WAIT_2, TIME_WAIT
<1>11. Sequence(q, iss, next, end) /\ OutSaid(q, iss, next, end, over) /\ Stage(q, iss, end, over)
  BY <1>1, <1>7, <1>9, <1>10, AckedSends
<1> QED
  BY <1>6, <1>11 DEF SendOpen, Sends

LEMMA OnPureAckSends ==
    ASSUME NEW p, NEW iss, NEW next, NEW end, NEW over, SendOpen(p, iss, next, end, over),
           NEW s, s.ack \in Int, NEW cwnd \in Int, Predicted(p, s), PureAck(p, s, cwnd)
    PROVE  SendOpen(OnPureAck(p, s, cwnd), iss, next, end, over)
<1>1. PICK b : b = Sbdrop(p, s.ack - p.snd_una)
  OBVIOUS
<1>2. PICK c : c = [b EXCEPT !.snd_una = s.ack]
  OBVIOUS
<1>3. PICK q : q = RestartRexmt(c, s.ack)
  OBVIOUS
<1>4. PureAckedBy(p, s, b, c, q)
  BY <1>1, <1>2, <1>3 DEF PureAckedBy
<1>5. SendOpen(q, iss, next, end, over)
  BY <1>4, PureAcked
<1>6. OnPureAck(p, s, cwnd) = q \/ OnPureAck(p, s, cwnd) = tcp_output(q, cwnd, FALSE)
  BY <1>1, <1>2, <1>3 DEF OnPureAck
<1> QED  BY <1>5, <1>6, OutputOpen

LEMMA OnPureDataSends ==
    ASSUME NEW p, NEW iss, NEW next, NEW end, NEW over, SendOpen(p, iss, next, end, over),
           NEW s, NEW cwnd \in Int, NEW k
    PROVE  SendOpen(OnPureData(p, s, cwnd, k), iss, next, end, over)
<1>1. PICK nxt, data : nxt = p.rcv_nxt + Len(s.data) /\ data = s.data
  OBVIOUS
<1>2. PICK b : b = [p EXCEPT !.rcv_nxt = nxt]
  OBVIOUS
<1>3. PICK c : c = sbappend(b, data, k)
  OBVIOUS
<1>4. PICK q : q = [c EXCEPT !.t_flags = @ \cup {"ACKNOW"}]
  OBVIOUS
<1>5. Aside(p, b)
  BY <1>2 DEF SendOpen, Aside, Socket, FieldNames, SameSend
<1>6. Aside(b, c)
  BY <1>3, <1>5, AppendAside DEF Aside
<1>7. Aside(c, q)
  BY <1>4, <1>6 DEF Aside, Socket, FieldNames, SameSend
<1>8. SendOpen(q, iss, next, end, over)
  <2>1. SendOpen(b, iss, next, end, over)
    BY <1>5, SendAside
  <2>2. SendOpen(c, iss, next, end, over)
    BY <1>6, <2>1, SendAside
  <2> QED  BY <1>7, <2>2, SendAside
<1>9. OnPureData(p, s, cwnd, k) = tcp_output(q, cwnd, FALSE)
  BY <1>1, <1>2, <1>3, <1>4 DEF OnPureData
<1> QED  BY <1>8, <1>9, OutputOpen

\* The socket with its SYN acknowledged.
Opened(p, ack, states, wl1) ==
    [p EXCEPT !.t_state = ESTABLISHED, !.snd_una = ack, !.so_state = states, !.snd_wl1 = wl1]

OpenedBy(p, s, k, states, wl1, p1, q, a, b) ==
    /\ p1 = Opened(p, s.ack, states, wl1) /\ q = Present(p1, k).so
    /\ a = NewAck(q, s) /\ b = a.so

\* The ack of slirp's SYN.
LEMMA SynAcked ==
    ASSUME NEW p, NEW iss, NEW next, NEW end, NEW over, SendOpen(p, iss, next, end, over),
           p.t_state = SYN_RECEIVED,
           NEW s, s.ack \in Int, s.ack # iss, ~(s.ack > p.snd_max \/ s.ack < p.snd_una),
           NEW wl1, NEW states, NEW k, NEW p1, NEW q, NEW a, NEW b,
           OpenedBy(p, s, k, states, wl1, p1, q, a, b)
    PROVE  /\ SendOpen(b, iss, next, end, over) /\ b.t_state = ESTABLISHED /\ b.so_snd = <<>>
           /\ Socket(p1) /\ Aside(p1, q) /\ s.ack = end /\ p.snd_max = end
           /\ q.snd_una = end /\ q.snd_nxt = p.snd_nxt /\ q.snd_max = end /\ q.so_snd = <<>>
<1>1. Sequence(p, iss, next, end) /\ Stage(p, iss, end, over) /\ OutSaid(p, iss, next, end, over)
      /\ Socket(p)
  BY DEF SendOpen, Sends
<1>2. /\ p.snd_una = iss /\ end = iss + 1 /\ p.so_snd = <<>> /\ p.snd_max <= end
      /\ p.snd_nxt \in Nat /\ p.snd_nxt <= p.snd_max /\ p.snd_max \in Nat /\ iss \in Nat
      /\ next \in Nat \ {0} /\ end = iss + next /\ p.snd_wnd \in Int /\ p.iss = iss
      /\ "SENTFIN" \in p.t_flags <=> p.snd_max = end + 1
  BY <1>1 DEF Sequence, Stage
<1>3. PICK ack \in Int : ack = s.ack
  OBVIOUS
<1>4. ack = end /\ p.snd_max = end /\ next = 1
  BY <1>2, <1>3
<1>5. /\ Socket(p1) /\ p1.t_state = ESTABLISHED /\ p1.so_snd = <<>> /\ p1.iss = iss
      /\ p1.snd_una = ack /\ p1.snd_nxt = p.snd_nxt /\ p1.snd_max = end
      /\ p1.snd_wnd = p.snd_wnd /\ p1.t_flags = p.t_flags /\ p1.out = p.out
  BY <1>1, <1>2, <1>3, <1>4 DEF OpenedBy, Opened, Socket, FieldNames
<1>6. Aside(p1, q)
  BY <1>5, PresentAside DEF OpenedBy
<1>7. /\ Socket(q) /\ q.t_state = ESTABLISHED /\ q.so_snd = <<>> /\ q.iss = iss
      /\ q.snd_una = ack /\ q.snd_nxt = p.snd_nxt /\ q.snd_max = end
      /\ q.snd_wnd = p.snd_wnd /\ q.out = p.out
      /\ "SENTFIN" \in q.t_flags <=> "SENTFIN" \in p.t_flags
  BY <1>5, <1>6 DEF Aside, SameSend
<1>8. PICK gone : gone = Min({s.ack - q.snd_una, Len(q.so_snd)})
  OBVIOUS
<1>9. gone = 0
  <2>1. Len(q.so_snd) = 0 /\ s.ack - q.snd_una = 0
    BY <1>3, <1>7
  <2>2. Min({0, 0}) = 0
    BY MinOfTwo
  <2> QED  BY <1>8, <2>1, <2>2
<1>10. /\ Socket(b) /\ SameInput(q, b)
      /\ b.iss = q.iss /\ b.out = q.out /\ b.t_flags = q.t_flags /\ b.snd_max = q.snd_max
      /\ b.snd_una = s.ack /\ b.snd_nxt = Max({q.snd_nxt, s.ack})
      /\ b.so_snd = From(q.so_snd, gone) /\ b.snd_wnd = Less(q.snd_wnd, gone)
  <2>1. PICK d : d = NewAck(q, s).so
    OBVIOUS
  <2>2. Socket(q)
    BY <1>7
  <2>3. /\ Socket(d) /\ SameInput(q, d)
        /\ d.iss = q.iss /\ d.out = q.out /\ d.t_flags = q.t_flags /\ d.snd_max = q.snd_max
        /\ d.snd_una = s.ack /\ d.snd_nxt = Max({q.snd_nxt, s.ack})
        /\ d.so_snd = From(q.so_snd, Min({s.ack - q.snd_una, Len(q.so_snd)}))
        /\ d.snd_wnd = Less(q.snd_wnd, Min({s.ack - q.snd_una, Len(q.so_snd)}))
    BY <2>1, <2>2, NewAckFields, Zenon
  <2>4. b = d
    BY <2>1 DEF OpenedBy
  <2> QED  BY <1>8, <2>3, <2>4
<1>11. b.snd_nxt = end
  <2>1. PICK nxt \in Nat : nxt = p.snd_nxt
    BY <1>2
  <2>2. nxt <= end /\ end \in Int
    BY <1>2, <2>1
  <2>3. Max({nxt, end}) = end
    BY <2>2, MaxOfTwo
  <2>4. b.snd_nxt = Max({nxt, end})
    BY <1>3, <1>4, <1>7, <1>10, <2>1
  <2> QED  BY <2>3, <2>4
<1>12. b.so_snd = <<>> /\ Stretch(b.so_snd, next, next) /\ Len(b.so_snd) = 0
  <2>1. b.so_snd = <<>>
    BY <1>7, <1>9, <1>10 DEF From
  <2> QED  BY <1>2, <2>1, StretchEmpty
<1>13. b.snd_wnd \in Int
  <2>1. b.snd_wnd = Less(p.snd_wnd, gone) /\ p.snd_wnd \in Int /\ gone \in Int
    BY <1>2, <1>7, <1>9, <1>10
  <2> QED  BY <2>1, LessIs
<1>14. Sequence(b, iss, next, end)
  <2>1. "SENTFIN" \in b.t_flags <=> b.snd_max = end + 1
    BY <1>2, <1>4, <1>7, <1>10
  <2>2. end \in Nat /\ iss <= end /\ end <= end + 1
    BY <1>2
  <2> QED  BY <1>2, <1>3, <1>4, <1>7, <1>10, <1>11, <1>12, <1>13, <2>1, <2>2 DEF Sequence
<1>15. Stage(b, iss, end, over)
  <2>1. b.t_state = ESTABLISHED
    BY <1>7, <1>10 DEF SameInput
  <2>2. "SENTFIN" \notin b.t_flags
    <3>1. "SENTFIN" \notin p.t_flags
      BY <1>2, <1>4
    <3> QED  BY <1>7, <1>10, <3>1
  <2>3. b.snd_una + Len(b.so_snd) = end
    <3>1. b.snd_una = end /\ Len(b.so_snd) = 0 /\ end \in Int
      BY <1>2, <1>3, <1>4, <1>10, <1>12
    <3> QED  BY <3>1
  <2> QED  BY <2>1, <2>2, <2>3 DEF Stage, FinStates, CLOSED, SYN_RECEIVED, ESTABLISHED,
                                   FIN_WAIT_1, CLOSING, LAST_ACK, FIN_WAIT_2, TIME_WAIT
<1>16. OutSaid(b, iss, next, end, over)
  BY <1>1, <1>7, <1>10 DEF OutSaid
<1>17. SendOpen(b, iss, next, end, over) /\ b.t_state >= ESTABLISHED
  BY <1>7, <1>10, <1>14, <1>15, <1>16 DEF SendOpen, Sends, SameInput, ESTABLISHED
<1> QED  BY <1>3, <1>4, <1>5, <1>6, <1>7, <1>10, <1>12, <1>17 DEF SameInput

\* The ack of slirp's SYN, if it is one.
LEMMA AckOfSynSends ==
    ASSUME NEW p, NEW iss, NEW next, NEW end, NEW over, SendOpen(p, iss, next, end, over),
           p.t_state = SYN_RECEIVED,
           NEW s, s.ack \in Int, s.win \in Int, s.ack # iss, NEW cwnd \in Int, NEW k
    PROVE  SendOpen(AckOfSyn(p, s, cwnd, k), iss, next, end, over)
<1> DEFINE r == AckOfSyn(p, s, cwnd, k)
<1>1. Sequence(p, iss, next, end) /\ Stage(p, iss, end, over) /\ OutSaid(p, iss, next, end, over)
      /\ Socket(p)
  BY DEF SendOpen, Sends
<1>2. /\ p.snd_una = iss /\ end = iss + 1 /\ p.so_snd = <<>> /\ p.snd_max <= end
      /\ p.snd_nxt \in Nat /\ p.snd_nxt <= p.snd_max /\ p.snd_max \in Nat /\ iss \in Nat
      /\ next \in Nat \ {0} /\ end = iss + next /\ p.snd_wnd \in Int /\ p.iss = iss
      /\ "SENTFIN" \in p.t_flags <=> p.snd_max = end + 1
  BY <1>1 DEF Sequence, Stage
<1>3. PICK wl1 : wl1 = s.seq - 1
  OBVIOUS
<1>4. PICK states : states = (p.so_state \ {"ISFCONNECTING", "FWDRAIN", "NOFDREF"})
                             \cup {"ISFCONNECTED"}
  OBVIOUS
<1>5. PICK p1 : p1 = [p EXCEPT !.t_state = ESTABLISHED, !.snd_una = s.ack,
                               !.so_state = states, !.snd_wl1 = wl1]
  OBVIOUS
<1>6. PICK q : q = Present(p1, k).so
  OBVIOUS
<1>7. PICK a : a = NewAck(q, s)
  OBVIOUS
<1>8. PICK b : b = a.so
  OBVIOUS
<1>9. \/ r = DropWithReset(p)
      \/ /\ ~(s.ack > p.snd_max \/ s.ack < p.snd_una)
         /\ r = Step6(b, s, a.output, cwnd, k)
  BY <1>3, <1>4, <1>5, <1>6, <1>7, <1>8 DEF AckOfSyn
<1> HIDE DEF r
<1>10. CASE r = DropWithReset(p)
  <2>1. /\ Socket(r) /\ r.t_state = p.t_state /\ r.so_snd = p.so_snd /\ r.iss = p.iss
        /\ r.snd_una = p.snd_una /\ r.snd_nxt = p.snd_nxt /\ r.snd_max = p.snd_max
        /\ r.snd_wnd = p.snd_wnd /\ r.t_flags = p.t_flags
    BY <1>1, <1>10 DEF DropWithReset, Socket, FieldNames
  <2>2. OutSaid(r, iss, next, end, over)
    BY <1>1, <1>10, ResetSaid
  <2>3. Sequence(r, iss, next, end) /\ Stage(r, iss, end, over)
    BY <1>1, <2>1 DEF Sequence, Stage
  <2> QED  BY <2>1, <2>2, <2>3 DEF SendOpen, Sends, r
<1>11. CASE /\ ~(s.ack > p.snd_max \/ s.ack < p.snd_una)
            /\ r = Step6(b, s, a.output, cwnd, k)
  <2>0. OpenedBy(p, s, k, states, wl1, p1, q, a, b)
    BY <1>5, <1>6, <1>7, <1>8 DEF OpenedBy, Opened
  <2>1. SendOpen(b, iss, next, end, over) /\ b.t_state = ESTABLISHED
    BY <1>11, <2>0, SynAcked
  <2>2. SendOpen(r, iss, next, end, over)
    BY <1>11, <2>1, Step6Sends DEF ESTABLISHED
  <2> QED  BY <2>2 DEF r
<1> QED  BY <1>9, <1>10, <1>11 DEF r

\* Trimming leaves what a segment acknowledges.
LEMMA TrimLeftAside ==
    ASSUME NEW p, Socket(p), NEW s, Segment(s)
    PROVE  LET l == TrimLeft(p, s) IN
           /\ Aside(p, l.so) /\ Segment(l.seg) /\ ("ACK" \in l.seg.flags => "ACK" \in s.flags)
           /\ l.seg.ack = s.ack /\ l.seg.win = s.win
<1>1. PICK g : g = TrimLeft(p, s).seg
  OBVIOUS
<1>2. PICK u : u = [p EXCEPT !.t_flags = @ \cup {"ACKNOW"}]
  OBVIOUS
<1>3. TrimLeft(p, s).so = p \/ TrimLeft(p, s).so = u
  BY <1>2 DEF TrimLeft
<1>4. Aside(p, p) /\ Aside(p, u)
  BY <1>2 DEF Aside, Socket, FieldNames, SameSend
<1>5. g = s \/ \E seq, data, flags : g = [s EXCEPT !.seq = seq, !.data = data, !.flags = flags]
  <2>1. CASE p.rcv_nxt <= s.seq
    BY <1>1, <2>1 DEF TrimLeft
  <2>2. CASE ~(p.rcv_nxt <= s.seq)
    <3> DEFINE syn == IF s.seq < p.rcv_nxt /\ "SYN" \in s.flags THEN 1 ELSE 0
               ago == p.rcv_nxt - s.seq - syn
               nothing == ago > Len(s.data) \/ (ago = Len(s.data) /\ "FIN" \notin s.flags)
               drop == IF nothing THEN Len(s.data) ELSE ago
               gone == {"SYN"} \cup IF nothing THEN {"FIN"} ELSE {}
    <3>1. g = [s EXCEPT !.seq = @ + syn + drop, !.data = From(@, drop), !.flags = @ \ gone]
      BY <1>1, <2>2 DEF TrimLeft
    <3> HIDE DEF syn, ago, nothing, drop, gone
    <3>2. PICK x, y, z : x = s.seq + syn + drop /\ y = From(s.data, drop) /\ z = s.flags \ gone
      OBVIOUS
    <3>3. g = [s EXCEPT !.seq = x, !.data = y, !.flags = z]
      BY <3>1, <3>2
    <3> QED  BY <3>3
  <2> QED  BY <2>1, <2>2
<1>6. g.ack = s.ack /\ g.win = s.win
  BY <1>5 DEF Segment
<1>7. Segment(g) /\ ("ACK" \in g.flags => "ACK" \in s.flags)
  BY <1>1, TrimLeftFlags
<1> QED  BY <1>1, <1>3, <1>4, <1>6, <1>7

LEMMA TrimRightAside ==
    ASSUME NEW p, NEW g, Segment(g), NEW s, s = TrimRight(p, g)
    PROVE  s.ack = g.ack /\ s.win = g.win /\ ("ACK" \in s.flags => "ACK" \in g.flags)
<1>1. PICK data, flags : /\ data = SubSeq(g.data, 1, Len(g.data) - Beyond(p, g))
                         /\ flags = g.flags \ {"FIN"}
  OBVIOUS
<1>2. s = g \/ s = [g EXCEPT !.data = data, !.flags = flags]
  BY <1>1 DEF TrimRight
<1>3. "ACK" \in flags => "ACK" \in g.flags
  BY <1>1
<1> QED  BY <1>2, <1>3 DEF Segment

\* A segment that was received, whatever it acknowledges of what was sent.
LEMMA OnSegmentSends ==
    ASSUME NEW p, NEW iss, NEW next, NEW end, NEW over, SendOpen(p, iss, next, end, over),
           p.t_state >= SYN_RECEIVED, NEW s0, Segment(s0),
           "ACK" \in s0.flags => s0.ack \in Int /\ s0.win \in Int /\ s0.ack # iss,
           NEW cwnd \in Int, NEW k
    PROVE  SendLeft(OnSegment(p, s0, cwnd, k), iss, next, end, over)
<1> DEFINE t == OnSegment(p, s0, cwnd, k)
<1>1. PICK l : l = TrimLeft(p, s0)
  OBVIOUS
<1>2. PICK q : q = l.so
  OBVIOUS
<1>3. PICK g : g = l.seg
  OBVIOUS
<1>4. PICK s : s = TrimRight(q, g)
  OBVIOUS
<1>5. PICK u : u = [q EXCEPT !.t_flags = @ \cup {"ACKNOW"}]
  OBVIOUS
<1>6. PICK r : r = IF Beyond(q, g) > 0 /\ Beyond(q, g) >= Len(g.data) THEN u ELSE q
  OBVIOUS
<1>7. \/ Predicted(p, s0) /\ PureAck(p, s0, cwnd) /\ t = OnPureAck(p, s0, cwnd)
      \/ t = OnPureData(p, s0, cwnd, k)
      \/ t = DropWithReset(tcp_close(q, "reset"))
      \/ t = q
      \/ t = DropAfterAck(q, cwnd)
      \/ t = tcp_close(r, "reset")
      \/ t = DropWithReset(tcp_drop(r, cwnd))
      \/ t = r
      \/ /\ "ACK" \in s.flags
         /\ \/ r.t_state = SYN_RECEIVED /\ t = AckOfSyn(r, s, cwnd, k)
            \/ r.t_state # SYN_RECEIVED /\ t = AckStates(r, s, cwnd, k)
  BY <1>1, <1>2, <1>3, <1>4, <1>5, <1>6 DEF OnSegment
<1> HIDE DEF t
<1>8. Socket(p)
  BY DEF SendOpen
<1>9. /\ Aside(p, q) /\ Segment(g) /\ ("ACK" \in g.flags => "ACK" \in s0.flags)
      /\ g.ack = s0.ack /\ g.win = s0.win
  BY <1>1, <1>2, <1>3, <1>8, TrimLeftAside
<1>10. s.ack = s0.ack /\ s.win = s0.win /\ ("ACK" \in s.flags => "ACK" \in s0.flags)
  BY <1>4, <1>9, TrimRightAside
<1>11. SendOpen(q, iss, next, end, over)
  BY <1>9, SendAside
<1>12. Aside(q, u)
  BY <1>5, <1>9 DEF Aside, Socket, FieldNames, SameSend
<1>13. SendOpen(r, iss, next, end, over) /\ r.t_state = p.t_state
  <2>1. SendOpen(u, iss, next, end, over)
    BY <1>11, <1>12, SendAside
  <2> QED  BY <1>6, <1>9, <1>11, <1>12, <2>1 DEF Aside
<1>14. OutSaid(q, iss, next, end, over) /\ OutSaid(r, iss, next, end, over)
  BY <1>11, <1>13 DEF SendOpen, Sends
<1>15. CASE Predicted(p, s0) /\ PureAck(p, s0, cwnd) /\ t = OnPureAck(p, s0, cwnd)
  <2>1. s0.ack \in Int
    BY <1>15 DEF Predicted
  <2> QED  BY <1>15, <2>1, OnPureAckSends DEF SendLeft, t
<1>16. CASE t = OnPureData(p, s0, cwnd, k)
  BY <1>16, OnPureDataSends DEF SendLeft, t
<1>17. CASE t = DropWithReset(tcp_close(q, "reset"))
  BY <1>14, <1>17, CloseGone DEF SendLeft, t
<1>18. CASE t = q
  BY <1>11, <1>18 DEF SendLeft, t
<1>19. CASE t = DropAfterAck(q, cwnd)
  BY <1>11, <1>19, DropAfterAckSends DEF SendLeft, t
<1>20. CASE t = tcp_close(r, "reset")
  BY <1>14, <1>20, CloseGone DEF SendLeft, t
<1>21. CASE t = DropWithReset(tcp_drop(r, cwnd))
  BY <1>13, <1>21, DropGone DEF SendLeft, t
<1>22. CASE t = r
  BY <1>13, <1>22 DEF SendLeft, t
<1>23. CASE /\ "ACK" \in s.flags
            /\ \/ r.t_state = SYN_RECEIVED /\ t = AckOfSyn(r, s, cwnd, k)
               \/ r.t_state # SYN_RECEIVED /\ t = AckStates(r, s, cwnd, k)
  <2>1. s.ack \in Int /\ s.win \in Int /\ s.ack # iss
    BY <1>10, <1>23
  <2>2. CASE r.t_state = SYN_RECEIVED /\ t = AckOfSyn(r, s, cwnd, k)
    <3>1. SendOpen(t, iss, next, end, over)
      BY <1>13, <2>1, <2>2, AckOfSynSends
    <3> QED  BY <3>1 DEF SendLeft, t
  <2>3. CASE r.t_state # SYN_RECEIVED /\ t = AckStates(r, s, cwnd, k)
    <3>1. r.t_state \in CLOSED .. TIME_WAIT
      BY <1>13 DEF SendOpen, Sends, Stage
    <3>2. r.t_state >= ESTABLISHED
      BY <1>13, <2>3, <3>1 DEF CLOSED, SYN_RECEIVED, ESTABLISHED, TIME_WAIT
    <3>3. SendLeft(t, iss, next, end, over)
      BY <1>13, <2>1, <2>3, <3>2, AckStatesSends
    <3> QED  BY <3>3 DEF t
  <2> QED  BY <1>23, <2>2, <2>3
<1> QED  BY <1>7, <1>15, <1>16, <1>17, <1>18, <1>19, <1>20, <1>21, <1>22, <1>23 DEF t

-----------------------------------------------------------------------------
(* What is on its way to the guest, as an invariant *)

\* The sequence number of byte a of the stream of the j-th socket; its SYN is byte 0.
Number(j, a) == j * IssIncr + a

LEMMA NumberIs ==
    ASSUME NEW j \in Nat, NEW a \in Nat
    PROVE  /\ Number(j, a) \in Nat /\ Number(j, 0) \in Nat
           /\ Number(j, a) = Number(j, 0) + a /\ Number(j, 0) = j * IssIncr
<1>1. PICK incr \in Nat : incr = IssIncr
  BY Sizes
<1>2. PICK x : x = j * incr
  OBVIOUS
<1>3. x \in Nat
  BY <1>2
<1>4. Number(j, a) = x + a /\ Number(j, 0) = x + 0
  BY <1>1, <1>2 DEF Number
<1> QED  BY <1>1, <1>2, <1>3, <1>4

LEMMA NumberLess ==
    ASSUME NEW i \in Nat, NEW j \in Nat, i < j, NEW a \in Nat, a <= HostBytes + 2, NEW b \in Nat
    PROVE  Number(i, a) < Number(j, b)
<1>1. PICK incr \in Nat : incr = IssIncr /\ a < incr
  BY Sizes
<1>2. PICK d \in Nat : j = i + 1 + d
  <2>1. j - i - 1 \in Nat
    OBVIOUS
  <2> QED  BY <2>1
<1>3. j * incr = i * incr + incr + d * incr
  BY <1>2
<1>4. PICK x, y, z : x = i * incr /\ y = d * incr /\ z = j * incr
  OBVIOUS
<1>5. x \in Nat /\ y \in Nat /\ z = x + incr + y
  BY <1>3, <1>4
<1>6. Number(i, a) = x + a /\ Number(j, b) = z + b
  BY <1>1, <1>4 DEF Number
<1> QED  BY <1>1, <1>5, <1>6

\* No two sockets share a number.
LEMMA NumberOnce ==
    ASSUME NEW i \in Nat, NEW j \in Nat, NEW a \in Nat, NEW b \in Nat,
           a <= HostBytes + 2, b <= HostBytes + 2, Number(i, a) = Number(j, b)
    PROVE  i = j /\ a = b
<1>1. Number(i, a) \in Nat /\ Number(j, b) \in Nat
  BY NumberIs
<1>2. ~(i < j)
  <2> SUFFICES ASSUME i < j PROVE FALSE
    OBVIOUS
  <2>1. Number(i, a) < Number(j, b)
    BY NumberLess
  <2> QED  BY <1>1, <2>1
<1>3. ~(j < i)
  <2> SUFFICES ASSUME j < i PROVE FALSE
    OBVIOUS
  <2>1. Number(j, b) < Number(i, a)
    BY NumberLess
  <2> QED  BY <1>1, <2>1
<1>4. i = j
  BY <1>2, <1>3
<1>5. Number(i, a) = Number(i, 0) + a /\ Number(i, b) = Number(i, 0) + b /\ Number(i, 0) \in Nat
  BY NumberIs
<1> QED  BY <1>4, <1>5

\* w tells the guest of socket j, of whose stream n bytes were read.
Told(w, j, n) ==
    \/ w = Rst
    \/ w = Syn(Number(j, 0))
    \/ w = Fin(Number(j, n + 1))
    \/ \E b \in Nat \ {0} : b <= n /\ w = Byte(Number(j, b), b)

LEMMA SaidTold ==
    ASSUME NEW j \in Nat, NEW n \in Nat, NEW iss, iss = Number(j, 0), NEW next, next = n + 1,
           NEW end, end = iss + next, NEW w, Said(w, iss, next, end)
    PROVE  Told(w, j, n)
<1>1. n + 1 \in Nat /\ next \in Nat
  OBVIOUS
<1>2. end = Number(j, n + 1)
  BY <1>1, NumberIs
<1>3. ASSUME NEW b \in Nat \ {0}, NEW seq \in Nat, b < next, seq = iss + b, w = Byte(seq, b)
      PROVE  Told(w, j, n)
  <2>1. seq = Number(j, b) /\ b <= n
    BY <1>3, NumberIs
  <2> QED  BY <1>3, <2>1 DEF Told
<1> QED  BY <1>2, <1>3 DEF Said, Told

LEMMA ToldKinds ==
    ASSUME NEW w, NEW j \in Nat, NEW n \in Nat, Told(w, j, n)
    PROVE  /\ w.what = "SYN" => w = Syn(Number(j, 0))
           /\ w.what = "FIN" => w = Fin(Number(j, n + 1))
           /\ w.what = "DATA" => \E b \in Nat \ {0} : b <= n /\ w = Byte(Number(j, b), b)
<1>1. /\ \A seq : Fin(seq).what = "FIN" /\ Syn(seq).what = "SYN"
      /\ \A seq, b : Byte(seq, b).what = "DATA"
      /\ Rst.what = "RST"
  BY DEF Fin, Syn, Byte, Rst
<1>2. "FIN" # "SYN" /\ "FIN" # "DATA" /\ "SYN" # "DATA" /\ "RST" # "FIN" /\ "RST" # "SYN"
      /\ "RST" # "DATA"
  OBVIOUS
<1>3. CASE w = Rst
  BY <1>1, <1>2, <1>3
<1>4. CASE w = Syn(Number(j, 0))
  BY <1>1, <1>2, <1>4
<1>5. CASE w = Fin(Number(j, n + 1))
  BY <1>1, <1>2, <1>5
<1>6. CASE \E b \in Nat \ {0} : b <= n /\ w = Byte(Number(j, b), b)
  <2>1. w.what = "DATA"
    BY <1>1, <1>6
  <2> QED  BY <1>2, <1>6, <2>1
<1> QED  BY <1>3, <1>4, <1>5, <1>6 DEF Told

-----------------------------------------------------------------------------
(* The send side as an invariant.  R[j] is how much was read of the stream *)
(* of the j-th socket.                                                     *)

\* The host has no more to send.
Over == host.reset \/ (host.eof /\ host.read = host.sent)

HostInv ==
    /\ DOMAIN host = {"sent", "read", "eof", "reset", "early"}
    /\ host.sent \in Nat /\ host.read \in Nat
    /\ host.read <= host.sent /\ host.sent <= HostBytes

Reads(R) == made \in Nat /\ R \in [Nat -> 0 .. HostBytes]

WireTold(R) == \A w \in wire : w = Rst \/ \E j \in 1 .. made : Told(w, j, R[j])

\* The socket that there is.
SocketSends(R) ==
    /\ Exists => made >= 1
    /\ Exists /\ Connecting => R[made] = 0 /\ so.so_snd = <<>> /\ so.snd_wnd = 0
    /\ Exists /\ ~Connecting =>
         /\ R[made] = host.read
         /\ SendOpen(so, Number(made, 0), R[made] + 1, Number(made, R[made] + 1), Over)

\* The guest is told of the end of the stream only when there is no more.
FinTold(R) ==
    Fin(Number(made, R[made] + 1)) \in wire =>
        Over /\ R[made] = host.read /\ ~(Exists /\ Connecting)

SendInv(R) == Reads(R) /\ WireTold(R) /\ so.out = {} /\ SocketSends(R) /\ FinTold(R)

\* From R to R2 nothing was added to a stream whose end the guest was told.
Grown(R, R2) ==
    /\ made <= made' /\ wire \subseteq wire'
    /\ \A j \in 1 .. made :
         R2[j] = R[j] \/ (R[j] <= R2[j] /\ Fin(Number(j, R[j] + 1)) \notin wire)

LEMMA GrownSame ==
    ASSUME NEW R, SendInv(R), UNCHANGED made, wire \subseteq wire'
    PROVE  Grown(R, R)
BY DEF Grown, SendInv, Reads

LEMMA ToldMore ==
    ASSUME NEW w, NEW j \in Nat, NEW m \in Nat, NEW n \in Nat, Told(w, j, m), m <= n,
           w = Fin(Number(j, m + 1)) => n = m
    PROVE  Told(w, j, n)
BY DEF Told

\* The end of a stream that was told is the end of what was read.
LEMMA FinOnce ==
    ASSUME NEW R, SendInv(R), NEW j \in Nat, NEW a \in Nat, a <= HostBytes + 2,
           Fin(Number(j, a)) \in wire
    PROVE  j \in 1 .. made /\ a = R[j] + 1
<1>1. PICK w : w = Fin(Number(j, a))
  OBVIOUS
<1>2. w.what = "FIN" /\ w.seq = Number(j, a) /\ w # Rst
  BY <1>1, FinIsNone DEF Fin
<1>3. PICK i \in 1 .. made : Told(w, i, R[i])
  BY <1>1, <1>2 DEF SendInv, WireTold
<1>4. i \in Nat /\ R[i] \in Nat /\ R[i] <= HostBytes
  BY Sizes DEF SendInv, Reads
<1>5. w = Fin(Number(i, R[i] + 1))
  BY <1>2, <1>3, <1>4, ToldKinds
<1>6. Number(i, R[i] + 1) = Number(j, a)
  BY <1>1, <1>5 DEF Fin
<1>7. R[i] + 1 \in Nat /\ R[i] + 1 <= HostBytes + 2
  BY <1>4, Sizes
<1>8. i = j /\ R[i] + 1 = a
  BY <1>4, <1>6, <1>7, NumberOnce
<1> QED  BY <1>3, <1>8

\* The function under way has returned, and the socket stays, or is gone.
LEMMA StaysSends ==
    ASSUME NEW R, SendInv(R), made >= 1, UNCHANGED made,
           NEW R2 \in [Nat -> 0 .. HostBytes], \A j \in Nat : j # made => R2[j] = R[j],
           R[made] <= R2[made],
           NEW over, over <=> Over', R2[made] = host'.read,
           Fin(Number(made, R[made] + 1)) \in wire => R2[made] = R[made] /\ over,
           NEW p, SendLeft(p, Number(made, 0), R2[made] + 1, Number(made, R2[made] + 1), over),
           "ISFCONNECTING" \in p.so_state => p.t_state = CLOSED, Returns(p)
    PROVE  SendInv(R2)' /\ Grown(R, R2)
<1>0. PICK m \in Nat, n \in Nat : m = made /\ n = R2[made] /\ m >= 1 /\ n <= HostBytes
  <2>1. made \in Nat /\ R2[made] \in 0 .. HostBytes
    BY DEF SendInv, Reads
  <2> QED  BY <2>1, Sizes
<1>1. PICK iss, end, next :
        /\ m = made /\ n = R2[made] /\ iss = Number(made, 0) /\ end = Number(made, R2[made] + 1)
        /\ next = R2[made] + 1 /\ m >= 1 /\ n <= HostBytes
  BY <1>0
<1>2. n + 1 \in Nat /\ end = iss + next /\ next = n + 1
  <2>1. PICK k \in Nat : k = n + 1
    BY <1>0
  <2>2. Number(m, k) = Number(m, 0) + k
    BY <2>1, NumberIs
  <2>3. next = k /\ end = Number(m, k) /\ iss = Number(m, 0)
    BY <1>1, <2>1
  <2> QED  BY <2>1, <2>2, <2>3
<1>3. PICK q : q = [p EXCEPT !.out = {}]
  OBVIOUS
<1>4. so' = q /\ wire' = wire \cup p.out /\ made' = m
  BY <1>1, <1>3 DEF Returns
<1>5. Socket(p) /\ OutSaid(p, iss, next, end, over)
  BY <1>1 DEF SendLeft, SendOpen, SendGone, Sends
<1>6. /\ Socket(q) /\ q.out = {} /\ q.t_state = p.t_state /\ q.so_state = p.so_state
      /\ q.so_snd = p.so_snd /\ q.iss = p.iss /\ q.snd_una = p.snd_una /\ q.snd_nxt = p.snd_nxt
      /\ q.snd_max = p.snd_max /\ q.snd_wnd = p.snd_wnd /\ q.t_flags = p.t_flags
  BY <1>3, <1>5 DEF Socket, FieldNames
<1>7. ASSUME p.t_state # CLOSED PROVE SendOpen(q, iss, next, end, over)
  <2>1. SendOpen(p, iss, next, end, over)
    BY <1>1, <1>7 DEF SendLeft, SendGone
  <2>2. Sequence(p, iss, next, end) /\ Stage(p, iss, end, over)
    BY <2>1 DEF SendOpen, Sends
  <2>3. Sequence(q, iss, next, end)
    BY <2>2, <1>6 DEF Sequence
  <2>4. Stage(q, iss, end, over)
    BY <2>2, <1>6 DEF Stage
  <2>5. OutSaid(q, iss, next, end, over)
    BY <1>6 DEF OutSaid
  <2> QED  BY <1>6, <2>3, <2>4, <2>5 DEF SendOpen, Sends
<1>8. ASSUME NEW w \in wire' PROVE w = Rst \/ \E j \in 1 .. m : Told(w, j, R2[j])
  <2>1. CASE w \in p.out
    <3>1. Said(w, iss, next, end)
      BY <1>5, <2>1 DEF OutSaid
    <3>2. Told(w, m, n)
      BY <1>1, <1>2, <3>1, SaidTold
    <3> QED  BY <1>1, <3>2
  <2>2. CASE w \in wire /\ w # Rst
    <3>1. PICK j \in 1 .. m : Told(w, j, R[j])
      BY <1>1, <2>2 DEF SendInv, WireTold
    <3>2. CASE j = m
      <4>1. PICK k \in Nat : k = R[m] /\ k <= n
        BY <1>1 DEF SendInv, Reads
      <4>2. w = Fin(Number(m, k + 1)) => n = k
        BY <1>1, <2>2, <4>1
      <4>3. Told(w, m, n)
        BY <3>1, <3>2, <4>1, <4>2, ToldMore
      <4> QED  BY <1>1, <4>3
    <3>3. CASE j # m
      BY <1>1, <3>1, <3>3
    <3> QED  BY <3>2, <3>3
  <2> QED  BY <1>4, <2>1, <2>2
<1>9. ASSUME Fin(end) \in wire' PROVE over
  <2>1. CASE Fin(end) \in wire
    <3>1. n + 1 <= HostBytes + 2
      BY <1>1, Sizes
    <3>2. n + 1 = R[m] + 1
      BY <1>1, <1>2, <2>1, <3>1, FinOnce
    <3>3. Fin(Number(made, R[made] + 1)) \in wire
      BY <1>1, <2>1, <3>2
    <3> QED  BY <3>3
  <2>2. CASE Fin(end) \in p.out
    BY <2>2, <1>5 DEF OutSaid
  <2> QED  BY <1>4, <1>9, <2>1, <2>2
<1>10. SendInv(R2)'
  <2>1. (Exists /\ ~Connecting)' => SendOpen(q, iss, next, end, over)
    BY <1>4, <1>6, <1>7 DEF Exists
  <2>2. Exists' => ~Connecting'
    BY <1>4, <1>6 DEF Exists, Connecting
  <2>3. SendOpen(q, iss, next, end, over) =>
          SendOpen(so', Number(made', 0), R2[made'] + 1, Number(made', R2[made'] + 1), Over')
    <3>1. PICK o : o = Over'
      OBVIOUS
    <3> QED  BY <1>1, <1>4, <3>1 DEF SendOpen, Sends, Stage, OutSaid, Sequence
  <2> QED  BY <1>1, <1>4, <1>6, <1>8, <1>9, <2>1, <2>2, <2>3 DEF SendInv, Reads, WireTold, SocketSends, FinTold
<1>11. Grown(R, R2)
  <2>1. ASSUME NEW j \in 1 .. made
        PROVE  R2[j] = R[j] \/ (R[j] <= R2[j] /\ Fin(Number(j, R[j] + 1)) \notin wire)
    <3>1. j \in Nat
      BY <1>1
    <3> QED  BY <3>1
  <2> QED  BY <1>1, <1>4, <2>1 DEF Grown
<1> QED  BY <1>10, <1>11

\* Only a reset is sent, and the socket is closed afterwards.
LEMMA EndsSends ==
    ASSUME NEW R, SendInv(R), UNCHANGED <<made, host>>,
           NEW p, Socket(p), p.t_state = CLOSED, p.out \subseteq {Rst}, Returns(p)
    PROVE  SendInv(R)' /\ Grown(R, R)
<1>1. PICK q : q = [p EXCEPT !.out = {}]
  OBVIOUS
<1>2. so' = q /\ wire' = wire \cup p.out
  BY <1>1 DEF Returns
<1>3. q.t_state = CLOSED /\ q.out = {}
  BY <1>1 DEF Socket, FieldNames
<1>4. ~Exists'
  BY <1>2, <1>3 DEF Exists
<1>5. \A w \in wire' : w = Rst \/ \E j \in 1 .. made : Told(w, j, R[j])
  BY <1>2 DEF SendInv, Reads, WireTold, SocketSends, FinTold
<1>6. Over' <=> Over
  BY DEF Over
<1>7. Fin(Number(made, R[made] + 1)) \in wire' => Over /\ R[made] = host.read
  BY <1>2, FinIsNone DEF SendInv, Reads, WireTold, SocketSends, FinTold
<1>8. SendInv(R)'
  BY <1>2, <1>3, <1>4, <1>5, <1>6, <1>7 DEF SendInv, Reads, WireTold, SocketSends, FinTold
<1> QED  BY <1>2, <1>8, GrownSame

\* A socket is made, of which nothing was read.
LEMMA MadeSends ==
    ASSUME NEW R, SendInv(R), made' = made + 1, UNCHANGED host,
           NEW R2, R2 = [R EXCEPT ![made + 1] = 0],
           NEW p, Socket(p),
           p.t_state # CLOSED => "ISFCONNECTING" \in p.so_state /\ p.so_snd = <<>> /\ p.snd_wnd = 0,
           p.out \subseteq {Rst}, Returns(p)
    PROVE  SendInv(R2)' /\ Grown(R, R2)
<1>0. PICK m \in Nat : m = made + 1
  BY DEF SendInv, Reads, WireTold, SocketSends, FinTold
<1>1. PICK q : q = [p EXCEPT !.out = {}]
  OBVIOUS
<1>2. so' = q /\ wire' = wire \cup p.out
  BY <1>1 DEF Returns
<1>3. /\ q.t_state = p.t_state /\ q.out = {} /\ q.so_state = p.so_state
      /\ q.so_snd = p.so_snd /\ q.snd_wnd = p.snd_wnd
  BY <1>1 DEF Socket, FieldNames
<1>4. Exists' => Connecting' /\ q.so_snd = <<>> /\ q.snd_wnd = 0
  BY <1>2, <1>3 DEF Exists, Connecting
<1>5. /\ R2 \in [Nat -> 0 .. HostBytes] /\ R2[m] = 0 /\ made \in Nat /\ m \in Nat /\ m = made'
      /\ m >= 1 /\ \A j \in Nat : j # m => R2[j] = R[j]
  <2>1. made \in Nat /\ R \in [Nat -> 0 .. HostBytes] /\ HostBytes \in Nat
    BY Sizes DEF SendInv, Reads
  <2>2. m \in Nat /\ m = made' /\ m >= 1 /\ R2 = [R EXCEPT ![m] = 0]
    BY <1>0, <2>1
  <2> QED  BY <2>1, <2>2
<1>6. ASSUME NEW w \in wire' PROVE w = Rst \/ \E j \in 1 .. m : Told(w, j, R2[j])
  <2>1. CASE w \in p.out
    BY <2>1
  <2>2. CASE w \in wire /\ w # Rst
    <3>1. PICK j \in 1 .. made : Told(w, j, R[j])
      BY <2>2 DEF SendInv, Reads, WireTold, SocketSends, FinTold
    <3>2. j \in 1 .. m /\ R2[j] = R[j]
      BY <1>0, <1>5, <3>1
    <3> QED  BY <3>1, <3>2
  <2> QED  BY <1>2, <2>1, <2>2
<1>7. Fin(Number(m, R2[m] + 1)) \notin wire'
  <2>1. PICK a \in Nat : a = R2[m] + 1 /\ a = 1
    BY <1>5
  <2>2. a <= HostBytes + 2
    BY <2>1, Sizes
  <2>3. Fin(Number(m, a)) \notin wire
    <3> SUFFICES ASSUME Fin(Number(m, a)) \in wire PROVE FALSE
      OBVIOUS
    <3>1. m \in 1 .. made
      BY <2>2, FinOnce
    <3> QED  BY <1>0, <1>5, <3>1
  <2> QED  BY <1>2, <2>1, <2>3, FinIsNone
<1>8. SendInv(R2)'
  BY <1>2, <1>3, <1>4, <1>5, <1>6, <1>7 DEF SendInv, Reads, WireTold, SocketSends, FinTold
<1>9. Grown(R, R2)
  <2>1. ASSUME NEW j \in 1 .. made PROVE R2[j] = R[j]
    BY <1>0, <1>5
  <2> QED  BY <1>0, <1>2, <1>5, <2>1 DEF Grown
<1> QED  BY <1>8, <1>9

LEMMA SendMore ==
    ASSUME NEW p, NEW iss, NEW next, NEW end, NEW over, SendOpen(p, iss, next, end, over),
           NEW over2, over => over2
    PROVE  SendOpen(p, iss, next, end, over2)
BY DEF SendOpen, Sends, Stage, OutSaid

\* Nothing happens on slirp's side.
LEMMA AwaySends ==
    ASSUME NEW R, SendInv(R), UNCHANGED <<so, made, wire>>, host'.read = host.read,
           Over => Over'
    PROVE  SendInv(R)' /\ Grown(R, R)
<1>1. (Exists' <=> Exists) /\ (Connecting' <=> Connecting)
  BY DEF Exists, Connecting
<1>2. PICK over, over2 : over = Over /\ over2 = Over'
  OBVIOUS
<1>3. ASSUME Exists, ~Connecting
      PROVE  SendOpen(so, Number(made, 0), R[made] + 1, Number(made, R[made] + 1), over2)
  <2>1. SendOpen(so, Number(made, 0), R[made] + 1, Number(made, R[made] + 1), over)
    BY <1>2, <1>3 DEF SendInv, Reads, WireTold, SocketSends, FinTold
  <2>2. over => over2
    BY <1>2
  <2> QED  BY <2>1, <2>2, SendMore
<1>4. Exists /\ ~Connecting =>
        SendOpen(so', Number(made', 0), R[made'] + 1, Number(made', R[made'] + 1), Over')
  BY <1>2, <1>3
<1>5. SendInv(R)'
  BY <1>1, <1>4 DEF SendInv, Reads, WireTold, SocketSends, FinTold
<1> QED  BY <1>5, GrownSame

\* A step of an open socket that reads nothing from the host.
LEMMA KeepsSends ==
    ASSUME NEW R, SendInv(R), Exists, ~Connecting, UNCHANGED <<made, host>>,
           NEW p,
           \A iss, next, end, over :
               SendOpen(so, iss, next, end, over) /\ (over <=> Over)
                   => SendLeft(p, iss, next, end, over),
           "ISFCONNECTING" \in p.so_state => p.t_state = CLOSED, Returns(p)
    PROVE  SendInv(R)' /\ Grown(R, R)
<1>1. PICK over : over = Over
  OBVIOUS
<1>2. /\ SendOpen(so, Number(made, 0), R[made] + 1, Number(made, R[made] + 1), over)
      /\ R[made] = host.read /\ made >= 1 /\ made \in Nat /\ R \in [Nat -> 0 .. HostBytes]
      /\ Fin(Number(made, R[made] + 1)) \in wire => over
  BY <1>1 DEF SendInv, Reads, WireTold, SocketSends, FinTold
<1>3. over <=> Over'
  BY <1>1 DEF Over
<1>4. over <=> Over
  BY <1>1
<1>5. SendLeft(p, Number(made, 0), R[made] + 1, Number(made, R[made] + 1), over)
  BY <1>2, <1>4
<1>6. R[made] <= R[made] /\ R[made] = host'.read
  BY <1>2, Sizes
<1> QED  BY <1>2, <1>3, <1>5, <1>6, StaysSends

\* The socket is open, and what it received is as the receive side's invariant says.
LEMMA LeftIs ==
    ASSUME NEW p, NEW sent, Left(p, sent)
    PROVE  "ISFCONNECTING" \in p.so_state => p.t_state = CLOSED
BY DEF Left, RecvOpen, RecvClosed, Phase

LEMMA CwndsAre == Cwnds \subseteq Int
BY Sizes DEF Cwnds

LEMMA InputSends ==
    ASSUME NEW R, SendInv(R), NEW sent \in Int, Recv(so, sent), NEW s, FromGuest(s, sent),
           "ACK" \in s.flags => /\ s.ack \in Int /\ s.win \in Int
                                /\ \A j \in Nat : s.ack # Number(j, 0),
           Exists => Within(so, s), tcp_input(s), UNCHANGED host
    PROVE  \E R2 : SendInv(R2)' /\ Grown(R, R2)
<1>1. CASE OnSyn
  <2>1. PICK R2 : R2 = [R EXCEPT ![made + 1] = 0]
    OBVIOUS
  <2>2. PICK p : /\ Returns(p)
                 /\ \/ \E refusal \in {{Rst}, {}} : p = [NewSocket EXCEPT !.out = refusal]
                    \/ p = [NewSocket EXCEPT !.t_state = SYN_RECEIVED, !.so_state = {"ISFCONNECTING"}]
    BY <1>1 DEF OnSyn
  <2>3. /\ Socket(p) /\ p.out \subseteq {Rst}
        /\ p.t_state # CLOSED =>
             "ISFCONNECTING" \in p.so_state /\ p.so_snd = <<>> /\ p.snd_wnd = 0
    <3>1. CASE \E refusal \in {{Rst}, {}} : p = [NewSocket EXCEPT !.out = refusal]
      BY <3>1 DEF NewSocket, Socket, FieldNames
    <3>2. CASE p = [NewSocket EXCEPT !.t_state = SYN_RECEIVED, !.so_state = {"ISFCONNECTING"}]
      BY <3>2 DEF NewSocket, Socket, FieldNames
    <3> QED  BY <2>2, <3>1, <3>2
  <2>4. made' = made + 1
    BY <1>1 DEF OnSyn
  <2> QED  BY <2>1, <2>2, <2>3, <2>4, MadeSends
<1>2. CASE ~Exists /\ Returns(DropWithReset(so)) /\ UNCHANGED made
  <2>1. PICK p : p = DropWithReset(so)
    OBVIOUS
  <2>2. Socket(so)
    BY RecvKind
  <2>3. Socket(p) /\ p.t_state = CLOSED /\ p.out \subseteq {Rst}
    BY <1>2, <2>1, <2>2 DEF DropWithReset, Socket, FieldNames, Exists, SendInv
  <2> QED  BY <1>2, <2>1, <2>3, EndsSends
<1>3. CASE UNCHANGED <<so, wire, made>>
  <2>1. Over => Over'
    BY DEF Over
  <2> QED  BY <1>3, <2>1, AwaySends
<1>4. CASE /\ Exists /\ ~Connecting /\ UNCHANGED made
           /\ \E cwnd \in Cwnds, k \in Taken : Returns(OnSegment(so, s, cwnd, k))
  <2>0. PICK cwnd \in Cwnds, k \in Taken : Returns(OnSegment(so, s, cwnd, k))
    BY <1>4
  <2>1. k \in Nat /\ cwnd \in Int
    BY TakenIs, CwndsAre
  <2>2. RecvOpen(so, sent)
    BY <1>4, RecvKind DEF Exists, Connecting
  <2>3. PICK p : p = OnSegment(so, s, cwnd, k)
    OBVIOUS
  <2>4. Left(p, sent)
    BY <1>4, <2>1, <2>2, <2>3, OnSegmentRecv
  <2>5. so.t_state >= SYN_RECEIVED /\ Segment(s)
    BY <2>2 DEF RecvOpen, Phase, FromGuest, SYN_RECEIVED, TIME_WAIT
  <2>6. ASSUME NEW iss, NEW next, NEW end, NEW over, SendOpen(so, iss, next, end, over),
               iss = Number(made, 0)
        PROVE  SendLeft(p, iss, next, end, over)
    <3>1. made \in Nat
      BY DEF SendInv, Reads, WireTold, SocketSends, FinTold
    <3>2. "ACK" \in s.flags => s.ack \in Int /\ s.win \in Int /\ s.ack # iss
      BY <2>6, <3>1
    <3> QED  BY <2>1, <2>3, <2>5, <2>6, <3>2, OnSegmentSends
  <2>7. ASSUME NEW iss, NEW next, NEW end, NEW over, SendOpen(so, iss, next, end, over),
               over <=> Over
        PROVE  SendLeft(p, iss, next, end, over)
    <3>1. so.iss = iss
      BY <2>7 DEF SendOpen, Sends, Sequence
    <3>2. so.iss = Number(made, 0)
      BY <1>4 DEF SendInv, SocketSends, SendOpen, Sends, Sequence
    <3> QED  BY <2>6, <2>7, <3>1, <3>2
  <2>8. "ISFCONNECTING" \in p.so_state => p.t_state = CLOSED
    BY <2>4, LeftIs
  <2>9. Returns(p)
    BY <2>0, <2>3
  <2> QED  BY <1>4, <2>7, <2>8, <2>9, KeepsSends
<1> QED  BY <1>1, <1>2, <1>3, <1>4 DEF tcp_input

LEMMA ConnectedSends ==
    ASSUME NEW R, SendInv(R), NEW sent, Recv(so, sent), Connected
    PROVE  SendInv(R)' /\ Grown(R, R)
<1>1. RecvPending(so)
  BY RecvKind DEF Connected, Exists, Connecting
<1>2. /\ Exists /\ Connecting /\ made \in Nat /\ made >= 1 /\ R[made] = 0 /\ so.so_snd = <<>>
      /\ so.snd_wnd = 0 /\ so.out = {} /\ Fin(Number(made, R[made] + 1)) \notin wire
      /\ R \in [Nat -> 0 .. HostBytes]
  BY DEF Connected, SendInv, Reads, SocketSends, FinTold
<1>3. PICK iss : iss = made * IssIncr
  OBVIOUS
<1>4. PICK p : p = [so EXCEPT !.so_state = {}, !.iss = iss, !.snd_una = iss, !.snd_nxt = iss,
                              !.snd_max = iss, !.rcv_nxt = 1, !.rcv_adv = 1, !.t_flags = {"ACKNOW"}]
  OBVIOUS
<1>5. PICK no, q : no = FALSE /\ q = tcp_output(p, Mss, no)
  OBVIOUS
<1>6. Returns(q)
  BY <1>3, <1>4, <1>5 DEF Connected
<1>7. /\ Socket(p) /\ p.t_state = SYN_RECEIVED /\ p.so_state = {} /\ p.t_flags = {"ACKNOW"}
      /\ p.so_snd = <<>> /\ p.snd_wnd = 0 /\ p.out = {} /\ p.iss = iss /\ p.snd_una = iss
      /\ p.snd_nxt = iss /\ p.snd_max = iss
  BY <1>1, <1>2, <1>4 DEF RecvPending, Socket, FieldNames
<1>8. iss \in Nat /\ iss = Number(made, 0) /\ Number(made, 1) = iss + 1
  BY <1>2, <1>3, NumberIs
<1>9. PICK over : over <=> FALSE
  BY Zenon
<1>10. PICK next, end : next = 1 /\ end = iss + 1
  OBVIOUS
<1>11. SendOpen(p, iss, next, end, over)
  <2>1. Sequence(p, iss, next, end)
    <3>1. Stretch(p.so_snd, 1, next)
      BY <1>7, <1>10, StretchEmpty
    <3> QED  BY <1>7, <1>8, <1>10, <3>1 DEF Sequence
  <2>2. Stage(p, iss, end, over)
    BY <1>7, <1>8, <1>10 DEF Stage, FinStates, CLOSED, SYN_RECEIVED, ESTABLISHED, FIN_WAIT_1,
       CLOSING, LAST_ACK, FIN_WAIT_2, TIME_WAIT
  <2> QED  BY <1>7, <2>1, <2>2 DEF SendOpen, Sends, OutSaid
<1>12. Mss \in Int
  BY Sizes
<1>13. SendLeft(q, iss, next, end, over)
  BY <1>5, <1>11, <1>12, OutputOpen DEF SendLeft
<1>14. "ISFCONNECTING" \notin q.so_state
  <2>1. q.so_state = p.so_state
    BY <1>5, <1>7, OutputFields DEF SameInput
  <2> QED  BY <1>7, <2>1
<1>15. UNCHANGED made /\ host' = NewHost
  BY Zenon DEF Connected
<1>16. host'.read = 0 /\ (over <=> Over')
  BY <1>9, <1>15 DEF NewHost, Over
<1>17. SendLeft(q, Number(made, 0), R[made] + 1, Number(made, R[made] + 1), over)
  <2>1. R[made] + 1 = 1
    BY <1>2
  <2> QED  BY <1>8, <1>10, <1>13, <2>1
<1>18. R[made] <= R[made] /\ R[made] = host'.read
  BY <1>2, <1>16
<1> QED  BY <1>2, <1>6, <1>14, <1>15, <1>16, <1>17, <1>18, StaysSends

LEMMA CloseFields ==
    ASSUME NEW p, Socket(p), NEW why
    PROVE  LET q == tcp_close(p, why) IN Socket(q) /\ q.t_state = CLOSED /\ q.out = p.out
BY DEF tcp_close, NewSocket, Socket, FieldNames

LEMMA ConnectFailsSends ==
    ASSUME NEW R, SendInv(R), NEW sent, Recv(so, sent), ConnectFails
    PROVE  SendInv(R)' /\ Grown(R, R)
<1>1. PICK q : q = tcp_close(so, "refused")
  OBVIOUS
<1>2. PICK p : p = DropWithReset(q) /\ Returns(p)
  BY <1>1 DEF ConnectFails
<1>3. Socket(q) /\ q.t_state = CLOSED /\ q.out = {}
  <2>1. Socket(so)
    BY RecvKind
  <2> QED  BY <1>1, <2>1, CloseFields DEF SendInv, Reads, WireTold, SocketSends, FinTold
<1>4. Socket(p) /\ p.t_state = CLOSED /\ p.out \subseteq {Rst}
  BY <1>2, <1>3 DEF DropWithReset, Socket, FieldNames
<1>5. UNCHANGED <<made, host>>
  BY Zenon DEF ConnectFails
<1> QED  BY <1>2, <1>4, <1>5, EndsSends

\* c is the sum of a and b.
Adds(a, b, c) == a \in Nat /\ b \in Nat /\ c \in Nat /\ c = a + b

LEMMA AddsBoth ==
    ASSUME NEW x, NEW y, NEW z, NEW k, NEW y2, NEW z2,
           Adds(x, y, z), Adds(y, k, y2), Adds(z, k, z2)
    PROVE  Adds(x, y2, z2)
BY DEF Adds

LEMMA AddsTwice ==
    ASSUME NEW a, NEW y, NEW k, NEW y2, NEW u, NEW v,
           Adds(a, u, y), Adds(y, k, y2), Adds(a, v, y2)
    PROVE  Adds(u, k, v)
BY DEF Adds

LEMMA PlusMore ==
    ASSUME NEW m \in Nat, NEW z \in Nat, NEW k \in Nat, NEW z2 \in Nat, z2 = z + k, k > 0,
           m <= z + 1, m # z + 1
    PROVE  m <= z2 + 1 /\ m # z2 + 1 /\ z2 # 0
OBVIOUS

\* More of the host's stream goes into the buffer, behind what is there.
LEMMA ReadSends ==
    ASSUME NEW p, NEW iss, NEW next, NEW end, NEW over, SendOpen(p, iss, next, end, over),
           ~over, p.out = {}, p.t_state >= ESTABLISHED,
           NEW n \in Nat \ {0}, NEW next2, next2 = next + n, NEW end2, end2 = end + n,
           NEW t, Stretch(t, next, next2), NEW d, d = p.so_snd \o t,
           NEW q, q = [p EXCEPT !.so_snd = d]
    PROVE  SendOpen(q, iss, next2, end2, over)
<1>1. Socket(p) /\ Sequence(p, iss, next, end) /\ Stage(p, iss, end, over)
  BY DEF SendOpen, Sends
<1>2. /\ Socket(q) /\ q.so_snd = d /\ q.t_state = p.t_state /\ q.iss = p.iss /\ q.out = {}
      /\ q.snd_una = p.snd_una /\ q.snd_nxt = p.snd_nxt /\ q.snd_max = p.snd_max
      /\ q.snd_wnd = p.snd_wnd /\ q.t_flags = p.t_flags
  BY <1>1 DEF Socket, FieldNames
<1>3. PICK a \in Nat \ {0} : Stretch(p.so_snd, a, next)
  BY <1>1 DEF Sequence
<1>4. /\ iss \in Nat /\ next \in Nat \ {0} /\ end = iss + next /\ p.iss = iss /\ p.snd_una \in Nat
      /\ p.snd_nxt \in Nat /\ p.snd_max \in Nat /\ p.snd_wnd \in Int
      /\ iss <= p.snd_una /\ p.snd_una <= p.snd_nxt /\ p.snd_nxt <= p.snd_max
      /\ p.snd_max <= end + 1 /\ ("SENTFIN" \in p.t_flags <=> p.snd_max = end + 1)
  BY <1>1 DEF Sequence
<1>5. /\ p.t_state \notin FinStates /\ p.t_state \in CLOSED .. TIME_WAIT
      /\ p.snd_una + Len(p.so_snd) = end /\ "SENTFIN" \notin p.t_flags
      /\ p.t_state # SYN_RECEIVED /\ p.t_state # CLOSED
  <2>1. p.t_state \notin FinStates /\ p.t_state \in CLOSED .. TIME_WAIT
    BY <1>1 DEF Stage
  <2>2. p.t_state # CLOSED /\ p.t_state # SYN_RECEIVED
    BY <2>1 DEF CLOSED, SYN_RECEIVED, ESTABLISHED, TIME_WAIT
  <2>3. p.t_state \notin {FIN_WAIT_2, TIME_WAIT}
    BY <2>1 DEF FinStates
  <2> QED  BY <1>1, <2>1, <2>2, <2>3 DEF Stage
<1>6. Stretch(d, a, next2)
  BY <1>3, StretchConcat
<1>7. Len(p.so_snd) \in Nat /\ next = a + Len(p.so_snd) /\ next2 = a + Len(d) /\ Len(d) \in Nat
  BY <1>3, <1>6, StretchLen
<1>7a. PICK x \in Nat, y \in Nat, z \in Nat, una \in Nat, mx \in Nat :
         x = iss /\ y = next /\ z = end /\ una = p.snd_una /\ mx = p.snd_max /\ y > 0 /\ z = x + y
  BY <1>4
<1>7b. PICK u \in Nat, v \in Nat : u = Len(p.so_snd) /\ v = Len(d)
  BY <1>7
<1>7c. PICK a0 \in Nat : a0 = a
  OBVIOUS
<1>7d. PICK k \in Nat : k = n /\ k > 0
  OBVIOUS
<1>7e. PICK y2 \in Nat, z2 \in Nat : y2 = next2 /\ z2 = end2 /\ y2 = y + k /\ z2 = z + k
  BY <1>7a, <1>7d
<1>7f. mx <= z + 1 /\ mx # z + 1 /\ z = una + u /\ y = a0 + u /\ y2 = a0 + v
  BY <1>4, <1>5, <1>7, <1>7a, <1>7b, <1>7c, <1>7e
<1>7h. Adds(x, y, z) /\ Adds(una, u, z)
  BY <1>7a, <1>7f, Zenon DEF Adds
<1>7i. Adds(y, k, y2) /\ Adds(z, k, z2)
  BY <1>7e, Zenon DEF Adds
<1>7j. Adds(a0, u, y) /\ Adds(a0, v, y2)
  BY <1>7f, Zenon DEF Adds
<1>7g. y2 # 0 /\ z2 = x + y2 /\ una + v = z2 /\ mx <= z2 + 1 /\ mx # z2 + 1
  <2>2. y > 0 /\ k > 0 /\ mx <= z + 1 /\ mx # z + 1 /\ z2 = z + k
    BY <1>7a, <1>7d, <1>7e, <1>7f, Zenon
  <2>3. Adds(x, y2, z2)
    BY <1>7h, <1>7i, AddsBoth, Zenon
  <2>4. Adds(u, k, v)
    BY <1>7i, <1>7j, AddsTwice, Zenon
  <2>5. Adds(una, v, z2)
    BY <1>7h, <1>7i, <2>4, AddsBoth, Zenon
  <2>6. mx <= z2 + 1 /\ mx # z2 + 1
    BY <2>2, PlusMore, Zenon
  <2>7. y2 # 0
    BY <1>7a, <1>7d, <1>7e
  <2> QED  BY <2>3, <2>5, <2>6, <2>7 DEF Adds
<1>8. next2 \in Nat \ {0} /\ end2 = iss + next2 /\ end2 \in Nat
  BY <1>7a, <1>7e, <1>7g
<1>9. p.snd_una + Len(d) = end2
  BY <1>7a, <1>7b, <1>7e, <1>7g
<1>10. p.snd_max <= end2 + 1 /\ p.snd_max # end2 + 1
  BY <1>7a, <1>7e, <1>7g
<1>11. Sequence(q, iss, next2, end2)
  <2>1. \E b \in Nat \ {0} : Stretch(q.so_snd, b, next2)
    BY <1>2, <1>6
  <2>2. q.so_snd # <<>> => q.snd_una + Len(q.so_snd) = end2
    BY <1>2, <1>9
  <2>3. "SENTFIN" \in q.t_flags <=> q.snd_max = end2 + 1
    BY <1>2, <1>5, <1>10
  <2> QED  BY <1>2, <1>4, <1>8, <1>10, <2>1, <2>2, <2>3 DEF Sequence
<1>12. Stage(q, iss, end2, over)
  BY <1>2, <1>5, <1>9 DEF Stage
<1>13. OutSaid(q, iss, next2, end2, over)
  BY <1>2 DEF OutSaid
<1> QED  BY <1>2, <1>11, <1>12, <1>13 DEF SendOpen, Sends

LEMMA SoReadSends ==
    ASSUME NEW R, SendInv(R), HostInv, NEW sent, Recv(so, sent), SoRead
    PROVE  /\ HostInv'
           /\ \E R2 : SendInv(R2)' /\ Grown(R, R2)
<1>1. RecvOpen(so, sent) /\ so.t_state >= ESTABLISHED /\ Socket(so)
  BY RecvKind DEF SoRead
<1>2. Exists /\ ~Connecting
  BY <1>1 DEF RecvOpen, Phase, Exists, Connecting, CLOSED, SYN_RECEIVED, TIME_WAIT
<1>3. PICK n \in 1 .. Min({host.sent - host.read, SndSpace - Len(so.so_snd)}), cwnd \in Cwnds :
        /\ Returns(tcp_output([so EXCEPT !.so_snd = @ \o [i \in 1 .. n |-> host.read + i]],
                              cwnd, FALSE))
        /\ host' = [host EXCEPT !.read = @ + n]
  BY DEF SoRead
<1>4. PICK read \in Nat, sent0 \in Nat : /\ read = host.read /\ sent0 = host.sent /\ read <= sent0
                                         /\ sent0 <= HostBytes
  BY DEF HostInv
<1>5. /\ made \in Nat /\ made >= 1 /\ R \in [Nat -> 0 .. HostBytes] /\ R[made] = read /\ so.out = {}
      /\ SendOpen(so, Number(made, 0), R[made] + 1, Number(made, R[made] + 1), Over)
  BY <1>2, <1>4 DEF SendInv, Reads, SocketSends
<1>6. PICK next, end, iss : next = read + 1 /\ end = Number(made, next) /\ iss = Number(made, 0)
  OBVIOUS
<1>7. PICK over : over <=> Over
  BY Zenon
<1>8. SendOpen(so, iss, next, end, over)
  <2>1. PICK o : o = Over
    OBVIOUS
  <2>2. SendOpen(so, iss, next, end, o)
    BY <1>4, <1>5, <1>6, <2>1
  <2>3. o => over
    BY <1>7, <2>1
  <2> QED  BY <2>2, <2>3, SendMore
<1>9. \E a \in Nat \ {0} : Stretch(so.so_snd, a, next)
  BY <1>8 DEF SendOpen, Sends, Sequence
<1>10. PICK len \in Nat : len = Len(so.so_snd)
  BY <1>9, StretchLen
<1>11. n \in Nat \ {0} /\ n <= sent0 - read
  <2>0. SndSpace \in Int /\ SndSpace - len \in Int /\ sent0 - read \in Int
    BY Sizes
  <2>1. PICK x \in Int, y \in Int : /\ x = host.sent - host.read /\ y = SndSpace - Len(so.so_snd)
                                 /\ x = sent0 - read
    BY <1>4, <1>10, <2>0
  <2>2. Min({x, y}) \in Int /\ Min({x, y}) <= x
    BY <2>1, MinOfTwo
  <2>3. n \in 1 .. Min({x, y})
    BY <2>1
  <2> QED  BY <1>4, <2>1, <2>2, <2>3
<1>12. ~Over
  <2>1. host.read # host.sent
    BY <1>4, <1>11
  <2>2. ~host.reset
    BY DEF SoRead
  <2> QED  BY <2>1, <2>2 DEF Over
<1>13. PICK k \in Nat : k = read + n /\ k <= sent0 /\ k <= HostBytes /\ k >= read
  BY <1>4, <1>11, Sizes
<1>14. PICK next2, end2 : next2 = k + 1 /\ end2 = Number(made, next2)
  OBVIOUS
<1>15. next2 = next + n /\ end2 = end + n
  <2>1. PICK x \in Nat, y \in Nat : x = next /\ y = next2
    BY <1>4, <1>6, <1>13, <1>14
  <2>2. Number(made, x) = Number(made, 0) + x /\ Number(made, y) = Number(made, 0) + y
        /\ Number(made, 0) \in Nat
    BY <1>5, <2>1, NumberIs
  <2>3. PICK z \in Nat : z = Number(made, 0)
    BY <2>2
  <2>4. x = read + 1 /\ y = k + 1 /\ k = read + n
    BY <1>6, <1>13, <1>14, <2>1
  <2>4a. PICK c \in Nat : c = n
    BY <1>11
  <2>4b. k = read + c
    BY <2>4, <2>4a
  <2>4c. y = x + c
    BY <2>4, <2>4b
  <2>5. y = x + n /\ z + y = z + x + n
    BY <2>4a, <2>4c
  <2>6. end = z + x /\ end2 = z + y
    BY <1>6, <1>14, <2>1, <2>2, <2>3
  <2> QED  BY <2>1, <2>5, <2>6
<1>16. PICK t : t = [i \in 1 .. n |-> read + i]
  OBVIOUS
<1>17. Stretch(t, next, next2)
  <2>1. t = [i \in 1 .. n |-> next + i - 1]
    <3>1. \A i \in 1 .. n : read + i = next + i - 1
      BY <1>4, <1>6, <1>11
    <3> QED  BY <1>16, <3>1
  <2>2. next \in Nat /\ next > 0 /\ n \in Nat
    BY <1>4, <1>6, <1>11
  <2> QED  BY <1>15, <2>1, <2>2, StretchOf
<1>18. PICK d : d = so.so_snd \o t
  OBVIOUS
<1>19. PICK p : p = [so EXCEPT !.so_snd = d]
  OBVIOUS
<1>20. SendOpen(p, iss, next2, end2, over)
  <2>1. ~over
    BY <1>7, <1>12
  <2> QED  BY <1>1, <1>5, <1>8, <1>11, <1>15, <1>17, <1>18, <1>19, <2>1, ReadSends
<1>21. PICK no, q : no = FALSE /\ q = tcp_output(p, cwnd, no)
  OBVIOUS
<1>22. Returns(q)
  <2>1. t = [i \in 1 .. n |-> host.read + i]
    BY <1>4, <1>16
  <2>2. p = [so EXCEPT !.so_snd = @ \o [i \in 1 .. n |-> host.read + i]]
    BY <1>18, <1>19, <2>1
  <2> QED  BY <1>3, <1>21, <2>2
<1>23. cwnd \in Int
  BY CwndsAre
<1>25. "ISFCONNECTING" \notin q.so_state
  <2>1. Socket(p) /\ p.so_state = so.so_state
    BY <1>1, <1>19 DEF Socket, FieldNames
  <2>2. q.so_state = p.so_state
    BY <1>21, <2>1, OutputFields DEF SameInput
  <2> QED  BY <1>2, <2>1, <2>2 DEF Connecting
<1>26. PICK R2 : R2 = [R EXCEPT ![made] = k]
  OBVIOUS
<1>27. /\ R2 \in [Nat -> 0 .. HostBytes] /\ R2[made] = k
       /\ \A j \in Nat : j # made => R2[j] = R[j]
  BY <1>5, <1>13, <1>26, Sizes
<1>28. host'.read = k /\ host'.eof = host.eof /\ host'.reset = host.reset /\ host'.sent = sent0
       /\ DOMAIN host' = DOMAIN host
  BY <1>3, <1>4, <1>13 DEF HostInv
<1>29. HostInv'
  BY <1>4, <1>13, <1>28 DEF HostInv
<1>30. PICK over2 : over2 <=> Over'
  BY Zenon
<1>31. SendLeft(q, iss, next2, end2, over2)
  <2>1. over => over2
    BY <1>7, <1>12
  <2>2. SendOpen(q, iss, next2, end2, over)
    BY <1>20, <1>21, <1>23, OutputOpen
  <2> QED  BY <2>1, <2>2, SendMore DEF SendLeft
<1>32. SendLeft(q, Number(made, 0), R2[made] + 1, Number(made, R2[made] + 1), over2)
  BY <1>6, <1>14, <1>27, <1>31
<1>33. Fin(Number(made, R[made] + 1)) \notin wire
  BY <1>12 DEF SendInv, FinTold
<1>34. R[made] <= R2[made] /\ R2[made] = host'.read
  BY <1>5, <1>13, <1>27, <1>28
<1>35. UNCHANGED made
  BY Zenon DEF SoRead
<1>36. SendInv(R2)' /\ Grown(R, R2)
  BY <1>5, <1>22, <1>25, <1>27, <1>30, <1>32, <1>33, <1>34, <1>35, StaysSends
<1> QED  BY <1>29, <1>36

\* tcp_sockclosed, when the host has no more to send.
LEMMA EndSends ==
    ASSUME NEW p, NEW iss, NEW next, NEW end, NEW over, SendOpen(p, iss, next, end, over),
           over, p.t_state >= ESTABLISHED,
           NEW q, Socket(q), SameSend(p, q), q.t_state = AfterEnd(p.t_state)
    PROVE  SendOpen(q, iss, next, end, over)
<1>1. Sequence(p, iss, next, end) /\ Stage(p, iss, end, over) /\ OutSaid(p, iss, next, end, over)
  BY DEF SendOpen, Sends
<1>2. Sequence(q, iss, next, end)
  BY <1>1 DEF Sequence, SameSend
<1>3. OutSaid(q, iss, next, end, over)
  BY <1>1 DEF OutSaid, SameSend
<1>4. /\ q.t_state \in CLOSED .. TIME_WAIT /\ q.t_state # SYN_RECEIVED /\ q.t_state # CLOSED
      /\ q.t_state \in FinStates
      /\ p.t_state \in {FIN_WAIT_2, TIME_WAIT} => q.t_state = p.t_state
  <2>1. p.t_state \in CLOSED .. TIME_WAIT
    BY <1>1 DEF Stage
  <2> QED  BY <2>1 DEF AfterEnd, FinStates, CLOSED, SYN_RECEIVED, ESTABLISHED, CLOSE_WAIT,
              FIN_WAIT_1, CLOSING, LAST_ACK, FIN_WAIT_2, TIME_WAIT
<1>5. \/ p.snd_una + Len(p.so_snd) = end
      \/ p.snd_una = end + 1 /\ p.t_state \in {FIN_WAIT_2, TIME_WAIT}
  BY <1>1 DEF Stage
<1>6. \/ q.snd_una + Len(q.so_snd) = end
      \/ q.snd_una = end + 1 /\ q.t_state \in {FIN_WAIT_2, TIME_WAIT}
  BY <1>4, <1>5 DEF SameSend
<1>7. Stage(q, iss, end, over)
  BY <1>4, <1>6 DEF Stage
<1> QED  BY <1>2, <1>3, <1>7 DEF SendOpen, Sends

LEMMA SoReadEndsSends ==
    ASSUME NEW R, SendInv(R), NEW sent, Recv(so, sent), SoReadEnds
    PROVE  SendInv(R)' /\ Grown(R, R)
<1>1. RecvOpen(so, sent) /\ so.t_state >= ESTABLISHED /\ Socket(so)
  BY RecvKind DEF SoReadEnds
<1>2. Exists /\ ~Connecting
  BY <1>1 DEF RecvOpen, Phase, Exists, Connecting, CLOSED, SYN_RECEIVED, TIME_WAIT
<1>3. PICK p : p = sofcantrcvmore(so)
  OBVIOUS
<1>4. PICK r : r = [p EXCEPT !.t_state = AfterEnd(p.t_state)]
  OBVIOUS
<1>5. PICK cwnd \in Cwnds : Returns(tcp_sockclosed(sofcantrcvmore(so), cwnd))
  BY DEF SoReadEnds
<1>6. PICK no, q : no = FALSE /\ q = tcp_output(r, cwnd, no)
  OBVIOUS
<1>7. Returns(q)
  BY <1>3, <1>4, <1>5, <1>6, SockClosedIs
<1>8. /\ Socket(p) /\ p.t_state = so.t_state /\ SameSend(so, p)
      /\ "ISFCONNECTING" \notin p.so_state
  BY <1>1, <1>2, <1>3 DEF sofcantrcvmore, Socket, FieldNames, SameSend, Connecting
<1>9. Socket(r) /\ r.t_state = AfterEnd(so.t_state) /\ SameSend(so, r)
      /\ "ISFCONNECTING" \notin r.so_state
  BY <1>4, <1>8 DEF Socket, FieldNames, SameSend
<1>10. "ISFCONNECTING" \notin q.so_state
  <2>1. q.so_state = r.so_state
    BY <1>6, <1>9, OutputFields DEF SameInput
  <2> QED  BY <1>9, <2>1
<1>11. Over
  BY DEF SoReadEnds, Over
<1>12. cwnd \in Int
  BY CwndsAre
<1>13. ASSUME NEW iss, NEW next, NEW end, NEW over, SendOpen(so, iss, next, end, over), over <=> Over
       PROVE  SendLeft(q, iss, next, end, over)
  <2>1. SendOpen(r, iss, next, end, over)
    BY <1>1, <1>9, <1>11, <1>13, EndSends
  <2> QED  BY <1>6, <1>12, <2>1, OutputOpen DEF SendLeft
<1>14. UNCHANGED <<made, host>>
  BY Zenon DEF SoReadEnds
<1> QED  BY <1>2, <1>7, <1>10, <1>13, <1>14, KeepsSends

LEMMA SoWriteFailsSends ==
    ASSUME NEW R, SendInv(R), NEW sent, Recv(so, sent), SoWriteFails
    PROVE  SendInv(R)' /\ Grown(R, R)
<1>1. RecvOpen(so, sent) /\ so.t_state >= ESTABLISHED /\ Socket(so)
  BY RecvKind DEF SoWriteFails
<1>2. Exists /\ ~Connecting
  BY <1>1 DEF RecvOpen, Phase, Exists, Connecting, CLOSED, SYN_RECEIVED, TIME_WAIT
<1>3. PICK p : p = sofcantsendmore(so)
  OBVIOUS
<1>4. PICK r : r = [p EXCEPT !.t_state = AfterEnd(p.t_state)]
  OBVIOUS
<1>5. PICK cwnd \in Cwnds : Returns(tcp_sockclosed(sofcantsendmore(so), cwnd))
  BY DEF SoWriteFails
<1>6. PICK no, q : no = FALSE /\ q = tcp_output(r, cwnd, no)
  OBVIOUS
<1>7. Returns(q)
  BY <1>3, <1>4, <1>5, <1>6, SockClosedIs
<1>8. /\ Socket(p) /\ p.t_state = so.t_state /\ SameSend(so, p)
      /\ "ISFCONNECTING" \notin p.so_state
  <2>1. /\ Socket(p) /\ p.t_state = so.t_state /\ SameSend(so, p)
        /\ p.so_state = IF "FCANTRCVMORE" \in so.so_state THEN {"NOFDREF"}
                        ELSE (so.so_state \ {"ISFCONNECTING"}) \cup {"FCANTSENDMORE"}
    BY <1>1, <1>3, CantSendMoreFields
  <2>2. "ISFCONNECTING" \notin p.so_state
    BY <2>1
  <2> QED  BY <2>1, <2>2
<1>9. Socket(r) /\ r.t_state = AfterEnd(so.t_state) /\ SameSend(so, r)
      /\ "ISFCONNECTING" \notin r.so_state
  BY <1>4, <1>8 DEF Socket, FieldNames, SameSend
<1>10. "ISFCONNECTING" \notin q.so_state
  <2>1. q.so_state = r.so_state
    BY <1>6, <1>9, OutputFields DEF SameInput
  <2> QED  BY <1>9, <2>1
<1>11. Over
  BY DEF SoWriteFails, Over
<1>12. cwnd \in Int
  BY CwndsAre
<1>13. ASSUME NEW iss, NEW next, NEW end, NEW over, SendOpen(so, iss, next, end, over), over <=> Over
       PROVE  SendLeft(q, iss, next, end, over)
  <2>1. SendOpen(r, iss, next, end, over)
    BY <1>1, <1>9, <1>11, <1>13, EndSends
  <2> QED  BY <1>6, <1>12, <2>1, OutputOpen DEF SendLeft
<1>14. UNCHANGED <<made, host>>
  BY Zenon DEF SoWriteFails
<1> QED  BY <1>2, <1>7, <1>10, <1>13, <1>14, KeepsSends

LEMMA SoWriteSends ==
    ASSUME NEW R, SendInv(R), NEW sent, Recv(so, sent), SoWrite
    PROVE  SendInv(R)' /\ Grown(R, R)
<1>1. RecvOpen(so, sent) /\ so.t_state >= ESTABLISHED /\ Socket(so)
  BY RecvKind DEF SoWrite
<1>2. Exists /\ ~Connecting
  BY <1>1 DEF RecvOpen, Phase, Exists, Connecting, CLOSED, SYN_RECEIVED, TIME_WAIT
<1>3. PICK n \in 1 .. Len(so.so_rcv) :
        LET p == [so EXCEPT !.got = @ \o SubSeq(so.so_rcv, 1, n), !.so_rcv = From(@, n)] IN
        Returns(IF "FWDRAIN" \in p.so_state /\ p.so_rcv = <<>> THEN sofcantsendmore(p) ELSE p)
  BY DEF SoWrite
<1>4. PICK t, f : t = Take(so.so_rcv, n) /\ f = From(so.so_rcv, n)
  OBVIOUS
<1>5. PICK p : p = [so EXCEPT !.got = @ \o t, !.so_rcv = f]
  OBVIOUS
<1>6. PICK q : /\ q = IF "FWDRAIN" \in p.so_state /\ p.so_rcv = <<>> THEN sofcantsendmore(p) ELSE p
               /\ Returns(q)
  BY <1>3, <1>4, <1>5 DEF Take
<1>7. Aside(so, p) /\ p.so_state = so.so_state
  BY <1>1, <1>5 DEF Aside, SameSend, Socket, FieldNames
<1>8. Aside(so, q) /\ "ISFCONNECTING" \notin q.so_state
  <2>1. CASE q = p
    BY <1>2, <1>7, <2>1 DEF Connecting
  <2>2. CASE q = sofcantsendmore(p)
    <3>1. /\ Socket(q) /\ SameSend(p, q) /\ q.t_state = p.t_state
          /\ q.so_state = IF "FCANTRCVMORE" \in p.so_state THEN {"NOFDREF"}
                          ELSE (p.so_state \ {"ISFCONNECTING"}) \cup {"FCANTSENDMORE"}
      BY <1>7, <2>2, CantSendMoreFields DEF Aside
    <3>2. "ISFCONNECTING" \notin q.so_state
      BY <3>1
    <3> QED  BY <1>7, <3>1, <3>2 DEF Aside, SameSend
  <2> QED  BY <1>6, <2>1, <2>2
<1>9. ASSUME NEW iss, NEW next, NEW end, NEW over, SendOpen(so, iss, next, end, over)
      PROVE  SendLeft(q, iss, next, end, over)
  BY <1>8, <1>9, SendAside DEF SendLeft
<1>10. UNCHANGED <<made, host>>
  BY Zenon DEF SoWrite
<1> QED  BY <1>2, <1>6, <1>8, <1>9, <1>10, KeepsSends

LEMMA TimersSends ==
    ASSUME NEW R, SendInv(R), NEW sent, Recv(so, sent),
           \/ tcp_fasttimo \/ RexmtTimeout \/ RexmtGivesUp \/ PersistTimeout
           \/ KeepTimeout \/ TwoMslTimeout
    PROVE  SendInv(R)' /\ Grown(R, R)
<1>0. UNCHANGED <<made, host>>
  BY Zenon DEF tcp_fasttimo, RexmtTimeout, RexmtGivesUp, PersistTimeout, KeepTimeout,
               TwoMslTimeout
<1>1. Mss \in Int
  BY Sizes
<1>2. RecvOpen(so, sent) => Exists /\ ~Connecting /\ Socket(so)
  BY DEF RecvOpen, Phase, Exists, Connecting, CLOSED, SYN_RECEIVED, TIME_WAIT
<1>3. ASSUME NEW p, RecvOpen(so, sent), Returns(p), "ISFCONNECTING" \in p.so_state => p.t_state = CLOSED,
             \A iss, next, end, over :
               SendOpen(so, iss, next, end, over) => SendLeft(p, iss, next, end, over)
      PROVE  SendInv(R)' /\ Grown(R, R)
  BY <1>0, <1>2, <1>3, KeepsSends
<1>4. CASE tcp_fasttimo
  <2>1. RecvOpen(so, sent)
    BY <1>4, RecvKind DEF tcp_fasttimo
  <2>2. PICK p : p = [so EXCEPT !.t_flags = @ \ {"DELACK"}]
    OBVIOUS
  <2>3. PICK cwnd \in Cwnds : Returns(DropAfterAck([so EXCEPT !.t_flags = @ \ {"DELACK"}], cwnd))
    BY <1>4 DEF tcp_fasttimo
  <2>4. PICK q : q = DropAfterAck(p, cwnd) /\ Returns(q)
    BY <2>2, <2>3
  <2>5. Aside(so, p) /\ SameInput(so, p) /\ p.rcv_adv = so.rcv_adv
    BY <1>2, <2>1, <2>2 DEF Aside, SameSend, SameInput, Socket, FieldNames
  <2>6. RecvOpen(q, sent)
    BY <2>1, <2>4, <2>5, RecvAside, DropAfterAckRecv DEF Aside
  <2>7. cwnd \in Int
    BY CwndsAre
  <2>8. ASSUME NEW iss, NEW next, NEW end, NEW over, SendOpen(so, iss, next, end, over)
        PROVE  SendLeft(q, iss, next, end, over)
    <3>1. SendOpen(p, iss, next, end, over)
      BY <2>5, <2>8, SendAside
    <3> QED  BY <2>4, <2>7, <3>1, DropAfterAckSends DEF SendLeft
  <2> QED  BY <1>3, <2>1, <2>4, <2>6, <2>8, LeftIs DEF Left
<1>5. CASE RexmtTimeout
  <2>1. RecvOpen(so, sent)
    BY <1>5, RecvKind DEF RexmtTimeout
  <2>2. PICK p : p = [so EXCEPT !.snd_nxt = so.snd_una, !.t_dupacks = 0]
    OBVIOUS
  <2>3. PICK no, q : no = FALSE /\ q = tcp_output(p, Mss, no) /\ Returns(q)
    BY <1>5, <2>2 DEF RexmtTimeout
  <2>4. Socket(p) /\ SameInput(so, p) /\ p.rcv_adv = so.rcv_adv
    BY <1>2, <2>1, <2>2 DEF Socket, FieldNames, SameInput
  <2>5. RecvOpen(q, sent)
    BY <2>1, <2>3, <2>4, RecvAside, RecvOutput
  <2>6. /\ p.t_state = so.t_state /\ p.so_snd = so.so_snd /\ p.iss = so.iss
        /\ p.snd_una = so.snd_una /\ p.snd_max = so.snd_max /\ p.snd_wnd = so.snd_wnd
        /\ p.out = so.out /\ p.t_flags = so.t_flags /\ p.snd_nxt = so.snd_una
    BY <1>2, <2>1, <2>2 DEF Socket, FieldNames
  <2>7. ASSUME NEW iss, NEW next, NEW end, NEW over, SendOpen(so, iss, next, end, over)
        PROVE  SendLeft(q, iss, next, end, over)
    <3>1. so.snd_una \in Nat /\ so.snd_max \in Nat /\ so.snd_una <= so.snd_max
      BY <2>7 DEF SendOpen, Sends, Sequence
    <3>2. p.snd_nxt \in Nat /\ so.snd_una <= p.snd_nxt /\ p.snd_nxt <= so.snd_max
      BY <2>6, <3>1
    <3>3. SendOpen(p, iss, next, end, over)
      BY <2>4, <2>6, <2>7, <3>2, SendMoved
    <3> QED  BY <1>1, <2>3, <3>3, OutputOpen DEF SendLeft
  <2> QED  BY <1>3, <2>1, <2>3, <2>5, <2>7, LeftIs DEF Left
<1>6. CASE RexmtGivesUp
  <2>1. RecvOpen(so, sent)
    BY <1>6, RecvKind DEF RexmtGivesUp
  <2>2. PICK q : q = tcp_drop(so, Mss) /\ Returns(q)
    BY <1>6 DEF RexmtGivesUp
  <2>3. RecvClosed(q)
    BY <2>1, <2>2, DropRecv
  <2>4. ASSUME NEW iss, NEW next, NEW end, NEW over, SendOpen(so, iss, next, end, over)
        PROVE  SendLeft(q, iss, next, end, over)
    BY <1>1, <2>2, <2>4, DropGone DEF SendLeft
  <2> QED  BY <1>3, <2>1, <2>2, <2>3, <2>4, LeftIs DEF Left
<1>7. CASE PersistTimeout
  <2>1. RecvOpen(so, sent)
    BY <1>7, RecvKind DEF PersistTimeout
  <2>2. PICK cwnd \in Cwnds : Returns(tcp_output(so, cwnd, TRUE))
    BY <1>7 DEF PersistTimeout
  <2>3. PICK yes, q : yes = TRUE /\ q = tcp_output(so, cwnd, yes) /\ Returns(q)
    BY <2>2
  <2>4. RecvOpen(q, sent)
    BY <2>1, <2>3, RecvOutput
  <2>5. cwnd \in Int
    BY CwndsAre
  <2>6. ASSUME NEW iss, NEW next, NEW end, NEW over, SendOpen(so, iss, next, end, over)
        PROVE  SendLeft(q, iss, next, end, over)
    BY <2>3, <2>5, <2>6, OutputOpen DEF SendLeft
  <2> QED  BY <1>3, <2>1, <2>3, <2>4, <2>6, LeftIs DEF Left
<1>8. CASE KeepTimeout
  <2>1. CASE Connecting
    <3>1. PICK q : q = tcp_close(so, "dropped") /\ Returns(q)
      BY <1>8, <2>1 DEF KeepTimeout
    <3>2. Socket(q) /\ q.t_state = CLOSED /\ q.out \subseteq {Rst}
      <4>1. Socket(so) /\ so.out = {}
        BY RecvKind DEF SendInv
      <4>2. Socket(q) /\ q.t_state = CLOSED /\ q.out = {}
        BY <3>1, <4>1, CloseFields
      <4> QED  BY <4>2
    <3> QED  BY <1>0, <3>1, <3>2, EndsSends
  <2>2. CASE ~ Connecting
    <3>1. PICK q : q = tcp_drop(so, Mss) /\ Returns(q)
      BY <1>8, <2>2 DEF KeepTimeout
    <3>2. RecvOpen(so, sent)
      BY <1>8, <2>2, RecvKind DEF KeepTimeout, Exists, Connecting
    <3>3. RecvClosed(q)
      BY <3>1, <3>2, DropRecv
    <3>4. ASSUME NEW iss, NEW next, NEW end, NEW over, SendOpen(so, iss, next, end, over)
          PROVE  SendLeft(q, iss, next, end, over)
      BY <1>1, <3>1, <3>4, DropGone DEF SendLeft
    <3> QED  BY <1>3, <3>1, <3>2, <3>3, <3>4, LeftIs DEF Left
  <2> QED  BY <2>1, <2>2
<1>9. CASE TwoMslTimeout
  <2>1. RecvOpen(so, sent)
    BY <1>9, RecvKind DEF TwoMslTimeout
  <2>2. PICK why, q : q = tcp_close(so, why) /\ Returns(q)
    BY <1>9 DEF TwoMslTimeout
  <2>3. RecvClosed(q)
    BY <2>1, <2>2, CloseRecv
  <2>4. ASSUME NEW iss, NEW next, NEW end, NEW over, SendOpen(so, iss, next, end, over)
        PROVE  SendLeft(q, iss, next, end, over)
    <3>1. OutSaid(so, iss, next, end, over)
      BY <2>4 DEF SendOpen, Sends
    <3> QED  BY <2>2, <3>1, CloseGone DEF SendLeft
  <2> QED  BY <1>3, <2>1, <2>2, <2>3, <2>4, LeftIs DEF Left
<1> QED  BY <1>4, <1>5, <1>6, <1>7, <1>8, <1>9

\* What the guest has is a beginning of the stream of one socket, perhaps with its end.
GotFrom(R, j) ==
    /\ Len(guest.got) <= R[j]
    /\ \/ guest.rcv = Number(j, Len(guest.got) + 1)
       \/ /\ guest.rcv = Number(j, Len(guest.got) + 2)
          /\ Len(guest.got) = R[j] /\ Fin(Number(j, R[j] + 1)) \in wire

GuestInv(R) ==
    /\ guest.got \in Seq(Nat) /\ IsCount(guest.got) /\ guest.read \in Nat
    /\ guest.st = "syn" => guest.got = <<>>
    /\ guest.st = "est" => \E j \in 1 .. made : GotFrom(R, j)

LEMMA GotKept ==
    ASSUME NEW R, GuestInv(R), Reads(R), NEW R2, Reads(R2)', Grown(R, R2),
           guest'.got = guest.got, guest'.rcv = guest.rcv, guest'.read = guest.read,
           guest'.st = guest.st \/ guest'.st = "dead"
    PROVE  GuestInv(R2)'
<1>1. /\ guest.got \in Seq(Nat) /\ IsCount(guest.got) /\ guest.read \in Nat
      /\ guest.st = "syn" => guest.got = <<>>
  BY DEF GuestInv
<1>2. PICK len \in Nat : len = Len(guest.got)
  BY <1>1
<1>3. made \in Nat /\ made' \in Nat /\ made <= made' /\ wire \subseteq wire'
  BY DEF Grown, Reads
<1>4. ASSUME NEW j \in 1 .. made, GotFrom(R, j) PROVE j \in 1 .. made' /\ GotFrom(R2, j)'
  <2>1. j \in Nat /\ j \in 1 .. made'
    BY <1>3
  <2>2. PICK m \in Nat, n \in Nat : m = R[j] /\ n = R2[j]
    BY <2>1, Sizes DEF Reads
  <2>3. n = m \/ (m <= n /\ Fin(Number(j, m + 1)) \notin wire)
    BY <2>2 DEF Grown
  <2>4. len <= m
    BY <1>2, <1>4, <2>2 DEF GotFrom
  <2>5. len <= n
    BY <2>3, <2>4
  <2>6. CASE guest.rcv = Number(j, len + 1)
    BY <1>2, <2>1, <2>2, <2>5, <2>6 DEF GotFrom
  <2>7. CASE guest.rcv = Number(j, len + 2) /\ len = m /\ Fin(Number(j, m + 1)) \in wire
    <3>1. n = m /\ Fin(Number(j, n + 1)) \in wire'
      BY <1>3, <2>3, <2>7
    <3> QED  BY <1>2, <2>1, <2>2, <2>5, <2>7, <3>1 DEF GotFrom
  <2> QED  BY <1>2, <1>4, <2>2, <2>6, <2>7 DEF GotFrom
<1>5. guest'.st = "est" => \E j \in 1 .. made' : GotFrom(R2, j)'
  <2> SUFFICES ASSUME guest'.st = "est" PROVE \E j \in 1 .. made' : GotFrom(R2, j)'
    OBVIOUS
  <2>1. guest.st = "est"
    OBVIOUS
  <2>2. PICK j \in 1 .. made : GotFrom(R, j)
    BY <2>1 DEF GuestInv
  <2> QED  BY <1>4, <2>2
<1>6. IsCount(guest'.got) /\ (guest'.st = "syn" => guest'.got = <<>>)
  BY <1>1 DEF IsCount
<1> QED  BY <1>1, <1>5, <1>6 DEF GuestInv

\* The guest never acknowledges the byte before the first.
LEMMA GuestAcks ==
    ASSUME NEW R, GuestInv(R), Reads(R), guest.st = "est"
    PROVE  /\ guest.rcv \in Nat /\ GuestWin \in Int
           /\ \A i \in Nat : guest.rcv # Number(i, 0)
<1>1. PICK j \in 1 .. made : GotFrom(R, j)
  BY DEF GuestInv
<1>2. j \in Nat /\ R[j] \in Nat /\ R[j] <= HostBytes
  <2>1. j \in Nat
    BY <1>1 DEF Reads
  <2> QED  BY <2>1, Sizes DEF Reads
<1>3. PICK len \in Nat : len = Len(guest.got)
  BY DEF GuestInv
<1>4. PICK a \in Nat : guest.rcv = Number(j, a) /\ a > 0 /\ a <= HostBytes + 2
  <2>1. len <= HostBytes
    BY <1>1, <1>2, <1>3, Sizes DEF GotFrom
  <2>2. len + 1 <= HostBytes + 2 /\ len + 2 <= HostBytes + 2 /\ len + 1 \in Nat /\ len + 2 \in Nat
        /\ len + 1 > 0 /\ len + 2 > 0
    BY <2>1, Sizes
  <2>3. guest.rcv = Number(j, len + 1) \/ guest.rcv = Number(j, len + 2)
    BY <1>1, <1>3 DEF GotFrom
  <2> QED  BY <2>2, <2>3
<1>5. guest.rcv \in Nat
  BY <1>2, <1>4, NumberIs
<1>6. ASSUME NEW i \in Nat, guest.rcv = Number(i, 0) PROVE FALSE
  <2>1. 0 <= HostBytes + 2 /\ 0 \in Nat
    BY Sizes
  <2>2. Number(j, a) = Number(i, 0)
    BY <1>4, <1>6
  <2>3. a = 0
    BY <1>2, <1>4, <2>1, <2>2, NumberOnce
  <2> QED  BY <1>4, <2>3
<1>7. GuestWin \in Int
  <2>1. guest.read \in Nat
    BY DEF GuestInv
  <2>2. GuestWindow - (len - guest.read) \in Int
    BY <2>1, Sizes
  <2> QED  BY <1>3, <2>2 DEF GuestWin
<1> QED  BY <1>5, <1>6, <1>7

\* The guest's first step: the number it expects is that of the first byte of a stream.
LEMMA GetsSynGot ==
    ASSUME NEW R, SendInv(R), GuestInv(R), RecvInv, GuestGetsSyn
    PROVE  GuestInv(R)'
<1>1. PICK w \in wire : w = Syn(w.seq) /\ guest' = [guest EXCEPT !.st = "est", !.rcv = w.seq + 1, !.nxt = 1]
  BY DEF GuestGetsSyn
<1>2. guest.st = "syn" /\ guest.got = <<>> /\ guest.read \in Nat /\ UNCHANGED <<made, wire>>
  BY Zenon DEF GuestGetsSyn, GuestInv
<1>3. w.what = "SYN" /\ w # Rst
  BY <1>1 DEF Syn, Rst
<1>4. PICK j \in 1 .. made : Told(w, j, R[j])
  BY <1>3 DEF SendInv, WireTold
<1>5. j \in Nat /\ R[j] \in Nat
  <2>1. j \in Nat
    BY <1>4 DEF SendInv, Reads
  <2> QED  BY <2>1, Sizes DEF SendInv, Reads
<1>6. w.seq = Number(j, 0)
  <2>1. w = Syn(Number(j, 0))
    BY <1>3, <1>4, <1>5, ToldKinds
  <2> QED  BY <2>1 DEF Syn
<1>7. w.seq + 1 = Number(j, 1)
  <2>1. 1 \in Nat
    OBVIOUS
  <2> QED  BY <1>5, <1>6, <2>1, NumberIs
<1>8. /\ guest'.got = <<>> /\ guest'.read = guest.read /\ guest'.st = "est"
      /\ guest'.rcv = Number(j, 1)
  BY <1>1, <1>2, <1>7 DEF RecvInv
<1>9. Len(guest'.got) = 0 /\ guest'.got \in Seq(Nat)
  BY <1>8
<1>10. GotFrom(R, j)'
  <2>1. Len(guest'.got) + 1 = 1
    BY <1>9
  <2> QED  BY <1>5, <1>8, <1>9, <2>1 DEF GotFrom
<1>11. IsCount(guest'.got)
  <2>1. Stretch(guest'.got, 1, 1)
    BY <1>8, StretchEmpty
  <2>2. Len(guest'.got) + 1 = 1
    BY <1>9
  <2> QED  BY <1>9, <2>1, <2>2, CountIs
<1> QED  BY <1>2, <1>4, <1>8, <1>9, <1>10, <1>11 DEF GuestInv

\* A byte that is taken is the next of the same stream.
LEMMA GetsByteGot ==
    ASSUME NEW R, SendInv(R), GuestInv(R), RecvInv, GuestGetsByte
    PROVE  GuestInv(R)'
<1>1. PICK w \in wire : /\ w = Byte(guest.rcv, w.byte)
                        /\ guest' = [guest EXCEPT !.rcv = @ + 1, !.got = Append(@, w.byte)]
  BY DEF GuestGetsByte
<1>2. /\ guest.st = "est" /\ guest.read \in Nat /\ UNCHANGED <<made, wire>>
      /\ guest.got \in Seq(Nat) /\ IsCount(guest.got)
  BY Zenon DEF GuestGetsByte, GuestInv
<1>3. PICK j \in 1 .. made : GotFrom(R, j)
  BY <1>2 DEF GuestInv
<1>4. w.what = "DATA" /\ w # Rst
  BY <1>1 DEF Byte, Rst
<1>5. PICK i \in 1 .. made : Told(w, i, R[i])
  BY <1>4 DEF SendInv, WireTold
<1>6. /\ j \in Nat /\ R[j] \in Nat /\ R[j] <= HostBytes
      /\ i \in Nat /\ R[i] \in Nat /\ R[i] <= HostBytes
  <2>1. j \in Nat /\ i \in Nat
    BY <1>3, <1>5 DEF SendInv, Reads
  <2> QED  BY <2>1, Sizes DEF SendInv, Reads
<1>7. PICK b \in Nat \ {0} : b <= R[i] /\ w = Byte(Number(i, b), b)
  BY <1>4, <1>5, <1>6, ToldKinds
<1>8. w.byte = b /\ guest.rcv = Number(i, b)
  BY <1>1, <1>7 DEF Byte
<1>9. PICK len \in Nat : len = Len(guest.got)
  BY <1>2
<1>10. PICK a \in Nat : /\ guest.rcv = Number(j, a) /\ len <= R[j] /\ a <= HostBytes + 2
                        /\ a = len + 1 \/ (a = len + 2 /\ len = R[j])
  <2>1. len <= R[j] /\ len + 1 \in Nat /\ len + 2 \in Nat
    BY <1>3, <1>9 DEF GotFrom
  <2>2. len + 1 <= HostBytes + 2 /\ len + 2 <= HostBytes + 2
    BY <1>6, <2>1, Sizes
  <2> QED  BY <1>3, <1>9, <2>1, <2>2 DEF GotFrom
<1>11. j = i /\ a = b
  <2>1. b <= HostBytes + 2 /\ b \in Nat
    BY <1>6, <1>7, Sizes
  <2>2. Number(j, a) = Number(i, b)
    BY <1>8, <1>10
  <2> QED  BY <1>6, <1>10, <2>1, <2>2, NumberOnce
<1>12. b = len + 1 /\ b <= R[j]
  <2>1. PICK m \in Nat : m = R[j]
    BY <1>6
  <2>2. b <= m
    BY <1>7, <1>11, <2>1
  <2>3. b = len + 1 \/ (b = len + 2 /\ len = m)
    BY <1>10, <1>11, <2>1
  <2> QED  BY <2>1, <2>2, <2>3
<1>13. PICK got : got = Append(guest.got, b)
  OBVIOUS
<1>14. guest'.got = got /\ guest'.rcv = guest.rcv + 1 /\ guest'.read = guest.read /\ guest'.st = "est"
  BY <1>1, <1>2, <1>8, <1>13 DEF RecvInv
<1>15. got \in Seq(Nat) /\ Len(got) = len + 1
  BY <1>2, <1>9, <1>13
<1>16. IsCount(got)
  <2>1. \A x \in 1 .. len : guest.got[x] = x
    BY <1>2, <1>9 DEF IsCount
  <2>2. \A x \in 1 .. len + 1 : got[x] = x
    BY <1>2, <1>9, <1>12, <1>13, <2>1
  <2>3. got = [x \in 1 .. len + 1 |-> got[x]]
    BY <1>15
  <2> QED  BY <1>15, <2>2, <2>3 DEF IsCount
<1>17. GotFrom(R, j)'
  <2>1. len + 2 \in Nat /\ len + 1 \in Nat
    OBVIOUS
  <2>2. guest.rcv = Number(j, len + 1)
    BY <1>10, <1>11, <1>12
  <2>3. PICK z \in Nat : z = Number(j, 0)
    BY <1>6, NumberIs
  <2>4. Number(j, len + 2) = z + (len + 2) /\ Number(j, len + 1) = z + (len + 1)
    BY <1>6, <2>1, <2>3, NumberIs
  <2>5. guest'.rcv = Number(j, len + 2)
    BY <1>14, <2>2, <2>4
  <2>6. Len(guest'.got) = len + 1 /\ Len(guest'.got) + 1 = len + 2
    BY <1>14, <1>15
  <2> QED  BY <1>12, <2>5, <2>6 DEF GotFrom
<1> QED  BY <1>2, <1>3, <1>14, <1>15, <1>16, <1>17 DEF GuestInv

\* The FIN comes after all that the socket read.
LEMMA GetsFinGot ==
    ASSUME NEW R, SendInv(R), GuestInv(R), RecvInv, GuestGetsFin
    PROVE  GuestInv(R)'
<1>1. Fin(guest.rcv) \in wire /\ guest' = [guest EXCEPT !.rcv = @ + 1]
  BY DEF GuestGetsFin
<1>2. /\ guest.st = "est" /\ guest.read \in Nat /\ UNCHANGED <<made, wire>>
      /\ guest.got \in Seq(Nat) /\ IsCount(guest.got)
  BY Zenon DEF GuestGetsFin, GuestInv
<1>3. PICK j \in 1 .. made : GotFrom(R, j)
  BY <1>2 DEF GuestInv
<1>4. j \in Nat /\ R[j] \in Nat /\ R[j] <= HostBytes
  <2>1. j \in Nat
    BY <1>3 DEF SendInv, Reads
  <2> QED  BY <2>1, Sizes DEF SendInv, Reads
<1>5. PICK len \in Nat : len = Len(guest.got)
  BY <1>2
<1>6. PICK a \in Nat : /\ guest.rcv = Number(j, a) /\ len <= R[j] /\ a <= HostBytes + 2
                       /\ a = len + 1 \/ (a = len + 2 /\ len = R[j])
  <2>1. len <= R[j] /\ len + 1 \in Nat /\ len + 2 \in Nat
    BY <1>3, <1>5 DEF GotFrom
  <2>2. len + 1 <= HostBytes + 2 /\ len + 2 <= HostBytes + 2
    BY <1>4, <2>1, Sizes
  <2> QED  BY <1>3, <1>5, <2>1, <2>2 DEF GotFrom
<1>7. a = R[j] + 1
  BY <1>1, <1>4, <1>6, FinOnce
<1>8. len = R[j] /\ a = len + 1
  <2>1. PICK m \in Nat : m = R[j]
    BY <1>4
  <2>2. a = m + 1 /\ (a = len + 1 \/ (a = len + 2 /\ len = m))
    BY <1>6, <1>7, <2>1
  <2> QED  BY <2>1, <2>2
<1>9. guest'.got = guest.got /\ guest'.rcv = guest.rcv + 1 /\ guest'.read = guest.read
      /\ guest'.st = "est"
  BY <1>1, <1>2 DEF RecvInv
<1>10. GotFrom(R, j)'
  <2>1. len + 2 \in Nat /\ len + 1 \in Nat
    OBVIOUS
  <2>3. PICK z \in Nat : z = Number(j, 0)
    BY <1>4, NumberIs
  <2>4. Number(j, len + 2) = z + (len + 2) /\ Number(j, len + 1) = z + (len + 1)
    BY <1>4, <2>1, <2>3, NumberIs
  <2>5. guest'.rcv = Number(j, len + 2)
    BY <1>6, <1>8, <1>9, <2>4
  <2>6. Len(guest'.got) = len
    BY <1>5, <1>9
  <2>7. Fin(Number(j, R[j] + 1)) \in wire'
    BY <1>1, <1>2, <1>6, <1>7
  <2>8. len <= R[j]
    BY <1>6
  <2> QED  BY <1>8, <2>5, <2>6, <2>7, <2>8 DEF GotFrom
<1> QED  BY <1>2, <1>3, <1>9, <1>10 DEF GuestInv

LEMMA OverSame == UNCHANGED host => (Over => Over')
BY DEF Over

LEMMA GuestSendsSends ==
    ASSUME RecvInv, NEW R, SendInv(R), GuestInv(R),
           NEW seq \in Nat \ {0}, NEW n \in Nat, NEW flags \in {{}, {"FIN"}},
           seq + n <= GuestFin \/ (n = 0 /\ flags = {}),
           "FIN" \in flags => seq + n = GuestFin, Polite(seq, n, flags),
           GuestSends(seq, n, flags)
    PROVE  /\ \E R2 : SendInv(R2)' /\ Grown(R, R2)
           /\ guest'.got = guest.got /\ guest'.rcv = guest.rcv /\ guest'.read = guest.read
           /\ guest'.st = guest.st /\ UNCHANGED host
<1>0. PICK end \in Nat : end = seq + n
  OBVIOUS
<1>1. PICK to \in Nat : to = end + IF "FIN" \in flags THEN 1 ELSE 0
  OBVIOUS
<1>2. guest.nxt \in Nat /\ guest.st = "est" /\ guest.nxt >= 1 /\ Recv(so, guest.nxt)
      /\ DOMAIN guest = {"st", "nxt", "rcv", "got", "read"}
  BY DEF RecvInv, GuestSends
<1>3. PICK nxt : nxt = Max({guest.nxt, to})
  OBVIOUS
<1>4. nxt \in Nat /\ nxt >= guest.nxt /\ nxt >= to
  BY <1>1, <1>2, <1>3, MaxOfTwo
<1>5. guest' = [guest EXCEPT !.nxt = nxt]
  BY <1>0, <1>1, <1>3 DEF GuestSends
<1>6. guest'.got = guest.got /\ guest'.rcv = guest.rcv /\ guest'.read = guest.read
      /\ guest'.st = guest.st
  BY <1>2, <1>5
<1>7. Recv(so, nxt)
  BY <1>2, <1>4, RecvMore
<1>8. UNCHANGED host
  BY Zenon DEF GuestSends
<1>9. \E R2 : SendInv(R2)' /\ Grown(R, R2)
  <2>1. CASE tcp_input(GuestSegment(seq, n, flags))
    <3>1. PICK s : s = GuestSegment(seq, n, flags)
      OBVIOUS
    <3>2. FromGuest(s, nxt)
      <4>1. end <= GuestFin \/ (n = 0 /\ flags = {})
        BY <1>0
      <4>2. "FIN" \in flags => end = GuestFin
        BY <1>0
      <4>3. to <= nxt /\ nxt \in Int
        BY <1>4
      <4> QED  BY <1>0, <1>1, <3>1, <4>1, <4>2, <4>3, SegmentIs
    <3>3. s.ack = guest.rcv /\ s.win = GuestWin
      BY <3>1 DEF GuestSegment
    <3>4. s.ack \in Int /\ s.win \in Int /\ \A j \in Nat : s.ack # Number(j, 0)
      <4>1. /\ guest.rcv \in Nat /\ GuestWin \in Int
            /\ \A j \in Nat : guest.rcv # Number(j, 0)
        BY <1>2, GuestAcks DEF SendInv
      <4> QED  BY <3>3, <4>1
    <3>5. tcp_input(s)
      BY <2>1, <3>1
    <3>6. nxt \in Int
      BY <1>4
    <3>7. Exists => Within(so, s)
      BY <3>1, SegmentWithin
    <3> QED  BY <1>7, <1>8, <3>2, <3>4, <3>5, <3>6, <3>7, InputSends
  <2>2. CASE UNCHANGED <<so, made, wire>>
    <3>1. Over => Over'
      BY <1>8, OverSame
    <3> QED  BY <1>8, <2>2, <3>1, AwaySends
  <2> QED  BY <2>1, <2>2 DEF GuestSends
<1> QED  BY <1>6, <1>8, <1>9

StreamInv == RecvInv /\ HostInv /\ \E R : SendInv(R) /\ GuestInv(R)

LEMMA InitStream == Init => StreamInv
<1> SUFFICES ASSUME Init PROVE StreamInv
  OBVIOUS
<1>1. RecvInv
  BY InitRecv
<1>2. /\ so = NewSocket /\ made = 0 /\ wire = {} /\ host = NewHost
      /\ guest = [st |-> "syn", nxt |-> 0, rcv |-> 0, got |-> <<>>, read |-> 0]
  BY DEF Init
<1>3. HostInv
  BY <1>2, Sizes DEF HostInv, NewHost
<1>4. PICK R : R = [j \in Nat |-> 0]
  OBVIOUS
<1>5. Reads(R)
  BY <1>2, <1>4, Sizes DEF Reads
<1>6. so.t_state = CLOSED /\ so.out = {}
  BY <1>2 DEF NewSocket
<1>7. SendInv(R)
  BY <1>2, <1>5, <1>6 DEF SendInv, WireTold, SocketSends, FinTold, Exists
<1>8. GuestInv(R)
  <2>1. guest.got = <<>> /\ guest.read = 0 /\ guest.st = "syn"
    BY <1>2
  <2>2. IsCount(guest.got)
    BY <2>1 DEF IsCount
  <2> QED  BY <2>1, <2>2 DEF GuestInv
<1> QED  BY <1>1, <1>3, <1>7, <1>8 DEF StreamInv

\* A step of slirp.
LEMMA SlirpSends ==
    ASSUME RecvInv, HostInv, NEW R, SendInv(R), Slirp
    PROVE  HostInv' /\ (\E R2 : SendInv(R2)' /\ Grown(R, R2)) /\ UNCHANGED guest
<1>1. Recv(so, guest.nxt) /\ guest.nxt \in Int
  BY DEF RecvInv
<1>2. UNCHANGED host => HostInv'
  BY DEF HostInv
<1>3. CASE Connected
  <2>1. host' = NewHost /\ UNCHANGED guest
    BY <1>3, Zenon DEF Connected
  <2>2. HostInv'
    BY <2>1, Sizes DEF HostInv, NewHost
  <2> QED  BY <1>1, <1>3, <2>1, <2>2, ConnectedSends
<1>4. CASE ConnectFails
  <2>1. UNCHANGED <<guest, host>>
    BY <1>4, Zenon DEF ConnectFails
  <2> QED  BY <1>1, <1>2, <1>4, <2>1, ConnectFailsSends
<1>5. CASE SoRead
  <2>1. UNCHANGED guest
    BY <1>5, Zenon DEF SoRead
  <2> QED  BY <1>1, <1>5, <2>1, SoReadSends
<1>6. CASE SoReadEnds
  <2>1. UNCHANGED <<guest, host>>
    BY <1>6, Zenon DEF SoReadEnds
  <2> QED  BY <1>1, <1>2, <1>6, <2>1, SoReadEndsSends
<1>7. CASE SoWrite
  <2>1. UNCHANGED <<guest, host>>
    BY <1>7, Zenon DEF SoWrite
  <2> QED  BY <1>1, <1>2, <1>7, <2>1, SoWriteSends
<1>8. CASE SoWriteFails
  <2>1. UNCHANGED <<guest, host>>
    BY <1>8, Zenon DEF SoWriteFails
  <2> QED  BY <1>1, <1>2, <1>8, <2>1, SoWriteFailsSends
<1>9. CASE \/ tcp_fasttimo \/ RexmtTimeout \/ RexmtGivesUp \/ PersistTimeout
           \/ KeepTimeout \/ TwoMslTimeout
  <2>1. UNCHANGED <<guest, host>>
    BY <1>9, Zenon DEF tcp_fasttimo, RexmtTimeout, RexmtGivesUp, PersistTimeout, KeepTimeout,
                       TwoMslTimeout
  <2> QED  BY <1>1, <1>2, <1>9, <2>1, TimersSends
<1> QED  BY <1>3, <1>4, <1>5, <1>6, <1>7, <1>8, <1>9 DEF Slirp

\* A step of the host application.
LEMMA HostSendsSends ==
    ASSUME HostInv, NEW R, SendInv(R), HostSends \/ HostEnds \/ HostResets
    PROVE  HostInv' /\ SendInv(R)' /\ Grown(R, R) /\ UNCHANGED guest
<1>1. UNCHANGED <<so, made, wire, guest>>
  BY Zenon DEF HostSends, HostEnds, HostResets
<1>2. /\ DOMAIN host = {"sent", "read", "eof", "reset", "early"}
      /\ host.sent \in Nat /\ host.read \in Nat /\ host.read <= host.sent /\ host.sent <= HostBytes
  BY DEF HostInv
<1>3. HostInv' /\ host'.read = host.read /\ (Over => Over')
  <2>1. CASE HostSends
    <3>1. host' = [host EXCEPT !.sent = @ + 1] /\ host.sent < HostBytes /\ ~host.eof /\ ~host.reset
      BY <2>1 DEF HostSends
    <3>2. host'.sent = host.sent + 1 /\ host'.read = host.read /\ DOMAIN host' = DOMAIN host
      BY <1>2, <3>1
    <3>3. HostInv'
      BY <1>2, <3>1, <3>2, Sizes DEF HostInv
    <3>4. ~Over
      BY <3>1 DEF Over
    <3> QED  BY <3>2, <3>3, <3>4
  <2>2. CASE HostEnds
    <3>0. PICK early : host' = [host EXCEPT !.eof = TRUE, !.early = early]
      BY <2>2, Zenon DEF HostEnds
    <3>1. /\ host'.sent = host.sent /\ host'.read = host.read /\ host'.eof = TRUE
          /\ host'.reset = host.reset /\ DOMAIN host' = DOMAIN host
      BY <1>2, <3>0
    <3>2. Over => Over'
      BY <3>1 DEF Over
    <3>3. HostInv'
      BY <1>2, <3>1 DEF HostInv
    <3> QED  BY <3>1, <3>2, <3>3
  <2>3. CASE HostResets
    <3>1. host' = [host EXCEPT !.reset = TRUE]
      BY <2>3, Zenon DEF HostResets
    <3>2. host'.sent = host.sent /\ host'.read = host.read /\ host'.reset = TRUE
          /\ DOMAIN host' = DOMAIN host
      BY <1>2, <3>1
    <3>3. Over'
      BY <3>2 DEF Over
    <3>4. HostInv'
      BY <1>2, <3>2 DEF HostInv
    <3> QED  BY <3>2, <3>3, <3>4
  <2> QED  BY <2>1, <2>2, <2>3
<1> QED  BY <1>1, <1>3, AwaySends

\* A step of the guest that slirp answers, and what stays of the guest.
LEMMA GuestStream ==
    ASSUME ~FinOnProbe, RecvInv, NEW R, SendInv(R), GuestInv(R),
           GuestSyn \/ GuestAck \/ GuestData \/ GuestFins \/ GuestResets
    PROVE  /\ \E R2 : SendInv(R2)' /\ Grown(R, R2)
           /\ guest'.got = guest.got /\ guest'.rcv = guest.rcv /\ guest'.read = guest.read
           /\ guest'.st = guest.st \/ guest'.st = "dead"
           /\ UNCHANGED host
<1>1. /\ Recv(so, guest.nxt) /\ guest.nxt \in Nat
      /\ guest.st = "est" => guest.nxt >= 1
      /\ DOMAIN guest = {"st", "nxt", "rcv", "got", "read"}
  BY DEF RecvInv
<1>2. ASSUME NEW seq \in Nat \ {0}, NEW n \in Nat, NEW flags \in {{}, {"FIN"}},
             seq + n <= GuestFin \/ (n = 0 /\ flags = {}),
             "FIN" \in flags => seq + n = GuestFin, Polite(seq, n, flags),
             GuestSends(seq, n, flags)
      PROVE  /\ \E R2 : SendInv(R2)' /\ Grown(R, R2)
             /\ guest'.got = guest.got /\ guest'.rcv = guest.rcv /\ guest'.read = guest.read
             /\ guest'.st = guest.st \/ guest'.st = "dead"
             /\ UNCHANGED host
  BY <1>2, GuestSendsSends
<1>3. CASE GuestSyn
  <2>1. PICK s : s = [seq |-> 0, ack |-> 0, win |-> 0, flags |-> {"SYN"}, fin |-> FALSE,
                  data |-> <<>>]
    OBVIOUS
  <2>2. FromGuest(s, guest.nxt) /\ "ACK" \notin s.flags /\ Within(so, s)
    BY <2>1 DEF FromGuest, Segment, Within
  <2>3. tcp_input(s) /\ UNCHANGED <<guest, host>>
    BY <1>3, <2>1 DEF GuestSyn
  <2>4. \E R2 : SendInv(R2)' /\ Grown(R, R2)
    BY <1>1, <2>2, <2>3, InputSends
  <2> QED  BY <2>3, <2>4
<1>4. CASE GuestAck
  <2>1. guest.nxt \in Nat \ {0}
    BY <1>1, <1>4 DEF GuestAck, GuestSends
  <2>2. PICK seq \in Nat \ {0}, n \in Nat, flags \in {{}, {"FIN"}} :
          n = 0 /\ flags = {} /\ GuestSends(seq, n, flags)
    BY <1>4, <2>1 DEF GuestAck
  <2> QED  BY <1>2, <2>2 DEF Polite
<1>5. CASE GuestData
  <2>1. PICK seq \in 1 .. guest.nxt, n \in 1 .. Mss, flags \in {{}, {"FIN"}} :
          /\ seq + n <= GuestFin
          /\ "FIN" \in flags => seq + n = GuestFin
          /\ Exists /\ "FIN" \in flags => FinOnProbe \/ seq + n <= so.rcv_adv
          /\ GuestSends(seq, n, flags)
    BY <1>5 DEF GuestData
  <2>2. seq \in Nat \ {0} /\ n \in Nat /\ Polite(seq, n, flags)
    BY <1>1, <2>1, Sizes DEF Polite
  <2> QED  BY <1>2, <2>1, <2>2
<1>6. CASE GuestFins
  <2>1. PICK seq \in Nat \ {0}, n \in Nat, flags \in {{}, {"FIN"}} :
          n = 0 /\ seq = GuestFin /\ flags = {"FIN"} /\ GuestSends(seq, n, flags)
    BY <1>6, Sizes DEF GuestFins
  <2>2. seq + n = GuestFin /\ seq + n <= GuestFin
    BY <2>1, Sizes
  <2> QED  BY <1>2, <2>1, <2>2 DEF Polite
<1>7. CASE GuestResets
  <2>1. PICK seq, s : /\ s = [seq |-> seq, ack |-> 0, win |-> 0, flags |-> {"RST"},
                             fin |-> FALSE, data |-> <<>>]
                      /\ tcp_input(s)
    BY <1>7 DEF GuestResets
  <2>2. FromGuest(s, guest.nxt) /\ "ACK" \notin s.flags /\ Within(so, s)
    BY <2>1 DEF FromGuest, Segment, Within
  <2>3. guest' = [guest EXCEPT !.st = "dead"] /\ UNCHANGED host
    BY <1>7, Zenon DEF GuestResets
  <2>4. \E R2 : SendInv(R2)' /\ Grown(R, R2)
    BY <1>1, <2>1, <2>2, <2>3, InputSends
  <2>5. /\ guest'.got = guest.got /\ guest'.rcv = guest.rcv /\ guest'.read = guest.read
        /\ guest'.st = "dead"
    BY <1>1, <2>3
  <2> QED  BY <2>3, <2>4, <2>5
<1> QED  BY <1>3, <1>4, <1>5, <1>6, <1>7

LEMMA NextStream ==
    ASSUME ~FinOnProbe, StreamInv, [Next]_vars
    PROVE  StreamInv'
<1>1. RecvInv'
  BY NextRecv DEF StreamInv
<1>2. PICK R : SendInv(R) /\ GuestInv(R) /\ RecvInv /\ HostInv
  BY DEF StreamInv
<1>3. ASSUME NEW R2, SendInv(R2)', Grown(R, R2), HostInv',
             guest'.got = guest.got, guest'.rcv = guest.rcv, guest'.read = guest.read,
             guest'.st = guest.st \/ guest'.st = "dead"
      PROVE  StreamInv'
  <2>1. Reads(R) /\ Reads(R2)'
    BY <1>2, <1>3 DEF SendInv
  <2>2. GuestInv(R2)'
    BY <1>2, <1>3, <2>1, GotKept
  <2> QED  BY <1>1, <1>3, <2>2 DEF StreamInv
<1>4. UNCHANGED host => HostInv'
  BY <1>2 DEF HostInv
<1>5. CASE Slirp
  <2>1. HostInv' /\ (\E R2 : SendInv(R2)' /\ Grown(R, R2)) /\ UNCHANGED guest
    BY <1>2, <1>5, SlirpSends
  <2> QED  BY <1>3, <2>1
<1>6. CASE GuestSyn \/ GuestAck \/ GuestData \/ GuestFins \/ GuestResets
  <2>1. /\ \E R2 : SendInv(R2)' /\ Grown(R, R2)
        /\ guest'.got = guest.got /\ guest'.rcv = guest.rcv /\ guest'.read = guest.read
        /\ guest'.st = guest.st \/ guest'.st = "dead"
        /\ UNCHANGED host
    BY <1>2, <1>6, GuestStream
  <2> QED  BY <1>3, <1>4, <2>1
<1>7. ASSUME UNCHANGED <<so, made, wire, host>> PROVE SendInv(R)' /\ Grown(R, R) /\ HostInv'
  <2>1. Over => Over'
    BY <1>7, OverSame
  <2> QED  BY <1>2, <1>4, <1>7, <2>1, AwaySends
<1>8. CASE GuestGetsSyn \/ GuestGetsByte \/ GuestGetsFin
  <2>1. UNCHANGED <<so, made, wire, host>>
    BY <1>8, Zenon DEF GuestGetsSyn, GuestGetsByte, GuestGetsFin
  <2>2. GuestInv(R)'
    BY <1>2, <1>8, GetsSynGot, GetsByteGot, GetsFinGot
  <2> QED  BY <1>1, <1>7, <2>1, <2>2 DEF StreamInv
<1>9. DOMAIN guest = {"st", "nxt", "rcv", "got", "read"}
  BY <1>2 DEF RecvInv
<1>10. CASE GuestGetsRst
  <2>1. UNCHANGED <<so, made, wire, host>> /\ guest' = [guest EXCEPT !.st = "dead"]
    BY <1>10, Zenon DEF GuestGetsRst
  <2>2. /\ guest'.got = guest.got /\ guest'.rcv = guest.rcv /\ guest'.read = guest.read
        /\ guest'.st = "dead"
    BY <1>9, <2>1
  <2> QED  BY <1>3, <1>7, <2>1, <2>2
<1>11. CASE GuestReads
  <2>1. UNCHANGED <<so, made, wire, host>> /\ guest' = [guest EXCEPT !.read = @ + 1]
    BY <1>11, Zenon DEF GuestReads
  <2>2. /\ guest'.got = guest.got /\ guest'.rcv = guest.rcv /\ guest'.read = guest.read + 1
        /\ guest'.st = guest.st
    BY <1>9, <2>1
  <2>3. GuestInv(R)'
    <3>1. /\ guest.got \in Seq(Nat) /\ IsCount(guest.got) /\ guest.read \in Nat
          /\ guest.st = "syn" => guest.got = <<>>
          /\ guest.st = "est" => \E j \in 1 .. made : GotFrom(R, j)
      BY <1>2 DEF GuestInv
    <3>2. guest'.read \in Nat
      BY <2>2, <3>1
    <3>3. \A j \in 1 .. made : GotFrom(R, j) => GotFrom(R, j)'
      BY <2>1, <2>2 DEF GotFrom
    <3> QED  BY <2>1, <2>2, <3>1, <3>2, <3>3 DEF GuestInv
  <2> QED  BY <1>1, <1>7, <2>1, <2>3 DEF StreamInv
<1>12. CASE HostSends \/ HostEnds \/ HostResets
  <2>1. HostInv' /\ SendInv(R)' /\ Grown(R, R) /\ UNCHANGED guest
    BY <1>2, <1>12, HostSendsSends
  <2> QED  BY <1>3, <2>1
<1>13. CASE UNCHANGED vars
  <2>1. UNCHANGED <<so, made, wire, host>> /\ UNCHANGED guest
    BY <1>13 DEF vars
  <2> QED  BY <1>3, <1>7, <2>1
<1> QED
  BY <1>5, <1>6, <1>8, <1>10, <1>11, <1>12, <1>13 DEF Next, Environment

LEMMA SpecStream ==
    ASSUME ~FinOnProbe
    PROVE  Spec => []StreamInv
<1>1. Init => StreamInv
  BY InitStream
<1>2. StreamInv /\ [Next]_vars => StreamInv'
  BY NextStream
<1> QED  BY <1>1, <1>2, PTL DEF Spec

\* Whatever is lost, reordered, refused or left half done, the host is given a beginning
\* of the guest's stream and the guest a beginning of the host's, and slirp acknowledges
\* no more than the guest has sent and, while the host takes more, only what the host was
\* given or what waits in so_rcv: provided that the guest sends no FIN with data beyond the
\* window, for tcp_input cuts the data but not the FIN of the header (see FinAfterBytes).
THEOREM BytesIntact ==
    ASSUME ~FinOnProbe
    PROVE  Spec => []StreamsIntact
<1>1. StreamInv => StreamsIntact
  <2> SUFFICES ASSUME StreamInv PROVE StreamsIntact
    OBVIOUS
  <2>1. RecvInv /\ \E R : GuestInv(R)
    BY DEF StreamInv
  <2>2. IsCount(guest.got)
    BY <2>1 DEF GuestInv
  <2>3. GuestStreamIntact
    BY <2>1, RecvGuest
  <2> QED  BY <2>2, <2>3 DEF StreamsIntact, GuestStreamIntact
<1> QED  BY <1>1, SpecStream, PTL

-----------------------------------------------------------------------------
(* The end of the guest's stream.  Of the host, h, it matters whether it   *)
(* has reset the connection, has closed its direction, and did so early.   *)

\* The host was given all of the guest's stream.
AllGiven(p) == Stretch(p.got, 1, GuestFin)

\* The connection will not be closed before the host has all, but by the host itself.
Excused(p, h) == h.reset \/ h.early \/ p.end = "eof"

\* The host is told of the end with the FIN counted and all given.
EndOpen(p, h) ==
    /\ p.end \in {"open", "eof"}
    /\ ~Usable(p) => p.end = "eof"
    /\ "FWDRAIN" \in p.so_state => p.rcv_nxt = GuestFin + 1
    /\ p.end = "eof" => h.reset \/ (p.rcv_nxt = GuestFin + 1 /\ AllGiven(p))
    /\ h.eof => Excused(p, h)
    /\ p.t_state \in FinStates => Excused(p, h)

EndClosed(p, h) ==
    /\ p.end # "eof"
    /\ p.end = "done" => h.reset \/ h.early \/ AllGiven(p)

\* What a function may leave.
EndLeft(p, h) == IF p.t_state = CLOSED THEN EndClosed(p, h) ELSE EndOpen(p, h)

EndInv ==
    /\ Exists /\ Connecting => so.end = "open"
    /\ Exists /\ ~Connecting => EndOpen(so, host)
    /\ ~Exists => EndClosed(so, host)

\* From p to q nothing changes that the end depends on, once all has come in.
Onward(p, q) ==
    /\ q.t_state = p.t_state /\ q.so_state = p.so_state /\ q.end = p.end
    /\ p.rcv_nxt = GuestFin + 1 => q.rcv_nxt = p.rcv_nxt /\ q.got = p.got

LEMMA EndOnward ==
    ASSUME NEW p, NEW h, EndOpen(p, h), NEW q, Onward(p, q)
    PROVE  EndOpen(q, h)
BY DEF EndOpen, Onward, Usable, AllGiven, Excused

LEMMA EndSame ==
    ASSUME NEW p, NEW h, EndOpen(p, h), NEW q, SameInput(p, q)
    PROVE  EndOpen(q, h)
BY EndOnward DEF Onward, SameInput

LEMMA EndOutput ==
    ASSUME NEW p, NEW sent, RecvOpen(p, sent), NEW h, EndOpen(p, h), NEW cwnd, NEW force
    PROVE  EndOpen(tcp_output(p, cwnd, force), h)
<1>1. PICK q : q = tcp_output(p, cwnd, force)
  OBVIOUS
<1>2. Socket(p)
  BY DEF RecvOpen
<1>3. SameInput(p, q)
  BY <1>1, <1>2, OutputFields
<1> QED  BY <1>1, <1>3, EndSame

\* What is queued has not come in: there is none when all has.
LEMMA EndReass ==
    ASSUME NEW p, NEW sent \in Int, RecvOpen(p, sent), p.t_state >= ESTABLISHED, NEW k \in Nat,
           NEW s, Acceptable(p, s, sent), s.data # <<>> \/ "FIN" \in s.flags,
           NEW h, EndOpen(p, h)
    PROVE  EndOpen(TCP_REASS(p, s, k).so, h)
<1>1. PICK q : q = TCP_REASS(p, s, k).so
  OBVIOUS
<1>2. Keeps(p, q)
  BY <1>1, ReassRecv
<1>3. PICK e : e = PieceOf(s)
  OBVIOUS
<1>4. Piece(e) /\ p.rcv_nxt <= s.seq /\ e.seq = s.seq
  BY <1>3 DEF Acceptable, PieceOf
<1>5. EndOf(e) <= GuestFin /\ e.seq <= EndOf(e) /\ EndOf(e) \in Nat /\ e.seq \in Nat
  BY <1>4, PieceEnd DEF Piece
<1>6. p.rcv_nxt \in Nat
  BY DEF RecvOpen, Flow, Types
<1>7. p.rcv_nxt # GuestFin + 1
  BY <1>4, <1>5, <1>6, Sizes
<1>8. Onward(p, q)
  BY <1>2, <1>7 DEF Onward, Keeps
<1> QED  BY <1>1, <1>8, EndOnward

\* The FIN counts when all has come in, and is passed on when all is given.
LEMMA EndOnFin ==
    ASSUME NEW p, NEW sent \in Int, RecvOpen(p, sent), p.t_state >= ESTABLISHED,
           AllCame(p, sent), NEW h, EndOpen(p, h)
    PROVE  EndOpen(OnFin(p), h)
<1>1. PICK q, p1 : q = OnFin(p) /\ p1 = CountFin(p)
  OBVIOUS
<1>2. Socket(p) /\ Phase(p) /\ Flow(p, sent)
  BY DEF RecvOpen
<1>3. p.rcv_nxt = GuestFin /\ GuestFin \in Nat
  BY Sizes DEF AllCame
<1>4. /\ q.t_state = AfterFin(p.t_state) /\ q.rcv_nxt = GuestFin + 1 /\ q.got = p.got
      /\ \/ /\ p.so_rcv # <<>> /\ q.so_state = p.so_state \cup {"FWDRAIN"}
            /\ q.end = p.end
         \/ /\ p.so_rcv = <<>> /\ q.so_state = sofcantsendmore(p1).so_state
            /\ q.end = sofcantsendmore(p1).end
  BY <1>1, <1>2, <1>3, OnFinIs
<1>5. Socket(p1) /\ p1.so_state = p.so_state /\ p1.end = p.end
  BY <1>1, <1>2 DEF CountFin, Socket, FieldNames
<1>6. q.t_state \in FinStates => p.t_state \in FinStates
  BY <1>2, <1>4 DEF AfterFin, FinStates, CLOSED, SYN_RECEIVED, ESTABLISHED, CLOSE_WAIT,
     FIN_WAIT_1, CLOSING, LAST_ACK, FIN_WAIT_2, TIME_WAIT
<1>7. p.end = "eof" => h.reset
  BY <1>3 DEF EndOpen
<1>8. CASE p.so_rcv # <<>> /\ q.so_state = p.so_state \cup {"FWDRAIN"} /\ q.end = p.end
  <2>1. Usable(p) => Usable(q)
    BY <1>8 DEF Usable
  <2>2. Excused(p, h) => Excused(q, h)
    BY <1>8 DEF Excused
  <2>3. EndOpen(q, h)
    BY <1>4, <1>6, <1>7, <1>8, <2>1, <2>2 DEF EndOpen
  <2> QED  BY <1>1, <2>3
<1>9. CASE /\ p.so_rcv = <<>> /\ q.so_state = sofcantsendmore(p1).so_state
           /\ q.end = sofcantsendmore(p1).end
  <2>1. q.end = IF "NOFDREF" \in p.so_state THEN p.end ELSE "eof"
    BY <1>5, <1>9, CantSendMoreFields
  <2>2. "NOFDREF" \in p.so_state => p.end = "eof"
    BY DEF EndOpen, Usable
  <2>3. q.end = "eof"
    BY <2>1, <2>2
  <2>4. h.reset \/ AllGiven(q)
    <3>1. CASE Usable(p)
      <4>1. PICK m \in Nat : Stretch(p.got, 1, m) /\ Stretch(<<>>, m, Upto(p.rcv_nxt))
        BY <1>2, <1>9, <3>1 DEF Flow
      <4>2. Upto(p.rcv_nxt) = GuestFin
        BY <1>3 DEF Upto
      <4>3. m = GuestFin
        BY <1>3, <4>1, <4>2 DEF Stretch
      <4> QED  BY <1>4, <4>1, <4>3 DEF AllGiven
    <3>2. CASE ~ Usable(p)
      BY <1>7, <3>2 DEF EndOpen
    <3> QED  BY <3>1, <3>2
  <2>5. EndOpen(q, h)
    BY <1>4, <2>3, <2>4 DEF EndOpen, Excused
  <2> QED  BY <1>1, <2>5
<1> QED  BY <1>4, <1>8, <1>9

LEMMA EndStep6 ==
    ASSUME NEW p, NEW sent \in Int, RecvOpen(p, sent), p.t_state >= ESTABLISHED, NEW k \in Nat,
           NEW s, Acceptable(p, s, sent), NEW needoutput, NEW cwnd, NEW h, EndOpen(p, h)
    PROVE  EndOpen(Step6(p, s, needoutput, cwnd, k), h)
<1>1. PICK w : w = WindowOf(p, s)
  OBVIOUS
<1>2. Socket(w) /\ SameInput(p, w) /\ w.rcv_adv = p.rcv_adv
  BY <1>1, WindowOfFields DEF RecvOpen
<1>3. RecvOpen(w, sent) /\ Edge(w) = Edge(p) /\ EndOpen(w, h)
  BY <1>2, RecvAside, EndSame
<1>4. Acceptable(w, s, sent) /\ w.t_state >= ESTABLISHED
  BY <1>2, <1>3 DEF Acceptable, SameInput
<1>5. PICK text : text = ((s.data # <<>> \/ "FIN" \in s.flags) /\ p.t_state < TIME_WAIT)
  OBVIOUS
<1>6. PICK r : r = IF text THEN TCP_REASS(w, s, k) ELSE [so |-> w, fin |-> FALSE]
  OBVIOUS
<1>7. /\ RecvOpen(r.so, sent) /\ r.so.t_state >= ESTABLISHED /\ EndOpen(r.so, h)
      /\ r.fin => AllCame(r.so, sent)
  <2>1. CASE text
    <3>1. r = TCP_REASS(w, s, k) /\ (s.data # <<>> \/ "FIN" \in s.flags)
      BY <1>5, <1>6, <2>1
    <3>2. /\ RecvOpen(r.so, sent) /\ Keeps(w, r.so)
          /\ r.fin => AllCame(r.so, sent)
      BY <1>3, <1>4, <3>1, ReassRecv
    <3>3. EndOpen(r.so, h)
      BY <1>3, <1>4, <3>1, EndReass
    <3> QED  BY <1>4, <3>2, <3>3 DEF Keeps
  <2>2. CASE ~ text
    <3>1. r = [so |-> w, fin |-> FALSE]
      BY <1>6, <2>2
    <3> QED  BY <3>1, <1>3, <1>4
  <2> QED  BY <2>1, <2>2
<1>8. PICK q : q = IF r.fin THEN OnFin(r.so) ELSE r.so
  OBVIOUS
<1>9. RecvOpen(q, sent) /\ EndOpen(q, h)
  BY <1>7, <1>8, OnFinRecv, EndOnFin
<1>10. \/ Step6(p, s, needoutput, cwnd, k) = tcp_output(q, cwnd, FALSE)
       \/ Step6(p, s, needoutput, cwnd, k) = q
  BY <1>1, <1>5, <1>6, <1>8 DEF Step6
<1> QED  BY <1>9, <1>10, EndOutput

\* A socket that is closed, and not because all was said.
LEMMA EndClose ==
    ASSUME NEW p, NEW h, NEW why, why \notin {"eof", "done"}
    PROVE  /\ EndLeft(tcp_close(p, why), h)
           /\ EndLeft(DropWithReset(tcp_close(p, why)), h)
<1>1. PICK q, r : q = tcp_close(p, why) /\ r = DropWithReset(q)
  OBVIOUS
<1>2. q.t_state = CLOSED /\ q.end = why /\ Socket(q)
  BY <1>1 DEF tcp_close, NewSocket, Socket, FieldNames
<1>3. r.t_state = CLOSED /\ r.end = why
  BY <1>1, <1>2 DEF DropWithReset, Socket, FieldNames
<1> QED  BY <1>1, <1>2, <1>3 DEF EndLeft, EndClosed

LEMMA EndDrop ==
    ASSUME NEW p, NEW h, NEW cwnd
    PROVE  /\ EndLeft(tcp_drop(p, cwnd), h)
           /\ EndLeft(DropWithReset(tcp_drop(p, cwnd)), h)
<1>1. PICK q : q = tcp_output([p EXCEPT !.t_state = CLOSED], cwnd, FALSE)
  OBVIOUS
<1>2. tcp_drop(p, cwnd) = tcp_close(q, "dropped")
  BY <1>1 DEF tcp_drop
<1>3. "dropped" \notin {"eof", "done"}
  OBVIOUS
<1> QED  BY <1>2, <1>3, EndClose

\* A connection that is over: the host has all, unless it was the cause itself.
LEMMA EndDone ==
    ASSUME NEW p, NEW h, EndOpen(p, h), p.t_state \in FinStates
    PROVE  EndLeft(tcp_close(p, "done"), h)
<1>1. PICK q : q = tcp_close(p, "done")
  OBVIOUS
<1>2. q.t_state = CLOSED /\ q.end = "done" /\ q.got = p.got
  BY <1>1 DEF tcp_close, NewSocket
<1>3. h.reset \/ h.early \/ AllGiven(p)
  BY DEF EndOpen, Excused
<1>4. EndClosed(q, h)
  BY <1>2, <1>3 DEF EndClosed, AllGiven
<1> QED  BY <1>1, <1>2, <1>4 DEF EndLeft

LEMMA EndFinAcked ==
    ASSUME NEW p, NEW sent, RecvOpen(p, sent), p.t_state >= ESTABLISHED,
           NEW h, EndOpen(p, h)
    PROVE  LET q == FinAcked(p) IN
           IF p.t_state = LAST_ACK THEN EndLeft(q, h) ELSE EndOpen(q, h)
<1>1. PICK q : q = FinAcked(p)
  OBVIOUS
<1>2. CASE p.t_state = LAST_ACK
  <2>1. q = tcp_close(p, "done")
    BY <1>1, <1>2 DEF FinAcked, FIN_WAIT_1, CLOSING, LAST_ACK
  <2>2. p.t_state \in FinStates
    BY <1>2 DEF FinStates
  <2> QED  BY <1>1, <1>2, <2>1, <2>2, EndDone
<1>3. CASE p.t_state # LAST_ACK
  <2>1. Socket(p)
    BY DEF RecvOpen
  <2>2. /\ q.so_state = p.so_state /\ q.end = p.end /\ q.rcv_nxt = p.rcv_nxt /\ q.got = p.got
        /\ q.t_state \in FinStates => p.t_state \in FinStates
    <3>1. CASE p.t_state = FIN_WAIT_1
      <4>0. PICK t : t = p.timers \cup IF "FCANTRCVMORE" \in p.so_state THEN {"2MSL"} ELSE {}
        OBVIOUS
      <4>1. q = [p EXCEPT !.t_state = FIN_WAIT_2, !.timers = t]
        BY <1>1, <3>1, <4>0 DEF FinAcked, FIN_WAIT_1, CLOSING, LAST_ACK
      <4>2. /\ q.so_state = p.so_state /\ q.end = p.end /\ q.rcv_nxt = p.rcv_nxt
            /\ q.got = p.got
        BY <2>1, <4>1 DEF Socket, FieldNames
      <4>3. p.t_state \in FinStates
        BY <3>1 DEF FinStates
      <4> QED  BY <4>2, <4>3
    <3>2. CASE p.t_state = CLOSING
      <4>1. q = [p EXCEPT !.t_state = TIME_WAIT, !.timers = {"2MSL"}]
        BY <1>1, <3>2 DEF FinAcked, FIN_WAIT_1, CLOSING, LAST_ACK
      <4>2. /\ q.so_state = p.so_state /\ q.end = p.end /\ q.rcv_nxt = p.rcv_nxt
            /\ q.got = p.got
        BY <2>1, <4>1 DEF Socket, FieldNames
      <4>3. p.t_state \in FinStates
        BY <3>2 DEF FinStates
      <4> QED  BY <4>2, <4>3
    <3>3. CASE p.t_state \notin {FIN_WAIT_1, CLOSING, LAST_ACK}
      <4>1. q = p
        BY <1>1, <3>3 DEF FinAcked
      <4> QED  BY <4>1
    <3> QED  BY <1>3, <3>1, <3>2, <3>3
  <2>3. EndOpen(q, h)
    BY <2>2 DEF EndOpen, Usable, AllGiven, Excused
  <2> QED  BY <1>1, <1>3, <2>3
<1> QED  BY <1>2, <1>3

LEMMA EndDropAfterAck ==
    ASSUME NEW p, NEW sent, RecvOpen(p, sent), NEW cwnd, NEW h, EndOpen(p, h)
    PROVE  EndOpen(DropAfterAck(p, cwnd), h)
<1>1. PICK q : q = [p EXCEPT !.t_flags = @ \cup {"ACKNOW"}]
  OBVIOUS
<1>2. Socket(q) /\ SameInput(p, q) /\ q.rcv_adv = p.rcv_adv
  BY <1>1 DEF RecvOpen, Socket, FieldNames, SameInput
<1>3. RecvOpen(q, sent) /\ EndOpen(q, h)
  BY <1>2, RecvAside, EndSame
<1> QED  BY <1>1, <1>3, EndOutput DEF DropAfterAck

LEMMA EndFastRexmt ==
    ASSUME NEW p, NEW sent, RecvOpen(p, sent), NEW s, NEW h, EndOpen(p, h)
    PROVE  EndOpen(FastRexmt(p, s), h)
<1>1. PICK b : b = [p EXCEPT !.t_dupacks = @ + 1, !.snd_nxt = s.ack, !.timers = @ \ {"REXMT"}]
  OBVIOUS
<1>2. Socket(b) /\ SameInput(p, b) /\ b.rcv_adv = p.rcv_adv
  BY <1>1 DEF RecvOpen, Socket, FieldNames, SameInput
<1>3. PICK q : q = tcp_output(b, Mss, FALSE)
  OBVIOUS
<1>4. RecvOpen(b, sent) /\ EndOpen(b, h)
  BY <1>2, RecvAside, EndSame
<1>5. RecvOpen(q, sent) /\ EndOpen(q, h)
  BY <1>3, <1>4, RecvOutput, EndOutput
<1>6. PICK nxt : nxt = Max({q.snd_nxt, p.snd_nxt})
  OBVIOUS
<1>7. PICK r : r = [q EXCEPT !.snd_nxt = nxt]
  OBVIOUS
<1>8. SameInput(q, r)
  BY <1>5, <1>7 DEF RecvOpen, Socket, FieldNames, SameInput
<1>9. FastRexmt(p, s) = r
  BY <1>1, <1>3, <1>6, <1>7 DEF FastRexmt
<1> QED  BY <1>5, <1>8, <1>9, EndSame

\* What is open is left open by this.
LEMMA EndOpenLeft ==
    ASSUME NEW p, NEW sent, RecvOpen(p, sent), NEW h, EndOpen(p, h)
    PROVE  EndLeft(p, h)
BY DEF EndLeft, RecvOpen, Phase, CLOSED, SYN_RECEIVED, TIME_WAIT

LEMMA EndAckStates ==
    ASSUME NEW p, NEW sent \in Int, RecvOpen(p, sent), p.t_state >= ESTABLISHED, NEW k \in Nat,
           NEW s, Acceptable(p, s, sent), NEW cwnd, NEW h, EndOpen(p, h)
    PROVE  EndLeft(AckStates(p, s, cwnd, k), h)
<1> DEFINE r == AckStates(p, s, cwnd, k)
<1>0. Socket(p)
  BY DEF RecvOpen
<1>1. PICK dups : dups = IF CountedDup(p, s) THEN p.t_dupacks + 1 ELSE 0
  OBVIOUS
<1>2. PICK p1 : p1 = [p EXCEPT !.t_dupacks = dups]
  OBVIOUS
<1>3. PICK p2 : p2 = [p EXCEPT !.t_dupacks = 0]
  OBVIOUS
<1>4. PICK a : a = NewAck(p, s)
  OBVIOUS
<1>5. PICK q : q = IF a.finAcked THEN FinAcked(a.so) ELSE a.so
  OBVIOUS
<1>6. PICK w : w = [q EXCEPT !.timers = @ \cup {"2MSL"}]
  OBVIOUS
<1>7. \/ r = FastRexmt(p, s)
      \/ r = tcp_output(p, cwnd, FALSE)
      \/ r = Step6(p1, s, FALSE, cwnd, k)
      \/ r = DropAfterAck(p2, cwnd)
      \/ p.t_state = LAST_ACK /\ a.finAcked /\ r = q
      \/ p.t_state = TIME_WAIT /\ r = DropAfterAck(w, cwnd)
      \/ ~(p.t_state = LAST_ACK /\ a.finAcked) /\ r = Step6(q, s, a.output, cwnd, k)
  BY <1>1, <1>2, <1>3, <1>4, <1>5, <1>6 DEF AckStates
<1> HIDE DEF r
<1>8. ASSUME NEW x, Socket(x), SameInput(p, x), x.rcv_adv = p.rcv_adv
      PROVE  /\ RecvOpen(x, sent) /\ Edge(x) = Edge(p) /\ x.t_state >= ESTABLISHED
             /\ Acceptable(x, s, sent) /\ EndOpen(x, h)
  <2>1. RecvOpen(x, sent) /\ Edge(x) = Edge(p) /\ EndOpen(x, h)
    BY <1>8, RecvAside, EndSame
  <2>2. x.t_state = p.t_state /\ x.rcv_nxt = p.rcv_nxt /\ x.so_state = p.so_state
    BY <1>8 DEF SameInput
  <2> QED  BY <2>1, <2>2, AcceptableSame
<1>9. /\ RecvOpen(p1, sent) /\ p1.t_state >= ESTABLISHED /\ Acceptable(p1, s, sent)
      /\ EndOpen(p1, h)
  <2>1. Socket(p1) /\ SameInput(p, p1) /\ p1.rcv_adv = p.rcv_adv
    BY <1>0, <1>2 DEF Socket, FieldNames, SameInput
  <2> QED  BY <1>8, <2>1
<1>10. RecvOpen(p2, sent) /\ EndOpen(p2, h)
  <2>1. Socket(p2) /\ SameInput(p, p2) /\ p2.rcv_adv = p.rcv_adv
    BY <1>0, <1>3 DEF Socket, FieldNames, SameInput
  <2> QED  BY <1>8, <2>1
<1>11. RecvOpen(a.so, sent) /\ Edge(a.so) = Edge(p) /\ SameInput(p, a.so)
  BY <1>4, NewAckRecv
<1>12. a.so.t_state = p.t_state /\ a.so.rcv_nxt = p.rcv_nxt /\ a.so.so_state = p.so_state
  BY <1>11 DEF SameInput
<1>13. EndOpen(a.so, h)
  BY <1>11, EndSame
<1>14. ASSUME ~(p.t_state = LAST_ACK /\ a.finAcked)
       PROVE  /\ RecvOpen(q, sent) /\ q.t_state >= ESTABLISHED /\ Acceptable(q, s, sent)
              /\ EndOpen(q, h)
  <2>1. CASE a.finAcked
    <3>1. q = FinAcked(a.so) /\ a.so.t_state # LAST_ACK /\ a.so.t_state >= ESTABLISHED
      BY <1>5, <1>12, <1>14, <2>1
    <3>2. /\ RecvOpen(q, sent) /\ q.t_state >= ESTABLISHED /\ Edge(q) = Edge(a.so)
          /\ q.rcv_nxt = a.so.rcv_nxt /\ q.so_state = a.so.so_state
      BY <1>11, <3>1, FinAckedRecv
    <3>3. EndOpen(q, h)
      BY <1>11, <1>13, <3>1, EndFinAcked
    <3> QED  BY <1>11, <1>12, <3>2, <3>3, AcceptableSame
  <2>2. CASE ~ a.finAcked
    <3>1. q = a.so
      BY <1>5, <2>2
    <3> QED  BY <1>11, <1>12, <1>13, <3>1, AcceptableSame
  <2> QED  BY <2>1, <2>2
<1>15. CASE r = FastRexmt(p, s)
  <2>1. RecvOpen(r, sent) /\ EndOpen(r, h)
    BY <1>15, FastRexmtRecv, EndFastRexmt
  <2> QED  BY <2>1, EndOpenLeft DEF r
<1>16. CASE r = tcp_output(p, cwnd, FALSE)
  <2>1. RecvOpen(r, sent) /\ EndOpen(r, h)
    BY <1>16, RecvOutput, EndOutput
  <2> QED  BY <2>1, EndOpenLeft DEF r
<1>17. CASE r = Step6(p1, s, FALSE, cwnd, k)
  <2>1. PICK no : no = FALSE
    OBVIOUS
  <2>2. RecvOpen(Step6(p1, s, no, cwnd, k), sent) /\ EndOpen(Step6(p1, s, no, cwnd, k), h)
    BY <1>9, Step6Recv, EndStep6
  <2>3. RecvOpen(r, sent) /\ EndOpen(r, h)
    BY <1>17, <2>1, <2>2
  <2> QED  BY <2>3, EndOpenLeft DEF r
<1>18. CASE r = DropAfterAck(p2, cwnd)
  <2>1. RecvOpen(r, sent) /\ EndOpen(r, h)
    BY <1>10, <1>18, DropAfterAckRecv, EndDropAfterAck
  <2> QED  BY <2>1, EndOpenLeft DEF r
<1>19. CASE p.t_state = LAST_ACK /\ a.finAcked /\ r = q
  <2>1. q = FinAcked(a.so) /\ a.so.t_state = LAST_ACK /\ a.so.t_state >= ESTABLISHED
    BY <1>5, <1>12, <1>19
  <2>2. EndLeft(q, h)
    BY <1>11, <1>13, <2>1, EndFinAcked
  <2> QED  BY <1>19, <2>2 DEF r
<1>20. CASE p.t_state = TIME_WAIT /\ r = DropAfterAck(w, cwnd)
  <2>1. RecvOpen(q, sent) /\ EndOpen(q, h)
    BY <1>14, <1>20 DEF TIME_WAIT, LAST_ACK
  <2>2. Socket(w) /\ SameInput(q, w) /\ w.rcv_adv = q.rcv_adv
    BY <1>6, <2>1 DEF RecvOpen, Socket, FieldNames, SameInput
  <2>3. RecvOpen(w, sent) /\ EndOpen(w, h)
    BY <2>1, <2>2, RecvAside, EndSame
  <2>4. RecvOpen(r, sent) /\ EndOpen(r, h)
    BY <1>20, <2>3, DropAfterAckRecv, EndDropAfterAck
  <2> QED  BY <2>4, EndOpenLeft DEF r
<1>21. CASE ~(p.t_state = LAST_ACK /\ a.finAcked) /\ r = Step6(q, s, a.output, cwnd, k)
  <2>1. RecvOpen(r, sent) /\ EndOpen(r, h)
    BY <1>14, <1>21, Step6Recv, EndStep6
  <2> QED  BY <2>1, EndOpenLeft DEF r
<1> QED  BY <1>7, <1>15, <1>16, <1>17, <1>18, <1>19, <1>20, <1>21 DEF r

LEMMA EndAckOfSyn ==
    ASSUME NEW p, NEW sent \in Int, RecvOpen(p, sent), p.t_state = SYN_RECEIVED, NEW k \in Nat,
           NEW s, Acceptable(p, s, sent), NEW cwnd, NEW h, EndOpen(p, h)
    PROVE  EndLeft(AckOfSyn(p, s, cwnd, k), h)
<1> DEFINE r == AckOfSyn(p, s, cwnd, k)
<1>1. /\ Socket(p) /\ Flow(p, sent) /\ p.so_state = {} /\ p.reass = {}
      /\ p.rcv_adv \in Int /\ p.rcv_adv <= Edge(p)
  BY DEF RecvOpen, Phase, Flow, Types
<1>2. PICK wl1 : wl1 = s.seq - 1
  OBVIOUS
<1>3. PICK states : states = (p.so_state \ {"ISFCONNECTING", "FWDRAIN", "NOFDREF"})
                             \cup {"ISFCONNECTED"}
  OBVIOUS
<1>4. PICK p1 : p1 = [p EXCEPT !.t_state = ESTABLISHED, !.snd_una = s.ack,
                               !.so_state = states, !.snd_wl1 = wl1]
  OBVIOUS
<1>5. /\ Socket(p1) /\ p1.t_state = ESTABLISHED /\ p1.so_state = states /\ p1.reass = {}
      /\ p1.so_rcv = p.so_rcv /\ p1.rcv_nxt = p.rcv_nxt /\ p1.rcv_adv = p.rcv_adv
      /\ p1.got = p.got /\ p1.end = p.end
  BY <1>1, <1>4 DEF Socket, FieldNames
<1>6. RecvOpen(p1, sent) /\ Edge(p1) = Edge(p)
  <2>1. Usable(p1) /\ Usable(p)
    BY <1>1, <1>3, <1>5 DEF Usable
  <2>2. Flow(p1, sent) /\ Edge(p1) = Edge(p)
    BY <1>1, <1>5, <2>1, FlowSame
  <2>3. Phase(p1)
    BY <1>1, <1>3, <1>5 DEF Phase, SYN_RECEIVED, ESTABLISHED, CLOSE_WAIT, TIME_WAIT
  <2>4. Ahead(p1.reass, p1.rcv_nxt, Edge(p1), sent)
    BY <1>5 DEF Ahead
  <2> QED  BY <1>5, <2>2, <2>3, <2>4 DEF RecvOpen
<1>7. EndOpen(p1, h)
  <2>1. ESTABLISHED \notin FinStates
    BY DEF FinStates, ESTABLISHED, FIN_WAIT_1, CLOSING, LAST_ACK, FIN_WAIT_2, TIME_WAIT
  <2>2. Usable(p1) /\ "FWDRAIN" \notin p1.so_state
    BY <1>1, <1>3, <1>5 DEF Usable
  <2> QED  BY <1>5, <2>1, <2>2 DEF EndOpen, AllGiven, Excused
<1>8. Present(p1, k).so = p1
  BY <1>5 DEF Present
<1>9. PICK a : a = NewAck(p1, s)
  OBVIOUS
<1>10. /\ RecvOpen(a.so, sent) /\ Edge(a.so) = Edge(p) /\ a.so.t_state = ESTABLISHED
       /\ a.so.rcv_nxt = p.rcv_nxt /\ "NOFDREF" \notin a.so.so_state /\ EndOpen(a.so, h)
  <2>1. RecvOpen(a.so, sent) /\ Edge(a.so) = Edge(p1) /\ SameInput(p1, a.so)
    BY <1>6, <1>9, NewAckRecv
  <2>2. EndOpen(a.so, h)
    BY <1>7, <2>1, EndSame
  <2> QED  BY <1>1, <1>3, <1>5, <1>6, <2>1, <2>2 DEF SameInput
<1>11. Acceptable(a.so, s, sent) /\ a.so.t_state >= ESTABLISHED
  BY <1>10 DEF Acceptable, ESTABLISHED
<1>12. r = DropWithReset(p) \/ r = Step6(a.so, s, a.output, cwnd, k)
  BY <1>2, <1>3, <1>4, <1>8, <1>9 DEF AckOfSyn
<1> HIDE DEF r
<1>13. CASE r = DropWithReset(p)
  <2>1. Socket(r) /\ SameInput(p, r) /\ r.rcv_adv = p.rcv_adv
    BY <1>1, <1>13 DEF DropWithReset, Socket, FieldNames, SameInput
  <2>2. RecvOpen(r, sent) /\ EndOpen(r, h)
    BY <2>1, RecvAside, EndSame
  <2> QED  BY <2>2, EndOpenLeft DEF r
<1>14. CASE r = Step6(a.so, s, a.output, cwnd, k)
  <2>1. RecvOpen(r, sent) /\ EndOpen(r, h)
    BY <1>10, <1>11, <1>14, Step6Recv, EndStep6
  <2> QED  BY <2>1, EndOpenLeft DEF r
<1> QED  BY <1>12, <1>13, <1>14 DEF r

LEMMA EndPureAck ==
    ASSUME NEW p, NEW sent, RecvOpen(p, sent), NEW s, NEW cwnd, NEW h, EndOpen(p, h)
    PROVE  EndOpen(OnPureAck(p, s, cwnd), h)
<1>1. PICK b : b = Sbdrop(p, s.ack - p.snd_una)
  OBVIOUS
<1>2. PICK c : c = [b EXCEPT !.snd_una = s.ack]
  OBVIOUS
<1>3. PICK q : q = RestartRexmt(c, s.ack)
  OBVIOUS
<1>4. Socket(b) /\ SameInput(p, b) /\ b.rcv_adv = p.rcv_adv
  BY <1>1 DEF RecvOpen, Sbdrop, Socket, FieldNames, SameInput
<1>5. Socket(c) /\ SameInput(b, c) /\ c.rcv_adv = b.rcv_adv
  BY <1>2, <1>4 DEF Socket, FieldNames, SameInput
<1>6. Socket(q) /\ SameInput(c, q) /\ q.rcv_adv = c.rcv_adv
  BY <1>3, <1>5 DEF RestartRexmt, Socket, FieldNames, SameInput
<1>7. RecvOpen(b, sent) /\ EndOpen(b, h)
  BY <1>4, RecvAside, EndSame
<1>8. RecvOpen(c, sent) /\ EndOpen(c, h)
  BY <1>5, <1>7, RecvAside, EndSame
<1>9. RecvOpen(q, sent) /\ EndOpen(q, h)
  BY <1>6, <1>8, RecvAside, EndSame
<1>10. OnPureAck(p, s, cwnd) = q \/ OnPureAck(p, s, cwnd) = tcp_output(q, cwnd, FALSE)
  BY <1>1, <1>2, <1>3 DEF OnPureAck
<1> QED  BY <1>9, <1>10, EndOutput

\* Data that is the next of the stream comes before its end.
LEMMA EndPureData ==
    ASSUME NEW p, NEW sent \in Int, RecvOpen(p, sent), NEW k \in Nat, NEW cwnd,
           NEW s, Piece(PieceOf(s)), s.seq = p.rcv_nxt, NEW h, EndOpen(p, h)
    PROVE  EndOpen(OnPureData(p, s, cwnd, k), h)
<1>1. Socket(p) /\ p.rcv_nxt \in Nat
  BY DEF RecvOpen, Flow, Types
<1>2. PICK e : e = PieceOf(s)
  OBVIOUS
<1>3. EndOf(e) <= GuestFin /\ e.seq <= EndOf(e) /\ EndOf(e) \in Nat /\ e.seq = p.rcv_nxt
  BY <1>2, PieceEnd DEF Piece, PieceOf
<1>4. p.rcv_nxt # GuestFin + 1
  BY <1>1, <1>3, Sizes
<1>5. PICK len : len = Len(s.data)
  OBVIOUS
<1>6. PICK p1 : p1 = [p EXCEPT !.rcv_nxt = @ + len]
  OBVIOUS
<1>7. PICK q : q = sbappend(p1, s.data, k)
  OBVIOUS
<1>8. PICK u : u = [q EXCEPT !.t_flags = @ \cup {"ACKNOW"}]
  OBVIOUS
<1>9. PICK v : v = tcp_output(u, cwnd, FALSE)
  OBVIOUS
<1>10. OnPureData(p, s, cwnd, k) = v
  BY <1>5, <1>6, <1>7, <1>8, <1>9 DEF OnPureData
<1>11. /\ Socket(p1) /\ p1.t_state = p.t_state /\ p1.so_state = p.so_state /\ p1.end = p.end
  BY <1>1, <1>6 DEF Socket, FieldNames
<1>12. /\ Socket(q) /\ q.t_state = p.t_state /\ q.so_state = p.so_state /\ q.end = p.end
  BY <1>7, <1>11 DEF sbappend, sbappendsb, Socket, FieldNames
<1>13. /\ Socket(u) /\ u.t_state = p.t_state /\ u.so_state = p.so_state /\ u.end = p.end
  BY <1>8, <1>12 DEF Socket, FieldNames
<1>14. v.t_state = p.t_state /\ v.so_state = p.so_state /\ v.end = p.end
  <2>1. SameInput(u, v)
    BY <1>9, <1>13, OutputFields
  <2> QED  BY <1>13, <2>1 DEF SameInput
<1>15. Onward(p, v)
  BY <1>4, <1>14 DEF Onward
<1> QED  BY <1>10, <1>15, EndOnward

LEMMA EndOnSegment ==
    ASSUME NEW p, NEW sent \in Int, RecvOpen(p, sent), NEW k \in Nat, NEW cwnd,
           NEW s0, FromGuest(s0, sent), Within(p, s0), NEW h, EndOpen(p, h)
    PROVE  EndLeft(OnSegment(p, s0, cwnd, k), h)
<1> DEFINE t == OnSegment(p, s0, cwnd, k)
<1>1. PICK l : l = TrimLeft(p, s0)
  OBVIOUS
<1>2. PICK q : q = l.so
  OBVIOUS
<1>3. PICK g : g = l.seg
  OBVIOUS
<1>4. PICK s : s = TrimRight(q, g)
  OBVIOUS
<1>5. PICK u : u = [q EXCEPT !.t_flags = @ \cup {"ACKNOW"}]
  OBVIOUS
<1>6. PICK r : r = IF Beyond(q, g) > 0 /\ Beyond(q, g) >= Len(g.data) THEN u ELSE q
  OBVIOUS
<1>7. \/ Predicted(p, s0) /\ t = OnPureAck(p, s0, cwnd)
      \/ Predicted(p, s0) /\ PureData(p, s0) /\ t = OnPureData(p, s0, cwnd, k)
      \/ t = DropWithReset(tcp_close(q, "reset"))
      \/ t = q
      \/ t = DropAfterAck(q, cwnd)
      \/ t = tcp_close(r, "reset")
      \/ t = DropWithReset(tcp_drop(r, cwnd))
      \/ t = r
      \/ /\ ~("NOFDREF" \in q.so_state /\ q.t_state > CLOSE_WAIT /\ g.data # <<>>)
         /\ "ACK" \in s.flags
         /\ \/ r.t_state = SYN_RECEIVED /\ t = AckOfSyn(r, s, cwnd, k)
            \/ r.t_state # SYN_RECEIVED /\ t = AckStates(r, s, cwnd, k)
  BY <1>1, <1>2, <1>3, <1>4, <1>5, <1>6 DEF OnSegment
<1> HIDE DEF t
<1>8. Socket(q) /\ SameInput(p, q) /\ q.rcv_adv = p.rcv_adv
  BY <1>1, <1>2, TrimLeftSocket
<1>9. RecvOpen(q, sent) /\ EndOpen(q, h)
  BY <1>8, RecvAside, EndSame
<1>10. Socket(u) /\ SameInput(q, u) /\ u.rcv_adv = q.rcv_adv
  BY <1>5, <1>8 DEF Socket, FieldNames, SameInput
<1>11. RecvOpen(u, sent) /\ Edge(u) = Edge(q) /\ EndOpen(u, h)
  BY <1>9, <1>10, RecvAside, EndSame
<1>12. RecvOpen(r, sent) /\ Edge(r) = Edge(q) /\ r.rcv_nxt = q.rcv_nxt /\ r.so_state = q.so_state
       /\ r.t_state = q.t_state /\ EndOpen(r, h)
  BY <1>6, <1>9, <1>10, <1>11 DEF SameInput
<1>0. "reset" \notin {"eof", "done"}
  OBVIOUS
<1>13. CASE Predicted(p, s0) /\ t = OnPureAck(p, s0, cwnd)
  <2>1. RecvOpen(t, sent) /\ EndOpen(t, h)
    BY <1>13, OnPureAckRecv, EndPureAck
  <2> QED  BY <2>1, EndOpenLeft DEF t
<1>14. CASE Predicted(p, s0) /\ PureData(p, s0) /\ t = OnPureData(p, s0, cwnd, k)
  <2>1. s0.flags = {"ACK"} /\ s0.data # <<>> /\ p.t_state = ESTABLISHED /\ s0.seq = p.rcv_nxt
    BY <1>14 DEF Predicted, PureData
  <2>2. Piece(PieceOf(s0)) /\ EndOf(PieceOf(s0)) + Fin1(PieceOf(s0)) <= sent
    BY <2>1 DEF FromGuest, Text
  <2>3. EndOf(PieceOf(s0)) <= sent
    BY <2>2, PieceEnd
  <2>4. RecvOpen(t, sent) /\ EndOpen(t, h)
    BY <1>14, <2>1, <2>2, <2>3, OnPureDataRecv, EndPureData
  <2> QED  BY <2>4, EndOpenLeft DEF t
<1>15. CASE t = DropWithReset(tcp_close(q, "reset"))
  BY <1>0, <1>15, EndClose DEF t
<1>16. CASE t = q
  BY <1>9, <1>16, EndOpenLeft DEF t
<1>17. CASE t = DropAfterAck(q, cwnd)
  <2>1. RecvOpen(t, sent) /\ EndOpen(t, h)
    BY <1>9, <1>17, DropAfterAckRecv, EndDropAfterAck
  <2> QED  BY <2>1, EndOpenLeft DEF t
<1>18. CASE t = tcp_close(r, "reset")
  BY <1>0, <1>18, EndClose DEF t
<1>19. CASE t = DropWithReset(tcp_drop(r, cwnd))
  BY <1>19, EndDrop DEF t
<1>20. CASE t = r
  BY <1>12, <1>20, EndOpenLeft DEF t
<1>21. CASE /\ ~("NOFDREF" \in q.so_state /\ q.t_state > CLOSE_WAIT /\ g.data # <<>>)
            /\ "ACK" \in s.flags
            /\ \/ r.t_state = SYN_RECEIVED /\ t = AckOfSyn(r, s, cwnd, k)
               \/ r.t_state # SYN_RECEIVED /\ t = AckStates(r, s, cwnd, k)
  <2>1. "NOFDREF" \in q.so_state => g.data = <<>>
    <3>1. Phase(q)
      BY <1>9 DEF RecvOpen
    <3> QED  BY <1>21, <3>1 DEF Phase
  <2>2. Segment(s0)
    BY DEF FromGuest
  <2>3. Segment(g) /\ ("ACK" \in g.flags => "ACK" \in s0.flags)
    BY <1>1, <1>3, <2>2, TrimLeftFlags
  <2>4. "ACK" \in s.flags => "ACK" \in g.flags
    BY <1>4, <2>3 DEF TrimRight, Segment
  <2>5. "ACK" \in s0.flags
    BY <1>21, <2>3, <2>4
  <2>6. p.rcv_nxt \in Nat /\ q.rcv_nxt = p.rcv_nxt
    BY <1>8 DEF RecvOpen, Flow, Types, SameInput
  <2>7. Fresh(p, g, sent)
    BY <1>1, <1>3, <2>5, <2>6, TrimLeftIs
  <2>8. Fresh(q, g, sent)
    BY <1>8, <2>6, <2>7 DEF Fresh, Within
  <2>9. Acceptable(q, s, sent)
    BY <1>4, <1>9, <2>1, <2>8, TrimRightIs
  <2>10. Acceptable(r, s, sent)
    BY <1>12, <2>9, AcceptableSame
  <2>11. CASE r.t_state = SYN_RECEIVED /\ t = AckOfSyn(r, s, cwnd, k)
    <3>1. EndLeft(t, h)
      BY <1>12, <2>10, <2>11, EndAckOfSyn
    <3> QED  BY <3>1 DEF t
  <2>12. CASE r.t_state # SYN_RECEIVED /\ t = AckStates(r, s, cwnd, k)
    <3>1. r.t_state >= ESTABLISHED
      BY <1>12, <2>12 DEF RecvOpen, Phase, SYN_RECEIVED, ESTABLISHED, TIME_WAIT
    <3>2. EndLeft(t, h)
      BY <1>12, <2>10, <2>12, <3>1, EndAckStates
    <3> QED  BY <3>2 DEF t
  <2> QED  BY <1>21, <2>11, <2>12
<1> QED  BY <1>7, <1>13, <1>14, <1>15, <1>16, <1>17, <1>18, <1>19, <1>20, <1>21 DEF t

-----------------------------------------------------------------------------
(* The end of the guest's stream, as an invariant *)

\* The function under way has returned.
LEMMA EndReturns ==
    ASSUME NEW p, Socket(p), Returns(p), p.t_state = CLOSED \/ "ISFCONNECTING" \notin p.so_state,
           EndLeft(p, host')
    PROVE  EndInv'
<1>1. PICK q : q = [p EXCEPT !.out = {}]
  OBVIOUS
<1>2. so' = q
  BY <1>1 DEF Returns
<1>3. SameInput(p, q)
  BY <1>1 DEF Socket, FieldNames, SameInput
<1>4. q.t_state = p.t_state /\ q.so_state = p.so_state /\ q.end = p.end /\ q.got = p.got
  BY <1>3 DEF SameInput
<1>5. (Exists' <=> p.t_state # CLOSED) /\ (Connecting' <=> "ISFCONNECTING" \in p.so_state)
  BY <1>2, <1>4 DEF Exists, Connecting
<1>6. CASE p.t_state = CLOSED
  <2>1. EndClosed(p, host')
    BY <1>6 DEF EndLeft
  <2>2. EndClosed(so', host')
    BY <1>2, <1>4, <2>1 DEF EndClosed, AllGiven
  <2> QED  BY <1>5, <1>6, <2>2 DEF EndInv
<1>7. CASE p.t_state # CLOSED /\ "ISFCONNECTING" \notin p.so_state
  <2>1. EndOpen(p, host')
    BY <1>7 DEF EndLeft
  <2>2. EndOpen(so', host')
    BY <1>2, <1>3, <2>1, EndSame
  <2> QED  BY <1>5, <1>7, <2>2 DEF EndInv
<1> QED  BY <1>6, <1>7

\* A step of slirp that leaves an open socket, or a closed one.
LEMMA EndReturnsOpen ==
    ASSUME NEW p, NEW sent, RecvOpen(p, sent), Returns(p), EndOpen(p, host')
    PROVE  EndInv'
<1>1. Socket(p) /\ "ISFCONNECTING" \notin p.so_state
  BY DEF RecvOpen, Phase
<1>2. EndLeft(p, host')
  BY EndOpenLeft
<1> QED  BY <1>1, <1>2, EndReturns

LEMMA EndKind ==
    ASSUME NEW sent, RecvOpen(so, sent), EndInv
    PROVE  EndOpen(so, host) /\ Exists /\ ~Connecting
<1>1. so.t_state # CLOSED /\ "ISFCONNECTING" \notin so.so_state
  BY DEF RecvOpen, Phase, CLOSED, SYN_RECEIVED, TIME_WAIT
<1> QED  BY <1>1 DEF EndInv, Exists, Connecting

\* The same of the host's end, as far as the guest's stream is concerned.
LEMMA EndHost ==
    ASSUME NEW p, NEW h, NEW h2, EndOpen(p, h),
           h2.reset = h.reset, h2.early = h.early, h2.eof = h.eof
    PROVE  EndOpen(p, h2)
BY DEF EndOpen, Excused

LEMMA ConnectedEnd ==
    ASSUME NEW sent, Recv(so, sent), EndInv, Connected
    PROVE  EndInv'
<1>1. RecvPending(so) /\ Exists /\ Connecting
  BY RecvKind DEF Connected, Exists, Connecting
<1>2. so.end = "open" /\ so.t_state = SYN_RECEIVED
  BY <1>1 DEF EndInv, RecvPending
<1>3. PICK iss : iss = made * IssIncr
  OBVIOUS
<1>4. PICK p : p = [so EXCEPT !.so_state = {}, !.iss = iss, !.snd_una = iss, !.snd_nxt = iss,
                              !.snd_max = iss, !.rcv_nxt = 1, !.rcv_adv = 1, !.t_flags = {"ACKNOW"}]
  OBVIOUS
<1>5. PICK no, q : no = FALSE /\ q = tcp_output(p, Mss, no)
  OBVIOUS
<1>6. Returns(q) /\ host' = NewHost
  BY <1>3, <1>4, <1>5 DEF Connected
<1>7. Socket(p) /\ p.t_state = SYN_RECEIVED /\ p.so_state = {} /\ p.end = "open"
  BY <1>1, <1>2, <1>4 DEF RecvPending, Socket, FieldNames
<1>8. Socket(q) /\ SameInput(p, q)
  BY <1>5, <1>7, OutputFields
<1>9. EndOpen(p, host')
  <2>1. ~host'.eof /\ SYN_RECEIVED \notin FinStates
    BY <1>6 DEF NewHost, FinStates, SYN_RECEIVED, FIN_WAIT_1, CLOSING, LAST_ACK, FIN_WAIT_2,
       TIME_WAIT
  <2> QED  BY <1>7, <2>1 DEF EndOpen, Usable
<1>10. EndOpen(q, host')
  BY <1>8, <1>9, EndSame
<1>11. q.so_state = {} /\ q.t_state # CLOSED
  BY <1>7, <1>8 DEF SameInput, CLOSED, SYN_RECEIVED
<1>12. EndLeft(q, host')
  BY <1>10, <1>11 DEF EndLeft
<1> QED  BY <1>6, <1>8, <1>11, <1>12, EndReturns

LEMMA ConnectFailsEnd ==
    ASSUME NEW sent, Recv(so, sent), ConnectFails
    PROVE  EndInv'
<1>1. PICK q : q = tcp_close(so, "refused")
  OBVIOUS
<1>2. PICK p : p = DropWithReset(q) /\ Returns(p)
  BY <1>1 DEF ConnectFails
<1>3. Socket(so)
  BY RecvKind
<1>4. Socket(q) /\ q.t_state = CLOSED
  BY <1>1, <1>3, CloseFields
<1>5. Socket(p) /\ p.t_state = CLOSED
  BY <1>2, <1>4 DEF DropWithReset, Socket, FieldNames
<1>6. EndLeft(p, host')
  BY <1>1, <1>2, EndClose
<1> QED  BY <1>2, <1>5, <1>6, EndReturns

LEMMA SoReadEnd ==
    ASSUME NEW sent, Recv(so, sent), HostInv, EndInv, SoRead
    PROVE  EndInv'
<1>1. RecvOpen(so, sent)
  BY RecvKind DEF SoRead
<1>2. EndOpen(so, host)
  BY <1>1, EndKind
<1>3. PICK data, n, cwnd : /\ Returns(tcp_output([so EXCEPT !.so_snd = @ \o data], cwnd, FALSE))
                           /\ host' = [host EXCEPT !.read = @ + n]
  BY DEF SoRead
<1>4. PICK no, p, q : /\ no = FALSE /\ p = [so EXCEPT !.so_snd = @ \o data]
                      /\ q = tcp_output(p, cwnd, no)
  OBVIOUS
<1>5. Returns(q)
  BY <1>3, <1>4
<1>6. Socket(p) /\ SameInput(so, p) /\ p.rcv_adv = so.rcv_adv
  BY <1>1, <1>4 DEF RecvOpen, Socket, FieldNames, SameInput
<1>7. RecvOpen(p, sent)
  BY <1>1, <1>6, RecvAside
<1>8. host'.reset = host.reset /\ host'.early = host.early /\ host'.eof = host.eof
  BY <1>3 DEF HostInv
<1>9. EndOpen(p, host')
  BY <1>2, <1>6, <1>8, EndSame, EndHost
<1>10. RecvOpen(q, sent) /\ EndOpen(q, host')
  BY <1>4, <1>7, <1>9, EndOutput, RecvOutput
<1> QED  BY <1>5, <1>10, EndReturnsOpen

LEMMA SoReadEndsEnd ==
    ASSUME NEW sent, Recv(so, sent), EndInv, SoReadEnds
    PROVE  EndInv'
<1>1. RecvOpen(so, sent) /\ so.t_state >= ESTABLISHED
  BY RecvKind DEF SoReadEnds
<1>2. EndOpen(so, host)
  BY <1>1, EndKind
<1>3. Excused(so, host) /\ UNCHANGED host
  BY <1>2 DEF SoReadEnds, EndOpen, Excused
<1>4. PICK p : p = sofcantrcvmore(so)
  OBVIOUS
<1>5. PICK r : r = [p EXCEPT !.t_state = AfterEnd(p.t_state)]
  OBVIOUS
<1>6. PICK no, cwnd, q : no = FALSE /\ q = tcp_output(r, cwnd, no) /\ Returns(q)
  BY <1>4, <1>5, SockClosedIs DEF SoReadEnds
<1>7. Socket(so) /\ Phase(so)
  BY <1>1 DEF RecvOpen
<1>8. /\ Socket(p) /\ p.t_state = so.t_state /\ p.rcv_nxt = so.rcv_nxt /\ p.got = so.got
      /\ p.end = so.end
      /\ p.so_state = IF "FCANTSENDMORE" \in so.so_state THEN {"NOFDREF"}
                      ELSE (so.so_state \ {"ISFCONNECTING"}) \cup {"FCANTRCVMORE"}
  BY <1>4, <1>7 DEF sofcantrcvmore, Socket, FieldNames
<1>9. /\ Socket(r) /\ r.t_state = AfterEnd(so.t_state) /\ r.rcv_nxt = so.rcv_nxt
      /\ r.got = so.got /\ r.end = so.end /\ r.so_state = p.so_state
  BY <1>5, <1>8 DEF Socket, FieldNames
<1>10. /\ Usable(r) <=> Usable(so)
       /\ "FWDRAIN" \in r.so_state => "FWDRAIN" \in so.so_state
       /\ "ISFCONNECTING" \notin r.so_state
  <2>1. "NOFDREF" \notin so.so_state /\ "ISFCONNECTING" \notin so.so_state
    BY <1>7 DEF Phase, SoReadEnds
  <2>2. CASE "FCANTSENDMORE" \in so.so_state
    BY <1>8, <1>9, <2>1, <2>2 DEF Usable
  <2>3. CASE "FCANTSENDMORE" \notin so.so_state
    BY <1>8, <1>9, <2>1, <2>3 DEF Usable
  <2> QED  BY <2>2, <2>3
<1>11. EndOpen(r, host)
  BY <1>2, <1>3, <1>9, <1>10 DEF EndOpen, Excused, AllGiven
<1>12. Socket(q) /\ SameInput(r, q)
  BY <1>6, <1>9, OutputFields
<1>13. EndOpen(q, host')
  BY <1>3, <1>11, <1>12, EndSame
<1>14. q.t_state # CLOSED /\ "ISFCONNECTING" \notin q.so_state
  BY <1>1, <1>7, <1>9, <1>10, <1>12 DEF SameInput, AfterEnd, Phase, CLOSED, SYN_RECEIVED, ESTABLISHED,
     CLOSE_WAIT, FIN_WAIT_1, LAST_ACK, TIME_WAIT
<1>15. EndLeft(q, host')
  BY <1>13, <1>14 DEF EndLeft
<1> QED  BY <1>6, <1>12, <1>14, <1>15, EndReturns

LEMMA SoWriteFailsEnd ==
    ASSUME NEW sent, Recv(so, sent), EndInv, SoWriteFails
    PROVE  EndInv'
<1>1. RecvOpen(so, sent) /\ so.t_state >= ESTABLISHED
  BY RecvKind DEF SoWriteFails
<1>2. EndOpen(so, host)
  BY <1>1, EndKind
<1>3. host.reset /\ UNCHANGED host
  BY Zenon DEF SoWriteFails
<1>4. PICK p : p = sofcantsendmore(so)
  OBVIOUS
<1>5. PICK r : r = [p EXCEPT !.t_state = AfterEnd(p.t_state)]
  OBVIOUS
<1>6. PICK no, cwnd, q : no = FALSE /\ q = tcp_output(r, cwnd, no) /\ Returns(q)
  BY <1>4, <1>5, SockClosedIs DEF SoWriteFails
<1>7. Socket(so) /\ Phase(so)
  BY <1>1 DEF RecvOpen
<1>8. /\ Socket(p) /\ p.t_state = so.t_state /\ p.rcv_nxt = so.rcv_nxt /\ p.got = so.got
      /\ p.so_state = IF "FCANTRCVMORE" \in so.so_state THEN {"NOFDREF"}
                      ELSE (so.so_state \ {"ISFCONNECTING"}) \cup {"FCANTSENDMORE"}
      /\ p.end = IF "NOFDREF" \in so.so_state THEN so.end ELSE "eof"
  BY <1>4, <1>7, CantSendMoreFields
<1>9. /\ Socket(r) /\ r.t_state = AfterEnd(so.t_state) /\ r.rcv_nxt = so.rcv_nxt
      /\ r.got = so.got /\ r.end = p.end /\ r.so_state = p.so_state
  BY <1>5, <1>8 DEF Socket, FieldNames
<1>10. r.end = "eof"
  BY <1>2, <1>8, <1>9 DEF EndOpen, Usable
<1>11. /\ "FWDRAIN" \in r.so_state => "FWDRAIN" \in so.so_state
       /\ "ISFCONNECTING" \notin r.so_state
  <2>1. CASE "FCANTRCVMORE" \in so.so_state
    BY <1>8, <1>9, <2>1
  <2>2. CASE "FCANTRCVMORE" \notin so.so_state
    BY <1>8, <1>9, <2>2
  <2> QED  BY <2>1, <2>2
<1>12. EndOpen(r, host)
  BY <1>2, <1>3, <1>9, <1>10, <1>11 DEF EndOpen, Excused
<1>13. Socket(q) /\ SameInput(r, q)
  BY <1>6, <1>9, OutputFields
<1>14. EndOpen(q, host')
  BY <1>3, <1>12, <1>13, EndSame
<1>15. q.t_state # CLOSED /\ "ISFCONNECTING" \notin q.so_state
  BY <1>1, <1>7, <1>9, <1>11, <1>13 DEF SameInput, AfterEnd, Phase, CLOSED, SYN_RECEIVED, ESTABLISHED,
     CLOSE_WAIT, FIN_WAIT_1, LAST_ACK, TIME_WAIT
<1>16. EndLeft(q, host')
  BY <1>14, <1>15 DEF EndLeft
<1> QED  BY <1>6, <1>13, <1>15, <1>16, EndReturns

LEMMA SoWriteEnd ==
    ASSUME NEW sent \in Int, Recv(so, sent), EndInv, SoWrite
    PROVE  EndInv'
<1>1. RecvOpen(so, sent) /\ so.t_state >= ESTABLISHED
  BY RecvKind DEF SoWrite
<1>2. EndOpen(so, host) /\ ~host.reset /\ UNCHANGED host
  BY <1>1, EndKind DEF SoWrite
<1>3. Usable(so)
  BY <1>1 DEF RecvOpen, Phase, Usable, SoWrite
<1>4. PICK n \in 1 .. Len(so.so_rcv) :
        LET p == [so EXCEPT !.got = @ \o SubSeq(so.so_rcv, 1, n), !.so_rcv = From(@, n)] IN
        Returns(IF "FWDRAIN" \in p.so_state /\ p.so_rcv = <<>> THEN sofcantsendmore(p) ELSE p)
  BY DEF SoWrite
<1>5. PICK t, f, p : /\ t = Take(so.so_rcv, n) /\ f = From(so.so_rcv, n)
                     /\ p = [so EXCEPT !.got = @ \o t, !.so_rcv = f]
  OBVIOUS
<1>6. PICK q : /\ q = IF "FWDRAIN" \in p.so_state /\ p.so_rcv = <<>> THEN sofcantsendmore(p) ELSE p
               /\ Returns(q)
  BY <1>4, <1>5 DEF Take
<1>7. RecvOpen(p, sent) /\ p.t_state = so.t_state /\ p.so_state = so.so_state /\ p.end = so.end
      /\ p.rcv_nxt = so.rcv_nxt
  <2>1. Socket(so) /\ so.so_rcv \in Seq(Nat)
    BY <1>1 DEF RecvOpen, Flow, Types
  <2>2. /\ Socket(p) /\ p.t_state = so.t_state /\ p.so_state = so.so_state /\ p.so_rcv = f
        /\ p.reass = so.reass /\ p.rcv_nxt = so.rcv_nxt /\ p.rcv_adv = so.rcv_adv
        /\ p.got = so.got \o t /\ p.end = so.end
    BY <1>5, <2>1 DEF Socket, FieldNames
  <2>3. PICK len \in Nat : len = Len(so.so_rcv)
    BY <2>1
  <2>4. n \in Nat /\ n <= Len(so.so_rcv)
    BY <2>3
  <2>5. RecvOpen(p, sent)
    BY <1>1, <1>3, <1>5, <2>2, <2>4, HostTakes
  <2> QED  BY <2>2, <2>5
<1>8. Socket(p) /\ Phase(p) /\ Flow(p, sent) /\ Usable(p)
  BY <1>3, <1>7 DEF RecvOpen, Usable
\* A host that was told of the end has taken all.
<1>9. so.end # "eof"
  <2> SUFFICES ASSUME so.end = "eof" PROVE FALSE
    OBVIOUS
  <2>1. so.rcv_nxt = GuestFin + 1 /\ AllGiven(so) /\ GuestFin \in Nat
    BY <1>2, Sizes DEF EndOpen
  <2>2. Upto(so.rcv_nxt) = GuestFin
    BY <2>1 DEF Upto
  <2>3. PICK m \in Nat : Stretch(so.got, 1, m) /\ Stretch(so.so_rcv, m, GuestFin)
    BY <1>1, <1>3, <2>2 DEF RecvOpen, Flow
  <2>4. Len(so.so_rcv) = 0
    <3>1. m = 1 + Len(so.got) /\ GuestFin = 1 + Len(so.got)
      BY <2>1, <2>3, StretchLen DEF AllGiven
    <3> QED  BY <2>3, <3>1, StretchLen
  <2> QED  BY <1>4, <2>4
<1>10. CASE "FWDRAIN" \in p.so_state /\ p.so_rcv = <<>>
  <2>1. q = sofcantsendmore(p)
    BY <1>6, <1>10
  <2>2. /\ Socket(q) /\ q.t_state = p.t_state /\ q.rcv_nxt = p.rcv_nxt /\ q.got = p.got
        /\ q.so_state = IF "FCANTRCVMORE" \in p.so_state THEN {"NOFDREF"}
                        ELSE (p.so_state \ {"ISFCONNECTING"}) \cup {"FCANTSENDMORE"}
        /\ q.end = "eof"
    BY <1>8, <2>1, CantSendMoreFields DEF Usable
  <2>3. p.rcv_nxt = GuestFin + 1 /\ GuestFin \in Nat
    BY <1>2, <1>7, <1>10, Sizes DEF EndOpen
  <2>4. Upto(p.rcv_nxt) = GuestFin
    BY <2>3 DEF Upto
  <2>5. PICK m \in Nat : Stretch(p.got, 1, m) /\ Stretch(<<>>, m, GuestFin)
    BY <1>8, <1>10, <2>4 DEF Flow
  <2>6. m = GuestFin
    BY <2>3, <2>5 DEF Stretch
  <2>7. AllGiven(q)
    BY <2>2, <2>5, <2>6 DEF AllGiven
  <2>8. EndOpen(q, host')
    BY <2>2, <2>3, <2>7 DEF EndOpen, Excused
  <2>9. q.t_state # CLOSED /\ "ISFCONNECTING" \notin q.so_state
    <3>1. q.t_state # CLOSED
      BY <1>8, <2>2 DEF Phase, CLOSED, SYN_RECEIVED, TIME_WAIT
    <3> QED  BY <2>2, <3>1
  <2>10. EndLeft(q, host')
    BY <2>8, <2>9 DEF EndLeft
  <2> QED  BY <1>6, <2>2, <2>9, <2>10, EndReturns
<1>11. CASE ~("FWDRAIN" \in p.so_state /\ p.so_rcv = <<>>)
  <2>1. q = p
    BY <1>6, <1>11
  <2>2. EndOpen(p, host')
    BY <1>2, <1>7, <1>9 DEF EndOpen, Excused, Usable
  <2> QED  BY <1>6, <1>7, <2>1, <2>2, EndReturnsOpen
<1> QED  BY <1>10, <1>11

LEMMA TimersEnd ==
    ASSUME NEW sent \in Int, Recv(so, sent), EndInv,
           \/ tcp_fasttimo \/ RexmtTimeout \/ RexmtGivesUp \/ PersistTimeout
           \/ KeepTimeout \/ TwoMslTimeout
    PROVE  EndInv'
<1>0. Socket(so)
  BY RecvKind
<1>1. UNCHANGED host
  BY DEF tcp_fasttimo, RexmtTimeout, RexmtGivesUp, PersistTimeout, KeepTimeout, TwoMslTimeout
<1>2. ASSUME NEW p, RecvOpen(so, sent), Socket(p), SameInput(so, p), p.rcv_adv = so.rcv_adv
      PROVE  RecvOpen(p, sent) /\ EndOpen(p, host')
  <2>1. EndOpen(so, host')
    BY <1>1, <1>2, EndKind
  <2> QED  BY <1>2, <2>1, RecvAside, EndSame
<1>3. ASSUME NEW q, NEW why, q = tcp_close(so, why), why \notin {"eof", "done"}, Returns(q)
      PROVE  EndInv'
  <2>1. Socket(q) /\ q.t_state = CLOSED
    BY <1>0, <1>3, CloseFields
  <2>2. EndLeft(q, host')
    BY <1>3, EndClose
  <2> QED  BY <1>3, <2>1, <2>2, EndReturns
<1>4. ASSUME NEW q, q = tcp_drop(so, Mss), RecvOpen(so, sent), Returns(q) PROVE EndInv'
  <2>1. Socket(q) /\ q.t_state = CLOSED
    BY <1>4, DropRecv DEF RecvClosed
  <2>2. EndLeft(q, host')
    BY <1>4, EndDrop
  <2> QED  BY <1>4, <2>1, <2>2, EndReturns
<1>5. CASE tcp_fasttimo
  <2>1. RecvOpen(so, sent)
    BY <1>5, RecvKind DEF tcp_fasttimo
  <2>2. PICK p : p = [so EXCEPT !.t_flags = @ \ {"DELACK"}]
    OBVIOUS
  <2>3. PICK cwnd, q : q = DropAfterAck(p, cwnd) /\ Returns(q)
    BY <1>5, <2>2 DEF tcp_fasttimo
  <2>4. Socket(p) /\ SameInput(so, p) /\ p.rcv_adv = so.rcv_adv
    BY <2>1, <2>2 DEF RecvOpen, Socket, FieldNames, SameInput
  <2>5. RecvOpen(p, sent) /\ EndOpen(p, host')
    BY <1>2, <2>1, <2>4
  <2>6. RecvOpen(q, sent) /\ EndOpen(q, host')
    BY <2>3, <2>5, DropAfterAckRecv, EndDropAfterAck
  <2> QED  BY <2>3, <2>6, EndReturnsOpen
<1>6. CASE RexmtTimeout
  <2>1. RecvOpen(so, sent)
    BY <1>6, RecvKind DEF RexmtTimeout
  <2>2. PICK p : p = [so EXCEPT !.snd_nxt = so.snd_una, !.t_dupacks = 0]
    OBVIOUS
  <2>3. PICK no, q : no = FALSE /\ q = tcp_output(p, Mss, no) /\ Returns(q)
    BY <1>6, <2>2 DEF RexmtTimeout
  <2>4. Socket(p) /\ SameInput(so, p) /\ p.rcv_adv = so.rcv_adv
    BY <2>1, <2>2 DEF RecvOpen, Socket, FieldNames, SameInput
  <2>5. RecvOpen(p, sent) /\ EndOpen(p, host')
    BY <1>2, <2>1, <2>4
  <2>6. RecvOpen(q, sent) /\ EndOpen(q, host')
    BY <2>3, <2>5, RecvOutput, EndOutput
  <2> QED  BY <2>3, <2>6, EndReturnsOpen
<1>7. CASE RexmtGivesUp
  <2>1. RecvOpen(so, sent)
    BY <1>7, RecvKind DEF RexmtGivesUp
  <2>2. PICK q : q = tcp_drop(so, Mss) /\ Returns(q)
    BY <1>7 DEF RexmtGivesUp
  <2> QED  BY <1>4, <2>1, <2>2
<1>8. CASE PersistTimeout
  <2>1. RecvOpen(so, sent)
    BY <1>8, RecvKind DEF PersistTimeout
  <2>2. PICK yes, cwnd, q : yes = TRUE /\ q = tcp_output(so, cwnd, yes) /\ Returns(q)
    BY <1>8 DEF PersistTimeout
  <2>3. EndOpen(so, host')
    BY <1>1, <2>1, EndKind
  <2>4. RecvOpen(q, sent) /\ EndOpen(q, host')
    BY <2>1, <2>2, <2>3, RecvOutput, EndOutput
  <2> QED  BY <2>2, <2>4, EndReturnsOpen
<1>9. CASE KeepTimeout
  <2>1. CASE Connecting
    <3>1. PICK q : q = tcp_close(so, "dropped") /\ Returns(q)
      BY <1>9, <2>1 DEF KeepTimeout
    <3> QED  BY <1>3, <3>1
  <2>2. CASE ~ Connecting
    <3>1. PICK q : q = tcp_drop(so, Mss) /\ Returns(q)
      BY <1>9, <2>2 DEF KeepTimeout
    <3>2. RecvOpen(so, sent)
      BY <1>9, <2>2, RecvKind DEF KeepTimeout, Exists, Connecting
    <3> QED  BY <1>4, <3>1, <3>2
  <2> QED  BY <2>1, <2>2
<1>10. CASE TwoMslTimeout
  <2>1. RecvOpen(so, sent)
    BY <1>10, RecvKind DEF TwoMslTimeout
  <2>2. PICK why, q : /\ why = IF so.t_state = TIME_WAIT THEN "done" ELSE "dropped"
                      /\ q = tcp_close(so, why) /\ Returns(q)
    BY <1>10 DEF TwoMslTimeout
  <2>3. CASE so.t_state # TIME_WAIT
    BY <1>3, <2>2, <2>3
  <2>4. CASE so.t_state = TIME_WAIT
    <3>1. Socket(q) /\ q.t_state = CLOSED
      BY <1>0, <2>2, CloseFields
    <3>2. EndOpen(so, host')
      BY <1>1, <2>1, EndKind
    <3>3. EndLeft(q, host')
      BY <2>2, <2>4, <3>2, EndDone DEF FinStates
    <3> QED  BY <2>2, <3>1, <3>3, EndReturns
  <2> QED  BY <2>3, <2>4
<1> QED  BY <1>5, <1>6, <1>7, <1>8, <1>9, <1>10

LEMMA InputEnd ==
    ASSUME NEW sent \in Int, Recv(so, sent), EndInv, NEW s, FromGuest(s, sent),
           Exists => Within(so, s), tcp_input(s), UNCHANGED host
    PROVE  EndInv'
<1>1. CASE OnSyn
  <2>1. PICK p : /\ Returns(p)
                 /\ \/ \E refusal \in {{Rst}, {}} : p = [NewSocket EXCEPT !.out = refusal]
                    \/ p = [NewSocket EXCEPT !.t_state = SYN_RECEIVED, !.so_state = {"ISFCONNECTING"}]
    BY <1>1 DEF OnSyn
  <2>2. Socket(p) /\ p.end = "open"
    <3>1. CASE \E refusal \in {{Rst}, {}} : p = [NewSocket EXCEPT !.out = refusal]
      BY <3>1 DEF NewSocket, Socket, FieldNames
    <3>2. CASE p = [NewSocket EXCEPT !.t_state = SYN_RECEIVED, !.so_state = {"ISFCONNECTING"}]
      BY <3>2 DEF NewSocket, Socket, FieldNames
    <3> QED  BY <2>1, <3>1, <3>2
  <2>3. p.t_state = CLOSED \/ (p.t_state = SYN_RECEIVED /\ p.so_state = {"ISFCONNECTING"})
    BY <2>1 DEF NewSocket
  <2>4. CASE p.t_state = CLOSED
    <3>1. EndLeft(p, host')
      BY <2>2, <2>4 DEF EndLeft, EndClosed
    <3> QED  BY <2>1, <2>2, <2>4, <3>1, EndReturns
  <2>5. CASE p.t_state = SYN_RECEIVED /\ p.so_state = {"ISFCONNECTING"}
    <3>1. PICK q : q = [p EXCEPT !.out = {}]
      OBVIOUS
    <3>2. q.t_state = p.t_state /\ q.so_state = p.so_state /\ q.end = p.end
      BY <2>2, <3>1 DEF Socket, FieldNames
    <3>3. so' = q
      BY <2>1, <3>1 DEF Returns
    <3> QED  BY <2>2, <2>5, <3>2, <3>3 DEF EndInv, Exists, Connecting, CLOSED, SYN_RECEIVED
  <2> QED  BY <2>3, <2>4, <2>5
<1>2. CASE ~Exists /\ Returns(DropWithReset(so))
  <2>1. PICK p : p = DropWithReset(so)
    OBVIOUS
  <2>2. Socket(so)
    BY RecvKind
  <2>3. Socket(p) /\ p.t_state = CLOSED /\ p.end = so.end /\ p.got = so.got
    BY <1>2, <2>1, <2>2 DEF DropWithReset, Socket, FieldNames, Exists
  <2>4. EndLeft(p, host')
    BY <1>2, <2>3 DEF EndInv, EndLeft, EndClosed, AllGiven
  <2> QED  BY <1>2, <2>1, <2>3, <2>4, EndReturns
<1>3. CASE UNCHANGED so
  BY <1>3 DEF EndInv, Exists, Connecting
<1>4. CASE Exists /\ ~Connecting /\ \E cwnd \in Cwnds, k \in Taken : Returns(OnSegment(so, s, cwnd, k))
  <2>0. PICK cwnd \in Cwnds, k \in Taken : Returns(OnSegment(so, s, cwnd, k))
    BY <1>4
  <2>1. k \in Nat
    BY TakenIs
  <2>2. RecvOpen(so, sent)
    BY <1>4, RecvKind DEF Exists, Connecting
  <2>3. PICK p : p = OnSegment(so, s, cwnd, k)
    OBVIOUS
  <2>4. Left(p, sent)
    BY <1>4, <2>1, <2>2, <2>3, OnSegmentRecv
  <2>5. EndOpen(so, host')
    BY <2>2, EndKind
  <2>6. EndLeft(p, host')
    BY <1>4, <2>1, <2>2, <2>3, <2>5, EndOnSegment
  <2>7. Socket(p) /\ (p.t_state = CLOSED \/ "ISFCONNECTING" \notin p.so_state)
    BY <2>4, LeftIs DEF Left, RecvOpen, RecvClosed
  <2> QED  BY <2>0, <2>3, <2>6, <2>7, EndReturns
<1> QED  BY <1>1, <1>2, <1>3, <1>4 DEF tcp_input

LEMMA SendsEnd ==
    ASSUME RecvInv, EndInv, NEW seq \in Nat \ {0}, NEW n \in Nat, NEW flags \in {{}, {"FIN"}},
           seq + n <= GuestFin \/ (n = 0 /\ flags = {}),
           "FIN" \in flags => seq + n = GuestFin, Polite(seq, n, flags),
           GuestSends(seq, n, flags)
    PROVE  EndInv'
<1>0. PICK end \in Nat : end = seq + n
  OBVIOUS
<1>1. PICK to \in Nat : to = end + IF "FIN" \in flags THEN 1 ELSE 0
  OBVIOUS
<1>2. guest.nxt \in Nat /\ Recv(so, guest.nxt)
  BY DEF RecvInv
<1>3. PICK nxt : nxt = Max({guest.nxt, to})
  OBVIOUS
<1>4. nxt \in Nat /\ nxt >= guest.nxt /\ nxt >= to
  BY <1>1, <1>2, <1>3, MaxOfTwo
<1>5. Recv(so, nxt)
  BY <1>2, <1>4, RecvMore
<1>6. UNCHANGED host
  BY Zenon DEF GuestSends
<1>7. CASE tcp_input(GuestSegment(seq, n, flags))
  <2>1. PICK s : s = GuestSegment(seq, n, flags)
    OBVIOUS
  <2>2. FromGuest(s, nxt)
    <3>1. end <= GuestFin \/ (n = 0 /\ flags = {})
      BY <1>0
    <3>2. "FIN" \in flags => end = GuestFin
      BY <1>0
    <3>3. to <= nxt /\ nxt \in Int
      BY <1>4
    <3> QED  BY <1>0, <1>1, <2>1, <3>1, <3>2, <3>3, SegmentIs
  <2>3. Exists => Within(so, s)
    BY <2>1, SegmentWithin
  <2> QED  BY <1>4, <1>5, <1>6, <1>7, <2>1, <2>2, <2>3, InputEnd
<1>8. CASE UNCHANGED <<so, made, wire>>
  BY <1>6, <1>8 DEF EndInv, Exists, Connecting
<1> QED  BY <1>7, <1>8 DEF GuestSends

\* A step of the guest that slirp answers.
LEMMA GuestEnd ==
    ASSUME ~FinOnProbe, RecvInv, EndInv,
           GuestSyn \/ GuestAck \/ GuestData \/ GuestFins \/ GuestResets
    PROVE  EndInv'
<1>1. Recv(so, guest.nxt) /\ guest.nxt \in Nat /\ (guest.st = "est" => guest.nxt >= 1)
  BY DEF RecvInv
<1>2. CASE GuestSyn
  <2>1. PICK s : s = [seq |-> 0, ack |-> 0, win |-> 0, flags |-> {"SYN"}, fin |-> FALSE,
                  data |-> <<>>]
    OBVIOUS
  <2>2. FromGuest(s, guest.nxt) /\ Within(so, s)
    BY <2>1 DEF FromGuest, Segment, Within
  <2>3. tcp_input(s) /\ UNCHANGED host
    BY <1>2, <2>1 DEF GuestSyn
  <2> QED  BY <1>1, <2>2, <2>3, InputEnd
<1>3. CASE GuestAck
  <2>1. guest.nxt \in Nat \ {0}
    BY <1>1, <1>3 DEF GuestAck, GuestSends
  <2>2. PICK seq \in Nat \ {0}, n \in Nat, flags \in {{}, {"FIN"}} :
          n = 0 /\ flags = {} /\ GuestSends(seq, n, flags)
    BY <1>3, <2>1 DEF GuestAck
  <2> QED  BY <2>2, SendsEnd DEF Polite
<1>4. CASE GuestData
  <2>1. PICK seq \in 1 .. guest.nxt, n \in 1 .. Mss, flags \in {{}, {"FIN"}} :
          /\ seq + n <= GuestFin
          /\ "FIN" \in flags => seq + n = GuestFin
          /\ Exists /\ "FIN" \in flags => FinOnProbe \/ seq + n <= so.rcv_adv
          /\ GuestSends(seq, n, flags)
    BY <1>4 DEF GuestData
  <2>2. seq \in Nat \ {0} /\ n \in Nat /\ Polite(seq, n, flags)
    BY <1>1, <2>1, Sizes DEF Polite
  <2> QED  BY <2>1, <2>2, SendsEnd
<1>5. CASE GuestFins
  <2>1. PICK seq \in Nat \ {0}, n \in Nat, flags \in {{}, {"FIN"}} :
          n = 0 /\ seq = GuestFin /\ flags = {"FIN"} /\ GuestSends(seq, n, flags)
    BY <1>5, Sizes DEF GuestFins
  <2>2. seq + n = GuestFin /\ seq + n <= GuestFin
    BY <2>1, Sizes
  <2> QED  BY <2>1, <2>2, SendsEnd DEF Polite
<1>6. CASE GuestResets
  <2>1. PICK seq, s : /\ s = [seq |-> seq, ack |-> 0, win |-> 0, flags |-> {"RST"},
                             fin |-> FALSE, data |-> <<>>]
                      /\ tcp_input(s)
    BY <1>6 DEF GuestResets
  <2>2. FromGuest(s, guest.nxt) /\ Within(so, s)
    BY <2>1 DEF FromGuest, Segment, Within
  <2>3. UNCHANGED host
    BY <1>6, Zenon DEF GuestResets
  <2> QED  BY <1>1, <2>1, <2>2, <2>3, InputEnd
<1> QED  BY <1>2, <1>3, <1>4, <1>5, <1>6

\* A step of the host application: it closes early when it was not told of the end.
LEMMA HostEnd ==
    ASSUME RecvInv, HostInv, EndInv, HostSends \/ HostEnds \/ HostResets
    PROVE  EndInv'
<1>1. /\ DOMAIN host = {"sent", "read", "eof", "reset", "early"}
      /\ UNCHANGED so
  BY DEF HostInv, HostSends, HostEnds, HostResets
<1>2. (Exists' <=> Exists) /\ (Connecting' <=> Connecting) /\ Exists
  BY <1>1 DEF Exists, Connecting, HostSends, HostEnds, HostResets, Accepted
<1>3. ASSUME EndOpen(so, host) PROVE EndOpen(so, host')
  <2>1. CASE HostSends
    <3>1. host' = [host EXCEPT !.sent = @ + 1]
      BY <2>1, Zenon DEF HostSends
    <3>2. host'.reset = host.reset /\ host'.early = host.early /\ host'.eof = host.eof
      BY <1>1, <3>1
    <3> QED  BY <1>3, <3>2, EndHost
  <2>2. CASE HostEnds
    <3>1. PICK early : /\ host' = [host EXCEPT !.eof = TRUE, !.early = early]
                       /\ early <=> so.end # "eof"
      BY <2>2, Zenon DEF HostEnds
    <3>2. /\ host'.reset = host.reset /\ host'.early = early
          /\ ~host.eof /\ ~host.reset
      BY <1>1, <2>2, <3>1 DEF HostEnds
    <3>3. Excused(so, host')
      BY <3>1, <3>2 DEF Excused
    <3> QED  BY <1>3, <3>2, <3>3 DEF EndOpen
  <2>3. CASE HostResets
    <3>1. host' = [host EXCEPT !.reset = TRUE]
      BY <2>3, Zenon DEF HostResets
    <3>2. host'.reset = TRUE
      BY <1>1, <3>1
    <3> QED  BY <1>3, <3>2 DEF EndOpen, Excused
  <2> QED  BY <2>1, <2>2, <2>3
<1> QED  BY <1>1, <1>2, <1>3 DEF EndInv

LEMMA NextEnd ==
    ASSUME ~FinOnProbe, RecvInv, HostInv, EndInv, [Next]_vars
    PROVE  EndInv'
<1>1. Recv(so, guest.nxt) /\ guest.nxt \in Int
  BY DEF RecvInv
<1>2. CASE Slirp
  BY <1>1, <1>2, ConnectedEnd, ConnectFailsEnd, SoReadEnd, SoReadEndsEnd, SoWriteEnd,
     SoWriteFailsEnd, TimersEnd DEF Slirp
<1>3. CASE GuestSyn \/ GuestAck \/ GuestData \/ GuestFins \/ GuestResets
  BY <1>3, GuestEnd
<1>4. CASE HostSends \/ HostEnds \/ HostResets
  BY <1>4, HostEnd
<1>5. CASE \/ GuestGetsSyn \/ GuestGetsByte \/ GuestGetsFin \/ GuestGetsRst \/ GuestReads
           \/ UNCHANGED vars
  <2>1. UNCHANGED <<so, host>>
    BY <1>5, Zenon DEF GuestGetsSyn, GuestGetsByte, GuestGetsFin, GuestGetsRst, GuestReads, vars
  <2> QED  BY <2>1 DEF EndInv, Exists, Connecting
<1> QED  BY <1>2, <1>3, <1>4, <1>5 DEF Next, Environment

LEMMA SpecEnd ==
    ASSUME ~FinOnProbe
    PROVE  Spec => [](StreamInv /\ EndInv)
<1>1. Init => EndInv
  BY DEF Init, NewSocket, EndInv, EndClosed, Exists
<1>2. StreamInv /\ EndInv /\ [Next]_vars => EndInv'
  BY NextEnd DEF StreamInv
<1> QED  BY <1>1, <1>2, SpecStream, PTL DEF Spec

\* Which socket a number is of.
LEMMA NumberDiv ==
    ASSUME NEW j \in Nat, NEW a \in Nat, a < IssIncr
    PROVE  Number(j, a) \div IssIncr = j
<1>1. PICK incr \in Nat \ {0} : incr = IssIncr
  BY Sizes
<1>2. PICK x, q, r : x = j * incr + a /\ q = x \div incr /\ r = (x % incr)
  OBVIOUS
<1>3. x \in Nat
  BY <1>1, <1>2
<1>4. q \in Int /\ r \in 0 .. incr - 1 /\ x = incr * q + r
  BY <1>1, <1>2, <1>3
<1>5. PICK y \in Int : y = j * incr
  BY <1>1
<1>6. PICK d \in Int : d = q - j
  BY <1>4
<1>7. PICK z \in Int : z = d * incr
  BY <1>1, <1>6
<1>8. incr * q = y + z
  <2>1. q = j + d
    BY <1>4, <1>6
  <2> QED  BY <1>1, <1>5, <1>6, <1>7, <2>1
<1>9. a = z + r
  BY <1>2, <1>4, <1>5, <1>8
<1>10. ~(d >= 1)
  <2> SUFFICES ASSUME d >= 1 PROVE FALSE
    OBVIOUS
  <2>1. z >= incr
    BY <1>1, <1>6, <1>7
  <2> QED  BY <1>1, <1>4, <1>9, <2>1
<1>11. ~(d <= 0 - 1)
  <2> SUFFICES ASSUME d <= 0 - 1 PROVE FALSE
    OBVIOUS
  <2>1. z <= 0 - incr
    BY <1>1, <1>6, <1>7
  <2> QED  BY <1>1, <1>4, <1>9, <2>1
<1>12. q = j
  BY <1>4, <1>6, <1>10, <1>11
<1>13. Number(j, a) = x
  BY <1>1, <1>2 DEF Number
<1> QED  BY <1>1, <1>2, <1>12, <1>13

\* All that is given is the whole of the guest's stream.
LEMMA AllGivenIs ==
    ASSUME NEW p, AllGiven(p)
    PROVE  p.got = [i \in 1 .. GuestBytes |-> i]
<1>1. PICK s : s = p.got
  OBVIOUS
<1>2. s \in Seq(Nat) /\ GuestFin = 1 + Len(s) /\ Len(s) \in Nat
  BY <1>1, StretchLen DEF AllGiven
<1>3. Stretch(s, 1, Len(s) + 1)
  <2>1. Len(s) + 1 = GuestFin
    BY <1>2
  <2> QED  BY <1>1, <2>1 DEF AllGiven
<1>4. IsCount(s)
  BY <1>2, <1>3, CountIs
<1>5. Len(s) = GuestBytes
  BY <1>2, Sizes
<1> QED  BY <1>1, <1>4, <1>5 DEF IsCount

\* The host is told the truth.
LEMMA HostTold ==
    ASSUME EndInv, so.end \in {"eof", "done"}, ~host.reset, ~host.early
    PROVE  so.got = [i \in 1 .. GuestBytes |-> i]
<1>1. AllGiven(so)
  BY DEF EndInv, EndOpen, EndClosed
<1> QED  BY <1>1, AllGivenIs

\* The guest is told the truth.
LEMMA GuestTold ==
    ASSUME StreamInv, NEW w \in wire, w.what = "FIN", w.seq \div IssIncr = made, ~host.reset
    PROVE  host.eof /\ w.seq = made * IssIncr + host.sent + 1
<1>1. PICK R : SendInv(R) /\ HostInv
  BY DEF StreamInv
<1>2. w # Rst
  BY DEF Rst
<1>3. PICK j \in 1 .. made : Told(w, j, R[j])
  BY <1>1, <1>2 DEF SendInv, WireTold
<1>4. j \in Nat /\ made \in Nat /\ R[j] \in Nat /\ R[j] <= HostBytes
  BY <1>1, Sizes DEF SendInv, Reads
<1>5. w = Fin(Number(j, R[j] + 1))
  BY <1>3, <1>4, ToldKinds
<1>6. PICK a \in Nat : a = R[j] + 1 /\ a < IssIncr
  BY <1>4, Sizes
<1>7. w = Fin(Number(j, a)) /\ w.seq = Number(j, a)
  BY <1>5, <1>6 DEF Fin
<1>8. j = made
  BY <1>4, <1>6, <1>7, NumberDiv
<1>9. Over /\ R[made] = host.read
  BY <1>1, <1>5, <1>8 DEF SendInv, FinTold
<1>10. host.eof /\ a = host.sent + 1 /\ host.sent \in Nat
  BY <1>1, <1>6, <1>8, <1>9 DEF Over, HostInv
<1>11. PICK x : x = made * IssIncr
  OBVIOUS
<1>12. x \in Nat /\ Number(made, a) = x + a
  BY <1>4, <1>11, NumberIs
<1>13. w.seq = x + host.sent + 1
  BY <1>7, <1>8, <1>10, <1>12
<1> QED  BY <1>10, <1>11, <1>13

\* The host is told that the guest's stream has ended only when it was given all of it,
\* unless it reset the connection or closed its own direction first; the guest sees a FIN
\* only behind all that the host wrote before it closed: however segments and timers,
\* draining and closing (sofwdrain, FWDRAIN, sofcantsendmore, tcp_output) interleave,
\* provided that the guest sends no FIN with data beyond the window (see FinAfterBytes).
THEOREM EndIsTrue ==
    ASSUME ~FinOnProbe
    PROVE  Spec => []EndOfStreamIsTrue
<1>1. StreamInv /\ EndInv => EndOfStreamIsTrue
  BY HostTold, GuestTold DEF EndOfStreamIsTrue
<1> QED  BY <1>1, SpecEnd, PTL
=============================================================================
