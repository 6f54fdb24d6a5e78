------------------------- MODULE MemControllerProofs -------------------------
(***************************************************************************)
(* Proofs about MemController, for words and beats of any size, FIFOs of    *)
(* any depth and any requests, when the raw memory keeps a read behind the  *)
(* writes to the same word that were sent before it (RawOrdered): what the  *)
(* cache drops is safe in the raw memory, and the controller implements an  *)
(* atomic memory.                                                          *)
(***************************************************************************)
EXTENDS MemController, TLAPS

-----------------------------------------------------------------------------
(* Division: a byte's word, beat and place *)

LEMMA DivMod ==
    ASSUME NEW n \in Nat \ {0}, NEW q \in Nat, NEW r \in Nat, r < n
    PROVE  (n * q + r) \div n = q /\ (n * q + r) % n = r
  BY Z3T(30)

LEMMA Split ==
    ASSUME NEW n \in Nat \ {0}, NEW a \in Nat
    PROVE  /\ a \div n \in Nat /\ a % n \in 0 .. n - 1
           /\ a = n * (a \div n) + (a % n)
  BY Z3T(30)

LEMMA Multiple ==
    ASSUME NEW n \in Nat \ {0}, NEW a \in Nat, a % n = 0
    PROVE  \E q \in Nat : a = n * q
<1> DEFINE q == a \div n
<1>1. q \in Nat /\ a = n * q + 0
  BY Split
<1> HIDE DEF q
<1>2. a = n * q
  BY <1>1, Z3T(30)
<1> QED  BY <1>1, <1>2

LEMMA MulMono ==
    ASSUME NEW n \in Nat \ {0}, NEW p \in Nat, NEW q \in Nat, p < q
    PROVE  n * p + n <= n * q
  BY Z3T(30)

\* The beat of a byte, and the byte in its beat.
LEMMA Lane ==
    ASSUME NEW n \in Nat \ {0}, NEW m \in Nat \ {0}, NEW a \in Nat, NEW k \in 0 .. n - 1
    PROVE  LET lane == ((a % (n * m)) \div n) * n + k
           IN  /\ a - (a % n) + k = (n * m) * (a \div (n * m)) + lane
               /\ lane \in 0 .. (n * m) - 1
<1> DEFINE q == a \div (n * m)
           r == a % (n * m)
           p == r \div n
           s == r % n
<1>0. n * m \in Nat \ {0}
  BY Z3T(30)
<1>1. q \in Nat /\ r \in 0 .. (n * m) - 1 /\ a = (n * m) * q + r
  BY <1>0, Split
<1>2. p \in Nat /\ s \in 0 .. n - 1 /\ r = n * p + s
  <2>1. r \in Nat
    BY <1>0, <1>1
  <2> HIDE DEF r
  <2> QED  BY <2>1, Split
<1> HIDE DEF q, r, p, s
<1>3. a = n * (m * q + p) + s
  BY <1>1, <1>2, Z3T(30)
<1>4. a % n = s
  <2> DEFINE t == m * q + p
  <2>1. t \in Nat /\ s \in Nat /\ s < n
    BY <1>1, <1>2, Z3T(30)
  <2>2. a = n * t + s
    BY <1>3
  <2> HIDE DEF t
  <2>3. (n * t + s) % n = s
    BY <2>1, DivMod
  <2> QED  BY <2>2, <2>3
<1>5. p < m
  <2>1. ASSUME m <= p PROVE FALSE
    <3>1. n * m <= n * p
      BY <2>1, <1>2, Z3T(30)
    <3> QED  BY <3>1, <1>0, <1>1, <1>2
  <2> QED  BY <2>1, <1>2
<1>6. p * n + k \in 0 .. (n * m) - 1
  <2>1. n * p + n <= n * m
    BY <1>5, <1>2, MulMono
  <2>2. p * n = n * p /\ n * p \in Nat
    BY <1>2, Z3T(30)
  <2> QED  BY <2>1, <2>2, <1>0
<1>7. a - s + k = (n * m) * q + (p * n + k)
  <2>1. (n * m) * q \in Nat /\ p * n \in Nat /\ p * n = n * p
    BY <1>0, <1>1, <1>2, Z3T(30)
  <2> QED  BY <2>1, <1>1, <1>2
<1> QED  BY <1>4, <1>6, <1>7 DEF q, r, p, s

Bytes == AddrBase .. AddrLim - 1
Word(a) == (a - AddrBase) \div WordBytes
Offset(a) == (a - AddrBase) % WordBytes

LEMMA Sizes ==
    /\ WordBytes \in Nat \ {0} /\ Beat \in Nat \ {0}
    /\ \E m \in Nat \ {0} : WordBytes = Beat * m
    /\ \E b \in Nat : AddrBase = WordBytes * b
    /\ \E l \in Nat : AddrLim - AddrBase = WordBytes * l
<1>1. /\ WordBytes \in Nat \ {0} /\ Beat \in Nat \ {0}
      /\ AddrBase \in Nat /\ AddrLim \in Nat /\ AddrBase < AddrLim
      /\ WordBytes % Beat = 0 /\ AddrBase % WordBytes = 0 /\ AddrLim % WordBytes = 0
  BY MemAssumption
<1>2. PICK m \in Nat : WordBytes = Beat * m
  BY <1>1, Multiple
<1>3. m # 0
  BY <1>1, <1>2
<1>4. PICK b \in Nat : AddrBase = WordBytes * b
  BY <1>1, Multiple
<1>5. PICK c \in Nat : AddrLim = WordBytes * c
  BY <1>1, Multiple
<1>6. b < c
  <2>1. ASSUME c <= b PROVE FALSE
    <3>1. WordBytes * c <= WordBytes * b
      BY <2>1, <1>1, Z3T(30)
    <3> QED  BY <3>1, <1>1, <1>4, <1>5
  <2> QED  BY <2>1
<1>7. c - b \in Nat /\ AddrLim - AddrBase = WordBytes * (c - b)
  BY <1>1, <1>4, <1>5, <1>6, Z3T(30)
<1> QED  BY <1>1, <1>2, <1>3, <1>4, <1>7

\* A byte lies in a word of the raw memory, at a place that is its own.
LEMMA Places ==
    ASSUME NEW a \in Bytes
    PROVE  /\ Word(a) \in RawAddrs /\ Offset(a) \in 0 .. WordBytes - 1
           /\ a = AddrBase + (WordBytes * Word(a) + Offset(a))
<1>1. PICK l \in Nat : AddrLim - AddrBase = WordBytes * l
  BY Sizes
<1>2. a - AddrBase \in Nat /\ a - AddrBase < WordBytes * l /\ WordBytes \in Nat \ {0}
  BY <1>1, MemAssumption DEF Bytes
<1>3. /\ Word(a) \in Nat /\ Offset(a) \in 0 .. WordBytes - 1
      /\ a - AddrBase = WordBytes * Word(a) + Offset(a)
  BY <1>2, Split DEF Word, Offset
<1>4. Word(a) < l
  <2>1. ASSUME l <= Word(a) PROVE FALSE
    <3>1. WordBytes * l <= WordBytes * Word(a)
      BY <2>1, <1>2, <1>3, Z3T(30)
    <3>2. WordBytes * l \in Nat /\ WordBytes * Word(a) \in Nat
      BY <1>2, <1>3, Z3T(30)
    <3> QED  BY <3>1, <3>2, <1>2, <1>3
  <2> QED  BY <2>1, <1>3
<1>5. (AddrLim - AddrBase) \div WordBytes = l
  <2>1. (WordBytes * l + 0) \div WordBytes = l
    BY <1>2, DivMod
  <2>2. WordBytes * l + 0 = WordBytes * l
    BY <1>2, Z3T(30)
  <2> QED  BY <1>1, <2>1, <2>2
<1>6. a = AddrBase + (WordBytes * Word(a) + Offset(a))
  <2>1. WordBytes * Word(a) \in Nat
    BY <1>2, <1>3, Z3T(30)
  <2> QED  BY <2>1, <1>3, MemAssumption DEF Bytes
<1> QED  BY <1>3, <1>4, <1>5, <1>6 DEF RawAddrs

\* A byte of the beat that holds an address is in the address's word, at the
\* place rl_process_rd_req reads it from.
LEMMA BeatPlace ==
    ASSUME NEW a \in Bytes, NEW k \in 0 .. Beat - 1
    PROVE  /\ A!ByteAddr(a, k) \in Bytes
           /\ Word(A!ByteAddr(a, k)) = Word(a)
           /\ Offset(A!ByteAddr(a, k)) = LaneByte(a, k)
           /\ LaneByte(a, k) \in 0 .. WordBytes - 1
<1> DEFINE q == a \div WordBytes
           lane == LaneByte(a, k)
           c == A!ByteAddr(a, k)
           r == a % WordBytes
<1>1. /\ WordBytes \in Nat \ {0} /\ Beat \in Nat \ {0}
      /\ a \in Nat /\ AddrBase \in Nat /\ AddrLim \in Nat
      /\ AddrBase <= a /\ a < AddrLim
  BY MemAssumption DEF Bytes
<1>2. PICK m \in Nat \ {0} : WordBytes = Beat * m
  BY Sizes
<1>3. PICK b \in Nat : AddrBase = WordBytes * b
  BY Sizes
<1>4. PICK l \in Nat : AddrLim - AddrBase = WordBytes * l
  BY Sizes
<1>5. c = WordBytes * q + lane /\ lane \in 0 .. WordBytes - 1
  <2>1. /\ a - (a % Beat) + k = (Beat * m) * (a \div (Beat * m))
                                   + (((a % (Beat * m)) \div Beat) * Beat + k)
        /\ ((a % (Beat * m)) \div Beat) * Beat + k \in 0 .. (Beat * m) - 1
    BY <1>1, <1>2, Lane
  <2> QED  BY <1>2, <2>1 DEF LaneByte, A!ByteAddr
<1>6. q \in Nat /\ r \in 0 .. WordBytes - 1 /\ a = WordBytes * q + r
  BY <1>1, Split
<1> HIDE DEF q, lane, c, r
<1>7. b <= q
  <2>1. ASSUME q < b PROVE FALSE
    <3>1. WordBytes * q + WordBytes <= WordBytes * b
      BY <2>1, <1>1, <1>3, <1>6, MulMono
    <3>2. WordBytes * q \in Nat
      BY <1>1, <1>6, Z3T(30)
    <3> QED  BY <3>1, <3>2, <1>1, <1>3, <1>6
  <2> QED  BY <2>1, <1>3, <1>6
<1> DEFINE p == q - b
<1>8. p \in Nat /\ WordBytes * q = AddrBase + WordBytes * p /\ WordBytes * p \in Nat
  BY <1>1, <1>3, <1>6, <1>7, Z3T(30)
<1> HIDE DEF p
<1>9. Word(a) = p
  <2>1. r \in Nat /\ r < WordBytes /\ a - AddrBase = WordBytes * p + r
    BY <1>1, <1>6, <1>8
  <2>2. (WordBytes * p + r) \div WordBytes = p
    BY <2>1, <1>1, <1>8, DivMod
  <2> QED  BY <2>1, <2>2 DEF Word
<1>10. lane \in Nat /\ lane < WordBytes /\ c - AddrBase = WordBytes * p + lane
  BY <1>1, <1>5, <1>8
<1>11. Word(c) = p /\ Offset(c) = lane
  <2>1. (WordBytes * p + lane) \div WordBytes = p /\ (WordBytes * p + lane) % WordBytes = lane
    BY <1>10, <1>1, <1>8, DivMod
  <2> QED  BY <1>10, <2>1 DEF Word, Offset
<1>12. c \in Bytes
  <2>1. a - AddrBase < WordBytes * l
    BY <1>1, <1>4
  <2>2. p < l
    <3>1. ASSUME l <= p PROVE FALSE
      <4>1. WordBytes * l <= WordBytes * p
        BY <3>1, <1>1, <1>4, <1>8, Z3T(30)
      <4>2. WordBytes * l \in Nat
        BY <1>1, <1>4, Z3T(30)
      <4> QED  BY <4>1, <4>2, <2>1, <1>1, <1>6, <1>8
    <3> QED  BY <3>1, <1>4, <1>8
  <2>3. WordBytes * p + WordBytes <= WordBytes * l
    BY <2>2, <1>1, <1>4, <1>8, MulMono
  <2>4. WordBytes * l \in Nat
    BY <1>1, <1>4, Z3T(30)
  <2> QED  BY <2>3, <2>4, <1>1, <1>4, <1>5, <1>8, <1>10 DEF Bytes
<1> QED  BY <1>5, <1>9, <1>11, <1>12 DEF c, lane

\* Bytes at the same place of the same word are one byte.
LEMMA PlaceIsOwn ==
    ASSUME NEW a \in Bytes, NEW c \in Bytes, Word(a) = Word(c), Offset(a) = Offset(c)
    PROVE  a = c
  BY Places

\* There is a first word, which rl_reset_reload_cache reads.
LEMMA FirstWord == 0 \in RawAddrs
<1>1. AddrBase \in Bytes
  BY MemAssumption DEF Bytes
<1>2. Word(AddrBase) \in RawAddrs
  BY <1>1, Places
<1>3. (AddrLim - AddrBase) \div WordBytes \in Nat
  <2>1. AddrLim - AddrBase \in Nat /\ WordBytes \in Nat \ {0}
    BY MemAssumption
  <2> QED  BY <2>1, Split
<1> QED  BY <1>2, <1>3 DEF RawAddrs

-----------------------------------------------------------------------------
(* What the raw memory will hold, as a function of the writes in flight *)

Words == [0 .. WordBytes - 1 -> Nat]
RawWrites == [addr : RawAddrs, data : Words]

PendingIn(q, w) == { i \in DOMAIN q : q[i].addr = w }
Newest(q, w, i) == i \in PendingIn(q, w) /\ \A j \in PendingIn(q, w) : j <= i
Ordered(q) == \A w \in RawAddrs : PendingIn(q, w) = {} \/ \E i \in DOMAIN q : Newest(q, w, i)
SettledIn(q, m, w) ==
    IF PendingIn(q, w) = {} THEN m[w]
    ELSE q[CHOOSE i \in PendingIn(q, w) : \A j \in PendingIn(q, w) : j <= i].data

\* The newest write in flight to a word says what the word will hold.
LEMMA SettledByNewest ==
    ASSUME NEW q \in Seq(RawWrites), NEW m, NEW w, NEW i, Newest(q, w, i)
    PROVE  SettledIn(q, m, w) = q[i].data
<1>1. \A j \in PendingIn(q, w) : j \in Nat
  BY DEF PendingIn
<1>2. ASSUME NEW j \in PendingIn(q, w), \A k \in PendingIn(q, w) : k <= j
      PROVE  j = i
  BY <1>1, <1>2 DEF Newest
<1>3. (CHOOSE j \in PendingIn(q, w) : \A k \in PendingIn(q, w) : k <= j) = i
  BY <1>2 DEF Newest
<1> QED  BY <1>3 DEF SettledIn, Newest

\* A write that joins the queue settles its own word and no other.
LEMMA SettledByAppend ==
    ASSUME NEW q \in Seq(RawWrites), NEW m, NEW e \in RawWrites, Ordered(q)
    PROVE  /\ Ordered(Append(q, e))
           /\ SettledIn(Append(q, e), m, e.addr) = e.data
           /\ \A w \in RawAddrs \ {e.addr} :
                 SettledIn(Append(q, e), m, w) = SettledIn(q, m, w)
<1> DEFINE p == Append(q, e)
           n == Len(q) + 1
<1>1. /\ p \in Seq(RawWrites) /\ DOMAIN p = 1 .. n /\ n \in Nat \ {0} /\ DOMAIN q = 1 .. n - 1
      /\ p[n] = e /\ \A i \in DOMAIN q : p[i] = q[i]
  OBVIOUS
<1> HIDE DEF p, n
<1>2. Newest(p, e.addr, n) /\ n \in DOMAIN p
  <2>1. n \in PendingIn(p, e.addr)
    BY <1>1 DEF PendingIn
  <2>2. \A j \in PendingIn(p, e.addr) : j <= n
    BY <1>1 DEF PendingIn
  <2> QED  BY <2>1, <2>2, <1>1 DEF Newest
<1>3. ASSUME NEW w \in RawAddrs \ {e.addr}
      PROVE  PendingIn(p, w) = PendingIn(q, w)
  BY <1>1, <1>3 DEF PendingIn
<1>4. ASSUME NEW w \in RawAddrs
      PROVE  PendingIn(p, w) = {} \/ \E i \in DOMAIN p : Newest(p, w, i)
  <2>1. CASE w = e.addr
    BY <2>1, <1>2
  <2>2. CASE w # e.addr
    BY <2>2, <1>1, <1>3 DEF Ordered, Newest
  <2> QED  BY <2>1, <2>2
<1>5. SettledIn(p, m, e.addr) = e.data
  BY <1>1, <1>2, SettledByNewest
<1>6. ASSUME NEW w \in RawAddrs \ {e.addr}
      PROVE  SettledIn(p, m, w) = SettledIn(q, m, w)
  <2>1. CASE PendingIn(q, w) = {}
    BY <2>1, <1>3 DEF SettledIn
  <2>2. CASE PendingIn(q, w) # {}
    <3>1. PICK i \in DOMAIN q : Newest(q, w, i)
      BY <2>2 DEF Ordered
    <3>2. Newest(p, w, i)
      BY <3>1, <1>3 DEF Newest
    <3> QED  BY <3>1, <3>2, <1>1, SettledByNewest
  <2> QED  BY <2>1, <2>2
<1> QED  BY <1>4, <1>5, <1>6 DEF Ordered, p

\* The raw memory's performing of its oldest write settles nothing anew.
LEMMA SettledByWrite ==
    ASSUME NEW q \in Seq(RawWrites), q # <<>>, NEW m \in [RawAddrs -> Words], Ordered(q)
    PROVE  /\ Ordered(Tail(q))
           /\ \A w \in RawAddrs :
                 SettledIn(Tail(q), [m EXCEPT ![Head(q).addr] = Head(q).data], w)
                     = SettledIn(q, m, w)
<1> DEFINE t == Tail(q)
           h == Head(q)
           m1 == [m EXCEPT ![h.addr] = h.data]
           n == Len(q)
<1>1. /\ t \in Seq(RawWrites) /\ h \in RawWrites /\ n \in Nat \ {0} /\ DOMAIN q = 1 .. n
      /\ DOMAIN t = 1 .. n - 1 /\ h = q[1] /\ \A i \in DOMAIN t : t[i] = q[i + 1]
  OBVIOUS
<1>2. \A w \in RawAddrs : m1[w] = IF w = h.addr THEN h.data ELSE m[w]
  OBVIOUS
<1> HIDE DEF t, h, m1, n
<1>3. ASSUME NEW w, NEW i \in 1 .. n - 1
      PROVE  i \in PendingIn(t, w) <=> i + 1 \in PendingIn(q, w)
  BY <1>1 DEF PendingIn
<1>4. ASSUME NEW w, NEW i, Newest(q, w, i), i # 1
      PROVE  i - 1 \in DOMAIN t /\ Newest(t, w, i - 1) /\ t[i - 1] = q[i]
  <2>1. i \in 1 .. n /\ i - 1 \in 1 .. n - 1 /\ (i - 1) + 1 = i
    BY <1>1, <1>4 DEF Newest, PendingIn
  <2>2. i - 1 \in PendingIn(t, w)
    BY <1>3, <1>4, <2>1 DEF Newest
  <2>3. ASSUME NEW j \in PendingIn(t, w) PROVE j <= i - 1
    <3>1. j \in 1 .. n - 1
      BY <1>1 DEF PendingIn
    <3>2. j + 1 \in PendingIn(q, w)
      BY <3>1, <1>3
    <3> QED  BY <3>1, <3>2, <2>1, <1>4 DEF Newest
  <2> QED  BY <1>1, <2>1, <2>2, <2>3 DEF Newest
<1>5. ASSUME NEW w \in RawAddrs, PendingIn(q, w) # {}, Newest(q, w, 1)
      PROVE  PendingIn(t, w) = {} /\ w = h.addr
  <2>1. ASSUME NEW i \in PendingIn(t, w) PROVE FALSE
    <3>1. i \in 1 .. n - 1
      BY <1>1 DEF PendingIn
    <3>2. i + 1 \in PendingIn(q, w)
      BY <3>1, <1>3
    <3> QED  BY <3>1, <3>2, <1>5 DEF Newest
  <2>2. PendingIn(t, w) = {}
    BY <2>1
  <2>3. 1 \in PendingIn(q, w)
    BY <1>5 DEF Newest
  <2> QED  BY <2>2, <2>3, <1>1 DEF PendingIn
<1>6. ASSUME NEW w \in RawAddrs, PendingIn(q, w) = {}
      PROVE  PendingIn(t, w) = {} /\ w # h.addr
  <2>1. \A i \in PendingIn(t, w) : i \in 1 .. n - 1
    BY <1>1 DEF PendingIn
  <2> QED  BY <2>1, <1>1, <1>3, <1>6 DEF PendingIn
<1>7. Ordered(t)
  <2> SUFFICES ASSUME NEW w \in RawAddrs
               PROVE  PendingIn(t, w) = {} \/ \E i \in DOMAIN t : Newest(t, w, i)
    BY DEF Ordered
  <2>1. CASE PendingIn(q, w) = {}
    BY <2>1, <1>6
  <2>2. CASE PendingIn(q, w) # {}
    <3>1. PICK i \in DOMAIN q : Newest(q, w, i)
      BY <2>2 DEF Ordered
    <3>2. CASE i = 1
      BY <2>2, <3>1, <3>2, <1>5
    <3>3. CASE i # 1
      BY <3>1, <3>3, <1>4
    <3> QED  BY <3>2, <3>3
  <2> QED  BY <2>1, <2>2
<1>8. ASSUME NEW w \in RawAddrs
      PROVE  SettledIn(t, m1, w) = SettledIn(q, m, w)
  <2>1. CASE PendingIn(q, w) = {}
    BY <2>1, <1>2, <1>6 DEF SettledIn
  <2>2. CASE PendingIn(q, w) # {}
    <3>1. PICK i \in DOMAIN q : Newest(q, w, i)
      BY <2>2 DEF Ordered
    <3>2. SettledIn(q, m, w) = q[i].data
      BY <3>1, SettledByNewest
    <3>3. CASE i = 1
      <4>1. SettledIn(t, m1, w) = m1[w] /\ w = h.addr
        BY <2>2, <3>1, <3>3, <1>5 DEF SettledIn
      <4> QED  BY <4>1, <3>2, <3>3, <1>1, <1>2
    <3>4. CASE i # 1
      BY <3>1, <3>2, <3>4, <1>1, <1>4, SettledByNewest
    <3> QED  BY <3>3, <3>4
  <2> QED  BY <2>1, <2>2
<1> QED  BY <1>7, <1>8 DEF t, m1, h

\* What settles is a word.
LEMMA SettledIsWord ==
    ASSUME NEW q \in Seq(RawWrites), NEW m \in [RawAddrs -> Words], Ordered(q), NEW w \in RawAddrs
    PROVE  SettledIn(q, m, w) \in Words
<1>1. CASE PendingIn(q, w) = {}
  BY <1>1 DEF SettledIn
<1>2. CASE PendingIn(q, w) # {}
  <2>1. PICK i \in DOMAIN q : Newest(q, w, i)
    BY <1>2 DEF Ordered
  <2>2. q[i] \in RawWrites
    OBVIOUS
  <2>3. SettledIn(q, m, w) = q[i].data
    BY <2>1, SettledByNewest
  <2> QED  BY <2>2, <2>3 DEF RawWrites
<1> QED  BY <1>1, <1>2

-----------------------------------------------------------------------------
(* The inductive invariant *)

Requested(op) == { Numbered(access, n) : access \in { x \in Accesses : x.op = op }, n \in Nat }

RequestTypes ==
    /\ issued \in Nat
    /\ s_ar \in Seq(Requested("rd"))
    /\ s_aw \in Seq(Requested("wr"))
    /\ f_reqs = <<>> \/ \E r \in Requested("rd") \cup Requested("wr") : f_reqs = <<r>>

CacheTypes ==
    /\ rg_state \in {"reset_reload_cache", "reloading", "ready"}
    /\ rg_cached_clean \in BOOLEAN
    /\ rg_cached_raw_mem_addr \in RawAddrs
    /\ rg_cached_raw_mem_word \in Words
    /\ m_aw \in Seq(RawWrites)
    /\ raw \in [RawAddrs -> Words]

\* One reload is under way at most, and it brings what the raw memory holds
\* once the writes sent before it are done.
OneReload ==
    /\ rg_state # "reloading" => m_ar = <<>> /\ m_r = <<>>
    /\ rg_state = "reloading" =>
          \/ m_ar = <<rg_cached_raw_mem_addr>> /\ m_r = <<>>
          \/ m_ar = <<>> /\ m_r = <<Settled(rg_cached_raw_mem_addr)>>

IInv == RequestTypes /\ CacheTypes /\ Ordered(m_aw) /\ OneReload /\ CleanIsSafe

LEMMA SettledOf ==
    ASSUME NEW w
    PROVE  Settled(w) = SettledIn(m_aw, raw, w) /\ Settled(w)' = SettledIn(m_aw', raw', w)
  BY DEF Settled, SettledIn, Pending, PendingIn

LEMMA RequestFacts ==
    ASSUME NEW op, NEW r \in Requested(op)
    PROVE  /\ r.op = op /\ r.addr \in Nat /\ r.size \in 1 .. Beat
           /\ r.wstrb \subseteq 0 .. Beat - 1 /\ r.data \in Nat
  BY MemAssumption DEF Requested, Numbered

\* The request at hand, when the address map covers it.
LEMMA WantedFacts ==
    ASSUME IInv, Wanted
    PROVE  /\ f_reqs = <<req>> /\ req \in Requested("rd") \cup Requested("wr")
           /\ req.addr \in Bytes /\ req_raw_mem_addr = Word(req.addr)
           /\ req_raw_mem_addr \in RawAddrs
<1>1. f_reqs = <<req>> /\ req \in Requested("rd") \cup Requested("wr")
  BY DEF IInv, RequestTypes, Wanted, req
<1>2. req.addr \in Nat
  BY <1>1, RequestFacts
<1>3. req.addr \in Bytes
  BY <1>2, MemAssumption DEF Wanted, fn_addr_is_ok, Bytes
<1> QED  BY <1>1, <1>3, Places DEF req_raw_mem_addr, Word

LEMMA InitInv == Init => IInv
<1> SUFFICES ASSUME Init PROVE IInv
  OBVIOUS
<1>1. RequestTypes
  BY DEF Init, RequestTypes
<1>2. WordOf(0) \in Words
  BY DEF WordOf, Words
<1>3. CacheTypes
  BY <1>2 DEF Init, CacheTypes
<1>4. Ordered(m_aw)
  BY DEF Init, Ordered, PendingIn
<1> QED  BY <1>1, <1>3, <1>4 DEF Init, IInv, OneReload, CleanIsSafe

\* What the steps that leave the cache and the raw memory alone keep.
LEMMA CacheAlone ==
    ASSUME IInv, UNCHANGED <<rg_state, cache, m_aw, m_ar, m_r, raw>>
    PROVE  CacheTypes' /\ Ordered(m_aw)' /\ OneReload' /\ CleanIsSafe'
<1>1. \A w : Settled(w)' = Settled(w)
  BY DEF Settled, Pending
<1>2. CacheTypes' /\ Ordered(m_aw)'
  BY DEF IInv, CacheTypes, cache, Ordered, Newest, PendingIn
<1> QED  BY <1>1, <1>2 DEF IInv, OneReload, CleanIsSafe, cache

LEMMA RequestsAlone ==
    ASSUME IInv, UNCHANGED <<issued, s_ar, s_aw, f_reqs>>
    PROVE  RequestTypes'
  BY DEF IInv, RequestTypes

LEMMA WritebackKeeps ==
    ASSUME IInv, rg_state = "ready", Writeback
    PROVE  IInv'
<1> DEFINE e == [addr |-> rg_cached_raw_mem_addr, data |-> rg_cached_raw_mem_word]
<1>1. /\ m_aw' = Append(m_aw, e) /\ rg_cached_clean' = TRUE /\ rg_state' = "ready"
      /\ UNCHANGED <<issued, s_ar, s_aw, f_reqs, rg_cached_raw_mem_addr,
                     rg_cached_raw_mem_word, m_ar, m_r, raw>>
  BY DEF Writeback, fabric
<1>2. e \in RawWrites /\ m_aw \in Seq(RawWrites) /\ Ordered(m_aw)
  BY DEF IInv, CacheTypes, RawWrites
<1>3. CacheTypes'
  BY <1>1, <1>2 DEF IInv, CacheTypes
<1>4. Ordered(m_aw') /\ SettledIn(m_aw', raw', rg_cached_raw_mem_addr) = rg_cached_raw_mem_word
  BY <1>1, <1>2, SettledByAppend
<1>5. Settled(rg_cached_raw_mem_addr)' = rg_cached_raw_mem_word'
  BY <1>1, <1>4 DEF Settled, SettledIn, Pending, PendingIn
<1>6. CleanIsSafe' /\ OneReload'
  BY <1>1, <1>5 DEF IInv, CleanIsSafe, OneReload
<1> QED  BY <1>1, <1>3, <1>4, <1>6, RequestsAlone DEF IInv

\* What both ways to ask for a reload keep.
LEMMA AskKeeps ==
    ASSUME IInv, rg_state # "reloading", NEW w \in RawAddrs,
           m_ar' = Append(m_ar, w), rg_cached_raw_mem_addr' = w, rg_state' = "reloading",
           UNCHANGED <<issued, s_ar, s_aw, f_reqs, rg_cached_clean,
                       rg_cached_raw_mem_word, m_aw, m_r, raw>>
    PROVE  IInv'
<1>1. CacheTypes' /\ Ordered(m_aw)'
  BY DEF IInv, CacheTypes, Ordered, Newest, PendingIn
<1>2. m_ar' = <<w>> /\ m_r' = <<>>
  BY DEF IInv, OneReload
<1>3. OneReload' /\ CleanIsSafe'
  BY <1>2 DEF OneReload, CleanIsSafe
<1> QED  BY <1>1, <1>3, RequestsAlone DEF IInv

LEMMA ReloadKeeps ==
    ASSUME IInv, Reload
    PROVE  IInv' /\ rg_cached_raw_mem_word' = Settled(rg_cached_raw_mem_addr)
<1>1. m_ar = <<>> /\ m_r = <<Settled(rg_cached_raw_mem_addr)>>
  BY DEF IInv, OneReload, Reload
<1>2. /\ m_r' = <<>> /\ rg_cached_raw_mem_word' = Settled(rg_cached_raw_mem_addr)
      /\ rg_cached_clean' = TRUE /\ rg_state' = "ready"
      /\ UNCHANGED <<issued, s_ar, s_aw, f_reqs, rg_cached_raw_mem_addr, m_aw, m_ar, raw>>
  BY <1>1 DEF Reload, fabric
<1>3. Settled(rg_cached_raw_mem_addr) \in Words
  BY SettledOf, SettledIsWord DEF IInv, CacheTypes
<1>4. CacheTypes'
  BY <1>2, <1>3 DEF IInv, CacheTypes
<1>5. Ordered(m_aw)'
  BY <1>2 DEF IInv, Ordered, Newest, PendingIn
<1>6. CleanIsSafe' /\ OneReload'
  BY <1>1, <1>2 DEF CleanIsSafe, OneReload, Settled, Pending
<1> QED  BY <1>2, <1>4, <1>5, <1>6, RequestsAlone DEF IInv

LEMMA RawWriteKeeps ==
    ASSUME IInv, RawWrite
    PROVE  IInv' /\ \A w \in RawAddrs : Settled(w)' = Settled(w)
<1>1. /\ m_aw # <<>> /\ m_aw' = Tail(m_aw)
      /\ raw' = [raw EXCEPT ![Head(m_aw).addr] = Head(m_aw).data]
      /\ UNCHANGED <<issued, s_ar, s_aw, f_reqs, rg_state, rg_cached_clean,
                     rg_cached_raw_mem_addr, rg_cached_raw_mem_word, m_ar, m_r>>
  BY DEF RawWrite, fabric, cache
<1>2. m_aw \in Seq(RawWrites) /\ raw \in [RawAddrs -> Words] /\ Ordered(m_aw)
  BY DEF IInv, CacheTypes
<1>3. Ordered(m_aw') /\ \A w \in RawAddrs : SettledIn(m_aw', raw', w) = SettledIn(m_aw, raw, w)
  <2> DEFINE t == Tail(m_aw)
             m1 == [raw EXCEPT ![Head(m_aw).addr] = Head(m_aw).data]
  <2>1. Ordered(t) /\ \A w \in RawAddrs : SettledIn(t, m1, w) = SettledIn(m_aw, raw, w)
    BY <1>1, <1>2, SettledByWrite
  <2>2. m_aw' = t /\ raw' = m1
    BY <1>1
  <2> HIDE DEF t, m1
  <2> QED  BY <2>1, <2>2
<1>4. \A w \in RawAddrs : Settled(w)' = Settled(w)
  BY <1>3 DEF Settled, SettledIn, Pending, PendingIn
<1>5. Head(m_aw) \in RawWrites /\ m_aw' \in Seq(RawWrites)
  BY <1>1, <1>2
<1>6. CacheTypes'
  BY <1>1, <1>2, <1>5 DEF IInv, CacheTypes, RawWrites
<1>7. rg_cached_raw_mem_addr \in RawAddrs
  BY DEF IInv, CacheTypes
<1>8. CleanIsSafe' /\ OneReload'
  BY <1>1, <1>4, <1>7 DEF IInv, CleanIsSafe, OneReload
<1>9. Ordered(m_aw)'
  BY <1>3 DEF Ordered, Newest, PendingIn
<1> QED  BY <1>1, <1>4, <1>6, <1>8, <1>9, RequestsAlone DEF IInv

LEMMA RawReadKeeps ==
    ASSUME RawOrdered, IInv, RawRead
    PROVE  IInv'
<1>1. /\ m_ar # <<>> /\ Pending(Head(m_ar)) = {} /\ m_ar' = Tail(m_ar)
      /\ m_r' = Append(m_r, raw[Head(m_ar)])
      /\ UNCHANGED <<issued, s_ar, s_aw, f_reqs, rg_state, rg_cached_clean,
                     rg_cached_raw_mem_addr, rg_cached_raw_mem_word, m_aw, raw>>
  BY DEF RawRead, fabric, cache
<1>2. rg_state = "reloading" /\ m_ar = <<rg_cached_raw_mem_addr>> /\ m_r = <<>>
  BY <1>1 DEF IInv, OneReload, CacheTypes
<1>3. Settled(rg_cached_raw_mem_addr) = raw[rg_cached_raw_mem_addr]
  BY <1>1, <1>2 DEF Settled
<1>4. m_ar' = <<>> /\ m_r' = <<Settled(rg_cached_raw_mem_addr)>>
  BY <1>1, <1>2, <1>3
<1>5. Settled(rg_cached_raw_mem_addr)' = Settled(rg_cached_raw_mem_addr)
  BY <1>1 DEF Settled, Pending
<1>6. CacheTypes' /\ Ordered(m_aw)'
  BY <1>1 DEF IInv, CacheTypes, Ordered, Newest, PendingIn
<1>7. CleanIsSafe' /\ OneReload'
  BY <1>1, <1>2, <1>4, <1>5 DEF CleanIsSafe, OneReload
<1> QED  BY <1>1, <1>6, <1>7, RequestsAlone DEF IInv

LEMMA ProcessWrKeeps ==
    ASSUME IInv, ProcessWr
    PROVE  IInv'
<1>1. /\ f_reqs' = <<>> /\ rg_cached_clean' = FALSE
      /\ UNCHANGED <<issued, s_ar, s_aw, rg_state, rg_cached_raw_mem_addr, m_aw, m_ar, m_r, raw>>
  BY DEF ProcessWr, raw_side
<1>2. req.data \in Nat
  BY WantedFacts, RequestFacts DEF ProcessWr
<1>3. rg_cached_raw_mem_word' \in Words
  BY <1>2 DEF ProcessWr, IInv, CacheTypes, Words
<1>4. CacheTypes' /\ Ordered(m_aw)'
  <2>1. CacheTypes'
    BY <1>1, <1>3 DEF IInv, CacheTypes
  <2>2. Ordered(m_aw)'
    BY <1>1 DEF IInv, Ordered, Newest, PendingIn
  <2> QED  BY <2>1, <2>2
<1>5. CleanIsSafe' /\ OneReload'
  BY <1>1 DEF IInv, CleanIsSafe, OneReload, Settled, Pending
<1>6. RequestTypes'
  BY <1>1 DEF IInv, RequestTypes
<1> QED  BY <1>4, <1>5, <1>6 DEF IInv

LEMMA MasterIssueKeeps ==
    ASSUME IInv, NEW access \in Accesses, MasterIssue(access)
    PROVE  RequestTypes'
<1>1. issued \in Nat /\ issued' = issued + 1 /\ f_reqs' = f_reqs
  BY DEF IInv, RequestTypes, MasterIssue
<1>2. Numbered(access, issued') \in Requested(access.op)
  BY <1>1 DEF Requested
<1>3. CASE access.op = "rd"
  <2>1. s_ar' = Append(s_ar, Numbered(access, issued')) /\ s_aw' = s_aw
    BY <1>3 DEF MasterIssue
  <2> QED  BY <1>1, <1>2, <1>3, <2>1 DEF IInv, RequestTypes
<1>4. CASE access.op = "wr"
  <2>1. s_aw' = Append(s_aw, Numbered(access, issued')) /\ s_ar' = s_ar
    BY <1>4 DEF MasterIssue
  <2> QED  BY <1>1, <1>2, <1>4, <2>1 DEF IInv, RequestTypes
<1> QED  BY <1>3, <1>4 DEF MasterIssue

LEMMA MergeKeeps ==
    ASSUME IInv, MergeRd \/ MergeWr
    PROVE  RequestTypes'
<1>1. CASE MergeRd
  BY <1>1 DEF IInv, RequestTypes, MergeRd
<1>2. CASE MergeWr
  BY <1>2 DEF IInv, RequestTypes, MergeWr
<1> QED  BY <1>1, <1>2

LEMMA Step ==
    ASSUME RawOrdered, IInv, [Next]_vars
    PROVE  IInv'
<1>1. CASE ResetReloadCache
  <2>1. ASSUME NEW w \in RawAddrs, w = 0
        PROVE  IInv'
    BY <1>1, <2>1, AskKeeps DEF ResetReloadCache, fabric
  <2> QED  BY <2>1, FirstWord
<1>2. CASE SetAddrMap
  BY <1>2, CacheAlone, RequestsAlone DEF SetAddrMap, IInv, fabric, raw_side
<1>3. CASE MergeRd \/ MergeWr
  BY <1>3, CacheAlone, MergeKeeps DEF MergeRd, MergeWr, IInv, raw_side
<1>4. CASE WritebackDirtyIdle \/ WritebackDirty
  BY <1>4, WritebackKeeps DEF WritebackDirtyIdle, WritebackDirty, Wanted
<1>5. CASE MissCleanReq
  <2>1. rg_state = "ready" /\ req_raw_mem_addr \in RawAddrs
    BY <1>5, WantedFacts DEF MissCleanReq, Wanted
  <2> QED  BY <1>5, <2>1, AskKeeps DEF MissCleanReq, Miss, fabric
<1>6. CASE Reload
  BY <1>6, ReloadKeeps
<1>7. CASE ProcessRd \/ InvalidRdAddress \/ InvalidWrAddress
  <2>1. UNCHANGED <<issued, s_ar, s_aw, rg_state, cache, raw_side>> /\ f_reqs' = <<>>
    BY <1>7 DEF ProcessRd, InvalidRdAddress, InvalidWrAddress
  <2> QED  BY <2>1, CacheAlone DEF IInv, RequestTypes, raw_side
<1>8. CASE ProcessWr
  BY <1>8, ProcessWrKeeps
<1>9. CASE WrDone
  BY <1>9, CacheAlone, RequestsAlone DEF WrDone, IInv, fabric
<1>10. ASSUME NEW access \in Accesses, MasterIssue(access)
       PROVE  IInv'
  <2>1. UNCHANGED <<rg_state, cache, m_aw, m_ar, m_r, raw>>
    BY <1>10 DEF MasterIssue, raw_side
  <2> QED  BY <1>10, <2>1, CacheAlone, MasterIssueKeeps DEF IInv
<1>11. CASE Answers
  BY <1>11, CacheAlone, RequestsAlone
     DEF Answers, MasterTakeR, MasterTakeB, IInv, fabric, raw_side
<1>12. CASE RawWrite
  BY <1>12, RawWriteKeeps
<1>13. CASE RawRead
  BY <1>13, RawReadKeeps
<1>14. CASE UNCHANGED vars
  BY <1>14, CacheAlone, RequestsAlone DEF vars, IInv, fabric, raw_side
<1> QED  BY <1>1, <1>2, <1>3, <1>4, <1>5, <1>6, <1>7, <1>8, <1>9, <1>10, <1>11, <1>12,
            <1>13, <1>14 DEF Next, Controller

\* When the raw memory keeps a read behind the earlier writes to its word, the
\* invariant above holds in every state.
THEOREM CacheInvariant ==
    ASSUME RawOrdered
    PROVE  Spec => []IInv
  BY InitInv, Step, PTL DEF Spec

\* Then no write is ever lost with the word it went into: what rl_miss_clean_req
\* drops is what the raw memory holds or is about to hold.
THEOREM DroppedIsSafe ==
    ASSUME RawOrdered
    PROVE  Spec => []CleanIsSafe
<1>1. IInv => CleanIsSafe
  BY DEF IInv
<1> QED  BY <1>1, CacheInvariant, PTL

-----------------------------------------------------------------------------
(* The controller implements an atomic memory *)

LEMMA Sequences1 ==
    ASSUME NEW S, NEW s \in Seq(S), NEW x \in S
    PROVE  /\ <<>> \o s = s
           /\ <<x>> \o s # <<>> /\ Head(<<x>> \o s) = x /\ Tail(<<x>> \o s) = s
           /\ s # <<>> => <<Head(s)>> \o Tail(s) = s
           /\ \A e \in S : <<>> \o Append(s, e) = Append(<<>> \o s, e)
           /\ \A e \in S : <<x>> \o Append(s, e) = Append(<<x>> \o s, e)
  OBVIOUS

\* The byte at an address, as the deburster knows it.
MemBytes == [a \in Bytes |-> Contents(Word(a))[Offset(a)]]

LEMMA MemIs ==
    /\ MemBytes = [a \in AddrBase .. AddrLim - 1 |->
                      Contents((a - AddrBase) \div WordBytes)[(a - AddrBase) % WordBytes]]
    /\ MemBytes' = [a \in AddrBase .. AddrLim - 1 |->
                      (Contents((a - AddrBase) \div WordBytes)[(a - AddrBase) % WordBytes])']
  BY DEF MemBytes, Bytes, Word, Offset

LEMMA SameBytes ==
    ASSUME \A w \in RawAddrs : Contents(w)' = Contents(w)
    PROVE  MemBytes' = MemBytes
  BY Places DEF MemBytes

\* What a step that changes neither a word's contents nor a queue looks like.
LEMMA Unseen ==
    ASSUME MemBytes' = MemBytes, UNCHANGED <<s_r, s_b>>,
           (Merged("rd") \o s_ar)' = Merged("rd") \o s_ar,
           (Merged("wr") \o s_aw)' = Merged("wr") \o s_aw
    PROVE  UNCHANGED A!vars
  BY MemIs DEF A!vars

LEMMA QueuesAlone ==
    ASSUME UNCHANGED <<fabric, f_reqs>>
    PROVE  /\ (Merged("rd") \o s_ar)' = Merged("rd") \o s_ar
           /\ (Merged("wr") \o s_aw)' = Merged("wr") \o s_aw
           /\ UNCHANGED <<s_r, s_b>>
  BY DEF fabric, Merged, req

LEMMA ContentsAlone ==
    ASSUME UNCHANGED <<rg_state, cache, m_aw, raw>>
    PROVE  MemBytes' = MemBytes
<1>1. \A w : Contents(w)' = Contents(w)
  BY DEF Contents, Settled, Pending, cache
<1> QED  BY <1>1, SameBytes

LEMMA WritebackUnseen ==
    ASSUME IInv, rg_state = "ready", Writeback
    PROVE  UNCHANGED A!vars
<1> DEFINE e == [addr |-> rg_cached_raw_mem_addr, data |-> rg_cached_raw_mem_word]
<1>1. /\ m_aw' = Append(m_aw, e) /\ rg_state' = "ready"
      /\ UNCHANGED <<rg_cached_raw_mem_addr, rg_cached_raw_mem_word, raw>>
  BY DEF Writeback
<1>2. e \in RawWrites /\ m_aw \in Seq(RawWrites) /\ Ordered(m_aw)
  BY DEF IInv, CacheTypes, RawWrites
<1>3. \A w \in RawAddrs \ {rg_cached_raw_mem_addr} :
          SettledIn(m_aw', raw', w) = SettledIn(m_aw, raw, w)
  BY <1>1, <1>2, SettledByAppend
<1>4. \A w \in RawAddrs \ {rg_cached_raw_mem_addr} : Settled(w)' = Settled(w)
  BY <1>3 DEF Settled, SettledIn, Pending, PendingIn
<1>5. \A w \in RawAddrs : Contents(w)' = Contents(w)
  BY <1>1, <1>4 DEF Contents
<1> QED  BY <1>5, SameBytes, QueuesAlone, Unseen DEF Writeback

LEMMA AskUnseen ==
    ASSUME IInv, ResetReloadCache \/ MissCleanReq
    PROVE  UNCHANGED A!vars
<1>1. UNCHANGED <<fabric, f_reqs, m_aw, raw>> /\ rg_state' = "reloading"
  BY DEF ResetReloadCache, MissCleanReq, Miss
<1>2. \A w : Settled(w)' = Settled(w)
  BY <1>1 DEF Settled, Pending
<1>3. rg_state # "ready" \/ (rg_state = "ready" /\ rg_cached_clean)
  BY DEF ResetReloadCache, MissCleanReq
<1>4. \A w \in RawAddrs : Contents(w)' = Contents(w)
  BY <1>1, <1>2, <1>3 DEF Contents, IInv, CleanIsSafe
<1> QED  BY <1>1, <1>4, SameBytes, QueuesAlone, Unseen

LEMMA ReloadUnseen ==
    ASSUME IInv, Reload
    PROVE  UNCHANGED A!vars
<1>1. /\ UNCHANGED <<fabric, f_reqs, rg_cached_raw_mem_addr, m_aw, raw>>
      /\ rg_state = "reloading" /\ rg_state' = "ready"
  BY DEF Reload
<1>2. rg_cached_raw_mem_word' = Settled(rg_cached_raw_mem_addr)
  BY ReloadKeeps
<1>3. \A w : Settled(w)' = Settled(w)
  BY <1>1 DEF Settled, Pending
<1>4. \A w \in RawAddrs : Contents(w)' = Contents(w)
  BY <1>1, <1>2, <1>3 DEF Contents
<1> QED  BY <1>1, <1>4, SameBytes, QueuesAlone, Unseen

LEMMA RawUnseen ==
    ASSUME IInv, RawWrite \/ RawRead
    PROVE  UNCHANGED A!vars
<1>1. UNCHANGED <<fabric, f_reqs, rg_state, cache>>
  BY DEF RawWrite, RawRead
<1>2. \A w \in RawAddrs : Settled(w)' = Settled(w)
  <2>1. CASE RawWrite
    BY <2>1, RawWriteKeeps
  <2>2. CASE RawRead
    BY <2>2 DEF RawRead, Settled, Pending
  <2> QED  BY <2>1, <2>2
<1>3. \A w \in RawAddrs : Contents(w)' = Contents(w)
  BY <1>1, <1>2 DEF Contents, cache
<1> QED  BY <1>1, <1>3, SameBytes, QueuesAlone, Unseen

LEMMA MergeUnseen ==
    ASSUME IInv, MergeRd \/ MergeWr
    PROVE  UNCHANGED A!vars
<1>1. s_ar \in Seq(Requested("rd")) /\ s_aw \in Seq(Requested("wr"))
  BY DEF IInv, RequestTypes
<1>2. f_reqs = <<>> /\ UNCHANGED <<s_r, s_b, rg_state, cache, m_aw, raw>>
  BY DEF MergeRd, MergeWr, raw_side
<1>3. Merged("rd") = <<>> /\ Merged("wr") = <<>>
  BY <1>2 DEF Merged
<1>4. CASE MergeRd
  <2>1. /\ s_ar # <<>> /\ f_reqs' = <<Head(s_ar)>> /\ s_ar' = Tail(s_ar) /\ s_aw' = s_aw
        /\ Head(s_ar).op = "rd"
    BY <1>1, <1>4, RequestFacts DEF MergeRd
  <2>2. Merged("rd")' = <<Head(s_ar)>> /\ Merged("wr")' = <<>>
    BY <2>1 DEF Merged, req
  <2>3. <<Head(s_ar)>> \o Tail(s_ar) = s_ar /\ <<>> \o s_ar = s_ar
    BY <1>1, <2>1
  <2> QED  BY <1>2, <1>3, <2>1, <2>2, <2>3, ContentsAlone, Unseen
<1>5. CASE MergeWr
  <2>1. /\ s_aw # <<>> /\ f_reqs' = <<Head(s_aw)>> /\ s_aw' = Tail(s_aw) /\ s_ar' = s_ar
        /\ Head(s_aw).op = "wr"
    BY <1>1, <1>5, RequestFacts DEF MergeWr
  <2>2. Merged("wr")' = <<Head(s_aw)>> /\ Merged("rd")' = <<>>
    BY <2>1 DEF Merged, req
  <2>3. <<Head(s_aw)>> \o Tail(s_aw) = s_aw /\ <<>> \o s_aw = s_aw
    BY <1>1, <2>1
  <2> QED  BY <1>2, <1>3, <2>1, <2>2, <2>3, ContentsAlone, Unseen
<1> QED  BY <1>4, <1>5

\* The request at hand is the one the atomic memory performs next.
LEMMA AtHand ==
    ASSUME IInv, f_reqs # <<>>, f_reqs' = <<>>, UNCHANGED <<s_ar, s_aw>>
    PROVE  /\ req \in Requested("rd") \cup Requested("wr")
           /\ req.op = "rd" =>
                 /\ Merged("rd") \o s_ar # <<>> /\ Head(Merged("rd") \o s_ar) = req
                 /\ (Merged("rd") \o s_ar)' = Tail(Merged("rd") \o s_ar)
                 /\ (Merged("wr") \o s_aw)' = Merged("wr") \o s_aw
           /\ req.op = "wr" =>
                 /\ Merged("wr") \o s_aw # <<>> /\ Head(Merged("wr") \o s_aw) = req
                 /\ (Merged("wr") \o s_aw)' = Tail(Merged("wr") \o s_aw)
                 /\ (Merged("rd") \o s_ar)' = Merged("rd") \o s_ar
           /\ A!Valid(req) <=> fn_addr_is_ok
<1>1. s_ar \in Seq(Requested("rd")) /\ s_aw \in Seq(Requested("wr"))
  BY DEF IInv, RequestTypes
<1>2. f_reqs = <<req>> /\ req \in Requested("rd") \cup Requested("wr")
  BY DEF IInv, RequestTypes, req
<1>3. (Merged("rd") \o s_ar)' = s_ar /\ (Merged("wr") \o s_aw)' = s_aw
  <2>1. Merged("rd")' = <<>> /\ Merged("wr")' = <<>>
    BY DEF Merged
  <2>2. <<>> \o s_ar = s_ar /\ <<>> \o s_aw = s_aw
    BY <1>1
  <2> QED  BY <2>1, <2>2
<1>4. A!Valid(req) <=> fn_addr_is_ok
  <2>1. req.addr \in Nat
    BY <1>2, RequestFacts
  <2> QED  BY <2>1, MemAssumption DEF A!Valid, fn_addr_is_ok
<1>5. CASE req.op = "rd"
  <2>1. Merged("rd") = <<req>> /\ Merged("wr") = <<>>
    BY <1>2, <1>5 DEF Merged
  <2>2. req \in Requested("rd")
    BY <1>2, <1>5, RequestFacts
  <2>3. <<req>> \o s_ar # <<>> /\ Head(<<req>> \o s_ar) = req /\ Tail(<<req>> \o s_ar) = s_ar
    BY <1>1, <2>2, Sequences1
  <2>4. Merged("wr") \o s_aw = s_aw
    BY <1>1, <2>1
  <2> QED  BY <1>2, <1>3, <1>4, <1>5, <2>1, <2>3, <2>4
<1>6. CASE req.op = "wr"
  <2>1. Merged("wr") = <<req>> /\ Merged("rd") = <<>>
    BY <1>2, <1>6 DEF Merged
  <2>2. req \in Requested("wr")
    BY <1>2, <1>6, RequestFacts
  <2>3. <<req>> \o s_aw # <<>> /\ Head(<<req>> \o s_aw) = req /\ Tail(<<req>> \o s_aw) = s_aw
    BY <1>1, <2>2, Sequences1
  <2>4. Merged("rd") \o s_ar = s_ar
    BY <1>1, <2>1
  <2> QED  BY <1>2, <1>3, <1>4, <1>6, <2>1, <2>3, <2>4
<1> QED  BY <1>2, <1>4, <1>5, <1>6

\* The bytes of the beat that holds an address of the cached word.
LEMMA BeatIsCached ==
    ASSUME IInv, Wanted, Hit, NEW k \in 0 .. Beat - 1
    PROVE  MemBytes[A!ByteAddr(req.addr, k)] = rg_cached_raw_mem_word[LaneByte(req.addr, k)]
<1>1. req.addr \in Bytes /\ Word(req.addr) = rg_cached_raw_mem_addr /\ rg_state = "ready"
  BY WantedFacts DEF Wanted, Hit
<1>2. /\ A!ByteAddr(req.addr, k) \in Bytes
      /\ Word(A!ByteAddr(req.addr, k)) = rg_cached_raw_mem_addr
      /\ Offset(A!ByteAddr(req.addr, k)) = LaneByte(req.addr, k)
  BY <1>1, BeatPlace
<1> QED  BY <1>1, <1>2 DEF MemBytes, Contents

LEMMA ReadPerformed ==
    ASSUME IInv, ProcessRd
    PROVE  A!PerformRd
<1>1. /\ Wanted /\ Hit /\ req.op = "rd" /\ f_reqs # <<>> /\ f_reqs' = <<>> /\ fn_addr_is_ok
      /\ UNCHANGED <<s_ar, s_aw, s_b, rg_state, cache, m_aw, raw>>
  BY DEF ProcessRd, Wanted, raw_side
<1>2. s_r' = Append(s_r, [id |-> req.id, resp |-> "okay",
                          data |-> [k \in 0 .. Beat - 1 |->
                                       rg_cached_raw_mem_word[LaneByte(req.addr, k)]]])
  BY DEF ProcessRd
<1>3. [k \in 0 .. Beat - 1 |-> rg_cached_raw_mem_word[LaneByte(req.addr, k)]]
          = [k \in 0 .. Beat - 1 |-> MemBytes[A!ByteAddr(req.addr, k)]]
  BY <1>1, BeatIsCached
<1>4. MemBytes' = MemBytes
  BY <1>1, ContentsAlone
<1>5. /\ Merged("rd") \o s_ar # <<>> /\ Head(Merged("rd") \o s_ar) = req
      /\ (Merged("rd") \o s_ar)' = Tail(Merged("rd") \o s_ar)
      /\ (Merged("wr") \o s_aw)' = Merged("wr") \o s_aw
      /\ A!Valid(req)
  BY <1>1, AtHand
<1>6. s_r' = Append(s_r, [id |-> req.id, resp |-> "okay",
                          data |-> [k \in 0 .. Beat - 1 |-> MemBytes[A!ByteAddr(req.addr, k)]]])
  BY <1>2, <1>3
<1>7. UNCHANGED s_b
  BY <1>1
<1> QED  BY <1>4, <1>5, <1>6, <1>7, MemIs, ZenonT(60) DEF A!PerformRd

LEMMA WritePerformed ==
    ASSUME IInv, ProcessWr
    PROVE  A!PerformWr
<1> DEFINE lanes == { LaneByte(req.addr, k) : k \in req.wstrb }
           written == { A!ByteAddr(req.addr, k) : k \in req.wstrb }
<1>1. /\ Wanted /\ Hit /\ req.op = "wr" /\ f_reqs # <<>> /\ f_reqs' = <<>> /\ fn_addr_is_ok
      /\ rg_state = "ready"
      /\ UNCHANGED <<s_ar, s_aw, s_r, rg_state, rg_cached_raw_mem_addr, m_aw, raw>>
      /\ s_b' = Append(s_b, [id |-> req.id, resp |-> "okay"])
  BY DEF ProcessWr, Wanted, raw_side
<1>2. rg_cached_raw_mem_word' =
          [b \in 0 .. WordBytes - 1 |->
              IF b \in lanes THEN req.data ELSE rg_cached_raw_mem_word[b]]
  BY DEF ProcessWr
<1>3. /\ Merged("wr") \o s_aw # <<>> /\ Head(Merged("wr") \o s_aw) = req
      /\ (Merged("wr") \o s_aw)' = Tail(Merged("wr") \o s_aw)
      /\ (Merged("rd") \o s_ar)' = Merged("rd") \o s_ar
      /\ A!Valid(req) /\ req \in Requested("wr")
  BY <1>1, AtHand, RequestFacts
<1>4. req.wstrb \subseteq 0 .. Beat - 1
  BY <1>3, RequestFacts
<1>5. req.addr \in Bytes /\ Word(req.addr) = rg_cached_raw_mem_addr
  BY <1>1, WantedFacts DEF Hit
<1>6. ASSUME NEW a \in Bytes
      PROVE  a \in written <=> Word(a) = rg_cached_raw_mem_addr /\ Offset(a) \in lanes
  <2>1. ASSUME NEW k \in req.wstrb, a = A!ByteAddr(req.addr, k)
        PROVE  Word(a) = rg_cached_raw_mem_addr /\ Offset(a) = LaneByte(req.addr, k)
    BY <2>1, <1>4, <1>5, BeatPlace
  <2>2. ASSUME NEW k \in req.wstrb, Word(a) = rg_cached_raw_mem_addr,
               Offset(a) = LaneByte(req.addr, k)
        PROVE  a = A!ByteAddr(req.addr, k)
    BY <2>2, <1>4, <1>5, BeatPlace, PlaceIsOwn
  <2> QED  BY <2>1, <2>2
<1>7. \A w : Settled(w)' = Settled(w)
  BY <1>1 DEF Settled, Pending
<1>8. ASSUME NEW a \in Bytes
      PROVE  MemBytes'[a] = IF a \in written THEN req.data ELSE MemBytes[a]
  <2>1. MemBytes'[a] = Contents(Word(a))'[Offset(a)] /\ MemBytes[a] = Contents(Word(a))[Offset(a)]
    BY DEF MemBytes
  <2>2. CASE Word(a) = rg_cached_raw_mem_addr
    <3>1. /\ Contents(Word(a)) = rg_cached_raw_mem_word
          /\ Contents(Word(a))' = rg_cached_raw_mem_word'
      BY <1>1, <2>2 DEF Contents
    <3>2. Offset(a) \in 0 .. WordBytes - 1
      BY Places
    <3>3. rg_cached_raw_mem_word'[Offset(a)] =
              IF Offset(a) \in lanes THEN req.data ELSE rg_cached_raw_mem_word[Offset(a)]
      <4> HIDE DEF lanes
      <4> QED  BY <1>2, <3>2
    <3> QED  BY <1>6, <2>1, <2>2, <3>1, <3>3
  <2>3. CASE Word(a) # rg_cached_raw_mem_addr
    <3>1. Contents(Word(a)) = Settled(Word(a)) /\ Contents(Word(a))' = Settled(Word(a))'
      BY <1>1, <2>3 DEF Contents
    <3> QED  BY <1>6, <1>7, <2>1, <2>3, <3>1
  <2> QED  BY <2>2, <2>3
<1>9. MemBytes' = [a \in Bytes |-> IF a \in written THEN req.data ELSE MemBytes[a]]
  <2> HIDE DEF written
  <2>1. MemBytes' = [a \in Bytes |-> MemBytes'[a]]
    BY DEF MemBytes
  <2> QED  BY <2>1, <1>8
<1>10. MemBytes' = [a \in Bytes |-> IF a \in (IF A!Valid(req) THEN written ELSE {})
                                    THEN req.data ELSE MemBytes[a]]
  <2> HIDE DEF written
  <2> QED  BY <1>3, <1>9
<1>11. s_b' = Append(s_b, [id |-> req.id,
                           resp |-> IF A!Valid(req) THEN "okay" ELSE "slverr"])
  BY <1>1, <1>3
<1>12. UNCHANGED s_r
  BY <1>1
<1>13. LET next == Head(Merged("wr") \o s_aw)
           bytes == IF A!Valid(next) THEN { A!ByteAddr(next.addr, k) : k \in next.wstrb } ELSE {}
       IN  /\ MemBytes' = [a \in Bytes |-> IF a \in bytes THEN next.data ELSE MemBytes[a]]
           /\ s_b' = Append(s_b, [id |-> next.id,
                                  resp |-> IF A!Valid(next) THEN "okay" ELSE "slverr"])
  BY <1>3, <1>10, <1>11
<1> QED  BY <1>3, <1>12, <1>13, Zenon DEF A!PerformWr, MemBytes, Bytes, Word, Offset

LEMMA InvalidPerformed ==
    ASSUME IInv, InvalidRdAddress \/ InvalidWrAddress
    PROVE  A!PerformRd \/ A!PerformWr
<1>1. /\ f_reqs # <<>> /\ f_reqs' = <<>> /\ ~fn_addr_is_ok
      /\ UNCHANGED <<s_ar, s_aw, rg_state, cache, m_aw, raw>>
  BY DEF InvalidRdAddress, InvalidWrAddress, Unwanted, raw_side
<1>2. MemBytes' = MemBytes
  BY <1>1, ContentsAlone
<1>3. ~A!Valid(req)
  BY <1>1, AtHand
<1>4. CASE InvalidRdAddress
  <2>1. /\ s_r' = Append(s_r, [id |-> req.id, resp |-> "slverr", data |-> <<>>])
        /\ s_b' = s_b /\ req.op = "rd"
    BY <1>4 DEF InvalidRdAddress
  <2>2. /\ Merged("rd") \o s_ar # <<>> /\ Head(Merged("rd") \o s_ar) = req
        /\ (Merged("rd") \o s_ar)' = Tail(Merged("rd") \o s_ar)
        /\ (Merged("wr") \o s_aw)' = Merged("wr") \o s_aw
    BY <1>1, <2>1, AtHand
  <2> QED  BY <1>2, <1>3, <2>1, <2>2, MemIs DEF A!PerformRd
<1>5. CASE InvalidWrAddress
  <2>1. /\ s_b' = Append(s_b, [id |-> req.id, resp |-> "slverr"])
        /\ s_r' = s_r /\ req.op = "wr"
    BY <1>5 DEF InvalidWrAddress
  <2>2. /\ Merged("wr") \o s_aw # <<>> /\ Head(Merged("wr") \o s_aw) = req
        /\ (Merged("wr") \o s_aw)' = Tail(Merged("wr") \o s_aw)
        /\ (Merged("rd") \o s_ar)' = Merged("rd") \o s_ar
    BY <1>1, <2>1, AtHand
  <2>3. MemBytes' = [a \in Bytes |-> IF a \in {} THEN req.data ELSE MemBytes[a]]
    BY <1>2 DEF MemBytes
  <2> QED  BY <1>3, <2>1, <2>2, <2>3, MemIs DEF A!PerformWr, Bytes
<1> QED  BY <1>4, <1>5

LEMMA IssuePerformed ==
    ASSUME IInv, NEW access \in Accesses, MasterIssue(access)
    PROVE  \E r \in { Numbered(x, n) : x \in Accesses, n \in 1 .. MaxRequests } :
              A!IssueRd(r) \/ A!IssueWr(r)
<1> DEFINE r == Numbered(access, issued')
<1>1. issued' \in 1 .. MaxRequests
  BY MemAssumption DEF MasterIssue, IInv, RequestTypes
<1>2. r \in { Numbered(x, n) : x \in Accesses, n \in 1 .. MaxRequests }
  BY <1>1
<1>3. r \in Requested(access.op)
  BY <1>1 DEF Requested
<1>4. UNCHANGED <<s_r, s_b, f_reqs, rg_state, cache, m_aw, raw>>
  BY DEF MasterIssue, raw_side
<1>5. MemBytes' = MemBytes
  BY <1>4, ContentsAlone
<1>6. /\ Merged("rd")' = Merged("rd") /\ Merged("wr")' = Merged("wr")
      /\ Merged("rd") = <<>> \/ \E x \in Requested("rd") : Merged("rd") = <<x>>
      /\ Merged("wr") = <<>> \/ \E x \in Requested("wr") : Merged("wr") = <<x>>
      /\ s_ar \in Seq(Requested("rd")) /\ s_aw \in Seq(Requested("wr"))
  BY <1>4, RequestFacts DEF IInv, RequestTypes, Merged, req
<1> HIDE DEF r
<1>7. CASE access.op = "rd"
  <2>1. s_ar' = Append(s_ar, r) /\ s_aw' = s_aw
    BY <1>7 DEF MasterIssue, r
  <2>2. Merged("rd") \o Append(s_ar, r) = Append(Merged("rd") \o s_ar, r)
    BY <1>3, <1>6, <1>7, Sequences1
  <2>3. /\ (Merged("rd") \o s_ar)' = Append(Merged("rd") \o s_ar, r)
        /\ (Merged("wr") \o s_aw)' = Merged("wr") \o s_aw
    BY <1>6, <2>1, <2>2
  <2>4. A!IssueRd(r)
    BY <1>4, <1>5, <2>3, MemIs DEF A!IssueRd
  <2> QED  BY <1>2, <2>4
<1>8. CASE access.op = "wr"
  <2>1. s_aw' = Append(s_aw, r) /\ s_ar' = s_ar
    BY <1>8 DEF MasterIssue, r
  <2>2. Merged("wr") \o Append(s_aw, r) = Append(Merged("wr") \o s_aw, r)
    BY <1>3, <1>6, <1>8, Sequences1
  <2>3. /\ (Merged("wr") \o s_aw)' = Append(Merged("wr") \o s_aw, r)
        /\ (Merged("rd") \o s_ar)' = Merged("rd") \o s_ar
    BY <1>6, <2>1, <2>2
  <2>4. A!IssueWr(r)
    BY <1>4, <1>5, <2>3, MemIs DEF A!IssueWr
  <2> QED  BY <1>2, <2>4
<1> QED  BY <1>7, <1>8 DEF MasterIssue

LEMMA AnswersTaken ==
    ASSUME IInv, Answers
    PROVE  A!TakeRd \/ A!TakeWr
<1>1. UNCHANGED <<s_ar, s_aw, f_reqs, rg_state, cache, m_aw, raw>>
  BY DEF Answers, MasterTakeR, MasterTakeB, raw_side
<1>2. /\ MemBytes' = MemBytes
      /\ (Merged("rd") \o s_ar)' = Merged("rd") \o s_ar
      /\ (Merged("wr") \o s_aw)' = Merged("wr") \o s_aw
  BY <1>1, ContentsAlone DEF Merged, req
<1>3. CASE MasterTakeR
  BY <1>2, <1>3, MemIs DEF MasterTakeR, A!TakeRd
<1>4. CASE MasterTakeB
  BY <1>2, <1>4, MemIs DEF MasterTakeB, A!TakeWr
<1> QED  BY <1>3, <1>4 DEF Answers

LEMMA MemoryInit == Init => A!Init
<1> SUFFICES ASSUME Init PROVE A!Init
  OBVIOUS
<1>1. ASSUME NEW a \in Bytes
      PROVE  MemBytes[a] = 0
  <2>1. Word(a) \in RawAddrs /\ Offset(a) \in 0 .. WordBytes - 1
    BY Places
  <2>2. Contents(Word(a)) = WordOf(0)
    BY <2>1 DEF Init, Contents, Settled, Pending
  <2> QED  BY <2>1, <2>2 DEF MemBytes, WordOf
<1>2. MemBytes = [a \in Bytes |-> 0]
  BY <1>1 DEF MemBytes
<1>3. Merged("rd") \o s_ar = <<>> /\ Merged("wr") \o s_aw = <<>>
  BY DEF Init, Merged
<1> QED  BY <1>2, <1>3, MemIs DEF A!Init, Init, Bytes

LEMMA MemoryStep ==
    ASSUME IInv, [Next]_vars
    PROVE  [A!Next]_(A!vars)
<1>1. CASE ResetReloadCache \/ MissCleanReq
  BY <1>1, AskUnseen
<1>2. CASE SetAddrMap
  BY <1>2, ContentsAlone, QueuesAlone, Unseen DEF SetAddrMap, raw_side
<1>3. CASE MergeRd \/ MergeWr
  BY <1>3, MergeUnseen
<1>4. CASE WritebackDirtyIdle \/ WritebackDirty
  BY <1>4, WritebackUnseen DEF WritebackDirtyIdle, WritebackDirty, Wanted
<1>5. CASE Reload
  BY <1>5, ReloadUnseen
<1>6. CASE ProcessRd
  BY <1>6, ReadPerformed DEF A!Next
<1>7. CASE ProcessWr
  BY <1>7, WritePerformed DEF A!Next
<1>8. CASE InvalidRdAddress \/ InvalidWrAddress
  BY <1>8, InvalidPerformed DEF A!Next
<1>9. CASE WrDone
  BY <1>9, ContentsAlone, QueuesAlone, Unseen DEF WrDone
<1>10. ASSUME NEW access \in Accesses, MasterIssue(access)
       PROVE  A!Next
  BY <1>10, IssuePerformed DEF A!Next
<1>11. CASE Answers
  BY <1>11, AnswersTaken DEF A!Next
<1>12. CASE RawWrite \/ RawRead
  BY <1>12, RawUnseen
<1>13. CASE UNCHANGED vars
  BY <1>13, ContentsAlone, QueuesAlone, Unseen DEF vars, raw_side, fabric
<1> QED  BY <1>1, <1>2, <1>3, <1>4, <1>5, <1>6, <1>7, <1>8, <1>9, <1>10, <1>11, <1>12,
            <1>13 DEF Next, Controller

\* The cache, its writebacks and its reloads are never seen from the fabric:
\* whatever is evicted, written back and reloaded, each access is performed at
\* one moment on a memory of bytes.  This is the safety part of ImplementsMemory.
THEOREM MemorySafety ==
    ASSUME RawOrdered
    PROVE  Spec => A!Init /\ [][A!Next]_(A!vars)
  BY MemoryInit, MemoryStep, CacheInvariant, PTL DEF Spec
=============================================================================
