--------------------------- MODULE DebursterProofs ---------------------------
(***************************************************************************)
(* Proofs about Deburster, for any bursts, FIFOs of any depth and any      *)
(* responses of the slave.                                                 *)
(*                                                                         *)
(* The beats of all bursts are one sequence of positions <<n, k>>.  Each   *)
(* FIFO carries a stretch of it and the next FIFO the stretch before, so   *)
(* that an item leaves one where another enters the next (Carries): this   *)
(* is ReadFlow and WriteFlow.  The bursts whose requests are not finished  *)
(* are those in m_ar and m_aw (Requests), and the lengths in f_r_arlen and *)
(* f_w_awlen are those of the bursts not yet answered (OpenLengths).       *)
(*                                                                         *)
(* That the address of a beat, taken from that of the beat before, is the  *)
(* one counted from the burst's own address is AddrFollows.  That a        *)
(* response sums up its burst follows from the slave's work: it performs   *)
(* the beats in order (InOrder), and rg_b_resp is what the first failing   *)
(* one of those answered so far was answered (Sums).                       *)
(***************************************************************************)
EXTENDS Deburster, BurstProofs, FiniteSetTheorems, TLAPS

-----------------------------------------------------------------------------
(* Division *)

LEMMA DivMod ==
    ASSUME NEW n \in Nat \ {0}, NEW q \in Nat, NEW r \in Nat, r < n
    PROVE  (n * q + r) % n = r
  BY Z3T(30)

LEMMA Split ==
    ASSUME NEW n \in Nat \ {0}, NEW a \in Nat
    PROVE  \E q \in Nat, r \in 0 .. n - 1 : a = n * q + r /\ a % n = r
<1>1. a \div n \in Nat /\ a % n \in 0 .. n - 1 /\ a = n * (a \div n) + (a % n)
  BY Z3T(30)
<1> QED  BY <1>1, Zenon

LEMMA Divides ==
    ASSUME NEW n \in Nat \ {0}, NEW a \in Nat, a % n = 0
    PROVE  \E q \in Nat : a = n * q
<1>1. PICK q \in Nat, r \in 0 .. n - 1 : a = n * q + r /\ a % n = r
  BY Split
<1>2. a = n * q
  BY <1>1, Z3T(30)
<1> QED  BY <1>2

LEMMA MulMono ==
    ASSUME NEW n \in Nat \ {0}, NEW p \in Nat, NEW q \in Nat, p < q
    PROVE  n * p + n <= n * q
<1> DEFINE d == q - (p + 1)
<1>1. d \in Nat /\ q = p + 1 + d
  OBVIOUS
<1> HIDE DEF d
<1>2. n * q = n * p + n + n * d
  BY <1>1, Z3T(30)
<1>3. n * d \in Nat /\ n * p \in Nat
  BY <1>1, Z3T(30)
<1> QED  BY <1>2, <1>3

LEMMA Product ==
    ASSUME NEW n \in Nat, NEW m \in Nat
    PROVE  n * m \in Nat /\ n * m = m * n
  BY Z3T(30)

\* Adding a multiple changes no remainder.
LEMMA AddMultiple ==
    ASSUME NEW n \in Nat \ {0}, NEW a \in Nat, NEW p \in Nat
    PROVE  (a + n * p) % n = a % n
<1>1. PICK q \in Nat, r \in 0 .. n - 1 : a = n * q + r /\ a % n = r
  BY Split
<1>2. a + n * p = n * (q + p) + r
  BY <1>1, Z3T(30)
<1>3. q + p \in Nat /\ r \in Nat /\ r < n
  BY <1>1
<1>4. (n * (q + p) + r) % n = r
  <2> DEFINE s == q + p
  <2>1. s \in Nat
    BY <1>3
  <2> HIDE DEF s
  <2>2. (n * s + r) % n = r
    BY <2>1, <1>3, DivMod
  <2> QED  BY <2>2 DEF s
<1> QED  BY <1>1, <1>2, <1>4

\* A remainder by m, taken by a divisor of m.
LEMMA ModMod ==
    ASSUME NEW n \in Nat \ {0}, NEW m \in Nat \ {0}, m % n = 0, NEW a \in Nat
    PROVE  (a % m) % n = a % n
<1>1. PICK d \in Nat : m = n * d
  BY Divides
<1>2. PICK q \in Nat, r \in 0 .. m - 1 : a = m * q + r /\ a % m = r
  BY Split
<1>3. a = r + n * (d * q)
  BY <1>1, <1>2, Z3T(30)
<1>4. d * q \in Nat /\ r \in Nat
  BY <1>2, Product
<1>5. (r + n * (d * q)) % n = r % n
  <2> DEFINE s == d * q
  <2>1. s \in Nat
    BY <1>4
  <2> HIDE DEF s
  <2>2. (r + n * s) % n = r % n
    BY <2>1, <1>4, AddMultiple
  <2> QED  BY <2>2 DEF s
<1> QED  BY <1>2, <1>3, <1>5

LEMMA AddMod ==
    ASSUME NEW n \in Nat \ {0}, NEW a \in Nat, NEW b \in Nat
    PROVE  ((a % n) + b) % n = (a + b) % n
<1>1. PICK q \in Nat, r \in 0 .. n - 1 : a = n * q + r /\ a % n = r
  BY Split
<1>2. n * q \in Nat
  BY Product
<1>3. a + b = (r + b) + n * q
  BY <1>1, <1>2
<1>4. ((r + b) + n * q) % n = (r + b) % n
  <2> DEFINE s == r + b
  <2>1. s \in Nat
    BY <1>1
  <2> HIDE DEF s
  <2>2. (s + n * q) % n = s % n
    BY <2>1, AddMultiple
  <2> QED  BY <2>2 DEF s
<1> QED  BY <1>1, <1>3, <1>4

\* AlignDown gives the multiple below.
LEMMA Aligned ==
    ASSUME NEW n \in Nat \ {0}, NEW a \in Nat
    PROVE  /\ AlignDown(a, n) \in Nat
           /\ AlignDown(a, n) <= a /\ a < AlignDown(a, n) + n
           /\ AlignDown(a, n) % n = 0
           /\ a = AlignDown(a, n) + (a % n)
<1>1. PICK q \in Nat, r \in 0 .. n - 1 : a = n * q + r /\ a % n = r
  BY Split
<1>2. n * q \in Nat
  BY Product
<1>3. AlignDown(a, n) = n * q
  BY <1>1, <1>2 DEF AlignDown
<1>4. (n * q + 0) % n = 0
  BY DivMod
<1> QED  BY <1>1, <1>2, <1>3, <1>4

LEMMA AlignAligned ==
    ASSUME NEW n \in Nat \ {0}, NEW a \in Nat, a % n = 0
    PROVE  AlignDown(a, n) = a
  BY DEF AlignDown

\* An address in a window has the window's base.
LEMMA AlignInWindow ==
    ASSUME NEW n \in Nat \ {0}, NEW base \in Nat, base % n = 0, NEW o \in 0 .. n - 1
    PROVE  AlignDown(base + o, n) = base /\ (base + o) % n = o
<1>1. PICK q \in Nat : base = n * q
  BY Divides
<1>2. (n * q + o) % n = o
  BY DivMod
<1> QED  BY <1>1, <1>2 DEF AlignDown

LEMMA SumAligned ==
    ASSUME NEW n \in Nat \ {0}, NEW a \in Nat, a % n = 0, NEW k \in Nat
    PROVE  (a + k * n) % n = 0 /\ k * n \in Nat
<1>1. (a + n * k) % n = a % n
  BY AddMultiple
<1>2. k * n = n * k /\ n * k \in Nat
  BY Product
<1> QED  BY <1>1, <1>2

\* A multiple of n below m, a multiple of n too, is at least n below it.
LEMMA MultipleBelow ==
    ASSUME NEW n \in Nat \ {0}, NEW m \in Nat, m % n = 0, NEW a \in Nat, a % n = 0, a < m
    PROVE  a + n <= m
<1>1. PICK p \in Nat : a = n * p
  BY Divides
<1>2. PICK q \in Nat : m = n * q
  BY Divides
<1>3. p < q
  <2>1. ASSUME q < p  PROVE FALSE
    <3>1. n * q + n <= n * p
      BY <2>1, MulMono
    <3>2. n * q \in Nat /\ n * p \in Nat
      BY Product
    <3> QED  BY <3>1, <3>2, <1>1, <1>2
  <2>2. p # q
    BY <1>1, <1>2
  <2> QED  BY <2>1, <2>2
<1> QED  BY <1>1, <1>2, <1>3, MulMono

-----------------------------------------------------------------------------
(* The address of a beat *)

\* The numbers of bytes of a beat that AXI4 has.
LEMMA SizeBytes ==
    ASSUME NEW size \in 0 .. 7
    PROVE  2 ^ size \in Nat \ {0}
<1> DEFINE Good(x) == x \in Nat \ {0}
<1>1. /\ Good(2 ^ 0) /\ Good(2 ^ 1) /\ Good(2 ^ 2) /\ Good(2 ^ 3)
      /\ Good(2 ^ 4) /\ Good(2 ^ 5) /\ Good(2 ^ 6) /\ Good(2 ^ 7)
  OBVIOUS
<1>2. \/ size = 0 \/ size = 1 \/ size = 2 \/ size = 3
      \/ size = 4 \/ size = 5 \/ size = 6 \/ size = 7
  OBVIOUS
<1> HIDE DEF Good
<1>3. Good(2 ^ size)
  BY <1>1, <1>2, Zenon
<1> QED  BY <1>3 DEF Good

Window(b) == (b.len + 1) * 2 ^ b.size

\* What BurstAssumption says of a shape, and so of a burst.
GoodShape(b) ==
    /\ b.addr \in 0 .. AddrMod - 1 /\ b.size \in 0 .. 7 /\ b.len \in 0 .. 255
    /\ b.burst \in {"fixed", "incr", "wrap"}
    /\ AddrMod % (2 ^ b.size) = 0
    /\ b.burst = "wrap" => b.addr % (2 ^ b.size) = 0 /\ AddrMod % Window(b) = 0

LEMMA ShapeNumbers ==
    ASSUME NEW b, GoodShape(b)
    PROVE  /\ 2 ^ b.size \in Nat \ {0} /\ b.len + 1 \in Nat \ {0} /\ b.len \in Nat
           /\ b.addr \in Nat /\ AddrMod \in Nat \ {0}
<1>1. b.size \in 0 .. 7 /\ b.addr \in 0 .. AddrMod - 1 /\ b.len \in 0 .. 255
  BY Zenon DEF GoodShape
<1>2. 2 ^ b.size \in Nat \ {0}
  BY <1>1, SizeBytes, Zenon
<1>3. b.addr \in Nat /\ b.len + 1 \in Nat \ {0} /\ b.len \in Nat
  BY <1>1
<1>4. AddrMod \in Nat \ {0}
  BY BurstAssumption, Zenon
<1> QED  BY <1>2, <1>3, <1>4, Zenon

LEMMA FirstAddr ==
    ASSUME NEW b
    PROVE  BeatAddr(b, 0) = b.addr
  BY DEF BeatAddr

\* The address of a beat of a wrapping burst, the first included.
LEMMA WrapAddr ==
    ASSUME NEW b, GoodShape(b), b.burst = "wrap", NEW k \in Nat
    PROVE  LET base == AlignDown(b.addr, Window(b))
               o == ((b.addr % Window(b)) + k * 2 ^ b.size) % Window(b)
           IN  BeatAddr(b, k) = base + o
<1> DEFINE W == Window(b)
           base == AlignDown(b.addr, W)
           off == b.addr % W
           n == 2 ^ b.size
<1>1. n \in Nat \ {0} /\ b.len + 1 \in Nat \ {0} /\ b.addr \in Nat
  BY ShapeNumbers
<1>2. W \in Nat \ {0}
  <2> DEFINE l == b.len + 1
  <2>1. l \in Nat \ {0} /\ W = l * n
    BY <1>1 DEF Window
  <2> HIDE DEF l, W, n
  <2>2. l * n \in Nat /\ l * n # 0
    BY <2>1, <1>1, Z3T(30)
  <2> QED  BY <2>1, <2>2
<1>3. base \in Nat /\ b.addr = base + off /\ off = b.addr - base
  <2>1. off \in Nat
    <3>1. PICK q \in Nat, r \in 0 .. W - 1 : b.addr = W * q + r /\ b.addr % W = r
      BY <1>1, <1>2, Split
    <3> QED  BY <3>1
  <2> HIDE DEF W
  <2>2. base \in Nat /\ b.addr = base + off
    BY <1>1, <1>2, Aligned
  <2> QED  BY <2>1, <2>2, <1>1
<1>4. CASE k = 0
  <2>1. k * n = 0
    BY <1>4, <1>1, Z3T(30)
  <2>2. off \in 0 .. W - 1
    <3>1. PICK q \in Nat, r \in 0 .. W - 1 : b.addr = W * q + r /\ b.addr % W = r
      BY <1>1, <1>2, Split
    <3> QED  BY <3>1
  <2>3. (W * 0 + off) % W = off
    <3> HIDE DEF W, off
    <3> QED  BY <1>2, <2>2, DivMod
  <2>4. W * 0 + off = off
    <3> HIDE DEF W, off
    <3> QED  BY <1>2, <2>2, Z3T(30)
  <2>5. off + k * n = off
    <3> HIDE DEF W, off, n
    <3> QED  BY <2>1, <2>2
  <2>6. (off + k * n) % W = off
    BY <2>3, <2>4, <2>5
  <2>7. BeatAddr(b, k) = b.addr
    BY <1>4, FirstAddr
  <2> QED  BY <2>6, <2>7, <1>3
<1>5. CASE k # 0
  <2>1. BeatAddr(b, k) = base + (((b.addr - base) + k * n) % W)
    BY <1>5 DEF BeatAddr, Window
  <2> QED  BY <2>1, <1>3
<1> QED  BY <1>4, <1>5

LEMMA BytesOfShape ==
    ASSUME NEW b, GoodShape(b)
    PROVE  /\ 2 ^ b.size \in Nat \ {0} /\ Window(b) \in Nat \ {0}
           /\ AddrMod \in Nat \ {0} /\ b.addr \in Nat
           /\ Window(b) % (2 ^ b.size) = 0
<1> DEFINE n == 2 ^ b.size
           l == b.len + 1
<1>1. n \in Nat \ {0} /\ l \in Nat \ {0} /\ b.addr \in Nat /\ AddrMod \in Nat \ {0}
  BY ShapeNumbers
<1>2. Window(b) = l * n
  BY DEF Window
<1> HIDE DEF n, l
<1>3. l * n = n * l + 0
  BY <1>1, Z3T(30)
<1>4. (n * l + 0) % n = 0
  BY <1>1, DivMod
<1>5. n * l \in Nat \ {0}
  BY <1>1, Z3T(30)
<1>6. n * l = l * n
  BY <1>1, Product
<1> QED  BY <1>1, <1>2, <1>3, <1>4, <1>5, <1>6 DEF n

\* BeatAddr stays in the address space.
LEMMA AddrInRange ==
    ASSUME NEW b, GoodShape(b), NEW k \in Nat
    PROVE  BeatAddr(b, k) \in 0 .. AddrMod - 1
<1> DEFINE W == Window(b)
           n == 2 ^ b.size
<1>1. n \in Nat \ {0} /\ W \in Nat \ {0} /\ AddrMod \in Nat \ {0} /\ b.addr \in Nat
  BY BytesOfShape
<1>2. CASE b.burst = "wrap"
  <2> DEFINE base == AlignDown(b.addr, W)
             off == b.addr % W
             x == off + k * n
  <2>1. BeatAddr(b, k) = base + (x % W)
    BY <1>2, WrapAddr
  <2>2. base \in Nat /\ base <= b.addr /\ base % W = 0 /\ b.addr = base + off
    <3> HIDE DEF W
    <3> QED  BY <1>1, Aligned
  <2>3. base + W <= AddrMod
    <3>1. AddrMod % W = 0 /\ base < AddrMod
      BY <1>2, <2>2, <1>1 DEF GoodShape
    <3> HIDE DEF W, base
    <3> QED  BY <3>1, <2>2, <1>1, MultipleBelow
  <2>4. x \in Nat
    <3>1. k * n \in Nat
      <4> HIDE DEF n
      <4> QED  BY <1>1, Product
    <3>2. off \in Nat
      <4> HIDE DEF W
      <4>1. PICK q \in Nat, r \in 0 .. W - 1 : b.addr = W * q + r /\ b.addr % W = r
        BY <1>1, Split
      <4> QED  BY <4>1
    <3> HIDE DEF off, n
    <3> QED  BY <3>1, <3>2
  <2>5. x % W \in 0 .. W - 1
    <3> HIDE DEF x, W
    <3>1. PICK q \in Nat, r \in 0 .. W - 1 : x = W * q + r /\ x % W = r
      BY <2>4, <1>1, Split
    <3> QED  BY <3>1
  <2> HIDE DEF base, x, W
  <2> QED  BY <2>1, <2>2, <2>3, <2>5, <1>1
<1>3. CASE b.burst # "wrap" /\ k # 0
  <2> DEFINE x == AlignDown(b.addr, n) + k * n
  <2>1. BeatAddr(b, k) = x % AddrMod
    BY <1>3 DEF BeatAddr
  <2>2. x \in Nat
    <3> HIDE DEF n
    <3>1. k * n \in Nat
      BY <1>1, Product
    <3>2. AlignDown(b.addr, n) \in Nat
      BY <1>1, Aligned
    <3> QED  BY <3>1, <3>2
  <2> HIDE DEF x
  <2>3. PICK q \in Nat, r \in 0 .. AddrMod - 1 : x = AddrMod * q + r /\ x % AddrMod = r
    BY <2>2, <1>1, Split
  <2> QED  BY <2>1, <2>3
<1>4. CASE k = 0
  BY <1>4, FirstAddr DEF GoodShape
<1> QED  BY <1>2, <1>3, <1>4

\* fv_addr_for_beat, given the address of a beat, gives that of the next.
LEMMA AddrFollows ==
    ASSUME NEW b, GoodShape(b), NEW k \in Nat
    PROVE  fv_addr_for_beat(BeatAddr(b, k), b.size, b.burst, b.len) = BeatAddr(b, k + 1)
<1> DEFINE W == Window(b)
           n == 2 ^ b.size
           start == BeatAddr(b, k)
           up == (AlignDown(start, n) + n) % AddrMod
<1>1. /\ n \in Nat \ {0} /\ W \in Nat \ {0} /\ AddrMod \in Nat \ {0} /\ b.addr \in Nat
      /\ W % n = 0
  BY BytesOfShape
<1>2. start \in Nat
  <2>1. start \in 0 .. AddrMod - 1
    BY AddrInRange
  <2> HIDE DEF start
  <2> QED  BY <2>1
<1>3. AddrMod % n = 0 /\ (b.burst = "wrap" => b.addr % n = 0 /\ AddrMod % W = 0)
  BY Zenon DEF GoodShape
<1>4. (k + 1) * n = k * n + n /\ k * n \in Nat
  <2> HIDE DEF n
  <2> QED  BY <1>1, Z3T(30)
<1>5. k + 1 # 0 /\ k + 1 \in Nat
  OBVIOUS
<1>6. CASE b.burst = "wrap"
  <2> DEFINE base == AlignDown(b.addr, W)
             off == b.addr % W
             o == (off + k * n) % W
  <2>1. start = base + o
    BY <1>6, WrapAddr
  <2>2. BeatAddr(b, k + 1) = base + ((off + (k + 1) * n) % W)
    BY <1>5, <1>6, WrapAddr
  <2>3. base \in Nat /\ base % W = 0 /\ off \in Nat
    <3> HIDE DEF W
    <3>1. PICK q \in Nat, r \in 0 .. W - 1 : b.addr = W * q + r /\ b.addr % W = r
      BY <1>1, Split
    <3>2. off \in Nat
      BY <3>1
    <3> QED  BY <1>1, <3>2, Aligned, Zenon
  <2>4. o \in 0 .. W - 1
    <3> DEFINE x == off + k * n
    <3>1. x \in Nat
      <4> HIDE DEF off, n
      <4> QED  BY <2>3, <1>4
    <3> HIDE DEF x, W
    <3>2. PICK q \in Nat, r \in 0 .. W - 1 : x = W * q + r /\ x % W = r
      BY <3>1, <1>1, Split
    <3> QED  BY <3>2 DEF x
  <2>5. off % n = 0
    <3>1. off % n = b.addr % n
      <4> HIDE DEF W, n
      <4> QED  BY <1>1, ModMod
    <3> QED  BY <3>1, <1>3, <1>6
  <2>6. base % n = 0
    <3> HIDE DEF W, n, base
    <3>1. (base % W) % n = base % n
      BY <1>1, <2>3, ModMod
    <3>2. 0 % n = 0
      <4>1. (n * 0 + 0) % n = 0
        BY <1>1, DivMod
      <4>2. n * 0 + 0 = 0
        BY <1>1, Z3T(30)
      <4> QED  BY <4>1, <4>2
    <3> QED  BY <3>1, <3>2, <2>3
  <2>7. o % n = 0
    <3> DEFINE x == off + k * n
    <3> HIDE DEF off, n
    <3>1. x % n = 0 /\ x \in Nat
      BY <1>1, <2>3, <2>5, SumAligned
    <3> HIDE DEF x, W
    <3>2. (x % W) % n = x % n
      BY <3>1, <1>1, ModMod
    <3> QED  BY <3>1, <3>2 DEF x
  <2> HIDE DEF W, n, base, off, o, start
  <2>8. start % n = 0
    <3>0. o \in Nat /\ n \in Nat \ {0}
      BY <1>1, <2>4
    <3>1. PICK p \in Nat : o = n * p
      BY <3>0, <2>7, Divides, Zenon
    <3>2. (base + n * p) % n = base % n
      BY <1>1, <2>3, AddMultiple
    <3> QED  BY <3>1, <3>2, <2>1, <2>6
  <2>9. AlignDown(start, n) = start
    BY <1>1, <1>2, <2>8, AlignAligned
  <2>10. up % W = (start + n) % W
    <3>1. start + n \in Nat
      BY <1>1, <1>2
    <3>2. ((start + n) % AddrMod) % W = (start + n) % W
      <4> DEFINE x == start + n
      <4>1. x \in Nat
        BY <3>1
      <4> HIDE DEF x
      <4>2. (x % AddrMod) % W = x % W
        BY <1>1, <1>3, <1>6, <4>1, ModMod
      <4> QED  BY <4>2 DEF x
    <3> QED  BY <2>9, <3>2
  <2>11. (start + n) % W = (o + n) % W
    <3>1. PICK q \in Nat : base = W * q
      BY <1>1, <2>3, Divides
    <3> DEFINE x == o + n
    <3>2. x \in Nat /\ start + n = x + W * q
      BY <3>1, <2>1, <2>3, <2>4, <1>1
    <3> HIDE DEF x
    <3>3. (x + W * q) % W = x % W
      BY <3>2, <1>1, AddMultiple
    <3> QED  BY <3>2, <3>3 DEF x
  <2>12. (o + n) % W = (off + (k + 1) * n) % W
    <3> DEFINE x == off + k * n
    <3>1. x \in Nat /\ x + n = off + (k + 1) * n
      BY <1>1, <1>4, <2>3
    <3>2. o = x % W
      BY DEF o
    <3> HIDE DEF x
    <3>3. ((x % W) + n) % W = (x + n) % W
      BY <3>1, <1>1, AddMod
    <3> QED  BY <3>1, <3>2, <3>3
  <2>13. AlignDown(start, W) = base
    BY <1>1, <2>1, <2>3, <2>4, AlignInWindow
  <2>14. fv_addr_for_beat(start, b.size, b.burst, b.len) = AlignDown(start, W) + (up % W)
    BY <1>6 DEF fv_addr_for_beat, Window, W, n
  <2> QED  BY <2>2, <2>10, <2>11, <2>12, <2>13, <2>14 DEF start
<1>7. CASE b.burst # "wrap"
  <2> DEFINE A == AlignDown(b.addr, n)
  <2>1. A \in Nat /\ A % n = 0
    <3> HIDE DEF n
    <3> QED  BY <1>1, Aligned
  <2>2. BeatAddr(b, k + 1) = (A + (k + 1) * n) % AddrMod
    BY <1>5, <1>7 DEF BeatAddr
  <2>3. fv_addr_for_beat(start, b.size, b.burst, b.len) = up
    BY <1>7 DEF fv_addr_for_beat
  <2>4. CASE k = 0
    <3>1. start = b.addr /\ up = (A + n) % AddrMod
      BY <2>4, FirstAddr
    <3>2. (k + 1) * n = n
      <4> HIDE DEF n
      <4> QED  BY <2>4, <1>1, Z3T(30)
    <3> QED  BY <2>2, <2>3, <3>1, <3>2
  <2>5. CASE k # 0
    <3> DEFINE x == A + k * n
    <3>1. start = x % AddrMod
      BY <1>7, <2>5 DEF BeatAddr
    <3> HIDE DEF start, A, n
    <3>2. x % n = 0 /\ x \in Nat
      BY <1>1, <2>1, <1>4, SumAligned
    <3>3. x + n = A + (k + 1) * n
      BY <1>1, <1>4, <2>1
    <3> HIDE DEF x
    <3>4. start % n = 0
      BY <1>1, <1>3, <3>1, <3>2, ModMod
    <3>5. AlignDown(start, n) = start
      BY <1>1, <1>2, <3>4, AlignAligned
    <3>6. up = (x + n) % AddrMod
      <4>1. ((x % AddrMod) + n) % AddrMod = (x + n) % AddrMod
        BY <1>1, <3>2, AddMod
      <4> QED  BY <4>1, <3>1, <3>5
    <3> QED  BY <2>2, <2>3, <3>3, <3>6 DEF start
  <2> QED  BY <2>4, <2>5
<1> QED  BY <1>6, <1>7

-----------------------------------------------------------------------------
(* Bursts and requests, for either direction *)

BurstSet ==
    [id : Nat, addr : 0 .. AddrMod - 1, size : 0 .. 7, burst : {"fixed", "incr", "wrap"}, len : 0 .. 255]

\* What the master has started: numbered bursts of the shapes considered.
GoodBursts(bursts) ==
    /\ bursts \in Seq(BurstSet)
    /\ \A n \in 1 .. Len(bursts) : bursts[n].id = n /\ GoodShape(bursts[n])

\* The address FIFO holds the latest bursts; a beat counter that is not 0
\* stands in the first of them, and last is the address of the beat before.
Requests(fifo, bursts, count, last) ==
    /\ fifo \in Seq(BurstSet) /\ Len(fifo) <= Len(bursts)
    /\ \A i \in 1 .. Len(fifo) : fifo[i] = bursts[(Len(bursts) - Len(fifo)) + i]
    /\ count \in Nat
    /\ count # 0 =>
           fifo # <<>> /\ count <= Head(fifo).len /\ last = BeatAddr(Head(fifo), count - 1)

\* The next beat to be sent to the slave.
Requested(fifo, bursts, count) == <<(Len(bursts) - Len(fifo)) + 1, count>>

LEMMA NumberedShape ==
    ASSUME NEW shape \in Shapes, NEW n \in Nat
    PROVE  /\ Numbered(shape, n) \in BurstSet /\ Numbered(shape, n).id = n
           /\ GoodShape(Numbered(shape, n))
<1> DEFINE b == Numbered(shape, n)
<1>1. /\ b.id = n /\ b.addr = shape.addr /\ b.size = shape.size
      /\ b.burst = shape.burst /\ b.len = shape.len
  BY DEF Numbered
<1>2. /\ shape.addr \in 0 .. AddrMod - 1 /\ shape.size \in 0 .. 7 /\ shape.len \in 0 .. 255
      /\ shape.burst \in {"fixed", "incr", "wrap"}
      /\ shape.burst = "wrap" => shape.addr % (2 ^ shape.size) = 0
      /\ AddrMod % (2 ^ shape.size) = 0
      /\ shape.burst = "wrap" => AddrMod % ((shape.len + 1) * 2 ^ shape.size) = 0
  <2> DEFINE Shaped(c) ==
        /\ c.addr \in 0 .. AddrMod - 1 /\ c.size \in 0 .. 7 /\ c.len \in 0 .. 255
        /\ c.burst \in {"fixed", "incr", "wrap"}
        /\ c.burst = "fixed" => c.len <= 15
        /\ c.burst = "wrap" => c.len \in {1, 3, 7, 15} /\ c.addr % (2 ^ c.size) = 0
        /\ AddrMod % (2 ^ c.size) = 0
        /\ c.burst = "wrap" => AddrMod % ((c.len + 1) * 2 ^ c.size) = 0
  <2>1. \A c \in Shapes : Shaped(c)
    BY BurstAssumption, Zenon
  <2>2. Shaped(shape)
    <3> HIDE DEF Shaped
    <3> QED  BY <2>1, Zenon
  <2> QED  BY <2>2, Zenon
<1>3. b \in BurstSet
  BY <1>2 DEF Numbered, BurstSet
<1> HIDE DEF b
<1>4. GoodShape(b)
  BY <1>1, <1>2, Zenon DEF GoodShape, Window
<1> QED  BY <1>1, <1>3, <1>4 DEF b

LEMMA BurstsGrow ==
    ASSUME NEW bursts, GoodBursts(bursts), NEW shape \in Shapes
    PROVE  LET b == Numbered(shape, Len(bursts) + 1)
               more == Append(bursts, b)
           IN  /\ GoodBursts(more) /\ b \in BurstSet
               /\ Len(more) = Len(bursts) + 1 /\ more[Len(bursts) + 1] = b
               /\ \A n \in 1 .. Len(bursts) : more[n] = bursts[n]
<1> DEFINE b == Numbered(shape, Len(bursts) + 1)
           more == Append(bursts, b)
<1>1. Len(bursts) \in Nat /\ bursts \in Seq(BurstSet)
  BY DEF GoodBursts
<1>2. b \in BurstSet /\ b.id = Len(bursts) + 1 /\ GoodShape(b)
  <2>1. Len(bursts) + 1 \in Nat
    BY <1>1
  <2> QED  BY <2>1, NumberedShape
<1> HIDE DEF b
<1>3. /\ more \in Seq(BurstSet) /\ Len(more) = Len(bursts) + 1 /\ more[Len(bursts) + 1] = b
      /\ \A n \in 1 .. Len(bursts) : more[n] = bursts[n]
  BY <1>1, <1>2
<1> HIDE DEF more
<1>4. ASSUME NEW n \in 1 .. Len(more)
      PROVE  more[n].id = n /\ GoodShape(more[n])
  <2>1. CASE n = Len(bursts) + 1
    BY <2>1, <1>2, <1>3
  <2>2. CASE n # Len(bursts) + 1
    <3>1. n \in 1 .. Len(bursts)
      BY <2>2, <1>1, <1>3
    <3> QED  BY <3>1, <1>3 DEF GoodBursts
  <2> QED  BY <2>1, <2>2
<1> QED  BY <1>2, <1>3, <1>4 DEF GoodBursts, more, b

\* The beats of the bursts there were are beats still, in the same order.
LEMMA BeatsGrow ==
    ASSUME NEW bursts, GoodBursts(bursts), NEW shape \in Shapes,
           NEW beat \in BeatsOf(bursts)
    PROVE  LET more == Append(bursts, Numbered(shape, Len(bursts) + 1))
           IN  /\ beat \in BeatsOf(more)
               /\ NextBeat(more, beat) = NextBeat(bursts, beat)
               /\ more[beat[1]] = bursts[beat[1]]
<1> DEFINE more == Append(bursts, Numbered(shape, Len(bursts) + 1))
<1>1. /\ Len(more) = Len(bursts) + 1
      /\ \A n \in 1 .. Len(bursts) : more[n] = bursts[n]
  BY BurstsGrow
<1>2. Len(bursts) \in Nat
  BY DEF GoodBursts
<1> HIDE DEF more
<1>3. Len(more) \in Nat /\ Len(bursts) <= Len(more)
  BY <1>1, <1>2
<1>4. /\ beat \in BeatsOf(more)
      /\ NextBeat(more, beat) = NextBeat(bursts, beat)
      /\ more[beat[1]] = bursts[beat[1]]
  BY <1>1, <1>2, <1>3, BeatsOfMore
<1> QED  BY <1>4 DEF more

\* The burst a beat belongs to.
LEMMA BurstOfBeat ==
    ASSUME NEW bursts, GoodBursts(bursts), NEW beat \in BeatsOf(bursts)
    PROVE  /\ beat[1] \in Nat \ {0} /\ beat[2] \in Nat /\ beat = <<beat[1], beat[2]>>
           /\ bursts[beat[1]] \in BurstSet /\ GoodShape(bursts[beat[1]])
           /\ bursts[beat[1]].id = beat[1] /\ bursts[beat[1]].len \in Nat
<1>1. beat \in Position /\ beat[1] \in 1 .. Len(bursts)
  BY DEF BeatsOf
<1>2. bursts[beat[1]] \in BurstSet /\ GoodShape(bursts[beat[1]]) /\ bursts[beat[1]].id = beat[1]
  BY <1>1 DEF GoodBursts
<1>3. bursts[beat[1]].len \in Nat
  BY <1>2 DEF BurstSet
<1>4. beat[1] \in Nat \ {0} /\ beat[2] \in Nat /\ beat = <<beat[1], beat[2]>>
  BY <1>1 DEF Position
<1> QED  BY <1>2, <1>3, <1>4

\* The master starts a burst.
LEMMA RequestNew ==
    ASSUME NEW fifo, NEW bursts, NEW count, NEW last, NEW shape \in Shapes,
           GoodBursts(bursts), Requests(fifo, bursts, count, last)
    PROVE  LET b == Numbered(shape, Len(bursts) + 1)
           IN  /\ Requests(Append(fifo, b), Append(bursts, b), count, last)
               /\ Requested(Append(fifo, b), Append(bursts, b), count) = Requested(fifo, bursts, count)
<1> DEFINE b == Numbered(shape, Len(bursts) + 1)
           more == Append(bursts, b)
           longer == Append(fifo, b)
<1>1. /\ b \in BurstSet /\ Len(more) = Len(bursts) + 1 /\ more[Len(bursts) + 1] = b
      /\ \A n \in 1 .. Len(bursts) : more[n] = bursts[n]
  BY BurstsGrow
<1>2. /\ fifo \in Seq(BurstSet) /\ Len(fifo) <= Len(bursts) /\ Len(fifo) \in Nat
      /\ Len(bursts) \in Nat /\ count \in Nat
      /\ \A i \in 1 .. Len(fifo) : fifo[i] = bursts[(Len(bursts) - Len(fifo)) + i]
  BY DEF Requests, GoodBursts
<1> HIDE DEF b, more
<1>3. /\ longer \in Seq(BurstSet) /\ Len(longer) = Len(fifo) + 1 /\ longer[Len(fifo) + 1] = b
      /\ \A i \in 1 .. Len(fifo) : longer[i] = fifo[i]
      /\ fifo # <<>> => longer # <<>> /\ Head(longer) = Head(fifo)
  <2>1. /\ longer \in Seq(BurstSet) /\ Len(longer) = Len(fifo) + 1
        /\ longer[Len(fifo) + 1] = b
    BY <1>1, <1>2
  <2>2. \A i \in 1 .. Len(fifo) : longer[i] = fifo[i]
    BY <1>1, <1>2
  <2>3. ASSUME fifo # <<>>
        PROVE  longer # <<>> /\ Head(longer) = Head(fifo)
    <3>1. 1 \in 1 .. Len(fifo)
      BY <1>2, <2>3
    <3>2. longer # <<>> /\ Head(longer) = longer[1] /\ Head(fifo) = fifo[1]
      BY <1>2, <2>1, <2>3
    <3> QED  BY <2>2, <3>1, <3>2
  <2> QED  BY <2>1, <2>2, <2>3
<1> HIDE DEF longer
<1>4. Len(more) - Len(longer) = Len(bursts) - Len(fifo)
  BY <1>1, <1>2, <1>3
<1>5. ASSUME NEW i \in 1 .. Len(longer)
      PROVE  longer[i] = more[(Len(more) - Len(longer)) + i]
  <2>1. CASE i = Len(fifo) + 1
    <3>1. (Len(bursts) - Len(fifo)) + i = Len(bursts) + 1
      BY <2>1, <1>2
    <3> QED  BY <3>1, <2>1, <1>1, <1>3, <1>4
  <2>2. CASE i # Len(fifo) + 1
    <3>1. i \in 1 .. Len(fifo) /\ (Len(bursts) - Len(fifo)) + i \in 1 .. Len(bursts)
      BY <2>2, <1>2, <1>3
    <3> QED  BY <3>1, <1>1, <1>2, <1>3, <1>4
  <2> QED  BY <2>1, <2>2
<1>6. Len(longer) <= Len(more)
  BY <1>1, <1>2, <1>3
<1>7. count # 0 =>
        longer # <<>> /\ count <= Head(longer).len /\ last = BeatAddr(Head(longer), count - 1)
  BY <1>3 DEF Requests
<1>8. Requests(longer, more, count, last)
  BY <1>2, <1>3, <1>5, <1>6, <1>7 DEF Requests
<1>9. Requested(longer, more, count) = Requested(fifo, bursts, count)
  BY <1>4 DEF Requested
<1> QED  BY <1>8, <1>9 DEF longer, more, b

\* rl_wr_xaction_master_to_slave and rl_rd_xaction_master_to_slave: the address
\* they send is the one of the next beat, and they step to the beat after it.
LEMMA RequestStep ==
    ASSUME NEW fifo, NEW bursts, NEW count, NEW last,
           GoodBursts(bursts), Requests(fifo, bursts, count, last), fifo # <<>>
    PROVE  LET b == Head(fifo)
               beat == Requested(fifo, bursts, count)
               addr == IF count = 0 THEN b.addr
                       ELSE fv_addr_for_beat(last, b.size, b.burst, b.len)
               fifo2 == IF count < b.len THEN fifo ELSE Tail(fifo)
               count2 == IF count < b.len THEN count + 1 ELSE 0
           IN  /\ beat \in BeatsOf(bursts) /\ b = bursts[beat[1]] /\ b.id = beat[1]
               /\ addr = BeatAddr(bursts[beat[1]], beat[2]) /\ addr \in Nat
               /\ Requests(fifo2, bursts, count2, addr)
               /\ Requested(fifo2, bursts, count2) = NextBeat(bursts, beat)
<1> DEFINE b == Head(fifo)
           n == (Len(bursts) - Len(fifo)) + 1
           beat == Requested(fifo, bursts, count)
           addr == IF count = 0 THEN b.addr
                   ELSE fv_addr_for_beat(last, b.size, b.burst, b.len)
           fifo2 == IF count < b.len THEN fifo ELSE Tail(fifo)
           count2 == IF count < b.len THEN count + 1 ELSE 0
<1>1. /\ fifo \in Seq(BurstSet) /\ Len(fifo) <= Len(bursts) /\ Len(fifo) \in Nat
      /\ Len(bursts) \in Nat /\ count \in Nat /\ bursts \in Seq(BurstSet)
      /\ \A i \in 1 .. Len(fifo) : fifo[i] = bursts[(Len(bursts) - Len(fifo)) + i]
  BY DEF Requests, GoodBursts
<1>2. Len(fifo) >= 1 /\ b = fifo[1]
  BY <1>1
<1>3. n \in 1 .. Len(bursts) /\ b = bursts[n]
  <2>1. n \in 1 .. Len(bursts) /\ 1 \in 1 .. Len(fifo)
    BY <1>1, <1>2
  <2> QED  BY <2>1, <1>1, <1>2
<1>4. b.id = n /\ GoodShape(b) /\ b.len \in Nat
  <2>1. b.id = n /\ GoodShape(b) /\ b \in BurstSet
    BY <1>1, <1>3 DEF GoodBursts
  <2>2. b.len \in Nat
    BY <2>1, ShapeNumbers, Zenon
  <2> QED  BY <2>1, <2>2
<1>5. beat[1] = n /\ beat[2] = count
  BY DEF Requested
<1>6. count <= b.len
  BY <1>4 DEF Requests
<1>7. beat \in BeatsOf(bursts)
  <2>1. beat \in Position
    BY <1>1, <1>3 DEF Requested, Position
  <2> QED  BY <2>1, <1>3, <1>5, <1>6 DEF BeatsOf
<1> HIDE DEF b, n
<1>8. addr = BeatAddr(b, count)
  <2>1. CASE count = 0
    BY <2>1, FirstAddr
  <2>2. CASE count # 0
    <3>1. last = BeatAddr(b, count - 1) /\ count - 1 \in Nat /\ (count - 1) + 1 = count
      BY <2>2, <1>1 DEF Requests, b
    <3> DEFINE k == count - 1
    <3>2. fv_addr_for_beat(BeatAddr(b, k), b.size, b.burst, b.len) = BeatAddr(b, k + 1)
      <4>1. k \in Nat
        BY <3>1
      <4> HIDE DEF k
      <4> QED  BY <4>1, <1>4, AddrFollows
    <3> QED  BY <2>2, <3>1, <3>2
  <2> QED  BY <2>1, <2>2
<1>9. addr \in Nat
  <2>1. BeatAddr(b, count) \in 0 .. AddrMod - 1
    BY <1>1, <1>4, AddrInRange
  <2> HIDE DEF addr
  <2> QED  BY <2>1, <1>8
<1> HIDE DEF addr, beat
<1>10. /\ Requests(fifo2, bursts, count2, addr)
       /\ Requested(fifo2, bursts, count2) = NextBeat(bursts, beat)
  <2>1. CASE count < b.len
    <3>1. fifo2 = fifo /\ count2 = count + 1 /\ count2 \in Nat /\ count2 - 1 = count /\ count2 <= b.len
      BY <2>1, <1>1, <1>4
    <3>2. NextBeat(bursts, beat) = <<n, count + 1>>
      BY <2>1, <1>3, <1>5 DEF NextBeat
    <3>3. Requested(fifo2, bursts, count2) = <<n, count + 1>>
      BY <3>1 DEF Requested, n
    <3> HIDE DEF fifo2, count2
    <3>4. Requests(fifo2, bursts, count2, addr)
      BY <3>1, <1>1, <1>8 DEF Requests, b
    <3> QED  BY <3>2, <3>3, <3>4
  <2>2. CASE ~(count < b.len)
    <3>1. fifo2 = Tail(fifo) /\ count2 = 0
      BY <2>2
    <3>2. NextBeat(bursts, beat) = <<n + 1, 0>>
      BY <2>2, <1>3, <1>5 DEF NextBeat
    <3>3. /\ fifo2 \in Seq(BurstSet) /\ Len(fifo2) = Len(fifo) - 1
          /\ \A i \in 1 .. Len(fifo) - 1 : fifo2[i] = fifo[i + 1]
      BY <3>1, <1>1, <1>2
    <3> HIDE DEF fifo2, count2
    <3>4. (Len(bursts) - Len(fifo2)) + 1 = n + 1 /\ Len(fifo2) <= Len(bursts)
      BY <3>3, <1>1 DEF n
    <3>5. ASSUME NEW i \in 1 .. Len(fifo2)
          PROVE  fifo2[i] = bursts[(Len(bursts) - Len(fifo2)) + i]
      <4>1. /\ i \in 1 .. Len(fifo) - 1 /\ i + 1 \in 1 .. Len(fifo)
            /\ (Len(bursts) - Len(fifo2)) + i = (Len(bursts) - Len(fifo)) + (i + 1)
        BY <3>3, <1>1
      <4> QED  BY <4>1, <3>3, <1>1
    <3>6. Requests(fifo2, bursts, count2, addr)
      BY <3>1, <3>3, <3>4, <3>5 DEF Requests
    <3> QED  BY <3>1, <3>2, <3>4, <3>6 DEF Requested
  <2> QED  BY <2>1, <2>2
<1> QED  BY <1>3, <1>4, <1>5, <1>7, <1>8, <1>9, <1>10 DEF b, beat, addr

-----------------------------------------------------------------------------
(* The lengths of the bursts between request and response *)

\* f_w_awlen and f_r_arlen hold the lengths of the bursts whose first beat was
\* sent and whose last was not answered, from burst n on.
OpenLengths(lens, bursts, n, fifo, count) ==
    /\ lens \in Seq(Nat) /\ n \in Nat \ {0}
    /\ n + Len(lens) = (Len(bursts) - Len(fifo)) + (IF count = 0 THEN 1 ELSE 2)
    /\ \A j \in 1 .. Len(lens) : lens[j] = bursts[(n - 1) + j].len

LEMMA LengthsNew ==
    ASSUME NEW lens, NEW bursts, NEW n, NEW fifo, NEW count, NEW last, NEW shape \in Shapes,
           GoodBursts(bursts), Requests(fifo, bursts, count, last),
           OpenLengths(lens, bursts, n, fifo, count)
    PROVE  LET b == Numbered(shape, Len(bursts) + 1)
           IN  OpenLengths(lens, Append(bursts, b), n, Append(fifo, b), count)
<1> DEFINE b == Numbered(shape, Len(bursts) + 1)
           more == Append(bursts, b)
           longer == Append(fifo, b)
<1>1. /\ b \in BurstSet /\ Len(more) = Len(bursts) + 1
      /\ \A i \in 1 .. Len(bursts) : more[i] = bursts[i]
  BY BurstsGrow
<1>2. /\ fifo \in Seq(BurstSet) /\ Len(fifo) <= Len(bursts) /\ Len(fifo) \in Nat
      /\ Len(bursts) \in Nat /\ count \in Nat
      /\ count # 0 => Len(fifo) >= 1
  BY DEF Requests, GoodBursts
<1>3. /\ lens \in Seq(Nat) /\ n \in Nat \ {0} /\ Len(lens) \in Nat
      /\ n + Len(lens) = (Len(bursts) - Len(fifo)) + (IF count = 0 THEN 1 ELSE 2)
      /\ \A j \in 1 .. Len(lens) : lens[j] = bursts[(n - 1) + j].len
  BY DEF OpenLengths
<1> HIDE DEF b
<1>4. Len(longer) = Len(fifo) + 1
  BY <1>1, <1>2
<1> HIDE DEF more, longer
<1>5. Len(more) - Len(longer) = Len(bursts) - Len(fifo)
  BY <1>1, <1>2, <1>4
<1>6. ASSUME NEW j \in 1 .. Len(lens)
      PROVE  lens[j] = more[(n - 1) + j].len
  <2>1. (n - 1) + j \in 1 .. Len(bursts)
    <3>1. n + Len(lens) <= Len(bursts) + 1
      <4>1. CASE count = 0
        BY <1>2, <1>3, <4>1
      <4>2. CASE count # 0
        BY <1>2, <1>3, <4>2
      <4> QED  BY <4>1, <4>2
    <3>2. n \in Nat \ {0} /\ Len(lens) \in Nat /\ Len(bursts) \in Nat
      BY <1>2, <1>3
    <3> QED  BY <3>1, <3>2
  <2> QED  BY <2>1, <1>1, <1>3
<1>7. OpenLengths(lens, more, n, longer, count)
  BY <1>3, <1>5, <1>6 DEF OpenLengths
<1> QED  BY <1>7 DEF more, longer, b

\* A request of a first beat adds the burst's length, one of another beat none.
LEMMA LengthsRequest ==
    ASSUME NEW lens, NEW bursts, NEW n, NEW fifo, NEW count, NEW last,
           GoodBursts(bursts), Requests(fifo, bursts, count, last), fifo # <<>>,
           OpenLengths(lens, bursts, n, fifo, count)
    PROVE  LET b == Head(fifo)
               lens2 == IF count = 0 THEN Append(lens, b.len) ELSE lens
               fifo2 == IF count < b.len THEN fifo ELSE Tail(fifo)
               count2 == IF count < b.len THEN count + 1 ELSE 0
           IN  OpenLengths(lens2, bursts, n, fifo2, count2)
<1> DEFINE b == Head(fifo)
           lens2 == IF count = 0 THEN Append(lens, b.len) ELSE lens
           fifo2 == IF count < b.len THEN fifo ELSE Tail(fifo)
           count2 == IF count < b.len THEN count + 1 ELSE 0
<1>1. /\ fifo \in Seq(BurstSet) /\ Len(fifo) <= Len(bursts) /\ Len(fifo) \in Nat
      /\ Len(bursts) \in Nat /\ count \in Nat /\ Len(fifo) >= 1
      /\ count # 0 => count <= b.len
  BY DEF Requests, GoodBursts
<1>2. /\ lens \in Seq(Nat) /\ n \in Nat \ {0} /\ Len(lens) \in Nat
      /\ n + Len(lens) = (Len(bursts) - Len(fifo)) + (IF count = 0 THEN 1 ELSE 2)
      /\ \A j \in 1 .. Len(lens) : lens[j] = bursts[(n - 1) + j].len
  BY DEF OpenLengths
<1>3. b = bursts[(Len(bursts) - Len(fifo)) + 1] /\ b.len \in Nat
  <2> DEFINE beat == Requested(fifo, bursts, count)
  <2>1. b = bursts[beat[1]] /\ beat \in BeatsOf(bursts)
    BY RequestStep
  <2>2. beat[1] = (Len(bursts) - Len(fifo)) + 1
    BY DEF Requested
  <2> HIDE DEF beat, b
  <2>3. bursts[beat[1]].len \in Nat
    BY <2>1, BurstOfBeat
  <2> QED  BY <2>1, <2>2, <2>3
<1>4. Tail(fifo) \in Seq(BurstSet) /\ Len(Tail(fifo)) = Len(fifo) - 1
  BY <1>1
<1> HIDE DEF b
<1>5. /\ lens2 \in Seq(Nat)
      /\ Len(lens2) = IF count = 0 THEN Len(lens) + 1 ELSE Len(lens)
      /\ \A j \in 1 .. Len(lens) : lens2[j] = lens[j]
      /\ count = 0 => lens2[Len(lens) + 1] = b.len
  BY <1>2, <1>3
<1> HIDE DEF lens2
<1>6. (IF count2 = 0 THEN 1 ELSE 2) - Len(fifo2) = 2 - Len(fifo)
  <2>1. CASE count < b.len
    BY <2>1, <1>1
  <2>2. CASE ~(count < b.len)
    <3>1. count2 = 0 /\ Len(fifo2) = Len(fifo) - 1
      BY <2>2, <1>4
    <3> HIDE DEF count2, fifo2
    <3> QED  BY <3>1, <1>1
  <2> QED  BY <2>1, <2>2
<1>7. Len(fifo2) \in Nat
  BY <1>1, <1>4
<1> HIDE DEF fifo2, count2
<1>8. n + Len(lens2) = (Len(bursts) - Len(fifo2)) + (IF count2 = 0 THEN 1 ELSE 2)
  <2>1. n + Len(lens2) = (Len(bursts) - Len(fifo)) + 2
    <3>1. CASE count = 0
      <4>1. n + Len(lens) = (Len(bursts) - Len(fifo)) + 1 /\ Len(lens2) = Len(lens) + 1
        BY <3>1, <1>2, <1>5
      <4>2. n \in Nat /\ Len(lens) \in Nat /\ Len(bursts) \in Nat /\ Len(fifo) \in Nat
        BY <1>1, <1>2
      <4> QED  BY <4>1, <4>2
    <3>2. CASE count # 0
      <4>1. n + Len(lens) = (Len(bursts) - Len(fifo)) + 2 /\ Len(lens2) = Len(lens)
        BY <3>2, <1>2, <1>5
      <4> QED  BY <4>1
    <3> QED  BY <3>1, <3>2
  <2> QED  BY <2>1, <1>6, <1>7, <1>1
<1>9. ASSUME NEW j \in 1 .. Len(lens2)
      PROVE  lens2[j] = bursts[(n - 1) + j].len
  <2>1. CASE j \in 1 .. Len(lens)
    BY <2>1, <1>2, <1>5
  <2>2. CASE j \notin 1 .. Len(lens)
    <3>1. count = 0 /\ j = Len(lens) + 1
      BY <2>2, <1>2, <1>5
    <3>2. (n - 1) + j = (Len(bursts) - Len(fifo)) + 1
      <4>1. n + Len(lens) = (Len(bursts) - Len(fifo)) + 1 /\ (n - 1) + j = n + Len(lens)
        BY <3>1, <1>2
      <4> QED  BY <4>1
    <3> QED  BY <3>1, <3>2, <1>3, <1>5
  <2> QED  BY <2>1, <2>2
<1>10. OpenLengths(lens2, bursts, n, fifo2, count2)
  BY <1>2, <1>5, <1>8, <1>9 DEF OpenLengths
<1> QED  BY <1>10 DEF lens2, fifo2, count2, b

\* The responses are compared with the length of the burst they belong to; the
\* last one takes it out.
LEMMA LengthsResponse ==
    ASSUME NEW lens, NEW bursts, NEW n, NEW fifo, NEW count,
           OpenLengths(lens, bursts, n, fifo, count), lens # <<>>
    PROVE  /\ Head(lens) = bursts[n].len
           /\ OpenLengths(Tail(lens), bursts, n + 1, fifo, count)
<1> DEFINE rest == Tail(lens)
<1>1. /\ lens \in Seq(Nat) /\ n \in Nat \ {0} /\ Len(lens) \in Nat
      /\ n + Len(lens) = (Len(bursts) - Len(fifo)) + (IF count = 0 THEN 1 ELSE 2)
      /\ \A j \in 1 .. Len(lens) : lens[j] = bursts[(n - 1) + j].len
  BY DEF OpenLengths
<1>2. /\ Len(lens) >= 1 /\ Head(lens) = lens[1] /\ rest \in Seq(Nat)
      /\ Len(rest) = Len(lens) - 1 /\ \A j \in 1 .. Len(lens) - 1 : rest[j] = lens[j + 1]
  BY <1>1
<1>3. (n - 1) + 1 = n /\ 1 \in 1 .. Len(lens)
  BY <1>1, <1>2
<1>4. Head(lens) = bursts[n].len
  BY <1>1, <1>2, <1>3
<1> HIDE DEF rest
<1>5. (n + 1) + Len(rest) = n + Len(lens)
  BY <1>1, <1>2
<1>6. ASSUME NEW j \in 1 .. Len(rest)
      PROVE  rest[j] = bursts[((n + 1) - 1) + j].len
  <2>1. /\ j \in 1 .. Len(lens) - 1 /\ j + 1 \in 1 .. Len(lens)
        /\ ((n + 1) - 1) + j = (n - 1) + (j + 1)
    BY <1>1, <1>2
  <2> QED  BY <2>1, <1>1, <1>2
<1>7. OpenLengths(rest, bursts, n + 1, fifo, count)
  BY <1>1, <1>2, <1>5, <1>6 DEF OpenLengths
<1> QED  BY <1>4, <1>7 DEF rest

-----------------------------------------------------------------------------
(* The inductive invariant *)

\* What can stand for a beat in each kind of FIFO.
AddrItem(bursts) ==
    [beat \in BeatsOf(bursts) |->
        {[id |-> beat[1], addr |-> BeatAddr(bursts[beat[1]], beat[2])]}]
DataItem(bursts) == [beat \in BeatsOf(bursts) |-> {beat}]
ReadItem(bursts) ==
    [beat \in BeatsOf(bursts) |->
        {[id |-> beat[1], data |-> BeatAddr(bursts[beat[1]], beat[2])]}]
LastItem(bursts) ==
    [beat \in BeatsOf(bursts) |->
        {[id |-> beat[1], data |-> BeatAddr(bursts[beat[1]], beat[2]),
          last |-> beat[2] = bursts[beat[1]].len]}]
RespItem(bursts, done) ==
    [beat \in BeatsOf(bursts) |->
        {[id |-> beat[1], resp |-> done[i].resp] : i \in {i \in DOMAIN done : done[i].data = beat}}]

AddrSet == [id : Nat, addr : Nat]
ReadSet == [id : Nat, data : Nat]
LastSet == [id : Nat, data : Nat, last : BOOLEAN]

\* The beats between the master's requests and the answers it has taken: in
\* s_ar up to what was requested, in s_r up to what the slave has answered, in
\* m_r up to what was passed on.
ReadFlow(passed, answered) ==
    /\ Carries(s_ar, AddrItem(rd_bursts), rd_bursts, answered,
               Requested(m_ar, rd_bursts, rg_ar_beat_count))
    /\ Carries(s_r, ReadItem(rd_bursts), rd_bursts, passed, answered)
    /\ Carries(m_r, LastItem(rd_bursts), rd_bursts, r_next, passed)
    /\ passed[2] = rg_r_beat_count
    /\ OpenLengths(f_r_arlen, rd_bursts, passed[1], m_ar, rg_ar_beat_count)

ReadInv ==
    /\ GoodBursts(rd_bursts)
    /\ Requests(m_ar, rd_bursts, rg_ar_beat_count, rg_last_beat_raddr)
    /\ s_ar \in Seq(AddrSet) /\ s_r \in Seq(ReadSet) /\ m_r \in Seq(LastSet)
    /\ \E passed, answered \in Position : ReadFlow(passed, answered)

Before(p, q) == p[1] < q[1] \/ (p[1] = q[1] /\ p[2] < q[2])

\* The slave performs the beats in order, each at its address; next is to come.
InOrder(done, bursts, next) ==
    \A i \in 1 .. Len(done) :
        /\ done[i].data \in BeatsOf(bursts)
        /\ done[i].id = done[i].data[1]
        /\ done[i].addr = BeatAddr(bursts[done[i].data[1]], done[i].data[2])
        /\ Before(done[i].data, next)
        /\ \A j \in 1 .. i - 1 : Before(done[j].data, done[i].data)

\* The first k beats of burst n are performed, and resp is what the first of
\* them that failed was answered, or Okay.
Sums(done, n, k, resp) ==
    /\ \A j \in Nat : j < k => \E i \in 1 .. Len(done) : done[i].data = <<n, j>>
    /\ \/ /\ resp = Okay
          /\ \A i \in 1 .. Len(done) :
                 done[i].data[1] = n /\ done[i].data[2] < k => done[i].resp = Okay
       \/ /\ resp # Okay
          /\ \E i \in 1 .. Len(done) :
                 /\ done[i].data[1] = n /\ done[i].data[2] < k /\ done[i].resp = resp
                 /\ \A j \in 1 .. i - 1 : done[j].data[1] = n => done[j].resp = Okay

Resps == UNION {RespsAt[a] : a \in 0 .. AddrMod - 1}
RespSet == [id : Nat, resp : Resps \cup {Okay}]
DoneSet == [id : Nat, addr : 0 .. AddrMod - 1, data : Position, resp : Resps]

\* The burst whose responses are being summed up.
Summing == (b_taken + Len(m_b)) + 1

WriteFlow(next) ==
    /\ Carries(m_w, DataItem(wr_bursts), wr_bursts,
               Requested(m_aw, wr_bursts, rg_w_beat_count), w_next)
    /\ Carries(s_aw, AddrItem(wr_bursts), wr_bursts, next,
               Requested(m_aw, wr_bursts, rg_w_beat_count))
    /\ Carries(s_w, DataItem(wr_bursts), wr_bursts, next,
               Requested(m_aw, wr_bursts, rg_w_beat_count))
    /\ Carries(s_b, RespItem(wr_bursts, performed), wr_bursts,
               <<Summing, rg_b_beat_count>>, next)
    /\ InOrder(performed, wr_bursts, next)

WriteInv ==
    /\ GoodBursts(wr_bursts)
    /\ Requests(m_aw, wr_bursts, rg_w_beat_count, rg_last_beat_waddr)
    /\ m_w \in Seq(Position) /\ s_aw \in Seq(AddrSet) /\ s_w \in Seq(Position)
    /\ s_b \in Seq(RespSet) /\ m_b \in Seq(RespSet) /\ performed \in Seq(DoneSet)
    /\ b_taken \in Nat /\ rg_b_resp \in Resps \cup {Okay}
    /\ w_next \in BeatsOf(wr_bursts) \cup {<<Len(wr_bursts) + 1, 0>>}
    /\ OpenLengths(f_w_awlen, wr_bursts, Summing, m_aw, rg_w_beat_count)
    /\ Sums(performed, Summing, rg_b_beat_count, rg_b_resp)
    /\ \A j \in 1 .. Len(m_b) :
           /\ m_b[j].id = b_taken + j /\ b_taken + j \in 1 .. Len(wr_bursts)
           /\ Sums(performed, b_taken + j, wr_bursts[b_taken + j].len + 1, m_b[j].resp)
    /\ \E next \in Position : WriteFlow(next)

-----------------------------------------------------------------------------
(* Reads *)

\* What stood for a beat still does when a burst is added.
LEMMA ItemsGrow ==
    ASSUME NEW bursts, GoodBursts(bursts), NEW shape \in Shapes, NEW done
    PROVE  LET more == Append(bursts, Numbered(shape, Len(bursts) + 1))
           IN  \A beat \in BeatsOf(bursts) :
                   /\ beat \in BeatsOf(more)
                   /\ NextBeat(more, beat) = NextBeat(bursts, beat)
                   /\ AddrItem(bursts)[beat] \subseteq AddrItem(more)[beat]
                   /\ DataItem(bursts)[beat] \subseteq DataItem(more)[beat]
                   /\ ReadItem(bursts)[beat] \subseteq ReadItem(more)[beat]
                   /\ LastItem(bursts)[beat] \subseteq LastItem(more)[beat]
                   /\ RespItem(bursts, done)[beat] \subseteq RespItem(more, done)[beat]
<1> DEFINE more == Append(bursts, Numbered(shape, Len(bursts) + 1))
<1> SUFFICES ASSUME NEW beat \in BeatsOf(bursts)
             PROVE  /\ beat \in BeatsOf(more)
                    /\ NextBeat(more, beat) = NextBeat(bursts, beat)
                    /\ AddrItem(bursts)[beat] \subseteq AddrItem(more)[beat]
                    /\ DataItem(bursts)[beat] \subseteq DataItem(more)[beat]
                    /\ ReadItem(bursts)[beat] \subseteq ReadItem(more)[beat]
                    /\ LastItem(bursts)[beat] \subseteq LastItem(more)[beat]
                    /\ RespItem(bursts, done)[beat] \subseteq RespItem(more, done)[beat]
  OBVIOUS
<1>1. /\ beat \in BeatsOf(more) /\ NextBeat(more, beat) = NextBeat(bursts, beat)
      /\ more[beat[1]] = bursts[beat[1]]
  BY BeatsGrow
<1> HIDE DEF more
<1>2. AddrItem(bursts)[beat] = AddrItem(more)[beat]
  BY <1>1 DEF AddrItem
<1>3. DataItem(bursts)[beat] = DataItem(more)[beat]
  BY <1>1 DEF DataItem
<1>4. ReadItem(bursts)[beat] = ReadItem(more)[beat]
  BY <1>1 DEF ReadItem
<1>5. LastItem(bursts)[beat] = LastItem(more)[beat]
  BY <1>1 DEF LastItem
<1>6. RespItem(bursts, done)[beat] = RespItem(more, done)[beat]
  BY <1>1 DEF RespItem
<1> QED  BY <1>1, <1>2, <1>3, <1>4, <1>5, <1>6

LEMMA ReadInit ==
    ASSUME Init
    PROVE  ReadInv
<1>1. /\ rd_bursts = <<>> /\ m_ar = <<>> /\ s_ar = <<>> /\ s_r = <<>> /\ m_r = <<>>
      /\ rg_ar_beat_count = 0 /\ rg_r_beat_count = 0 /\ f_r_arlen = <<>> /\ r_next = <<1, 0>>
  BY DEF Init
<1>2. GoodBursts(rd_bursts)
  BY <1>1 DEF GoodBursts
<1>3. Requests(m_ar, rd_bursts, rg_ar_beat_count, rg_last_beat_raddr)
  BY <1>1 DEF Requests
<1>4. s_ar \in Seq(AddrSet) /\ s_r \in Seq(ReadSet) /\ m_r \in Seq(LastSet)
  BY <1>1
<1>5. Requested(m_ar, rd_bursts, rg_ar_beat_count) = <<1, 0>> /\ <<1, 0>> \in Position
  BY <1>1 DEF Requested, Position
<1>6. OpenLengths(f_r_arlen, rd_bursts, 1, m_ar, rg_ar_beat_count)
  BY <1>1 DEF OpenLengths
<1>7. ReadFlow(<<1, 0>>, <<1, 0>>)
  <2>1. <<1, 0>>[1] = 1 /\ <<1, 0>>[2] = 0
    OBVIOUS
  <2>2. \A item : Carries(<<>>, item, rd_bursts, <<1, 0>>, <<1, 0>>)
    BY <1>5, CarriesNothing
  <2> QED  BY <2>1, <2>2, <1>1, <1>5, <1>6 DEF ReadFlow
<1> QED  BY <1>2, <1>3, <1>4, <1>5, <1>7 DEF ReadInv

LEMMA MasterReadKeeps ==
    ASSUME ReadInv, NEW shape \in Shapes, MasterRead(shape)
    PROVE  ReadInv'
<1> DEFINE b == Numbered(shape, Len(rd_bursts) + 1)
<1>1. /\ rd_bursts' = Append(rd_bursts, b) /\ m_ar' = Append(m_ar, b)
      /\ UNCHANGED <<r_next, s_ar, rg_ar_beat_count, rg_last_beat_raddr, s_r, rg_r_beat_count,
                     m_r, f_r_arlen>>
  BY DEF MasterRead, rd_response
<1>2. PICK passed \in Position, answered \in Position : ReadFlow(passed, answered)
  BY DEF ReadInv
<1>3. /\ GoodBursts(rd_bursts)
      /\ Requests(m_ar, rd_bursts, rg_ar_beat_count, rg_last_beat_raddr)
      /\ s_ar \in Seq(AddrSet) /\ s_r \in Seq(ReadSet) /\ m_r \in Seq(LastSet)
  BY DEF ReadInv
<1>4. GoodBursts(rd_bursts')
  BY <1>1, <1>3, BurstsGrow
<1>5. /\ Requests(m_ar', rd_bursts', rg_ar_beat_count, rg_last_beat_raddr)
      /\ Requested(m_ar', rd_bursts', rg_ar_beat_count)
           = Requested(m_ar, rd_bursts, rg_ar_beat_count)
  BY <1>1, <1>3, RequestNew
<1>6. OpenLengths(f_r_arlen, rd_bursts', passed[1], m_ar', rg_ar_beat_count)
  <2>1. OpenLengths(f_r_arlen, rd_bursts, passed[1], m_ar, rg_ar_beat_count)
    BY <1>2 DEF ReadFlow
  <2> QED  BY <2>1, <1>1, <1>3, LengthsNew
<1>7. /\ \A beat \in BeatsOf(rd_bursts) :
             /\ beat \in BeatsOf(rd_bursts')
             /\ NextBeat(rd_bursts', beat) = NextBeat(rd_bursts, beat)
             /\ AddrItem(rd_bursts)[beat] \subseteq AddrItem(rd_bursts')[beat]
             /\ ReadItem(rd_bursts)[beat] \subseteq ReadItem(rd_bursts')[beat]
             /\ LastItem(rd_bursts)[beat] \subseteq LastItem(rd_bursts')[beat]
  BY <1>1, <1>3, ItemsGrow
<1>8. /\ Carries(s_ar, AddrItem(rd_bursts'), rd_bursts', answered,
                 Requested(m_ar, rd_bursts, rg_ar_beat_count))
      /\ Carries(s_r, ReadItem(rd_bursts'), rd_bursts', passed, answered)
      /\ Carries(m_r, LastItem(rd_bursts'), rd_bursts', r_next, passed)
  <2>1. /\ Carries(s_ar, AddrItem(rd_bursts), rd_bursts, answered,
                   Requested(m_ar, rd_bursts, rg_ar_beat_count))
        /\ Carries(s_r, ReadItem(rd_bursts), rd_bursts, passed, answered)
        /\ Carries(m_r, LastItem(rd_bursts), rd_bursts, r_next, passed)
    BY <1>2 DEF ReadFlow
  <2>2. Carries(s_ar, AddrItem(rd_bursts'), rd_bursts', answered,
                Requested(m_ar, rd_bursts, rg_ar_beat_count))
    BY <2>1, <1>3, <1>7, CarriesMono
  <2>3. Carries(s_r, ReadItem(rd_bursts'), rd_bursts', passed, answered)
    BY <2>1, <1>3, <1>7, CarriesMono
  <2>4. Carries(m_r, LastItem(rd_bursts'), rd_bursts', r_next, passed)
    BY <2>1, <1>3, <1>7, CarriesMono
  <2> QED  BY <2>2, <2>3, <2>4
<1>9. ReadFlow(passed, answered)'
  BY <1>1, <1>2, <1>5, <1>6, <1>8 DEF ReadFlow
<1> QED  BY <1>1, <1>3, <1>4, <1>5, <1>9 DEF ReadInv

LEMMA RdXactionKeeps ==
    ASSUME ReadInv, RdXaction
    PROVE  ReadInv'
<1> DEFINE b == Head(m_ar)
           beat == Requested(m_ar, rd_bursts, rg_ar_beat_count)
           addr == IF rg_ar_beat_count = 0 THEN b.addr
                   ELSE fv_addr_for_beat(rg_last_beat_raddr, b.size, b.burst, b.len)
           item == [id |-> b.id, addr |-> addr]
<1>1. /\ m_ar # <<>>
      /\ s_ar' = Append(s_ar, item)
      /\ f_r_arlen' = IF rg_ar_beat_count = 0 THEN Append(f_r_arlen, b.len) ELSE f_r_arlen
      /\ m_ar' = IF rg_ar_beat_count < b.len THEN m_ar ELSE Tail(m_ar)
      /\ rg_ar_beat_count' = IF rg_ar_beat_count < b.len THEN rg_ar_beat_count + 1 ELSE 0
      /\ rg_last_beat_raddr' = addr
      /\ UNCHANGED <<s_r, rg_r_beat_count, m_r, rd_bursts, r_next>>
  BY DEF RdXaction, rd_response, rd_master
<1>2. PICK passed \in Position, answered \in Position : ReadFlow(passed, answered)
  BY DEF ReadInv
<1>3. /\ GoodBursts(rd_bursts)
      /\ Requests(m_ar, rd_bursts, rg_ar_beat_count, rg_last_beat_raddr)
      /\ s_ar \in Seq(AddrSet) /\ s_r \in Seq(ReadSet) /\ m_r \in Seq(LastSet)
  BY DEF ReadInv
<1>4. /\ beat \in BeatsOf(rd_bursts) /\ b.id = beat[1]
      /\ addr = BeatAddr(rd_bursts[beat[1]], beat[2]) /\ addr \in Nat
      /\ Requests(m_ar', rd_bursts, rg_ar_beat_count', rg_last_beat_raddr')
      /\ Requested(m_ar', rd_bursts, rg_ar_beat_count') = NextBeat(rd_bursts, beat)
  BY <1>1, <1>3, RequestStep
<1>5. OpenLengths(f_r_arlen', rd_bursts, passed[1], m_ar', rg_ar_beat_count')
  <2>1. OpenLengths(f_r_arlen, rd_bursts, passed[1], m_ar, rg_ar_beat_count)
    BY <1>2 DEF ReadFlow
  <2> QED  BY <2>1, <1>1, <1>3, LengthsRequest
<1>6. beat[1] \in Nat
  BY <1>4 DEF BeatsOf, Position
<1> HIDE DEF addr, b, beat
<1>7. item \in AddrSet /\ item \in AddrItem(rd_bursts)[beat]
  BY <1>4, <1>6 DEF AddrSet, AddrItem
<1> HIDE DEF item
<1>8. /\ s_ar' \in Seq(AddrSet)
      /\ Carries(s_ar', AddrItem(rd_bursts), rd_bursts, answered, NextBeat(rd_bursts, beat))
  <2>1. Carries(s_ar, AddrItem(rd_bursts), rd_bursts, answered, beat)
    BY <1>2 DEF ReadFlow, beat
  <2>2. Append(s_ar, item) \in Seq(AddrSet)
    BY <1>3, <1>7
  <2> QED  BY <2>1, <2>2, <1>1, <1>3, <1>4, <1>7, CarriesAppend
<1>9. ReadFlow(passed, answered)'
  BY <1>1, <1>2, <1>4, <1>5, <1>8 DEF ReadFlow
<1> QED  BY <1>1, <1>3, <1>4, <1>8, <1>9 DEF ReadInv

LEMMA SlaveReadKeeps ==
    ASSUME ReadInv, SlaveRead
    PROVE  ReadInv'
<1> DEFINE item == [id |-> Head(s_ar).id, data |-> Head(s_ar).addr]
<1>1. /\ s_ar # <<>> /\ s_ar' = Tail(s_ar) /\ s_r' = Append(s_r, item)
      /\ UNCHANGED <<m_ar, rg_ar_beat_count, rg_last_beat_raddr, rg_r_beat_count, m_r,
                     rd_bursts, r_next, f_r_arlen>>
  BY DEF SlaveRead, rd_master
<1>2. PICK passed \in Position, answered \in Position : ReadFlow(passed, answered)
  BY DEF ReadInv
<1>3. /\ GoodBursts(rd_bursts)
      /\ Requests(m_ar, rd_bursts, rg_ar_beat_count, rg_last_beat_raddr)
      /\ s_ar \in Seq(AddrSet) /\ s_r \in Seq(ReadSet) /\ m_r \in Seq(LastSet)
  BY DEF ReadInv
<1> DEFINE next == NextBeat(rd_bursts, answered)
<1>4. /\ answered \in BeatsOf(rd_bursts) /\ Head(s_ar) \in AddrItem(rd_bursts)[answered]
      /\ Carries(Tail(s_ar), AddrItem(rd_bursts), rd_bursts, next,
                 Requested(m_ar, rd_bursts, rg_ar_beat_count))
  <2>1. Carries(s_ar, AddrItem(rd_bursts), rd_bursts, answered,
                Requested(m_ar, rd_bursts, rg_ar_beat_count))
    BY <1>2 DEF ReadFlow
  <2> QED  BY <2>1, <1>1, <1>3, CarriesTail
<1>5. Tail(s_ar) \in Seq(AddrSet) /\ Head(s_ar) \in AddrSet
  BY <1>1, <1>3
<1>6. item \in ReadSet /\ item \in ReadItem(rd_bursts)[answered]
  <2>1. Head(s_ar) = [id |-> answered[1],
                      addr |-> BeatAddr(rd_bursts[answered[1]], answered[2])]
    BY <1>4 DEF AddrItem
  <2>2. item = [id |-> answered[1],
                data |-> BeatAddr(rd_bursts[answered[1]], answered[2])]
    BY <2>1
  <2>3. item \in ReadSet
    BY <1>5 DEF AddrSet, ReadSet
  <2> HIDE DEF item
  <2> QED  BY <2>2, <2>3, <1>4 DEF ReadItem
<1> HIDE DEF item
<1>7. /\ Append(s_r, item) \in Seq(ReadSet)
      /\ Carries(Append(s_r, item), ReadItem(rd_bursts), rd_bursts, passed, next)
  <2>1. Carries(s_r, ReadItem(rd_bursts), rd_bursts, passed, answered)
    BY <1>2 DEF ReadFlow
  <2>2. Append(s_r, item) \in Seq(ReadSet)
    BY <1>3, <1>6
  <2> QED  BY <2>1, <2>2, <1>3, <1>4, <1>6, CarriesAppend
<1>8. PICK to \in Position : to = next
  BY <1>4, NextIsPosition
<1> HIDE DEF next
<1>9. ReadFlow(passed, to)'
  BY <1>1, <1>2, <1>4, <1>7, <1>8 DEF ReadFlow
<1> QED  BY <1>1, <1>3, <1>5, <1>7, <1>9 DEF ReadInv

LEMMA RdRespKeeps ==
    ASSUME ReadInv, RdResp
    PROVE  ReadInv'
<1> DEFINE more == rg_r_beat_count < Head(f_r_arlen)
           item == [id |-> Head(s_r).id, data |-> Head(s_r).data, last |-> ~more]
<1>1. /\ s_r # <<>> /\ f_r_arlen # <<>>
      /\ m_r' = Append(m_r, item) /\ s_r' = Tail(s_r)
      /\ rg_r_beat_count' = IF more THEN rg_r_beat_count + 1 ELSE 0
      /\ f_r_arlen' = IF more THEN f_r_arlen ELSE Tail(f_r_arlen)
      /\ UNCHANGED <<m_ar, s_ar, rg_ar_beat_count, rg_last_beat_raddr, rd_bursts, r_next>>
  BY DEF RdResp, rd_request, rd_master
<1>2. PICK passed \in Position, answered \in Position : ReadFlow(passed, answered)
  BY DEF ReadInv
<1>3. /\ GoodBursts(rd_bursts)
      /\ Requests(m_ar, rd_bursts, rg_ar_beat_count, rg_last_beat_raddr)
      /\ s_ar \in Seq(AddrSet) /\ s_r \in Seq(ReadSet) /\ m_r \in Seq(LastSet)
  BY DEF ReadInv
<1> DEFINE next == NextBeat(rd_bursts, passed)
           n == passed[1]
<1>4. /\ passed \in BeatsOf(rd_bursts) /\ Head(s_r) \in ReadItem(rd_bursts)[passed]
      /\ Carries(Tail(s_r), ReadItem(rd_bursts), rd_bursts, next, answered)
  <2>1. Carries(s_r, ReadItem(rd_bursts), rd_bursts, passed, answered)
    BY <1>2 DEF ReadFlow
  <2> QED  BY <2>1, <1>1, <1>3, CarriesTail
<1>5. Tail(s_r) \in Seq(ReadSet) /\ Head(s_r) \in ReadSet
  BY <1>1, <1>3
<1>6. /\ passed[2] = rg_r_beat_count
      /\ OpenLengths(f_r_arlen, rd_bursts, n, m_ar, rg_ar_beat_count)
  BY <1>2 DEF ReadFlow
<1>7. /\ Head(f_r_arlen) = rd_bursts[n].len
      /\ OpenLengths(Tail(f_r_arlen), rd_bursts, n + 1, m_ar, rg_ar_beat_count)
  BY <1>1, <1>6, LengthsResponse
<1>8. /\ n \in Nat \ {0} /\ passed[2] \in Nat /\ rd_bursts[n].len \in Nat
      /\ passed[2] <= rd_bursts[n].len
  BY <1>3, <1>4, BurstOfBeat DEF BeatsOf
<1>9. item \in LastSet /\ item \in LastItem(rd_bursts)[passed]
  <2>1. Head(s_r) = [id |-> passed[1], data |-> BeatAddr(rd_bursts[passed[1]], passed[2])]
    BY <1>4 DEF ReadItem
  <2>2. (~more) = (passed[2] = rd_bursts[passed[1]].len)
    BY <1>6, <1>7, <1>8
  <2>3. item = [id |-> passed[1], data |-> BeatAddr(rd_bursts[passed[1]], passed[2]),
                last |-> passed[2] = rd_bursts[passed[1]].len]
    <3> HIDE DEF more
    <3> QED  BY <2>1, <2>2
  <2>4. item \in LastSet
    <3>1. Head(s_r).id \in Nat /\ Head(s_r).data \in Nat
      BY <1>5 DEF ReadSet
    <3>2. (~more) \in BOOLEAN
      OBVIOUS
    <3> HIDE DEF more
    <3> QED  BY <3>1, <3>2 DEF LastSet
  <2> HIDE DEF item
  <2> QED  BY <2>3, <2>4, <1>4 DEF LastItem
<1> HIDE DEF item
<1>10. /\ Append(m_r, item) \in Seq(LastSet)
       /\ Carries(Append(m_r, item), LastItem(rd_bursts), rd_bursts, r_next, next)
  <2>1. Carries(m_r, LastItem(rd_bursts), rd_bursts, r_next, passed)
    BY <1>2 DEF ReadFlow
  <2>2. Append(m_r, item) \in Seq(LastSet)
    BY <1>3, <1>9
  <2> QED  BY <2>1, <2>2, <1>3, <1>4, <1>9, CarriesAppend
<1>11. PICK to \in Position : to = next
  BY <1>4, NextIsPosition
<1>12. /\ next[2] = rg_r_beat_count'
       /\ OpenLengths(f_r_arlen', rd_bursts, next[1], m_ar, rg_ar_beat_count)
  <2>1. CASE more
    <3>1. next = <<n, passed[2] + 1>>
      BY <2>1, <1>6, <1>7 DEF NextBeat
    <3> HIDE DEF next, n
    <3>2. next[1] = n /\ next[2] = passed[2] + 1
      BY <3>1
    <3> QED  BY <2>1, <3>2, <1>1, <1>6
  <2>2. CASE ~more
    <3>1. next = <<n + 1, 0>>
      BY <2>2, <1>6, <1>7 DEF NextBeat
    <3> HIDE DEF next, n
    <3>2. next[1] = n + 1 /\ next[2] = 0
      BY <3>1
    <3> QED  BY <2>2, <3>2, <1>1, <1>7
  <2> QED  BY <2>1, <2>2
<1> HIDE DEF next
<1>13. ReadFlow(to, answered)'
  BY <1>1, <1>2, <1>4, <1>10, <1>11, <1>12 DEF ReadFlow
<1> QED  BY <1>1, <1>3, <1>5, <1>10, <1>13 DEF ReadInv

LEMMA MasterTakeRKeeps ==
    ASSUME ReadInv, MasterTakeR
    PROVE  ReadInv'
<1>1. /\ m_r # <<>> /\ m_r' = Tail(m_r) /\ r_next' = NextBeat(rd_bursts, r_next)
      /\ UNCHANGED <<m_ar, s_ar, rg_ar_beat_count, rg_last_beat_raddr, rd_bursts,
                     s_r, rg_r_beat_count, f_r_arlen>>
  BY DEF MasterTakeR, rd_request
<1>2. PICK passed \in Position, answered \in Position : ReadFlow(passed, answered)
  BY DEF ReadInv
<1>3. /\ GoodBursts(rd_bursts)
      /\ Requests(m_ar, rd_bursts, rg_ar_beat_count, rg_last_beat_raddr)
      /\ s_ar \in Seq(AddrSet) /\ s_r \in Seq(ReadSet) /\ m_r \in Seq(LastSet)
  BY DEF ReadInv
<1>4. Carries(Tail(m_r), LastItem(rd_bursts), rd_bursts, NextBeat(rd_bursts, r_next), passed)
  <2>1. Carries(m_r, LastItem(rd_bursts), rd_bursts, r_next, passed)
    BY <1>2 DEF ReadFlow
  <2> QED  BY <2>1, <1>1, <1>3, CarriesTail
<1>5. Tail(m_r) \in Seq(LastSet)
  BY <1>1, <1>3
<1>6. ReadFlow(passed, answered)'
  BY <1>1, <1>2, <1>4 DEF ReadFlow
<1> QED  BY <1>1, <1>3, <1>5, <1>6 DEF ReadInv

\* What the writes do leaves the reads alone.
LEMMA ReadUnchanged ==
    ASSUME ReadInv, UNCHANGED reads
    PROVE  ReadInv'
  BY DEF ReadInv, ReadFlow, reads, rd_request, rd_response, rd_master, Requested

LEMMA ReadNext ==
    ASSUME ReadInv, [Next]_vars
    PROVE  ReadInv'
<1>1. CASE \E shape \in Shapes : MasterRead(shape)
  BY <1>1, MasterReadKeeps
<1>2. CASE \E shape \in Shapes : MasterWrite(shape)
  BY <1>2, ReadUnchanged DEF MasterWrite
<1>3. CASE WriteSide
  BY <1>3, ReadUnchanged
     DEF WriteSide, WrXaction, WrRespCombine, WrRespLast, MasterSendW, MasterTakeB, SlaveWrite
<1>4. CASE ReadSide
  BY <1>4, RdXactionKeeps, RdRespKeeps, MasterTakeRKeeps, SlaveReadKeeps DEF ReadSide
<1>5. CASE Done \/ UNCHANGED vars
  BY <1>5, ReadUnchanged DEF Done, vars
<1> QED  BY <1>1, <1>2, <1>3, <1>4, <1>5 DEF Next

\* The next read beat is the next one of the oldest unfinished burst, from the
\* address that counts to it, and rlast is set on the last beat and no other
\* (rl_rd_xaction_master_to_slave, rl_rd_resp_slave_to_master).
LEMMA ReadsInStepHolds ==
    ASSUME ReadInv
    PROVE  ReadsInStep
<1> SUFFICES ASSUME m_r # <<>>
             PROVE  Head(m_r) = [id |-> r_next[1],
                                 data |-> BeatAddr(rd_bursts[r_next[1]], r_next[2]),
                                 last |-> r_next[2] = rd_bursts[r_next[1]].len]
  BY DEF ReadsInStep
<1>1. PICK passed \in Position, answered \in Position : ReadFlow(passed, answered)
  BY DEF ReadInv
<1>2. Carries(m_r, LastItem(rd_bursts), rd_bursts, r_next, passed) /\ m_r \in Seq(LastSet)
  BY <1>1 DEF ReadFlow, ReadInv
<1>3. r_next \in BeatsOf(rd_bursts) /\ Head(m_r) \in LastItem(rd_bursts)[r_next]
  BY <1>2, CarriesTail
<1> QED  BY <1>3 DEF LastItem

-----------------------------------------------------------------------------
(* What is said of the writes performed *)

LEMMA BeforeNext ==
    ASSUME NEW bursts, NEW beat \in BeatsOf(bursts)
    PROVE  Before(beat, NextBeat(bursts, beat))
<1>1. PICK n \in Nat, k \in Nat : beat = <<n, k>>
  BY DEF BeatsOf, Position
<1>2. beat[1] = n /\ beat[2] = k
  BY <1>1
<1>3. Before(<<n, k>>, <<n, k + 1>>) /\ Before(<<n, k>>, <<n + 1, 0>>)
  BY DEF Before
<1> QED  BY <1>1, <1>2, <1>3 DEF NextBeat

LEMMA BeforeTrans ==
    ASSUME NEW p \in Position, NEW q \in Position, NEW r \in Position,
           Before(p, q), Before(q, r)
    PROVE  Before(p, r)
  BY DEF Before, Position

LEMMA BeforeItself ==
    ASSUME NEW p \in Position, Before(p, p)
    PROVE  FALSE
  BY DEF Before, Position

LEMMA DoneItem ==
    ASSUME NEW done \in Seq(DoneSet), NEW i \in 1 .. Len(done)
    PROVE  /\ done[i] \in DoneSet /\ done[i].data \in Position
           /\ done[i].data[1] \in Nat /\ done[i].data[2] \in Nat
           /\ done[i].data = <<done[i].data[1], done[i].data[2]>>
<1>1. done[i] \in DoneSet
  OBVIOUS
<1>2. done[i].data \in Position
  BY <1>1 DEF DoneSet
<1> QED  BY <1>1, <1>2 DEF Position

LEMMA DoneAppend ==
    ASSUME NEW done \in Seq(DoneSet), NEW x \in DoneSet
    PROVE  /\ Append(done, x) \in Seq(DoneSet) /\ Len(Append(done, x)) = Len(done) + 1
           /\ Len(done) \in Nat
           /\ Append(done, x)[Len(done) + 1] = x
           /\ \A i \in 1 .. Len(done) : Append(done, x)[i] = done[i]
  OBVIOUS

\* The slave performs the next beat.
LEMMA InOrderAppend ==
    ASSUME NEW done \in Seq(DoneSet), NEW bursts, NEW next \in BeatsOf(bursts),
           InOrder(done, bursts, next), NEW x \in DoneSet,
           x.data = next, x.id = next[1], x.addr = BeatAddr(bursts[next[1]], next[2])
    PROVE  InOrder(Append(done, x), bursts, NextBeat(bursts, next))
<1> DEFINE more == Append(done, x)
           after == NextBeat(bursts, next)
<1>1. /\ Len(more) = Len(done) + 1 /\ Len(done) \in Nat /\ more[Len(done) + 1] = x
      /\ \A i \in 1 .. Len(done) : more[i] = done[i]
  BY DoneAppend
<1>2. next \in Position /\ after \in Position /\ Before(next, after)
  <2>1. next \in Position
    BY DEF BeatsOf
  <2> QED  BY <2>1, NextIsPosition, BeforeNext
<1> HIDE DEF more, after
<1>3. ASSUME NEW i \in 1 .. Len(done)
      PROVE  done[i].data \in Position /\ Before(done[i].data, next) /\ Before(done[i].data, after)
  <2>1. done[i].data \in Position /\ Before(done[i].data, next)
    BY DoneItem DEF InOrder
  <2> QED  BY <2>1, <1>2, BeforeTrans
<1>4. ASSUME NEW i \in 1 .. Len(more)
      PROVE  /\ more[i].data \in BeatsOf(bursts)
             /\ more[i].id = more[i].data[1]
             /\ more[i].addr = BeatAddr(bursts[more[i].data[1]], more[i].data[2])
             /\ Before(more[i].data, after)
             /\ \A j \in 1 .. i - 1 : Before(more[j].data, more[i].data)
  <2>1. CASE i = Len(done) + 1
    <3>1. more[i] = x /\ i - 1 = Len(done)
      BY <2>1, <1>1
    <3>2. \A j \in 1 .. i - 1 : Before(more[j].data, more[i].data)
      BY <3>1, <1>1, <1>3
    <3> QED  BY <3>1, <3>2, <1>2
  <2>2. CASE i # Len(done) + 1
    <3>1. i \in 1 .. Len(done)
      BY <2>2, <1>1
    <3>2. \A j \in 1 .. i - 1 : j \in 1 .. Len(done)
      BY <3>1, <1>1
    <3>3. \A j \in 1 .. i - 1 : more[j] = done[j] /\ Before(done[j].data, done[i].data)
      BY <3>1, <3>2, <1>1 DEF InOrder
    <3>4. more[i] = done[i]
      BY <3>1, <1>1
    <3> QED  BY <3>1, <3>3, <3>4, <1>3 DEF InOrder
  <2> QED  BY <2>1, <2>2
<1> QED  BY <1>4 DEF InOrder, more, after

\* A beat that comes later changes nothing of what is said of earlier ones.
LEMMA SumsAppend ==
    ASSUME NEW done \in Seq(DoneSet), NEW bursts, NEW next \in Position,
           InOrder(done, bursts, next), NEW x \in DoneSet, x.data = next,
           NEW n \in Nat, NEW k \in Nat, NEW resp, Sums(done, n, k, resp)
    PROVE  Sums(Append(done, x), n, k, resp)
<1> DEFINE more == Append(done, x)
<1>1. /\ Len(more) = Len(done) + 1 /\ Len(done) \in Nat /\ more[Len(done) + 1] = x
      /\ \A i \in 1 .. Len(done) : more[i] = done[i]
  BY DoneAppend
<1> HIDE DEF more
<1>2. \A i \in 1 .. Len(done) : i \in 1 .. Len(more)
  BY <1>1
<1>3. ~(next[1] = n /\ next[2] < k)
  <2> SUFFICES ASSUME next[1] = n, next[2] < k  PROVE FALSE
    OBVIOUS
  <2>1. next[2] \in Nat /\ next = <<n, next[2]>>
    BY DEF Position
  <2>2. PICK i \in 1 .. Len(done) : done[i].data = <<n, next[2]>>
    BY <2>1 DEF Sums
  <2>3. Before(done[i].data, next)
    BY <2>2 DEF InOrder
  <2> QED  BY <2>1, <2>2, <2>3, BeforeItself
<1>4. \A j \in Nat : j < k => \E i \in 1 .. Len(more) : more[i].data = <<n, j>>
  BY <1>1, <1>2 DEF Sums
<1>5. \A i \in 1 .. Len(more) :
        more[i].data[1] = n /\ more[i].data[2] < k => i \in 1 .. Len(done) /\ more[i] = done[i]
  <2> SUFFICES ASSUME NEW i \in 1 .. Len(more), more[i].data[1] = n, more[i].data[2] < k
               PROVE  i \in 1 .. Len(done) /\ more[i] = done[i]
    OBVIOUS
  <2>1. i # Len(done) + 1
    BY <1>1, <1>3
  <2>2. i \in 1 .. Len(done)
    BY <2>1, <1>1
  <2> QED  BY <2>2, <1>1
<1>6. CASE resp = Okay
  <2>1. \A i \in 1 .. Len(done) :
          done[i].data[1] = n /\ done[i].data[2] < k => done[i].resp = Okay
    BY <1>6 DEF Sums
  <2>2. \A i \in 1 .. Len(more) :
          more[i].data[1] = n /\ more[i].data[2] < k => more[i].resp = Okay
    BY <2>1, <1>5
  <2> QED  BY <2>2, <1>4, <1>6 DEF Sums, more
<1>7. CASE resp # Okay
  <2>1. PICK i \in 1 .. Len(done) :
          /\ done[i].data[1] = n /\ done[i].data[2] < k /\ done[i].resp = resp
          /\ \A j \in 1 .. i - 1 : done[j].data[1] = n => done[j].resp = Okay
    BY <1>7 DEF Sums
  <2>2. \A j \in 1 .. i - 1 : j \in 1 .. Len(done)
    BY <1>1
  <2>3. /\ more[i].data[1] = n /\ more[i].data[2] < k /\ more[i].resp = resp
        /\ \A j \in 1 .. i - 1 : more[j].data[1] = n => more[j].resp = Okay
    BY <2>1, <2>2, <1>1
  <2>4. i \in 1 .. Len(more)
    BY <1>2
  <2> QED  BY <2>3, <2>4, <1>4, <1>7 DEF Sums, more
<1> QED  BY <1>6, <1>7

\* rl_wr_resp_slave_to_master: the response of one more beat is summed up.
LEMMA SumsOneMore ==
    ASSUME NEW done \in Seq(DoneSet), NEW bursts, NEW next, InOrder(done, bursts, next),
           NEW n \in Nat, NEW k \in Nat, NEW resp, Sums(done, n, k, resp),
           NEW i \in 1 .. Len(done), done[i].data = <<n, k>>
    PROVE  Sums(done, n, k + 1, IF resp = Okay THEN done[i].resp ELSE resp)
<1>1. \A j \in Nat : j < k + 1 => \E m \in 1 .. Len(done) : done[m].data = <<n, j>>
  <2> SUFFICES ASSUME NEW j \in Nat, j < k + 1
               PROVE  \E m \in 1 .. Len(done) : done[m].data = <<n, j>>
    OBVIOUS
  <2>1. j < k \/ j = k
    OBVIOUS
  <2> QED  BY <2>1 DEF Sums
<1>2. CASE resp # Okay
  <2>1. PICK m \in 1 .. Len(done) :
          /\ done[m].data[1] = n /\ done[m].data[2] < k /\ done[m].resp = resp
          /\ \A j \in 1 .. m - 1 : done[j].data[1] = n => done[j].resp = Okay
    BY <1>2 DEF Sums
  <2>2. done[m].data[2] < k + 1
    BY <2>1, DoneItem
  <2>3. Sums(done, n, k + 1, resp)
    BY <2>1, <2>2, <1>1, <1>2 DEF Sums
  <2> QED  BY <2>3, <1>2
<1>3. CASE resp = Okay
  <2>1. \A m \in 1 .. Len(done) :
          done[m].data[1] = n /\ done[m].data[2] < k => done[m].resp = Okay
    BY <1>3 DEF Sums
  <2>2. i \in 1 .. Len(done) /\ done[i].data[1] = n /\ done[i].data[2] = k
    OBVIOUS
  \* The beats of the burst before i are the first k, and those after come later.
  <2>3. ASSUME NEW m \in 1 .. i - 1, done[m].data[1] = n
        PROVE  done[m].resp = Okay
    <3>1. i \in 1 .. Len(done) /\ Before(done[m].data, done[i].data)
      BY Zenon DEF InOrder
    <3>2. m \in 1 .. Len(done)
      <4>1. Len(done) \in Nat
        OBVIOUS
      <4> QED  BY <4>1, <3>1
    <3>3. done[m].data[2] < k
      BY <3>1, <2>2, <2>3 DEF Before
    <3>4. done[m].data[1] = n /\ m \in 1 .. Len(done)
      BY <2>3, <3>2, Zenon
    <3> QED  BY <3>3, <3>4, <2>1, Zenon
  <2>4. ASSUME NEW m \in 1 .. Len(done), done[m].data[1] = n, done[m].data[2] < k + 1
        PROVE  m = i \/ done[m].data[2] < k
    <3>1. CASE m > i
      <4>1. i \in 1 .. m - 1
        BY <3>1
      <4>2. Before(done[i].data, done[m].data)
        BY <4>1 DEF InOrder
      <4>3. done[m].data[2] \in Nat
        BY DoneItem
      <4> QED  BY <4>2, <4>3, <2>2, <2>4 DEF Before
    <3>2. CASE m < i
      <4>1. m \in 1 .. i - 1
        BY <3>2
      <4>2. Before(done[m].data, done[i].data)
        BY <4>1 DEF InOrder
      <4> QED  BY <4>2, <2>2, <2>4 DEF Before
    <3>3. m > i \/ m < i \/ m = i
      OBVIOUS
    <3> QED  BY <3>1, <3>2, <3>3
  <2>5. CASE done[i].resp = Okay
    <3>1. \A m \in 1 .. Len(done) :
            done[m].data[1] = n /\ done[m].data[2] < k + 1 => done[m].resp = Okay
      BY <2>1, <2>4, <2>5
    <3>2. Sums(done, n, k + 1, Okay)
      BY <3>1, <1>1 DEF Sums
    <3> QED  BY <3>2, <2>5, <1>3
  <2>6. CASE done[i].resp # Okay
    <3>1. done[i].data[2] < k + 1
      BY <2>2
    <3>2. Sums(done, n, k + 1, done[i].resp)
      BY <3>1, <2>2, <2>3, <2>6, <1>1 DEF Sums
    <3> QED  BY <3>2, <1>3
  <2> QED  BY <2>5, <2>6
<1> QED  BY <1>2, <1>3

LEMMA SumsNothing ==
    ASSUME NEW done \in Seq(DoneSet), NEW n
    PROVE  Sums(done, n, 0, Okay)
<1>1. \A j \in Nat : ~(j < 0)
  OBVIOUS
<1>2. \A i \in 1 .. Len(done) : ~(done[i].data[2] < 0)
  BY DoneItem
<1> QED  BY <1>1, <1>2 DEF Sums

LEMMA InOrderGrow ==
    ASSUME NEW bursts, GoodBursts(bursts), NEW shape \in Shapes, NEW done, NEW next,
           InOrder(done, bursts, next)
    PROVE  InOrder(done, Append(bursts, Numbered(shape, Len(bursts) + 1)), next)
<1> DEFINE more == Append(bursts, Numbered(shape, Len(bursts) + 1))
<1>1. ASSUME NEW i \in 1 .. Len(done)
      PROVE  /\ done[i].data \in BeatsOf(more)
             /\ more[done[i].data[1]] = bursts[done[i].data[1]]
  BY BeatsGrow DEF InOrder
<1> HIDE DEF more
<1>2. InOrder(done, more, next)
  BY <1>1 DEF InOrder
<1> QED  BY <1>2 DEF more

\* A response stands for its beat still when another write was performed.
LEMMA RespItemAppend ==
    ASSUME NEW bursts, NEW done \in Seq(DoneSet), NEW x \in DoneSet, NEW beat \in BeatsOf(bursts)
    PROVE  RespItem(bursts, done)[beat] \subseteq RespItem(bursts, Append(done, x))[beat]
<1> DEFINE more == Append(done, x)
<1>1. /\ Len(more) = Len(done) + 1 /\ Len(done) \in Nat /\ more \in Seq(DoneSet)
      /\ \A i \in 1 .. Len(done) : more[i] = done[i]
  BY DoneAppend
<1> HIDE DEF more
<1>2. DOMAIN done = 1 .. Len(done) /\ DOMAIN more = 1 .. Len(more)
  BY <1>1
<1>3. \A i \in DOMAIN done : i \in DOMAIN more /\ more[i] = done[i]
  BY <1>1, <1>2
<1>4. RespItem(bursts, done)[beat] =
        {[id |-> beat[1], resp |-> done[i].resp] : i \in {i \in DOMAIN done : done[i].data = beat}}
  BY DEF RespItem
<1>5. RespItem(bursts, more)[beat] =
        {[id |-> beat[1], resp |-> more[i].resp] : i \in {i \in DOMAIN more : more[i].data = beat}}
  BY DEF RespItem
<1>6. ASSUME NEW r \in RespItem(bursts, done)[beat]
      PROVE  r \in RespItem(bursts, more)[beat]
  <2>1. PICK i \in DOMAIN done : done[i].data = beat /\ r = [id |-> beat[1], resp |-> done[i].resp]
    BY <1>4
  <2>2. i \in DOMAIN more /\ more[i] = done[i]
    BY <1>3
  <2> QED  BY <2>1, <2>2, <1>5
<1> QED  BY <1>6 DEF more

-----------------------------------------------------------------------------
(* Writes *)

\* The parts of WriteInv that are not about FIFOs in flow.
WriteTypes ==
    /\ GoodBursts(wr_bursts)
    /\ Requests(m_aw, wr_bursts, rg_w_beat_count, rg_last_beat_waddr)
    /\ m_w \in Seq(Position) /\ s_aw \in Seq(AddrSet) /\ s_w \in Seq(Position)
    /\ s_b \in Seq(RespSet) /\ m_b \in Seq(RespSet) /\ performed \in Seq(DoneSet)
    /\ b_taken \in Nat /\ rg_b_resp \in Resps \cup {Okay}
    /\ w_next \in BeatsOf(wr_bursts) \cup {<<Len(wr_bursts) + 1, 0>>}
    /\ OpenLengths(f_w_awlen, wr_bursts, Summing, m_aw, rg_w_beat_count)

\* The responses that wait for the master, and the one being summed up.
Answers ==
    /\ Sums(performed, Summing, rg_b_beat_count, rg_b_resp)
    /\ \A j \in 1 .. Len(m_b) :
           /\ m_b[j].id = b_taken + j /\ b_taken + j \in 1 .. Len(wr_bursts)
           /\ Sums(performed, b_taken + j, wr_bursts[b_taken + j].len + 1, m_b[j].resp)

LEMMA WriteParts == WriteInv <=> WriteTypes /\ Answers /\ \E next \in Position : WriteFlow(next)
  BY DEF WriteInv, WriteTypes, Answers

LEMMA WriteWhole ==
    ASSUME WriteTypes', Answers', NEW next \in Position, WriteFlow(next)'
    PROVE  WriteInv'
  BY DEF WriteInv, WriteTypes, Answers

LEMMA WriteInit ==
    ASSUME Init
    PROVE  WriteInv
<1>1. /\ wr_bursts = <<>> /\ m_aw = <<>> /\ m_w = <<>> /\ m_b = <<>> /\ s_aw = <<>>
      /\ s_w = <<>> /\ s_b = <<>> /\ rg_w_beat_count = 0 /\ f_w_awlen = <<>>
      /\ rg_b_beat_count = 0 /\ rg_b_resp = Okay /\ performed = <<>> /\ b_taken = 0
      /\ w_next = <<1, 0>>
  BY DEF Init
<1>2. GoodBursts(wr_bursts)
  BY <1>1 DEF GoodBursts
<1>3. Requests(m_aw, wr_bursts, rg_w_beat_count, rg_last_beat_waddr)
  BY <1>1 DEF Requests
<1>4. /\ m_w \in Seq(Position) /\ s_aw \in Seq(AddrSet) /\ s_w \in Seq(Position)
      /\ s_b \in Seq(RespSet) /\ m_b \in Seq(RespSet) /\ performed \in Seq(DoneSet)
      /\ b_taken \in Nat /\ rg_b_resp \in Resps \cup {Okay}
  BY <1>1
<1>5. Requested(m_aw, wr_bursts, rg_w_beat_count) = <<1, 0>> /\ <<1, 0>> \in Position
  BY <1>1 DEF Requested, Position
<1>6. Summing = 1
  BY <1>1 DEF Summing
<1>7. OpenLengths(f_w_awlen, wr_bursts, Summing, m_aw, rg_w_beat_count)
  BY <1>1, <1>6 DEF OpenLengths
<1>8. w_next = <<Len(wr_bursts) + 1, 0>>
  BY <1>1
<1>9. WriteTypes
  BY <1>2, <1>3, <1>4, <1>7, <1>8 DEF WriteTypes
<1>10. Answers
  <2>1. Sums(performed, Summing, 0, Okay)
    BY <1>4, SumsNothing
  <2>2. \A j \in 1 .. Len(m_b) : FALSE
    BY <1>1
  <2> QED  BY <2>1, <2>2, <1>1 DEF Answers
<1>11. WriteFlow(<<1, 0>>)
  <2>1. \A item : Carries(<<>>, item, wr_bursts, <<1, 0>>, <<1, 0>>)
    BY <1>5, CarriesNothing
  <2>2. InOrder(performed, wr_bursts, <<1, 0>>)
    BY <1>1 DEF InOrder
  <2> QED  BY <2>1, <2>2, <1>1, <1>5, <1>6 DEF WriteFlow
<1> QED  BY <1>5, <1>9, <1>10, <1>11, WriteParts

LEMMA MasterWriteKeeps ==
    ASSUME WriteInv, NEW shape \in Shapes, MasterWrite(shape)
    PROVE  WriteInv'
<1> DEFINE b == Numbered(shape, Len(wr_bursts) + 1)
           req == Requested(m_aw, wr_bursts, rg_w_beat_count)
<1>1. /\ wr_bursts' = Append(wr_bursts, b) /\ m_aw' = Append(m_aw, b)
      /\ UNCHANGED <<w_next, b_taken, m_w, s_aw, s_w, rg_w_beat_count, rg_last_beat_waddr,
                     s_b, rg_b_beat_count, rg_b_resp, m_b, f_w_awlen, performed>>
  BY DEF MasterWrite, wr_response
<1>2. WriteTypes /\ Answers
  BY WriteParts
<1>3. PICK next \in Position : WriteFlow(next)
  BY WriteParts
<1>4. /\ GoodBursts(wr_bursts)
      /\ Requests(m_aw, wr_bursts, rg_w_beat_count, rg_last_beat_waddr)
      /\ m_w \in Seq(Position) /\ s_aw \in Seq(AddrSet) /\ s_w \in Seq(Position)
      /\ s_b \in Seq(RespSet)
      /\ w_next \in BeatsOf(wr_bursts) \cup {<<Len(wr_bursts) + 1, 0>>}
      /\ OpenLengths(f_w_awlen, wr_bursts, Summing, m_aw, rg_w_beat_count)
  BY <1>2 DEF WriteTypes
<1>5. /\ GoodBursts(wr_bursts') /\ Len(wr_bursts') = Len(wr_bursts) + 1
      /\ wr_bursts'[Len(wr_bursts) + 1] = b
      /\ \A n \in 1 .. Len(wr_bursts) : wr_bursts'[n] = wr_bursts[n]
  BY <1>1, <1>4, BurstsGrow
<1>6. /\ Requests(m_aw', wr_bursts', rg_w_beat_count, rg_last_beat_waddr)
      /\ Requested(m_aw', wr_bursts', rg_w_beat_count) = req
  BY <1>1, <1>4, RequestNew
<1>7. Summing' = Summing
  BY <1>1 DEF Summing
<1>8. OpenLengths(f_w_awlen, wr_bursts', Summing, m_aw', rg_w_beat_count)
  BY <1>1, <1>4, LengthsNew
<1>9. \A beat \in BeatsOf(wr_bursts) :
        /\ beat \in BeatsOf(wr_bursts')
        /\ NextBeat(wr_bursts', beat) = NextBeat(wr_bursts, beat)
        /\ AddrItem(wr_bursts)[beat] \subseteq AddrItem(wr_bursts')[beat]
        /\ DataItem(wr_bursts)[beat] \subseteq DataItem(wr_bursts')[beat]
        /\ RespItem(wr_bursts, performed)[beat] \subseteq RespItem(wr_bursts', performed)[beat]
  BY <1>1, <1>4, ItemsGrow
<1>10. w_next \in BeatsOf(wr_bursts') \cup {<<Len(wr_bursts') + 1, 0>>}
  <2>1. CASE w_next \in BeatsOf(wr_bursts)
    BY <2>1, <1>9
  <2>2. CASE w_next = <<Len(wr_bursts) + 1, 0>>
    <3> DEFINE n == Len(wr_bursts) + 1
    <3>1. n \in 1 .. Len(wr_bursts') /\ n \in Nat
      BY <1>4, <1>5 DEF GoodBursts
    <3>2. wr_bursts'[n].len \in Nat
      <4>1. GoodShape(wr_bursts'[n])
        BY <3>1, <1>5 DEF GoodBursts
      <4> HIDE DEF n
      <4> QED  BY <4>1, ShapeNumbers, Zenon
    <3> HIDE DEF n
    <3>3. <<n, 0>> \in Position /\ <<n, 0>>[1] = n /\ <<n, 0>>[2] = 0
      BY <3>1 DEF Position
    <3>4. <<n, 0>> \in BeatsOf(wr_bursts')
      BY <3>1, <3>2, <3>3 DEF BeatsOf
    <3> QED  BY <2>2, <3>4 DEF n
  <2> QED  BY <2>1, <2>2, <1>4
<1>11. WriteTypes'
  BY <1>1, <1>2, <1>5, <1>6, <1>7, <1>8, <1>10 DEF WriteTypes
<1>12. Answers'
  <2>1. ASSUME NEW j \in 1 .. Len(m_b)
        PROVE  /\ m_b[j].id = b_taken + j /\ b_taken + j \in 1 .. Len(wr_bursts')
               /\ Sums(performed, b_taken + j, wr_bursts'[b_taken + j].len + 1, m_b[j].resp)
    <3>1. /\ m_b[j].id = b_taken + j /\ b_taken + j \in 1 .. Len(wr_bursts)
          /\ Sums(performed, b_taken + j, wr_bursts[b_taken + j].len + 1, m_b[j].resp)
      BY <1>2 DEF Answers
    <3>2. wr_bursts'[b_taken + j] = wr_bursts[b_taken + j] /\ Len(wr_bursts) \in Nat
      BY <3>1, <1>4, <1>5 DEF GoodBursts
    <3> QED  BY <3>1, <3>2, <1>5
  <2> QED  BY <2>1, <1>1, <1>2, <1>7 DEF Answers
<1>13. WriteFlow(next)'
  <2>1. /\ Carries(m_w, DataItem(wr_bursts), wr_bursts, req, w_next)
        /\ Carries(s_aw, AddrItem(wr_bursts), wr_bursts, next, req)
        /\ Carries(s_w, DataItem(wr_bursts), wr_bursts, next, req)
        /\ Carries(s_b, RespItem(wr_bursts, performed), wr_bursts,
                   <<Summing, rg_b_beat_count>>, next)
        /\ InOrder(performed, wr_bursts, next)
    BY <1>3 DEF WriteFlow
  <2> HIDE DEF req
  <2>2. Carries(m_w, DataItem(wr_bursts'), wr_bursts', req, w_next)
    BY <2>1, <1>4, <1>9, CarriesMono
  <2>3. Carries(s_aw, AddrItem(wr_bursts'), wr_bursts', next, req)
    BY <2>1, <1>4, <1>9, CarriesMono
  <2>4. Carries(s_w, DataItem(wr_bursts'), wr_bursts', next, req)
    BY <2>1, <1>4, <1>9, CarriesMono
  <2>5. Carries(s_b, RespItem(wr_bursts', performed), wr_bursts', <<Summing, rg_b_beat_count>>, next)
    BY <2>1, <1>4, <1>9, CarriesMono
  <2>6. InOrder(performed, wr_bursts', next)
    BY <2>1, <1>1, <1>4, InOrderGrow
  <2> QED  BY <2>2, <2>3, <2>4, <2>5, <2>6, <1>1, <1>6, <1>7 DEF WriteFlow
<1> QED  BY <1>11, <1>12, <1>13, WriteWhole

LEMMA MasterSendWKeeps ==
    ASSUME WriteInv, MasterSendW
    PROVE  WriteInv'
<1>1. /\ w_next[1] <= Len(wr_bursts)
      /\ m_w' = Append(m_w, w_next) /\ w_next' = NextBeat(wr_bursts, w_next)
      /\ UNCHANGED <<wr_bursts, b_taken, m_aw, s_aw, s_w, rg_w_beat_count, rg_last_beat_waddr,
                     s_b, rg_b_beat_count, rg_b_resp, m_b, f_w_awlen, performed>>
  BY DEF MasterSendW, wr_response
<1>2. WriteTypes /\ Answers
  BY WriteParts
<1>3. PICK next \in Position : WriteFlow(next)
  BY WriteParts
<1>4. /\ GoodBursts(wr_bursts) /\ Len(wr_bursts) \in Nat /\ m_w \in Seq(Position)
      /\ w_next \in BeatsOf(wr_bursts) \cup {<<Len(wr_bursts) + 1, 0>>}
  BY <1>2 DEF WriteTypes, GoodBursts
<1>5. w_next \in BeatsOf(wr_bursts) /\ w_next \in Position
  <2>1. w_next # <<Len(wr_bursts) + 1, 0>>
    BY <1>1, <1>4
  <2> QED  BY <2>1, <1>4 DEF BeatsOf
<1>6. w_next \in DataItem(wr_bursts)[w_next]
  BY <1>5 DEF DataItem
<1>7. /\ Append(m_w, w_next) \in Seq(Position)
      /\ Carries(Append(m_w, w_next), DataItem(wr_bursts), wr_bursts,
                 Requested(m_aw, wr_bursts, rg_w_beat_count), NextBeat(wr_bursts, w_next))
  <2>1. Carries(m_w, DataItem(wr_bursts), wr_bursts,
                Requested(m_aw, wr_bursts, rg_w_beat_count), w_next)
    BY <1>3 DEF WriteFlow
  <2>2. Append(m_w, w_next) \in Seq(Position)
    BY <1>4, <1>5
  <2> QED  BY <2>1, <2>2, <1>4, <1>5, <1>6, CarriesAppend
<1>8. w_next' \in BeatsOf(wr_bursts) \cup {<<Len(wr_bursts) + 1, 0>>}
  <2> DEFINE n == w_next[1]
             k == w_next[2]
  <2>1. n \in 1 .. Len(wr_bursts) /\ k \in Nat /\ k <= wr_bursts[n].len
    BY <1>5 DEF BeatsOf, Position
  <2>2. wr_bursts[n].len \in Nat
    BY <1>4, <1>5, BurstOfBeat
  <2>3. w_next' = IF k < wr_bursts[n].len THEN <<n, k + 1>> ELSE <<n + 1, 0>>
    BY <1>1 DEF NextBeat
  <2> HIDE DEF n, k
  <2>4. CASE k < wr_bursts[n].len
    <3>1. <<n, k + 1>> \in Position /\ <<n, k + 1>>[1] = n /\ <<n, k + 1>>[2] = k + 1
      BY <2>1, <1>4 DEF Position
    <3>2. k + 1 <= wr_bursts[n].len
      BY <2>1, <2>2, <2>4
    <3> QED  BY <2>1, <2>3, <2>4, <3>1, <3>2 DEF BeatsOf
  <2>5. CASE ~(k < wr_bursts[n].len) /\ n = Len(wr_bursts)
    BY <2>3, <2>5
  <2>6. CASE ~(k < wr_bursts[n].len) /\ n # Len(wr_bursts)
    <3>1. n + 1 \in 1 .. Len(wr_bursts) /\ n + 1 \in Nat
      BY <2>1, <2>6, <1>4
    <3> DEFINE m == n + 1
    <3> HIDE DEF m
    <3>2. m \in 1 .. Len(wr_bursts) /\ m \in Nat
      BY <3>1 DEF m
    <3>3. GoodShape(wr_bursts[m])
      BY <3>2, <1>4 DEF GoodBursts
    <3>4. wr_bursts[m].len \in Nat
      BY <3>3, ShapeNumbers, Zenon
    <3>5. <<m, 0>> \in Position /\ <<m, 0>>[1] = m /\ <<m, 0>>[2] = 0
      BY <3>2 DEF Position
    <3>6. <<m, 0>> \in BeatsOf(wr_bursts)
      BY <3>2, <3>4, <3>5 DEF BeatsOf
    <3> QED  BY <2>3, <2>6, <3>6 DEF m
  <2> QED  BY <2>4, <2>5, <2>6
<1>9. Summing' = Summing
  BY <1>1 DEF Summing
<1>10. WriteTypes'
  BY <1>1, <1>2, <1>7, <1>8, <1>9 DEF WriteTypes
<1>11. Answers'
  BY <1>1, <1>2, <1>9 DEF Answers
<1>12. WriteFlow(next)'
  BY <1>1, <1>3, <1>7, <1>9 DEF WriteFlow
<1> QED  BY <1>10, <1>11, <1>12, WriteWhole

LEMMA WrXactionKeeps ==
    ASSUME WriteInv, WrXaction
    PROVE  WriteInv'
<1> DEFINE b == Head(m_aw)
           beat == Requested(m_aw, wr_bursts, rg_w_beat_count)
           addr == IF rg_w_beat_count = 0 THEN b.addr
                   ELSE fv_addr_for_beat(rg_last_beat_waddr, b.size, b.burst, b.len)
           item == [id |-> b.id, addr |-> addr]
<1>1. /\ m_aw # <<>> /\ m_w # <<>>
      /\ s_aw' = Append(s_aw, item) /\ s_w' = Append(s_w, Head(m_w)) /\ m_w' = Tail(m_w)
      /\ f_w_awlen' = IF rg_w_beat_count = 0 THEN Append(f_w_awlen, b.len) ELSE f_w_awlen
      /\ m_aw' = IF rg_w_beat_count < b.len THEN m_aw ELSE Tail(m_aw)
      /\ rg_w_beat_count' = IF rg_w_beat_count < b.len THEN rg_w_beat_count + 1 ELSE 0
      /\ rg_last_beat_waddr' = addr
      /\ UNCHANGED <<s_b, rg_b_beat_count, rg_b_resp, m_b, wr_bursts, w_next, b_taken, performed>>
  BY DEF WrXaction, wr_response, wr_master
<1>2. WriteTypes /\ Answers
  BY WriteParts
<1>3. PICK next \in Position : WriteFlow(next)
  BY WriteParts
<1>4. /\ GoodBursts(wr_bursts)
      /\ Requests(m_aw, wr_bursts, rg_w_beat_count, rg_last_beat_waddr)
      /\ m_w \in Seq(Position) /\ s_aw \in Seq(AddrSet) /\ s_w \in Seq(Position)
      /\ OpenLengths(f_w_awlen, wr_bursts, Summing, m_aw, rg_w_beat_count)
  BY <1>2 DEF WriteTypes
<1>5. /\ beat \in BeatsOf(wr_bursts) /\ b.id = beat[1]
      /\ addr = BeatAddr(wr_bursts[beat[1]], beat[2]) /\ addr \in Nat
      /\ Requests(m_aw', wr_bursts, rg_w_beat_count', rg_last_beat_waddr')
      /\ Requested(m_aw', wr_bursts, rg_w_beat_count') = NextBeat(wr_bursts, beat)
  BY <1>1, <1>4, RequestStep
<1>6. OpenLengths(f_w_awlen', wr_bursts, Summing, m_aw', rg_w_beat_count')
  BY <1>1, <1>4, LengthsRequest
<1>7. beat[1] \in Nat
  BY <1>5 DEF BeatsOf, Position
<1> HIDE DEF addr, b, beat
<1>8. item \in AddrSet /\ item \in AddrItem(wr_bursts)[beat]
  BY <1>5, <1>7 DEF AddrSet, AddrItem
<1> HIDE DEF item
<1>9. /\ s_aw' \in Seq(AddrSet)
      /\ Carries(s_aw', AddrItem(wr_bursts), wr_bursts, next, NextBeat(wr_bursts, beat))
  <2>1. Carries(s_aw, AddrItem(wr_bursts), wr_bursts, next, beat)
    BY <1>3 DEF WriteFlow, beat
  <2>2. Append(s_aw, item) \in Seq(AddrSet)
    BY <1>4, <1>8
  <2> QED  BY <2>1, <2>2, <1>1, <1>4, <1>5, <1>8, CarriesAppend
<1>10. /\ Head(m_w) \in DataItem(wr_bursts)[beat] /\ Head(m_w) \in Position
       /\ Tail(m_w) \in Seq(Position)
       /\ Carries(Tail(m_w), DataItem(wr_bursts), wr_bursts, NextBeat(wr_bursts, beat), w_next)
  <2>1. Carries(m_w, DataItem(wr_bursts), wr_bursts, beat, w_next)
    BY <1>3 DEF WriteFlow, beat
  <2>2. Head(m_w) \in Position /\ Tail(m_w) \in Seq(Position)
    BY <1>1, <1>4
  <2> QED  BY <2>1, <2>2, <1>1, <1>4, CarriesTail
<1>11. /\ s_w' \in Seq(Position)
       /\ Carries(s_w', DataItem(wr_bursts), wr_bursts, next, NextBeat(wr_bursts, beat))
  <2>1. Carries(s_w, DataItem(wr_bursts), wr_bursts, next, beat)
    BY <1>3 DEF WriteFlow, beat
  <2>2. Append(s_w, Head(m_w)) \in Seq(Position)
    BY <1>4, <1>10
  <2> QED  BY <2>1, <2>2, <1>1, <1>4, <1>5, <1>10, CarriesAppend
<1>12. Summing' = Summing
  BY <1>1 DEF Summing
<1>13. WriteTypes'
  BY <1>1, <1>2, <1>5, <1>6, <1>9, <1>10, <1>11, <1>12 DEF WriteTypes
<1>14. Answers'
  BY <1>1, <1>2, <1>12 DEF Answers
<1>15. WriteFlow(next)'
  BY <1>1, <1>3, <1>5, <1>9, <1>10, <1>11, <1>12 DEF WriteFlow
<1> QED  BY <1>13, <1>14, <1>15, WriteWhole

LEMMA SlaveWriteKeeps ==
    ASSUME WriteInv, SlaveWrite
    PROVE  WriteInv'
<1>1. PICK resp \in RespsAt[Head(s_aw).addr] :
        /\ s_b' = Append(s_b, [id |-> Head(s_aw).id, resp |-> resp])
        /\ performed' = Append(performed, [id |-> Head(s_aw).id, addr |-> Head(s_aw).addr,
                                           data |-> Head(s_w), resp |-> resp])
  BY DEF SlaveWrite
<1>2. /\ s_aw # <<>> /\ s_w # <<>> /\ s_aw' = Tail(s_aw) /\ s_w' = Tail(s_w)
      /\ UNCHANGED <<m_aw, m_w, rg_w_beat_count, rg_last_beat_waddr, rg_b_beat_count,
                     rg_b_resp, m_b, wr_bursts, w_next, b_taken, f_w_awlen>>
  BY DEF SlaveWrite, wr_master
<1> DEFINE x == [id |-> Head(s_aw).id, addr |-> Head(s_aw).addr,
                 data |-> Head(s_w), resp |-> resp]
           item == [id |-> Head(s_aw).id, resp |-> resp]
           req == Requested(m_aw, wr_bursts, rg_w_beat_count)
<1>3. WriteTypes /\ Answers
  BY WriteParts
<1>4. PICK next \in Position : WriteFlow(next)
  BY WriteParts
<1>5. /\ GoodBursts(wr_bursts) /\ s_aw \in Seq(AddrSet) /\ s_w \in Seq(Position)
      /\ s_b \in Seq(RespSet) /\ m_b \in Seq(RespSet) /\ performed \in Seq(DoneSet)
      /\ b_taken \in Nat
  BY <1>3 DEF WriteTypes
<1>6. /\ Carries(s_aw, AddrItem(wr_bursts), wr_bursts, next, req)
      /\ Carries(s_w, DataItem(wr_bursts), wr_bursts, next, req)
      /\ Carries(s_b, RespItem(wr_bursts, performed), wr_bursts,
                 <<Summing, rg_b_beat_count>>, next)
      /\ InOrder(performed, wr_bursts, next)
  BY <1>4 DEF WriteFlow
<1> HIDE DEF req
<1>7. /\ next \in BeatsOf(wr_bursts) /\ Head(s_aw) \in AddrItem(wr_bursts)[next]
      /\ Carries(Tail(s_aw), AddrItem(wr_bursts), wr_bursts, NextBeat(wr_bursts, next), req)
  BY <1>2, <1>5, <1>6, CarriesTail
<1>8. /\ Head(s_w) \in DataItem(wr_bursts)[next]
      /\ Carries(Tail(s_w), DataItem(wr_bursts), wr_bursts, NextBeat(wr_bursts, next), req)
  BY <1>2, <1>5, <1>6, CarriesTail
<1>9. Tail(s_aw) \in Seq(AddrSet) /\ Tail(s_w) \in Seq(Position)
  BY <1>2, <1>5
<1>10. /\ Head(s_aw).id = next[1]
       /\ Head(s_aw).addr = BeatAddr(wr_bursts[next[1]], next[2])
       /\ Head(s_w) = next
  BY <1>7, <1>8 DEF AddrItem, DataItem
<1>11. Head(s_aw).addr \in 0 .. AddrMod - 1 /\ next[1] \in Nat
  <2>1. /\ next[1] \in Nat /\ next[2] \in Nat /\ GoodShape(wr_bursts[next[1]])
    BY <1>5, <1>7, BurstOfBeat
  <2> QED  BY <2>1, <1>10, AddrInRange
<1>12. resp \in Resps
  BY <1>11 DEF Resps
<1>13. /\ x \in DoneSet /\ x.data = next /\ x.id = next[1] /\ x.resp = resp
       /\ x.addr = BeatAddr(wr_bursts[next[1]], next[2])
       /\ item \in RespSet
  BY <1>10, <1>11, <1>12 DEF DoneSet, RespSet
<1>14. item = [id |-> next[1], resp |-> resp]
  BY <1>10
<1> HIDE DEF x, item
<1>15. /\ performed' = Append(performed, x) /\ performed' \in Seq(DoneSet)
       /\ Len(performed') = Len(performed) + 1 /\ Len(performed) \in Nat
       /\ performed'[Len(performed) + 1] = x
  BY <1>1, <1>5, <1>13, DoneAppend DEF x
<1>16. item \in RespItem(wr_bursts, performed')[next]
  <2> DEFINE i == Len(performed) + 1
  <2>1. i \in DOMAIN performed' /\ performed'[i] = x
    BY <1>15
  <2> HIDE DEF i
  <2>2. performed'[i].data = next /\ performed'[i].resp = resp
    BY <2>1, <1>13
  <2> DEFINE all == performed'
  <2>3. i \in DOMAIN all /\ all[i].data = next /\ item = [id |-> next[1], resp |-> all[i].resp]
    BY <2>1, <2>2, <1>14
  <2> HIDE DEF all
  <2>4. item \in RespItem(wr_bursts, all)[next]
    BY <2>3, <1>7 DEF RespItem
  <2> QED  BY <2>4 DEF all
<1>17. /\ Append(s_b, item) \in Seq(RespSet)
       /\ Carries(Append(s_b, item), RespItem(wr_bursts, performed'), wr_bursts,
                  <<Summing, rg_b_beat_count>>, NextBeat(wr_bursts, next))
  <2>1. \A beat \in BeatsOf(wr_bursts) :
          RespItem(wr_bursts, performed)[beat] \subseteq RespItem(wr_bursts, performed')[beat]
    BY <1>5, <1>13, <1>15, RespItemAppend
  <2> DEFINE old == RespItem(wr_bursts, performed)
             now == RespItem(wr_bursts, performed')
  <2> HIDE DEF old, now
  <2>2. Carries(s_b, now, wr_bursts, <<Summing, rg_b_beat_count>>, next)
    <3>1. Carries(s_b, old, wr_bursts, <<Summing, rg_b_beat_count>>, next)
      BY <1>6 DEF old
    <3>2. \A beat \in BeatsOf(wr_bursts) : old[beat] \subseteq now[beat]
      BY <2>1 DEF old, now
    <3> QED  BY <3>1, <3>2, <1>5, CarriesMono
  <2>3. Append(s_b, item) \in Seq(RespSet)
    BY <1>5, <1>13
  <2>4. item \in now[next]
    BY <1>16 DEF now
  <2>5. Carries(Append(s_b, item), now, wr_bursts, <<Summing, rg_b_beat_count>>,
                NextBeat(wr_bursts, next))
    BY <2>2, <2>4, <1>5, <1>7, <1>13, CarriesAppend
  <2> QED  BY <2>3, <2>5 DEF now
<1>18. InOrder(performed', wr_bursts, NextBeat(wr_bursts, next))
  BY <1>5, <1>6, <1>7, <1>13, <1>15, InOrderAppend
<1>19. Summing' = Summing /\ Summing \in Nat
  <2>1. Len(m_b) \in Nat
    BY <1>5
  <2> QED  BY <2>1, <1>2, <1>5 DEF Summing
<1>20. \A r : \A n, k \in Nat : Sums(performed, n, k, r) => Sums(performed', n, k, r)
  BY <1>5, <1>6, <1>13, <1>15, SumsAppend
<1>21. Answers'
  <2>1. rg_b_beat_count \in Nat
    <3>1. <<Summing, rg_b_beat_count>> \in Position
      BY <1>5, <1>6, CarriesPositions
    <3> QED  BY <3>1 DEF Position
  <2>2. Sums(performed', Summing, rg_b_beat_count, rg_b_resp)
    BY <2>1, <1>3, <1>19, <1>20 DEF Answers
  <2>3. ASSUME NEW j \in 1 .. Len(m_b)
        PROVE  Sums(performed', b_taken + j, wr_bursts[b_taken + j].len + 1, m_b[j].resp)
    <3>1. /\ b_taken + j \in 1 .. Len(wr_bursts)
          /\ Sums(performed, b_taken + j, wr_bursts[b_taken + j].len + 1, m_b[j].resp)
      BY <1>3 DEF Answers
    <3> DEFINE n == b_taken + j
    <3> HIDE DEF n
    <3>2. n \in 1 .. Len(wr_bursts) /\ Sums(performed, n, wr_bursts[n].len + 1, m_b[j].resp)
      BY <3>1 DEF n
    <3>3. GoodShape(wr_bursts[n])
      BY <3>2, <1>5 DEF GoodBursts
    <3>4. wr_bursts[n].len \in Nat
      BY <3>3, ShapeNumbers, Zenon
    <3>5. n \in Nat /\ wr_bursts[n].len + 1 \in Nat
      BY <3>2, <3>4
    <3>6. Sums(performed', n, wr_bursts[n].len + 1, m_b[j].resp)
      BY <3>2, <3>5, <1>20
    <3> QED  BY <3>6 DEF n
  <2> QED  BY <2>2, <2>3, <1>2, <1>3, <1>19 DEF Answers
<1>22. WriteTypes'
  BY <1>1, <1>2, <1>3, <1>9, <1>15, <1>17, <1>19 DEF WriteTypes, item
<1>23. PICK to \in Position : to = NextBeat(wr_bursts, next)
  BY <1>7, NextIsPosition
<1>24. WriteFlow(to)'
  <2>1. Carries(m_w, DataItem(wr_bursts), wr_bursts, req, w_next)
    BY <1>4 DEF WriteFlow, req
  <2>2. s_b' = Append(s_b, item)
    BY <1>1 DEF item
  <2>3. Requested(m_aw', wr_bursts', rg_w_beat_count') = req
    BY <1>2 DEF req
  <2> QED  BY <2>1, <2>2, <2>3, <1>2, <1>7, <1>8, <1>17, <1>18, <1>19, <1>23 DEF WriteFlow
<1> QED  BY <1>21, <1>22, <1>24, WriteWhole

\* The response at the head of s_b is that of the next beat to be summed up.
LEMMA NextResponse ==
    ASSUME WriteInv, s_b # <<>>, f_w_awlen # <<>>,
           NEW next \in Position, WriteFlow(next)
    PROVE  LET beat == <<Summing, rg_b_beat_count>>
               first == Head(s_b).resp
           IN  /\ beat \in BeatsOf(wr_bursts) /\ Summing \in 1 .. Len(wr_bursts)
               /\ Summing \in Nat /\ rg_b_beat_count \in Nat
               /\ rg_b_beat_count <= Head(f_w_awlen)
               /\ Head(f_w_awlen) = wr_bursts[Summing].len /\ Head(f_w_awlen) \in Nat
               /\ Head(s_b).id = Summing /\ first \in Resps \cup {Okay}
               /\ Tail(s_b) \in Seq(RespSet)
               /\ Carries(Tail(s_b), RespItem(wr_bursts, performed), wr_bursts,
                          NextBeat(wr_bursts, beat), next)
               /\ Sums(performed, Summing, rg_b_beat_count + 1,
                       IF rg_b_resp = Okay THEN first ELSE rg_b_resp)
               /\ OpenLengths(Tail(f_w_awlen), wr_bursts, Summing + 1, m_aw, rg_w_beat_count)
<1> DEFINE n == Summing
           k == rg_b_beat_count
           beat == <<n, k>>
           items == RespItem(wr_bursts, performed)
<1>1. WriteTypes /\ Answers
  BY WriteParts
<1>2. /\ GoodBursts(wr_bursts) /\ s_b \in Seq(RespSet) /\ performed \in Seq(DoneSet)
      /\ OpenLengths(f_w_awlen, wr_bursts, n, m_aw, rg_w_beat_count)
  BY <1>1 DEF WriteTypes
<1>3. Carries(s_b, items, wr_bursts, beat, next) /\ InOrder(performed, wr_bursts, next)
  BY DEF WriteFlow
<1>4. Sums(performed, n, k, rg_b_resp)
  BY <1>1 DEF Answers
<1> HIDE DEF n, k, items
<1>5. /\ beat \in BeatsOf(wr_bursts) /\ Head(s_b) \in items[beat]
      /\ Carries(Tail(s_b), items, wr_bursts, NextBeat(wr_bursts, beat), next)
  BY <1>2, <1>3, CarriesTail
<1>6. beat[1] = n /\ beat[2] = k
  OBVIOUS
<1>7. /\ n \in 1 .. Len(wr_bursts) /\ n \in Nat /\ k \in Nat /\ k <= wr_bursts[n].len
      /\ wr_bursts[n].len \in Nat
  <2>1. n \in 1 .. Len(wr_bursts) /\ k <= wr_bursts[n].len
    BY <1>5, <1>6 DEF BeatsOf
  <2>2. n \in Nat \ {0} /\ k \in Nat /\ wr_bursts[n].len \in Nat
    BY <1>2, <1>5, <1>6, BurstOfBeat
  <2> QED  BY <2>1, <2>2
<1>8. /\ Head(f_w_awlen) = wr_bursts[n].len
      /\ OpenLengths(Tail(f_w_awlen), wr_bursts, n + 1, m_aw, rg_w_beat_count)
  BY <1>2, LengthsResponse
<1>9. Tail(s_b) \in Seq(RespSet) /\ Head(s_b) \in RespSet
  BY <1>2
<1>10. Head(s_b).resp \in Resps \cup {Okay}
  BY <1>9 DEF RespSet
<1>11. PICK i \in DOMAIN performed :
         performed[i].data = beat /\ Head(s_b) = [id |-> beat[1], resp |-> performed[i].resp]
  <2>1. items[beat] = {[id |-> beat[1], resp |-> performed[i].resp] :
                          i \in {i \in DOMAIN performed : performed[i].data = beat}}
    <3> HIDE DEF beat
    <3> QED  BY <1>5 DEF RespItem, items
  <2> HIDE DEF beat
  <2> QED  BY <2>1, <1>5
<1>12. Head(s_b).id = n /\ Head(s_b).resp = performed[i].resp
  BY <1>6, <1>11
<1>13. i \in 1 .. Len(performed)
  BY <1>2
<1>14. Sums(performed, n, k + 1, IF rg_b_resp = Okay THEN performed[i].resp ELSE rg_b_resp)
  BY <1>2, <1>3, <1>4, <1>7, <1>11, <1>13, SumsOneMore
<1> QED  BY <1>5, <1>7, <1>8, <1>9, <1>10, <1>12, <1>14 DEF n, k, items

LEMMA WrRespCombineKeeps ==
    ASSUME WriteInv, WrRespCombine
    PROVE  WriteInv'
<1>1. /\ s_b # <<>> /\ f_w_awlen # <<>> /\ rg_b_beat_count < Head(f_w_awlen)
      /\ rg_b_resp' = IF rg_b_resp = Okay THEN Head(s_b).resp ELSE rg_b_resp
      /\ rg_b_beat_count' = rg_b_beat_count + 1 /\ s_b' = Tail(s_b)
      /\ UNCHANGED <<m_b, m_aw, m_w, s_aw, s_w, rg_w_beat_count, rg_last_beat_waddr,
                     wr_bursts, w_next, b_taken, f_w_awlen, performed>>
  BY DEF WrRespCombine, wr_request, wr_master
<1>2. WriteTypes /\ Answers
  BY WriteParts
<1>3. PICK next \in Position : WriteFlow(next)
  BY WriteParts
<1> DEFINE beat == <<Summing, rg_b_beat_count>>
<1>4. /\ Summing \in Nat /\ rg_b_beat_count \in Nat
      /\ Head(f_w_awlen) = wr_bursts[Summing].len
      /\ Head(s_b).resp \in Resps \cup {Okay}
      /\ Tail(s_b) \in Seq(RespSet)
      /\ Carries(Tail(s_b), RespItem(wr_bursts, performed), wr_bursts,
                 NextBeat(wr_bursts, beat), next)
      /\ Sums(performed, Summing, rg_b_beat_count + 1,
              IF rg_b_resp = Okay THEN Head(s_b).resp ELSE rg_b_resp)
  BY <1>1, <1>3, NextResponse
<1>5. Summing' = Summing
  BY <1>1 DEF Summing
<1>6. NextBeat(wr_bursts, beat) = <<Summing, rg_b_beat_count + 1>>
  <2>1. beat[1] = Summing /\ beat[2] = rg_b_beat_count
    OBVIOUS
  <2> HIDE DEF beat
  <2> QED  BY <2>1, <1>1, <1>4 DEF NextBeat
<1> HIDE DEF beat
<1>7. rg_b_resp' \in Resps \cup {Okay}
  BY <1>1, <1>2, <1>4 DEF WriteTypes
<1>8. WriteTypes'
  BY <1>1, <1>2, <1>4, <1>5, <1>7 DEF WriteTypes
<1>9. Answers'
  <2>1. Sums(performed, Summing, rg_b_beat_count', rg_b_resp')
    BY <1>1, <1>4
  <2> QED  BY <2>1, <1>1, <1>2, <1>5 DEF Answers
<1>10. WriteFlow(next)'
  BY <1>1, <1>3, <1>4, <1>5, <1>6 DEF WriteFlow
<1> QED  BY <1>8, <1>9, <1>10, WriteWhole

LEMMA WrRespLastKeeps ==
    ASSUME WriteInv, WrRespLast
    PROVE  WriteInv'
<1> DEFINE resp == IF rg_b_resp # Okay THEN rg_b_resp ELSE Head(s_b).resp
           item == [id |-> Head(s_b).id, resp |-> resp]
<1>1. /\ s_b # <<>> /\ f_w_awlen # <<>> /\ rg_b_beat_count >= Head(f_w_awlen)
      /\ m_b' = Append(m_b, item)
      /\ f_w_awlen' = Tail(f_w_awlen)
      /\ rg_b_beat_count' = 0 /\ rg_b_resp' = Okay /\ s_b' = Tail(s_b)
      /\ UNCHANGED <<m_aw, m_w, s_aw, s_w, rg_w_beat_count, rg_last_beat_waddr,
                     wr_bursts, w_next, b_taken, performed>>
  BY DEF WrRespLast, wr_request, wr_master
<1>2. WriteTypes /\ Answers
  BY WriteParts
<1>3. PICK next \in Position : WriteFlow(next)
  BY WriteParts
<1> DEFINE beat == <<Summing, rg_b_beat_count>>
           n == Summing
<1>4. /\ n \in Nat /\ n \in 1 .. Len(wr_bursts) /\ rg_b_beat_count \in Nat
      /\ rg_b_beat_count <= Head(f_w_awlen)
      /\ Head(f_w_awlen) = wr_bursts[n].len /\ Head(f_w_awlen) \in Nat
      /\ Head(s_b).id = n /\ Head(s_b).resp \in Resps \cup {Okay}
      /\ Tail(s_b) \in Seq(RespSet)
      /\ Carries(Tail(s_b), RespItem(wr_bursts, performed), wr_bursts,
                 NextBeat(wr_bursts, beat), next)
      /\ Sums(performed, n, rg_b_beat_count + 1,
              IF rg_b_resp = Okay THEN Head(s_b).resp ELSE rg_b_resp)
      /\ OpenLengths(Tail(f_w_awlen), wr_bursts, n + 1, m_aw, rg_w_beat_count)
  BY <1>1, <1>3, NextResponse
<1>5. /\ rg_b_beat_count = wr_bursts[n].len
      /\ resp = IF rg_b_resp = Okay THEN Head(s_b).resp ELSE rg_b_resp
  BY <1>1, <1>4
<1>6. Sums(performed, n, wr_bursts[n].len + 1, resp)
  BY <1>4, <1>5
<1>7. NextBeat(wr_bursts, beat) = <<n + 1, 0>>
  <2>1. beat[1] = n /\ beat[2] = rg_b_beat_count
    OBVIOUS
  <2> HIDE DEF beat
  <2> QED  BY <2>1, <1>1, <1>4, <1>5 DEF NextBeat
<1>8. item \in RespSet /\ item.id = n /\ item.resp = resp
  <2>1. resp \in Resps \cup {Okay}
    BY <1>2, <1>4 DEF WriteTypes
  <2> HIDE DEF resp
  <2> QED  BY <2>1, <1>4 DEF RespSet
<1> HIDE DEF beat, item, resp
<1>9. /\ m_b' \in Seq(RespSet) /\ Len(m_b') = Len(m_b) + 1 /\ Len(m_b) \in Nat
      /\ m_b'[Len(m_b) + 1] = item
      /\ \A j \in 1 .. Len(m_b) : m_b'[j] = m_b[j]
      /\ b_taken \in Nat /\ performed \in Seq(DoneSet)
  BY <1>1, <1>2, <1>8 DEF WriteTypes
<1>10. Summing' = n + 1
  BY <1>1, <1>9 DEF Summing
<1>11. WriteTypes'
  <2>1. OpenLengths(f_w_awlen', wr_bursts, n + 1, m_aw, rg_w_beat_count)
    BY <1>1, <1>4
  <2>2. Okay \in Resps \cup {Okay}
    OBVIOUS
  <2> HIDE DEF n
  <2> QED  BY <2>1, <2>2, <1>1, <1>2, <1>4, <1>9, <1>10 DEF WriteTypes
<1>12. Answers'
  <2>1. Sums(performed, n + 1, 0, Okay)
    BY <1>9, SumsNothing
  <2>2. ASSUME NEW j \in 1 .. Len(m_b')
        PROVE  /\ m_b'[j].id = b_taken + j /\ b_taken + j \in 1 .. Len(wr_bursts)
               /\ Sums(performed, b_taken + j, wr_bursts[b_taken + j].len + 1, m_b'[j].resp)
    <3>1. CASE j = Len(m_b) + 1
      <4>1. b_taken + j = n /\ m_b'[j] = item
        BY <3>1, <1>9 DEF Summing
      <4> HIDE DEF n
      <4> QED  BY <4>1, <1>4, <1>6, <1>8
    <3>2. CASE j # Len(m_b) + 1
      <4>1. j \in 1 .. Len(m_b) /\ m_b'[j] = m_b[j]
        BY <3>2, <1>9
      <4> QED  BY <4>1, <1>2 DEF Answers
    <3> QED  BY <3>1, <3>2
  <2> HIDE DEF n
  <2> QED  BY <2>1, <2>2, <1>1, <1>10 DEF Answers
<1>13. WriteFlow(next)'
  <2>1. Carries(Tail(s_b), RespItem(wr_bursts, performed), wr_bursts, <<n + 1, 0>>, next)
    BY <1>4, <1>7
  <2> HIDE DEF n
  <2> QED  BY <2>1, <1>1, <1>3, <1>10 DEF WriteFlow
<1> QED  BY <1>11, <1>12, <1>13, WriteWhole

LEMMA MasterTakeBKeeps ==
    ASSUME WriteInv, MasterTakeB
    PROVE  WriteInv'
<1>1. /\ m_b # <<>> /\ m_b' = Tail(m_b) /\ b_taken' = b_taken + 1
      /\ UNCHANGED <<wr_bursts, w_next, m_aw, m_w, s_aw, s_w, rg_w_beat_count,
                     rg_last_beat_waddr, s_b, rg_b_beat_count, rg_b_resp, f_w_awlen, performed>>
  BY DEF MasterTakeB, wr_request
<1>2. WriteTypes /\ Answers
  BY WriteParts
<1>3. PICK next \in Position : WriteFlow(next)
  BY WriteParts
<1>4. m_b \in Seq(RespSet) /\ b_taken \in Nat
  BY <1>2 DEF WriteTypes
<1>5. /\ m_b' \in Seq(RespSet) /\ Len(m_b') = Len(m_b) - 1 /\ Len(m_b) \in Nat
      /\ \A j \in 1 .. Len(m_b) - 1 : m_b'[j] = m_b[j + 1]
  BY <1>1, <1>4
<1>6. Summing' = Summing
  BY <1>1, <1>4, <1>5 DEF Summing
<1>7. WriteTypes'
  BY <1>1, <1>2, <1>4, <1>5, <1>6 DEF WriteTypes
<1>8. Answers'
  <2>1. ASSUME NEW j \in 1 .. Len(m_b')
        PROVE  /\ m_b'[j].id = b_taken' + j /\ b_taken' + j \in 1 .. Len(wr_bursts)
               /\ Sums(performed, b_taken' + j, wr_bursts[b_taken' + j].len + 1, m_b'[j].resp)
    <3>1. /\ j \in 1 .. Len(m_b) - 1 /\ j + 1 \in 1 .. Len(m_b)
          /\ b_taken' + j = b_taken + (j + 1)
      BY <1>1, <1>4, <1>5
    <3>2. m_b'[j] = m_b[j + 1]
      BY <3>1, <1>5
    <3> QED  BY <3>1, <3>2, <1>2 DEF Answers
  <2> QED  BY <2>1, <1>1, <1>2, <1>6 DEF Answers
<1>9. WriteFlow(next)'
  BY <1>1, <1>3, <1>6 DEF WriteFlow
<1> QED  BY <1>7, <1>8, <1>9, WriteWhole

\* What the reads do leaves the writes alone.
LEMMA WriteUnchanged ==
    ASSUME WriteInv, UNCHANGED writes
    PROVE  WriteInv'
<1>1. UNCHANGED <<m_aw, m_w, s_aw, s_w, rg_w_beat_count, rg_last_beat_waddr,
                  s_b, rg_b_beat_count, rg_b_resp, m_b, wr_bursts, w_next, b_taken,
                  f_w_awlen, performed>>
  BY DEF writes, wr_request, wr_response, wr_master
<1>2. PICK next \in Position : WriteFlow(next)
  BY WriteParts
<1>3. WriteTypes' /\ Answers'
  BY <1>1, WriteParts DEF WriteTypes, Answers, Summing
<1>4. WriteFlow(next)'
  BY <1>1, <1>2 DEF WriteFlow, Summing
<1> QED  BY <1>3, <1>4, WriteWhole

LEMMA WriteNext ==
    ASSUME WriteInv, [Next]_vars
    PROVE  WriteInv'
<1>1. CASE \E shape \in Shapes : MasterRead(shape)
  BY <1>1, WriteUnchanged DEF MasterRead
<1>2. CASE \E shape \in Shapes : MasterWrite(shape)
  BY <1>2, MasterWriteKeeps
<1>3. CASE WriteSide
  BY <1>3, WrXactionKeeps, WrRespCombineKeeps, WrRespLastKeeps, MasterSendWKeeps,
     MasterTakeBKeeps, SlaveWriteKeeps DEF WriteSide
<1>4. CASE ReadSide
  BY <1>4, WriteUnchanged DEF ReadSide, RdXaction, RdResp, MasterTakeR, SlaveRead
<1>5. CASE Done \/ UNCHANGED vars
  BY <1>5, WriteUnchanged DEF Done, vars
<1> QED  BY <1>1, <1>2, <1>3, <1>4, <1>5 DEF Next

-----------------------------------------------------------------------------
(* What the invariant says of the answers *)

LEMMA DoneOnce ==
    ASSUME NEW done \in Seq(DoneSet), NEW bursts, NEW next, InOrder(done, bursts, next),
           NEW i \in 1 .. Len(done), NEW j \in 1 .. Len(done), done[i].data = done[j].data
    PROVE  i = j
<1>1. done[i].data \in Position
  BY DoneItem
<1>2. ~Before(done[i].data, done[j].data) /\ ~Before(done[j].data, done[i].data)
  BY <1>1, BeforeItself
<1>3. ~(i < j) /\ ~(j < i)
  <2>1. i \in 1 .. j - 1 \/ j \in 1 .. i - 1 \/ i = j
    OBVIOUS
  <2> QED  BY <1>2, <2>1 DEF InOrder
<1> QED  BY <1>3

\* A burst whose beats are all performed: no beat twice, none beside them.
LEMMA BeatsCounted ==
    ASSUME NEW done \in Seq(DoneSet), NEW bursts, NEW next, InOrder(done, bursts, next),
           NEW n \in Nat, NEW len \in Nat, bursts[n].len = len,
           NEW resp, Sums(done, n, len + 1, resp)
    PROVE  Cardinality({i \in DOMAIN done : done[i].id = n}) = len + 1
<1> DEFINE S == {i \in DOMAIN done : done[i].id = n}
           f == [i \in S |-> done[i].data[2]]
<1>1. DOMAIN done = 1 .. Len(done)
  OBVIOUS
<1>2. \A i \in S : /\ i \in 1 .. Len(done) /\ done[i].data = <<n, done[i].data[2]>>
                   /\ done[i].data[2] \in 0 .. len
  <2> TAKE i \in S
  <2>1. i \in 1 .. Len(done) /\ done[i].id = n
    BY <1>1
  <2>2. done[i].data[1] = n /\ done[i].data \in BeatsOf(bursts)
    BY <2>1 DEF InOrder
  <2>3. done[i].data = <<done[i].data[1], done[i].data[2]>> /\ done[i].data[2] \in Nat
    BY <2>1, DoneItem
  <2>4. done[i].data[2] <= len
    BY <2>2 DEF BeatsOf
  <2> QED  BY <2>1, <2>2, <2>3, <2>4
<1>3. f \in [S -> 0 .. len] /\ \A i, j \in S : f[i] = f[j] => i = j
  <2>1. f \in [S -> 0 .. len]
    BY <1>2
  <2>2. ASSUME NEW i \in S, NEW j \in S, f[i] = f[j]
        PROVE  i = j
    <3>1. done[i].data = done[j].data /\ i \in 1 .. Len(done) /\ j \in 1 .. Len(done)
      <4>1. done[i].data[2] = done[j].data[2]
        BY <2>2
      <4> HIDE DEF S, f
      <4> QED  BY <1>2, <4>1, Zenon
    <3> QED  BY <3>1, DoneOnce
  <2> QED  BY <2>1, <2>2
<1>4. \A k \in 0 .. len : \E i \in S : f[i] = k
  <2> TAKE k \in 0 .. len
  <2> k \in Nat /\ k < len + 1
    OBVIOUS
  <2>1. PICK i \in 1 .. Len(done) : done[i].data = <<n, k>>
    BY Zenon DEF Sums
  <2>2. i \in S /\ done[i].data[2] = k
    BY <1>1, <2>1 DEF InOrder
  <2> QED  BY <2>2
<1>5. IsFiniteSet(0 .. len) /\ Cardinality(0 .. len) = len + 1
  BY FS_Interval
<1> HIDE DEF S, f
<1>6. f \in Injection(S, 0 .. len) /\ f \in Surjection(S, 0 .. len)
  BY <1>3, <1>4 DEF Injection, Surjection, IsInjective
<1>7. Cardinality(S) = Cardinality(0 .. len)
  BY <1>5, <1>6, FS_Injection
<1> QED  BY <1>5, <1>7 DEF S

LEMMA WritesWhereAskedHolds ==
    ASSUME WriteInv
    PROVE  WritesWhereAsked
<1>1. PICK next \in Position : WriteFlow(next)
  BY WriteParts
<1>2. InOrder(performed, wr_bursts, next) /\ DOMAIN performed = 1 .. Len(performed)
  BY <1>1 DEF WriteFlow, WriteInv
<1> QED  BY <1>2 DEF InOrder, WritesWhereAsked

\* What Sums says of a whole burst, said of FirstError.
LEMMA SumIsFirstError ==
    ASSUME NEW next, InOrder(performed, wr_bursts, next), performed \in Seq(DoneSet),
           NEW n \in Nat, NEW len \in Nat, wr_bursts[n].len = len,
           NEW resp, Sums(performed, n, len + 1, resp)
    PROVE  resp = FirstError(n)
<1> DEFINE bad == {i \in BeatsOfId(n) : performed[i].resp # Okay}
<1>1. FirstError(n) = IF bad = {} THEN Okay
                      ELSE performed[CHOOSE i \in bad : \A j \in bad : i <= j].resp
  BY DEF FirstError
<1>2. \A i : i \in BeatsOfId(n) <=> i \in 1 .. Len(performed) /\ performed[i].data[1] = n
  <2>1. DOMAIN performed = 1 .. Len(performed)
    OBVIOUS
  <2> QED  BY <2>1 DEF BeatsOfId, InOrder
<1>3. \A i \in BeatsOfId(n) : performed[i].data[2] < len + 1
  <2> TAKE i \in BeatsOfId(n)
  <2>1. i \in 1 .. Len(performed) /\ performed[i].data[1] = n
    BY <1>2
  <2>2. performed[i].data[2] \in Nat /\ performed[i].data[2] <= len
    BY <2>1, DoneItem DEF InOrder, BeatsOf
  <2> QED  BY <2>2
<1>4. \A i : i \in bad <=> i \in BeatsOfId(n) /\ performed[i].resp # Okay
  OBVIOUS
<1> HIDE DEF bad
<1>5. CASE /\ resp = Okay
           /\ \A i \in 1 .. Len(performed) :
                  performed[i].data[1] = n /\ performed[i].data[2] < len + 1
                  => performed[i].resp = Okay
  <2>1. bad = {}
    BY <1>2, <1>3, <1>4, <1>5, Zenon
  <2> QED  BY <1>1, <1>5, <2>1, Zenon
<1>6. CASE /\ resp # Okay
           /\ \E i \in 1 .. Len(performed) :
                  /\ performed[i].data[1] = n /\ performed[i].data[2] < len + 1
                  /\ performed[i].resp = resp
                  /\ \A j \in 1 .. i - 1 : performed[j].data[1] = n => performed[j].resp = Okay
  <2>1. PICK i \in 1 .. Len(performed) :
          /\ performed[i].data[1] = n /\ performed[i].resp = resp
          /\ \A j \in 1 .. i - 1 : performed[j].data[1] = n => performed[j].resp = Okay
    BY <1>6, Zenon
  <2>2. i \in bad
    BY <1>2, <1>4, <1>6, <2>1, Zenon
  <2>3. \A j \in bad : i <= j /\ j \in Nat
    <3> TAKE j \in bad
    <3>1. j \in 1 .. Len(performed) /\ performed[j].data[1] = n /\ performed[j].resp # Okay
      BY <1>2, <1>4, Zenon
    <3>2. ~(j \in 1 .. i - 1)
      BY <2>1, <3>1, Zenon
    <3> QED  BY <3>1, <3>2
  <2>4. \A m \in bad : (\A j \in bad : m <= j) => m = i
    BY <2>2, <2>3
  <2>5. (CHOOSE m \in bad : \A j \in bad : m <= j) = i
    BY <2>2, <2>3, <2>4, Zenon
  <2>6. bad # {}
    BY <2>2, Zenon
  <2> QED  BY <1>1, <2>1, <2>5, <2>6, Zenon
<1>7. \/ /\ resp = Okay
         /\ \A i \in 1 .. Len(performed) :
                performed[i].data[1] = n /\ performed[i].data[2] < len + 1
                => performed[i].resp = Okay
      \/ /\ resp # Okay
         /\ \E i \in 1 .. Len(performed) :
                /\ performed[i].data[1] = n /\ performed[i].data[2] < len + 1
                /\ performed[i].resp = resp
                /\ \A j \in 1 .. i - 1 : performed[j].data[1] = n => performed[j].resp = Okay
  BY Zenon DEF Sums
<1> QED  BY <1>5, <1>6, <1>7, Zenon

LEMMA OneHonestResponseHolds ==
    ASSUME WriteInv
    PROVE  OneHonestResponse
<1> DEFINE n == b_taken + 1
<1> SUFFICES ASSUME m_b # <<>>
             PROVE  /\ Head(m_b).id = n
                    /\ Cardinality(BeatsOfId(n)) = wr_bursts[n].len + 1
                    /\ Head(m_b).resp = FirstError(n)
  BY DEF OneHonestResponse
<1>1. WriteTypes /\ Answers
  BY WriteParts
<1>2. PICK next \in Position : InOrder(performed, wr_bursts, next)
  BY WriteParts DEF WriteFlow
<1>3. /\ performed \in Seq(DoneSet) /\ m_b \in Seq(RespSet) /\ b_taken \in Nat
      /\ GoodBursts(wr_bursts)
  BY <1>1 DEF WriteTypes
<1>4. 1 \in 1 .. Len(m_b) /\ Head(m_b) = m_b[1]
  BY <1>3
<1>5. /\ m_b[1].id = n /\ n \in 1 .. Len(wr_bursts)
      /\ Sums(performed, n, wr_bursts[n].len + 1, m_b[1].resp)
  BY <1>1, <1>4, Zenon DEF Answers
<1>6. n \in Nat
  BY <1>3
<1> HIDE DEF n
<1>7. wr_bursts[n].len \in Nat
  <2>1. wr_bursts[n] \in BurstSet
    BY <1>3, <1>5 DEF GoodBursts
  <2>2. wr_bursts[n].len \in 0 .. 255
    BY <2>1, Zenon DEF BurstSet
  <2>3. \A x \in 0 .. 255 : x \in Nat
    OBVIOUS
  <2> QED  BY <2>2, <2>3, Zenon
<1>8. Cardinality(BeatsOfId(n)) = wr_bursts[n].len + 1
  BY <1>2, <1>3, <1>5, <1>6, <1>7, BeatsCounted DEF BeatsOfId
<1>9. m_b[1].resp = FirstError(n)
  BY <1>2, <1>3, <1>5, <1>6, <1>7, SumIsFirstError
<1> QED  BY <1>4, <1>5, <1>8, <1>9

-----------------------------------------------------------------------------
(* The theorems *)

\* The next read beat the master takes is the next one of its oldest unfinished
\* burst, read from the address that counts to it, AXI4's when the burst is an
\* incrementing or a wrapping one, and rlast is set on the last beat and no other
\* (rl_rd_xaction_master_to_slave, rl_rd_resp_slave_to_master).
THEOREM ReadsStayInStep == Spec => []ReadsInStep
<1> QED  BY ReadInit, ReadNext, ReadsInStepHolds, PTL DEF Spec

\* Every single write the slave performs is a beat of the burst it is marked as,
\* with its own datum and at the address that counts to it, AXI4's when the burst
\* is an incrementing or a wrapping one
\* (rl_wr_xaction_master_to_slave, fv_addr_for_beat).
THEOREM WritesGoWhereAsked == Spec => []WritesWhereAsked
<1> QED  BY WriteInit, WriteNext, WritesWhereAskedHolds, PTL DEF Spec

\* A burst is answered once, in its turn, after all its beats have been performed,
\* with what the first that failed said (rl_wr_resp_slave_to_master).
THEOREM ResponsesAreHonest == Spec => []OneHonestResponse
<1> QED  BY WriteInit, WriteNext, OneHonestResponseHolds, PTL DEF Spec
=============================================================================
