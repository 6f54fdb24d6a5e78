------------------------------ MODULE HostProofs ------------------------------
(*****************************************************************************)
(* What the host program keeps, for any bursts in the window and whether or  *)
(* not gdb is used: the answers of the debug module reach the thread that    *)
(* asked (OwnAnswer, whatever the hart does and whenever a session ends);    *)
(* main starts the program where it should, at the first boot and at every   *)
(* later one, provided the hart obeys while halt, resume and reset_halt      *)
(* still poll; the bursts of the window are answered whole, provided an      *)
(* address is handled before its data; and sessions start whole and          *)
(* descriptors are used by their owners, when a session is stopped once      *)
(* (~Overlap) and not before start_io has returned (~EarlyInput).            *)
(*                                                                           *)
(* The first part is what every step of the window keeps (IoBridge), for     *)
(* any bursts and any number of them under way.  Each queue between the      *)
(* guest and the host is a stretch of the bursts under way, oldest first;    *)
(* the data of the writes, and the answers to the reads, are divided into    *)
(* groups, one for each burst, as long as what is left of it.  The second    *)
(* part is the program that takes these steps (HostBridge), the last its     *)
(* sessions, for any number of them, of descriptors and of characters        *)
(* (HostSession).  The two share no variable: a theorem is about the         *)
(* specification it names.                                                   *)
(*****************************************************************************)
EXTENDS HostBridge, HostSession, SequenceTheorems, WellFoundedInduction, TLAPS

-----------------------------------------------------------------------------
(* The window *)

\* Groups of consecutive numbers: group i has size[i] of the total and ends at t[i].
Laid(t, count, total, size) ==
    /\ t \in [Nat -> Int] /\ count \in Nat /\ total \in Nat
    /\ size \in [1 .. count -> Nat \ {0}]
    /\ t[0] = 0 /\ t[count] = total
    /\ \A i, j \in 0 .. count : i <= j => t[i] <= t[j]
    /\ \A i \in 1 .. count : t[i] = t[i - 1] + size[i]

\* Every item of group i is own[i].
Owned(t, count, item, own) ==
    \A i \in 1 .. count : \A k \in t[i - 1] + 1 .. t[i] : item[k] = own[i]

\* A group of n more at the end.
Extended(t, count, n) == [i \in Nat |-> IF i = count + 1 THEN t[count] + n ELSE t[i]]

\* The first group loses its first item; if that was all of it, it is no more.
Shortened(t) == [i \in Nat |-> IF i = 0 THEN 0 ELSE t[i] - 1]
Without(t) == [i \in Nat |-> t[i + 1] - 1]

LEMMA ExtendLaid ==
    ASSUME NEW t, NEW count, NEW total, NEW size, Laid(t, count, total, size),
           NEW n \in Nat \ {0}, NEW size2 \in [1 .. count + 1 -> Nat \ {0}],
           \A i \in 1 .. count : size2[i] = size[i], size2[count + 1] = n
    PROVE  Laid(Extended(t, count, n), count + 1, total + n, size2)
<1> DEFINE u == Extended(t, count, n)
<1>1. /\ t \in [Nat -> Int] /\ count \in Nat /\ total \in Nat
      /\ t[0] = 0 /\ t[count] = total
  BY DEF Laid
<1>2. u \in [Nat -> Int] /\ u[count + 1] = total + n /\ \A i \in 0 .. count : u[i] = t[i]
  BY <1>1 DEF Extended
<1>3. u[0] = 0
  BY <1>1, <1>2
<1> HIDE DEF u
<1>4. \A i, j \in 0 .. count + 1 : i <= j => u[i] <= u[j]
  <2> SUFFICES ASSUME NEW i \in 0 .. count + 1, NEW j \in 0 .. count + 1, i <= j
               PROVE  u[i] <= u[j]
    OBVIOUS
  <2>1. CASE j = count + 1
    <3>1. CASE i = count + 1
      BY <1>1, <1>2, <2>1, <3>1
    <3>2. CASE i \in 0 .. count
      <4>1. t[i] <= t[count]
        BY <1>1, <3>2 DEF Laid
      <4>2. u[i] = t[i] /\ t[i] \in Int
        <5>1. i \in Nat
          BY <1>1, <3>2
        <5> QED  BY <1>1, <1>2, <3>2, <5>1
      <4> QED  BY <1>1, <1>2, <2>1, <4>1, <4>2
    <3> QED  BY <1>1, <3>1, <3>2
  <2>2. CASE j \in 0 .. count
    <3>1. i \in 0 .. count
      BY <1>1, <2>2
    <3> QED  BY <1>2, <2>2, <3>1 DEF Laid
  <2> QED  BY <1>1, <2>1, <2>2
<1>5. \A i \in 1 .. count + 1 : u[i] = u[i - 1] + size2[i]
  <2> SUFFICES ASSUME NEW i \in 1 .. count + 1
               PROVE  u[i] = u[i - 1] + size2[i]
    OBVIOUS
  <2>1. CASE i = count + 1
    <3>1. u[i - 1] = t[count]
      BY <1>1, <1>2, <2>1
    <3> QED  BY <1>1, <1>2, <2>1, <3>1
  <2>2. CASE i \in 1 .. count
    <3>1. i - 1 \in 0 .. count /\ i \in 0 .. count
      BY <1>1, <2>2
    <3> QED  BY <1>2, <2>2, <3>1 DEF Laid
  <2> QED  BY <1>1, <2>1, <2>2
<1>6. total + n \in Nat /\ count + 1 \in Nat
  BY <1>1
<1>7. Laid(u, count + 1, total + n, size2)
  BY <1>2, <1>3, <1>4, <1>5, <1>6 DEF Laid
<1> QED  BY <1>7 DEF u

LEMMA ExtendOwned ==
    ASSUME NEW t, NEW count, NEW total, NEW size, Laid(t, count, total, size),
           NEW item, NEW own, Owned(t, count, item, own),
           NEW n \in Nat \ {0}, NEW item2, NEW own2,
           \A i \in 1 .. count : own2[i] = own[i],
           \A k \in 1 .. total : item2[k] = item[k],
           \A k \in total + 1 .. total + n : item2[k] = own2[count + 1]
    PROVE  Owned(Extended(t, count, n), count + 1, item2, own2)
<1> DEFINE u == Extended(t, count, n)
<1>1. /\ t \in [Nat -> Int] /\ count \in Nat /\ total \in Nat
      /\ t[0] = 0 /\ t[count] = total
  BY DEF Laid
<1>2. u[count + 1] = total + n /\ \A i \in 0 .. count : u[i] = t[i]
  BY <1>1 DEF Extended
<1> HIDE DEF u
<1> SUFFICES ASSUME NEW i \in 1 .. count + 1, NEW k \in u[i - 1] + 1 .. u[i]
             PROVE  item2[k] = own2[i]
  BY DEF Owned, u
<1>3. CASE i = count + 1
  <2>1. u[i - 1] = total /\ u[i] = total + n
    BY <1>1, <1>2, <1>3
  <2> QED  BY <1>3, <2>1
<1>4. CASE i \in 1 .. count
  <2>1. u[i - 1] = t[i - 1] /\ u[i] = t[i] /\ i - 1 \in 0 .. count /\ i \in 0 .. count
    BY <1>1, <1>2, <1>4
  <2>2. t[0] <= t[i - 1] /\ t[i] <= t[count]
    BY <1>1, <2>1 DEF Laid
  <2>3. t[i - 1] \in Int /\ t[i] \in Int
    BY <1>1, <2>1
  <2>4. k \in t[i - 1] + 1 .. t[i] /\ k \in 1 .. total
    BY <1>1, <2>1, <2>2, <2>3
  <2> QED  BY <1>4, <2>4 DEF Owned
<1> QED  BY <1>1, <1>3, <1>4

\* A first group of more than one item loses one.
LEMMA ShortenLaid ==
    ASSUME NEW t, NEW count, NEW total, NEW size, Laid(t, count, total, size),
           count > 0, size[1] > 1,
           NEW size2 \in [1 .. count -> Nat \ {0}],
           size2[1] = size[1] - 1, \A i \in 2 .. count : size2[i] = size[i]
    PROVE  Laid(Shortened(t), count, total - 1, size2)
<1> DEFINE u == Shortened(t)
<1>1. /\ t \in [Nat -> Int] /\ count \in Nat /\ total \in Nat /\ 1 \in 1 .. count
      /\ t[0] = 0 /\ t[count] = total /\ size[1] \in Nat
  BY DEF Laid
<1>2. t[1] = size[1]
  <2>1. t[1] = t[1 - 1] + size[1]
    BY <1>1 DEF Laid
  <2> QED  BY <1>1, <2>1
<1>3. \A i \in 1 .. count : t[i] \in Int /\ t[i] >= size[1]
  <2> SUFFICES ASSUME NEW i \in 1 .. count
               PROVE  t[i] \in Int /\ t[i] >= size[1]
    OBVIOUS
  <2>1. 1 \in 0 .. count /\ i \in 0 .. count /\ 1 <= i
    BY <1>1
  <2>2. t[1] <= t[i]
    BY <2>1 DEF Laid
  <2> QED  BY <1>1, <1>2, <2>1, <2>2
<1>4. u \in [Nat -> Int] /\ u[0] = 0 /\ \A i \in 1 .. count : u[i] = t[i] - 1
  <2>1. \A i \in Nat : t[i] - 1 \in Int
    BY <1>1
  <2>2. u \in [Nat -> Int] /\ u[0] = 0
    BY <2>1 DEF Shortened
  <2>3. \A i \in 1 .. count : i \in Nat /\ i # 0
    BY <1>1
  <2> QED  BY <2>2, <2>3 DEF Shortened
<1> HIDE DEF u
<1>5. \A i, j \in 0 .. count : i <= j => u[i] <= u[j]
  <2> SUFFICES ASSUME NEW i \in 0 .. count, NEW j \in 0 .. count, i <= j
               PROVE  u[i] <= u[j]
    OBVIOUS
  <2>1. CASE i = 0 /\ j = 0
    BY <1>4, <2>1
  <2>2. CASE i = 0 /\ j \in 1 .. count
    <3>1. u[i] = 0 /\ u[j] = t[j] - 1
      BY <1>4, <2>2
    <3>2. t[j] \in Int /\ t[j] >= size[1]
      BY <1>3, <2>2
    <3> QED  BY <1>1, <3>1, <3>2
  <2>3. CASE i \in 1 .. count /\ j \in 1 .. count
    <3>1. t[i] <= t[j]
      BY DEF Laid
    <3> QED  BY <1>3, <1>4, <2>3, <3>1
  <2> QED  BY <1>1, <2>1, <2>2, <2>3
<1>6. \A i \in 1 .. count : u[i] = u[i - 1] + size2[i]
  <2> SUFFICES ASSUME NEW i \in 1 .. count
               PROVE  u[i] = u[i - 1] + size2[i]
    OBVIOUS
  <2>1. CASE i = 1
    <3>1. u[i - 1] = 0 /\ u[i] = t[1] - 1
      BY <1>1, <1>4, <2>1
    <3>2. size[1] \in Nat /\ size2[i] = size[1] - 1
      BY <1>1, <2>1
    <3> QED  BY <1>2, <3>1, <3>2
  <2>2. CASE i \in 2 .. count
    <3>1. i - 1 \in 1 .. count /\ i \in 1 .. count
      BY <1>1, <2>2
    <3>2. t[i] = t[i - 1] + size2[i]
      BY <2>2 DEF Laid
    <3>3. size2[i] \in Nat
      OBVIOUS
    <3>4. u[i] = t[i] - 1 /\ u[i - 1] = t[i - 1] - 1
      BY <1>4, <3>1
    <3>5. t[i] \in Int /\ t[i - 1] \in Int
      BY <1>3, <3>1
    <3> QED  BY <3>2, <3>3, <3>4, <3>5
  <2> QED  BY <1>1, <2>1, <2>2
<1>7. total - 1 \in Nat /\ u[count] = total - 1
  BY <1>1, <1>3, <1>4
<1>8. Laid(u, count, total - 1, size2)
  BY <1>1, <1>4, <1>5, <1>6, <1>7 DEF Laid
<1> QED  BY <1>8 DEF u

LEMMA ShortenOwned ==
    ASSUME NEW t, NEW count, NEW total, NEW size, Laid(t, count, total, size),
           NEW item, NEW own, Owned(t, count, item, own),
           count > 0, size[1] > 1,
           NEW item2, NEW own2,
           \A i \in 1 .. count : own2[i] = own[i],
           \A k \in 1 .. total - 1 : item2[k] = item[k + 1]
    PROVE  Owned(Shortened(t), count, item2, own2)
<1> DEFINE u == Shortened(t)
<1>1. /\ t \in [Nat -> Int] /\ count \in Nat /\ total \in Nat /\ t[0] = 0 /\ t[count] = total
  BY DEF Laid
<1>2. u[0] = 0 /\ \A i \in 1 .. count : u[i] = t[i] - 1
  BY <1>1 DEF Shortened
<1> HIDE DEF u
<1> SUFFICES ASSUME NEW i \in 1 .. count, NEW k \in u[i - 1] + 1 .. u[i]
             PROVE  item2[k] = own2[i]
  BY DEF Owned, u
<1>3. i - 1 \in 0 .. count /\ i \in 0 .. count /\ t[i - 1] \in Int /\ t[i] \in Int
  BY <1>1
<1>4. t[0] <= t[i - 1] /\ t[i] <= t[count]
  BY <1>1, <1>3 DEF Laid
<1>5. u[i] = t[i] - 1 /\ u[i - 1] \in Int /\ u[i - 1] >= t[i - 1] - 1 /\ u[i - 1] >= 0
  <2>1. CASE i = 1
    BY <1>1, <1>2, <2>1
  <2>2. CASE i > 1
    <3>1. 1 \in 0 .. count /\ 1 <= i - 1 /\ i - 1 \in 1 .. count
      BY <1>1, <2>2
    <3>2. t[1] <= t[i - 1] /\ t[1] = t[1 - 1] + size[1]
      BY <1>3, <3>1 DEF Laid
    <3>3. t[1] >= 1 /\ t[1] \in Int
      BY <1>1, <3>1, <3>2 DEF Laid
    <3> QED  BY <1>2, <1>3, <3>1, <3>2, <3>3
  <2> QED  BY <2>1, <2>2
<1>6. k \in 1 .. total - 1 /\ k + 1 \in t[i - 1] + 1 .. t[i]
  BY <1>1, <1>3, <1>4, <1>5
<1> QED  BY <1>6 DEF Owned

\* A first group of one item loses it.
LEMMA DropLaid ==
    ASSUME NEW t, NEW count, NEW total, NEW size, Laid(t, count, total, size),
           count > 0, size[1] = 1,
           NEW size2 \in [1 .. count - 1 -> Nat \ {0}],
           \A i \in 1 .. count - 1 : size2[i] = size[i + 1]
    PROVE  Laid(Without(t), count - 1, total - 1, size2)
<1> DEFINE u == Without(t)
<1>1. /\ t \in [Nat -> Int] /\ count \in Nat /\ total \in Nat /\ 1 \in 1 .. count
      /\ t[0] = 0 /\ t[count] = total /\ count - 1 \in Nat
  BY DEF Laid
<1>2. t[1] = 1
  <2>1. t[1] = t[1 - 1] + size[1]
    BY <1>1 DEF Laid
  <2> QED  BY <1>1, <2>1
<1>3. u \in [Nat -> Int] /\ \A i \in 0 .. count - 1 : u[i] = t[i + 1] - 1
  BY <1>1 DEF Without
<1> HIDE DEF u
<1>4. u[0] = 0 /\ u[count - 1] = total - 1
  <2>1. u[0] = t[0 + 1] - 1 /\ u[count - 1] = t[count - 1 + 1] - 1
    BY <1>1, <1>3
  <2> QED  BY <1>1, <1>2, <2>1
<1>5. \A i, j \in 0 .. count - 1 : i <= j => u[i] <= u[j]
  <2> SUFFICES ASSUME NEW i \in 0 .. count - 1, NEW j \in 0 .. count - 1, i <= j
               PROVE  u[i] <= u[j]
    OBVIOUS
  <2>1. i + 1 \in 0 .. count /\ j + 1 \in 0 .. count /\ i + 1 <= j + 1
    BY <1>1
  <2>2. t[i + 1] <= t[j + 1] /\ t[i + 1] \in Int /\ t[j + 1] \in Int
    <3>1. t[i + 1] <= t[j + 1]
      BY <2>1 DEF Laid
    <3> QED  BY <1>1, <2>1, <3>1
  <2>3. u[i] = t[i + 1] - 1 /\ u[j] = t[j + 1] - 1
    BY <1>3
  <2> QED  BY <2>2, <2>3
<1>6. \A i \in 1 .. count - 1 : u[i] = u[i - 1] + size2[i]
  <2> SUFFICES ASSUME NEW i \in 1 .. count - 1
               PROVE  u[i] = u[i - 1] + size2[i]
    OBVIOUS
  <2>1. i + 1 \in 1 .. count /\ i - 1 \in 0 .. count - 1 /\ i \in 0 .. count - 1
    BY <1>1
  <2>2. t[i + 1] = t[i + 1 - 1] + size[i + 1]
    BY <2>1 DEF Laid
  <2>3. u[i] = t[i + 1] - 1 /\ u[i - 1] = t[i - 1 + 1] - 1
    BY <1>3, <2>1
  <2>4. t[i + 1] \in Int /\ t[i] \in Int
    BY <1>1, <2>1
  <2>5. size[i + 1] \in Nat
    BY <2>1 DEF Laid
  <2> QED  BY <2>2, <2>3, <2>4, <2>5
<1>7. total - 1 \in Nat
  <2>1. t[1] <= t[count]
    BY <1>1 DEF Laid
  <2> QED  BY <1>1, <1>2, <2>1
<1>8. Laid(u, count - 1, total - 1, size2)
  BY <1>1, <1>3, <1>4, <1>5, <1>6, <1>7 DEF Laid
<1> QED  BY <1>8 DEF u

LEMMA DropOwned ==
    ASSUME NEW t, NEW count, NEW total, NEW size, Laid(t, count, total, size),
           NEW item, NEW own, Owned(t, count, item, own),
           count > 0, size[1] = 1,
           NEW item2, NEW own2,
           \A i \in 1 .. count - 1 : own2[i] = own[i + 1],
           \A k \in 1 .. total - 1 : item2[k] = item[k + 1]
    PROVE  Owned(Without(t), count - 1, item2, own2)
<1> DEFINE u == Without(t)
<1>1. /\ t \in [Nat -> Int] /\ count \in Nat /\ total \in Nat /\ 1 \in 1 .. count
      /\ t[0] = 0 /\ t[count] = total
  BY DEF Laid
<1>2. t[1] = 1
  <2>1. t[1] = t[1 - 1] + size[1]
    BY <1>1 DEF Laid
  <2> QED  BY <1>1, <2>1
<1>3. \A i \in 0 .. count - 1 : u[i] = t[i + 1] - 1
  BY <1>1 DEF Without
<1> HIDE DEF u
<1> SUFFICES ASSUME NEW i \in 1 .. count - 1, NEW k \in u[i - 1] + 1 .. u[i]
             PROVE  item2[k] = own2[i]
  BY DEF Owned, u
<1>4. i + 1 \in 1 .. count /\ i - 1 \in 0 .. count - 1 /\ i \in 0 .. count - 1 /\ i \in 1 .. count
  BY <1>1
<1>5. t[1] <= t[i] /\ t[i + 1] <= t[count] /\ t[i] \in Int /\ t[i + 1] \in Int
  <2>1. /\ {1, i, i + 1, count} \subseteq 0 .. count
        /\ 1 <= i /\ i + 1 <= count
    BY <1>1, <1>4
  <2>2. t[1] <= t[i] /\ t[i + 1] <= t[count]
    BY <2>1 DEF Laid
  <2> QED  BY <1>1, <1>4, <2>2
<1>6. u[i] = t[i + 1] - 1 /\ u[i - 1] = t[i - 1 + 1] - 1
  BY <1>3, <1>4
<1>7. k \in 1 .. total - 1 /\ k + 1 \in t[i + 1 - 1] + 1 .. t[i + 1]
  BY <1>1, <1>2, <1>4, <1>5, <1>6
<1>8. item[k + 1] = own[i + 1]
  BY <1>4, <1>7 DEF Owned
<1> QED  BY <1>7, <1>8

-----------------------------------------------------------------------------
(* The invariant *)

Writes == outstanding["write"]
Reads == outstanding["read"]

IoTypes ==
    /\ outstanding \in [Directions -> Seq(Bursts)]
    /\ burst \in [Bursts -> [dir : Directions \cup {"none"}, id : Nat, beats : Nat,
                             target : Targets, got : Nat]]
    /\ {aw, w, ar, io_wdata} \subseteq Seq(Bursts)
    /\ {io_awaddr, io_araddr} \subseteq Seq([of : Bursts, len : Nat, id : Nat])
    /\ io_write_queue \in Seq([of : Bursts, wdata_count : Nat, wid : Nat])
    /\ handling \in Bursts \cup {0}
    /\ bdone \in Seq(Nat)
    /\ rdata \in Seq([id : Nat, last : BOOLEAN])

\* No burst is under way twice.
Distinct ==
    \A d, e \in Directions :
        \A i \in DOMAIN outstanding[d], j \in DOMAIN outstanding[e] :
            outstanding[d][i] = outstanding[e][j] => d = e /\ i = j

Asked ==
    \A d \in Directions : \A i \in DOMAIN outstanding[d] :
        /\ burst[outstanding[d][i]].dir = d
        /\ burst[outstanding[d][i]].beats \in 1 .. LenMod - 1

\* What the hardware says of a burst.
Announcement(b) == [of |-> b, len |-> burst[b].beats, id |-> burst[b].id]

\* The writes under way, oldest first: those answered, those in io_write_queue,
\* those announced to the host and those that are not yet.
Answered == Len(bdone)
Known == Answered + Len(io_write_queue)
Announced == Known + Len(io_awaddr)

WriteOrder ==
    /\ Len(Writes) = Announced + Len(aw)
    /\ \A i \in 1 .. Len(bdone) : bdone[i] = burst[Writes[i]].id
    /\ \A i \in 1 .. Len(io_write_queue) :
        /\ io_write_queue[i].of = Writes[Answered + i]
        /\ io_write_queue[i].wid = burst[Writes[Answered + i]].id
        /\ io_write_queue[i].wdata_count \in 1 .. LenMod - 1
    /\ \A i \in 1 .. Len(io_awaddr) : io_awaddr[i] = Announcement(Writes[Known + i])
    /\ \A i \in 1 .. Len(aw) : aw[i] = Writes[Announced + i]

\* The beats that are still to be counted, of each write that is not answered.
Pending == Len(Writes) - Answered
Left ==
    [i \in 1 .. Pending |->
        IF i <= Len(io_write_queue) THEN io_write_queue[i].wdata_count
        ELSE burst[Writes[Answered + i]].beats]
Owner == [i \in 1 .. Pending |-> Writes[Answered + i]]

\* The data on its way, oldest first: what io_wdata is handling, what the portal
\* has, and what the fabric has passed.
InHand == IF handling = 0 THEN 0 ELSE 1
Received == InHand + Len(io_wdata)
Data ==
    [k \in 1 .. Received + Len(w) |->
        IF k <= InHand THEN handling
        ELSE IF k <= Received THEN io_wdata[k - InHand] ELSE w[k - Received]]

\* It is that of the writes which are not answered, in their order.
WriteData ==
    \E t : /\ Laid(t, Pending, Received + Len(w), Left)
           /\ Owned(t, Pending, Data, Owner)

\* Data does not overtake its address on the way to the host.
Behind == \A i \in DOMAIN io_wdata, j \in DOMAIN aw : io_wdata[i] # aw[j]

WInv == WriteOrder /\ WriteData /\ Behind /\ WritesOwnBurst

\* The reads under way, oldest first: those handled, those announced and those
\* that are not yet.
Asking == Len(Reads) - Len(ar)
Handled == Asking - Len(io_araddr)

ReadOrder ==
    /\ Handled \in Nat
    /\ \A i \in 1 .. Len(io_araddr) : io_araddr[i] = Announcement(Reads[Handled + i])
    /\ \A i \in 1 .. Len(ar) : ar[i] = Reads[Asking + i]
    /\ \A p \in 1 .. Len(Reads) :
        /\ burst[Reads[p]].got < burst[Reads[p]].beats
        /\ p > 1 \/ p > Handled => burst[Reads[p]].got = 0

\* The beats that are still to come, of each read that was handled.
Due == [i \in 1 .. Handled |-> burst[Reads[i]].beats - burst[Reads[i]].got]
ReadId == [i \in 1 .. Handled |-> burst[Reads[i]].id]
DataId == [k \in DOMAIN rdata |-> rdata[k].id]

\* The last beat of a burst is marked, and no other.
Marked(t, count, beat) ==
    \A i \in 1 .. count : \A k \in t[i - 1] + 1 .. t[i] : beat[k].last = (k = t[i])

ReadData ==
    \E t : /\ Laid(t, Handled, Len(rdata), Due)
           /\ Owned(t, Handled, DataId, ReadId)
           /\ Marked(t, Handled, rdata)

RInv == ReadOrder /\ ReadData

IoInv == IoTypes /\ Distinct /\ Asked /\ WInv /\ RInv

-----------------------------------------------------------------------------
(* Numbers and sequences *)

Less == OpToRel(<, Nat)

LEMMA LessIsWellFounded == IsWellFoundedOn(Less, Nat)
BY NatLessThanWellFounded, Zenon DEF Less

LEMMA LessIs == \A x, y \in Nat : x < y => <<x, y>> \in Less
BY DEF Less, OpToRel

LEMMA LeastNat ==
    ASSUME NEW T, T \subseteq Nat, T # {}
    PROVE  \E x \in T : \A y \in T : x <= y
<1>1. PICK x \in T : \A y \in T : ~ (<<y, x>> \in Less)
  BY LessIsWellFounded, WFMin
<1>2. x \in Nat /\ \A y \in T : y \in Nat /\ ~ (y < x)
  BY <1>1, LessIs
<1> QED  BY <1>2

LEMMA AppendIs ==
    ASSUME NEW S, NEW s \in Seq(S), NEW e \in S
    PROVE  /\ Append(s, e) \in Seq(S)
           /\ Len(Append(s, e)) = Len(s) + 1 /\ Len(s) \in Nat
           /\ \A i \in 1 .. Len(s) : Append(s, e)[i] = s[i]
           /\ Append(s, e)[Len(s) + 1] = e
OBVIOUS

LEMMA TailIs ==
    ASSUME NEW S, NEW s \in Seq(S), s # <<>>
    PROVE  /\ Tail(s) \in Seq(S) /\ Head(s) = s[1] /\ s[1] \in S
           /\ Len(s) \in Nat \ {0} /\ Len(Tail(s)) = Len(s) - 1
           /\ \A i \in 1 .. Len(s) - 1 : Tail(s)[i] = s[i + 1]
OBVIOUS

LEMMA ConcatIs ==
    ASSUME NEW S, NEW s \in Seq(S), NEW u \in Seq(S)
    PROVE  /\ s \o u \in Seq(S) /\ Len(s \o u) = Len(s) + Len(u)
           /\ Len(s) \in Nat /\ Len(u) \in Nat
           /\ \A i \in 1 .. Len(s) : (s \o u)[i] = s[i]
           /\ \A i \in 1 .. Len(u) : (s \o u)[Len(s) + i] = u[i]
OBVIOUS

LEMMA TimesIs ==
    ASSUME NEW S, NEW n \in Nat, NEW x \in S
    PROVE  /\ Times(n, x) \in Seq(S) /\ Len(Times(n, x)) = n
           /\ \A i \in 1 .. n : Times(n, x)[i] = x
BY DEF Times

LEMMA NewHeadIs ==
    ASSUME NEW S, NEW s \in Seq(S), s # <<>>, NEW e \in S
    PROVE  /\ <<e>> \o Tail(s) \in Seq(S) /\ Len(<<e>> \o Tail(s)) = Len(s)
           /\ (<<e>> \o Tail(s))[1] = e
           /\ \A i \in 2 .. Len(s) : (<<e>> \o Tail(s))[i] = s[i]
<1>1. /\ Tail(s) \in Seq(S) /\ Len(s) \in Nat \ {0} /\ Len(Tail(s)) = Len(s) - 1
      /\ \A i \in 1 .. Len(s) - 1 : Tail(s)[i] = s[i + 1]
  BY TailIs
<1>2. <<e>> \in Seq(S) /\ Len(<<e>>) = 1 /\ <<e>>[1] = e
  OBVIOUS
<1> DEFINE u == Tail(s)
           v == <<e>>
<1> HIDE DEF u, v
<1>3. /\ v \o u \in Seq(S) /\ Len(v \o u) = Len(v) + Len(u)
      /\ \A i \in 1 .. Len(v) : (v \o u)[i] = v[i]
      /\ \A i \in 1 .. Len(u) : (v \o u)[Len(v) + i] = u[i]
  BY <1>1, <1>2, ConcatIs DEF u, v
<1>4. Len(v) = 1 /\ v[1] = e /\ Len(u) = Len(s) - 1
  BY <1>1, <1>2 DEF u, v
<1>5. \A i \in 2 .. Len(s) : (v \o u)[i] = s[i]
  <2> SUFFICES ASSUME NEW i \in 2 .. Len(s)
               PROVE  (v \o u)[i] = s[i]
    OBVIOUS
  <2>1. i - 1 \in 1 .. Len(u) /\ i - 1 \in 1 .. Len(s) - 1 /\ Len(v) + (i - 1) = i /\ i - 1 + 1 = i
    BY <1>1, <1>4
  <2>2. (v \o u)[Len(v) + (i - 1)] = u[i - 1] /\ u[i - 1] = s[i - 1 + 1]
    BY <1>1, <1>3, <2>1 DEF u
  <2> QED  BY <2>1, <2>2
<1>6. Len(v \o u) = Len(s) /\ (v \o u)[1] = e
  BY <1>1, <1>3, <1>4
<1> QED  BY <1>3, <1>5, <1>6 DEF u, v

LEMMA RemoveFirstIs ==
    ASSUME NEW S, NEW s \in Seq(S), s # <<>>
    PROVE  /\ RemoveAt(s, 1) \in Seq(S) /\ Len(RemoveAt(s, 1)) = Len(s) - 1
           /\ \A i \in 1 .. Len(s) - 1 : RemoveAt(s, 1)[i] = s[i + 1]
<1> DEFINE u == SubSeq(s, 1, 0)
           v == SubSeq(s, 2, Len(s))
<1>1. Len(s) \in Nat \ {0}
  BY TailIs
<1>2. u \in Seq(S) /\ Len(u) = 0
  BY <1>1
<1>3. v \in Seq(S) /\ Len(v) = Len(s) - 1 /\ \A i \in 1 .. Len(s) - 1 : v[i] = s[i + 1]
  <2>1. \A i \in 2 .. Len(s) : s[i] \in S
    BY <1>1
  <2>2. /\ v \in Seq(S) /\ Len(v) = IF 2 <= Len(s) THEN Len(s) - 2 + 1 ELSE 0
        /\ \A i \in 1 .. Len(s) - 2 + 1 : v[i] = s[2 + i - 1]
    BY <1>1, <2>1, SubSeqProperties
  <2> HIDE DEF v
  <2>3. Len(s) \in Nat /\ Len(s) >= 1
    BY <1>1
  <2>4. (IF 2 <= Len(s) THEN Len(s) - 2 + 1 ELSE 0) = Len(s) - 1
    <3>1. \A n \in Nat : n >= 2 => n - 2 + 1 = n - 1
      OBVIOUS
    <3>2. CASE Len(s) >= 2
      <4>1. 2 <= Len(s) /\ Len(s) - 2 + 1 = Len(s) - 1
        BY <2>3, <3>1, <3>2
      <4> QED  BY <4>1
    <3>3. CASE Len(s) = 1
      BY <3>3
    <3>4. \A n \in Nat : n >= 1 => n >= 2 \/ n = 1
      OBVIOUS
    <3>5. Len(s) >= 2 \/ Len(s) = 1
      BY <2>3, <3>4, Zenon
    <3> QED  BY <3>2, <3>3, <3>5, Zenon
  <2>5. Len(v) = Len(s) - 1
    BY <2>2, <2>4
  <2>6. \A i \in 1 .. Len(s) - 1 : v[i] = s[i + 1]
    BY <1>1, <2>2
  <2> QED  BY <2>2, <2>5, <2>6
<1>4. RemoveAt(s, 1) = u \o v
  BY DEF RemoveAt
<1> HIDE DEF u, v
<1>5. /\ u \o v \in Seq(S) /\ Len(u \o v) = Len(u) + Len(v)
      /\ \A i \in 1 .. Len(v) : (u \o v)[Len(u) + i] = v[i]
  BY <1>2, <1>3, ConcatIs
<1>6. \A i \in 1 .. Len(s) - 1 : (u \o v)[i] = s[i + 1]
  BY <1>1, <1>2, <1>3, <1>5
<1> QED  BY <1>1, <1>2, <1>3, <1>4, <1>5, <1>6

-----------------------------------------------------------------------------
(* Bursts *)

LEMMA AskerIsFirst ==
    ASSUME NEW dir, NEW id, NEW S, outstanding[dir] \in Seq(S), outstanding[dir] # <<>>,
           burst[outstanding[dir][1]].id = id
    PROVE  Asker(dir, id) = 1
<1> DEFINE T == {i \in DOMAIN outstanding[dir] : burst[outstanding[dir][i]].id = id}
<1>1. 1 \in T /\ \A i \in T : i \in Nat /\ 1 <= i
  <2>1. DOMAIN outstanding[dir] = 1 .. Len(outstanding[dir])
    OBVIOUS
  <2>2. Len(outstanding[dir]) \in Nat \ {0}
    BY TailIs
  <2> QED  BY <2>1, <2>2
<1>2. Asker(dir, id) = Min(T)
  BY DEF Asker
<1> HIDE DEF T
<1>3. Min(T) \in T /\ \A i \in T : Min(T) <= i
  BY <1>1 DEF Min
<1> QED  BY <1>1, <1>2, <1>3

\* What is over is the first of its direction.
LEMMA OverFirst ==
    ASSUME IoTypes, Distinct, Asked, NEW dir \in Directions, outstanding[dir] # <<>>,
           Over(dir, 1)
    PROVE  /\ outstanding'[dir] \in Seq(Bursts)
           /\ Len(outstanding'[dir]) = Len(outstanding[dir]) - 1
           /\ \A p \in 1 .. Len(outstanding[dir]) - 1 :
                outstanding'[dir][p] = outstanding[dir][p + 1]
           /\ \A d \in Directions \ {dir} : outstanding'[d] = outstanding[d]
           /\ \A d \in Directions : \A p \in 1 .. Len(outstanding'[d]) :
                burst'[outstanding'[d][p]] = burst[outstanding'[d][p]]
           /\ outstanding' \in [Directions -> Seq(Bursts)]
           /\ burst' \in [Bursts -> [dir : Directions \cup {"none"}, id : Nat, beats : Nat,
                                     target : Targets, got : Nat]]
           /\ Distinct' /\ Asked'
<1> DEFINE s == outstanding[dir]
           s2 == outstanding'[dir]
<1>1. s \in Seq(Bursts) /\ Len(s) \in Nat \ {0} /\ s[1] \in Bursts
  BY TailIs DEF IoTypes
<1>2. /\ s2 \in Seq(Bursts) /\ Len(s2) = Len(s) - 1
      /\ \A p \in 1 .. Len(s) - 1 : s2[p] = s[p + 1]
  <2>1. s2 = RemoveAt(s, 1)
    BY DEF Over, IoTypes
  <2> QED  BY <1>1, <2>1, RemoveFirstIs
<1>3. \A d \in Directions \ {dir} : outstanding'[d] = outstanding[d]
  BY DEF Over, IoTypes
<1>4. outstanding' \in [Directions -> Seq(Bursts)]
  <2>1. outstanding' = [outstanding EXCEPT ![dir] = RemoveAt(@, 1)]
    BY DEF Over
  <2> QED  BY <1>2, <2>1 DEF IoTypes
<1>5. burst' = [burst EXCEPT ![s[1]] = NoBurst]
  BY DEF Over
<1>6. \A b \in Bursts \ {s[1]} : burst'[b] = burst[b]
  BY <1>5 DEF IoTypes
<1>7. burst' \in [Bursts -> [dir : Directions \cup {"none"}, id : Nat, beats : Nat,
                             target : Targets, got : Nat]]
  <2>1. NoBurst \in [dir : Directions \cup {"none"}, id : Nat, beats : Nat,
                     target : Targets, got : Nat]
    BY DEF NoBurst, Targets
  <2> QED  BY <1>5, <2>1 DEF IoTypes
\* Every place holds what an old place held, another than the first.
<1>8. \A d \in Directions : \A p \in 1 .. Len(outstanding'[d]) :
        \E q \in DOMAIN outstanding[d] :
            /\ outstanding'[d][p] = outstanding[d][q]
            /\ q = IF d = dir THEN p + 1 ELSE p
            /\ outstanding[d][q] \in Bursts \ {s[1]}
  <2> SUFFICES ASSUME NEW d \in Directions, NEW p \in 1 .. Len(outstanding'[d])
               PROVE  \E q \in DOMAIN outstanding[d] :
                        /\ outstanding'[d][p] = outstanding[d][q]
                        /\ q = IF d = dir THEN p + 1 ELSE p
                        /\ outstanding[d][q] \in Bursts \ {s[1]}
    OBVIOUS
  <2>1. outstanding[d] \in Seq(Bursts) /\ 1 \in DOMAIN s
    BY <1>1 DEF IoTypes
  <2>2. CASE d = dir
    <3>1. p + 1 \in 1 .. Len(s) /\ p + 1 # 1 /\ p \in 1 .. Len(s) - 1
      BY <1>1, <1>2, <2>2
    <3>2. p + 1 \in DOMAIN s /\ s[p + 1] \in Bursts
      BY <1>1, <3>1
    <3>3. s[p + 1] # s[1]
      BY <2>1, <3>1, <3>2 DEF Distinct
    <3> QED  BY <1>2, <2>2, <3>1, <3>2, <3>3
  <2>3. CASE d # dir
    <3>1. outstanding'[d] = outstanding[d]
      BY <1>3, <2>3
    <3>2. p \in DOMAIN outstanding[d] /\ outstanding[d][p] \in Bursts
      BY <2>1, <3>1
    <3>3. outstanding[d][p] # s[1]
      BY <2>1, <2>3, <3>2 DEF Distinct
    <3> QED  BY <2>3, <3>1, <3>2, <3>3
  <2> QED  BY <2>2, <2>3
<1>9. \A d \in Directions : \A p \in 1 .. Len(outstanding'[d]) :
        burst'[outstanding'[d][p]] = burst[outstanding'[d][p]]
  BY <1>6, <1>8
<1>10. \A d \in Directions : DOMAIN outstanding'[d] = 1 .. Len(outstanding'[d])
  BY <1>4
<1>11. Distinct'
  <2> SUFFICES ASSUME NEW d \in Directions, NEW e \in Directions,
                      NEW i \in 1 .. Len(outstanding'[d]), NEW j \in 1 .. Len(outstanding'[e]),
                      outstanding'[d][i] = outstanding'[e][j]
               PROVE  d = e /\ i = j
    BY <1>10 DEF Distinct
  <2>1. PICK q \in DOMAIN outstanding[d] :
            outstanding'[d][i] = outstanding[d][q] /\ q = IF d = dir THEN i + 1 ELSE i
    BY <1>8
  <2>2. PICK r \in DOMAIN outstanding[e] :
            outstanding'[e][j] = outstanding[e][r] /\ r = IF e = dir THEN j + 1 ELSE j
    BY <1>8
  <2>3. outstanding[d][q] = outstanding[e][r]
    BY <2>1, <2>2
  <2>4. d = e /\ q = r
    BY <2>3 DEF Distinct
  <2>5. i \in Int /\ j \in Int
    OBVIOUS
  <2> QED  BY <2>1, <2>2, <2>4, <2>5
<1>12. Asked'
  <2> SUFFICES ASSUME NEW d \in Directions, NEW i \in 1 .. Len(outstanding'[d])
               PROVE  /\ burst'[outstanding'[d][i]].dir = d
                      /\ burst'[outstanding'[d][i]].beats \in 1 .. LenMod - 1
    BY <1>10 DEF Asked
  <2>1. PICK q \in DOMAIN outstanding[d] : outstanding'[d][i] = outstanding[d][q]
    BY <1>8
  <2> QED  BY <1>9, <2>1 DEF Asked
<1> QED  BY <1>2, <1>3, <1>4, <1>7, <1>9, <1>11, <1>12

-----------------------------------------------------------------------------
(* Steps that leave a direction as it is *)

\* The lengths and what they add up to are numbers.
LEMMA WriteCounts ==
    ASSUME IoTypes, WriteOrder
    PROVE  /\ Writes \in Seq(Bursts)
           /\ Answered \in Nat /\ Known \in Nat /\ Announced \in Nat /\ Pending \in Nat
           /\ Len(Writes) \in Nat /\ Len(bdone) \in Nat /\ Len(io_write_queue) \in Nat
           /\ Len(io_awaddr) \in Nat /\ Len(aw) \in Nat
           /\ Pending = Len(io_write_queue) + Len(io_awaddr) + Len(aw)
           /\ Answered <= Known /\ Known <= Announced /\ Announced <= Len(Writes)
           /\ Pending = Len(Writes) - Answered
           /\ InHand \in Nat /\ Received \in Nat /\ Len(io_wdata) \in Nat /\ Len(w) \in Nat
<1>1. /\ Writes \in Seq(Bursts) /\ bdone \in Seq(Nat) /\ io_write_queue \in Seq([of : Bursts, wdata_count : Nat, wid : Nat])
      /\ io_awaddr \in Seq([of : Bursts, len : Nat, id : Nat]) /\ aw \in Seq(Bursts)
      /\ io_wdata \in Seq(Bursts) /\ w \in Seq(Bursts)
  BY DEF IoTypes, Writes, Directions
<1>2. /\ Len(Writes) \in Nat /\ Len(bdone) \in Nat /\ Len(io_write_queue) \in Nat
      /\ Len(io_awaddr) \in Nat /\ Len(aw) \in Nat /\ Len(io_wdata) \in Nat /\ Len(w) \in Nat
  BY <1>1
<1>3. Len(Writes) = Len(bdone) + Len(io_write_queue) + Len(io_awaddr) + Len(aw)
  BY DEF WriteOrder, Announced, Known, Answered
<1>4. InHand \in {0, 1}
  BY DEF InHand
<1> QED  BY <1>1, <1>2, <1>3, <1>4 DEF Answered, Known, Announced, Pending, Received

LEMMA WritesKept ==
    ASSUME IoTypes, WInv,
           outstanding'["write"] = outstanding["write"],
           \A p \in 1 .. Len(Writes) : burst'[Writes[p]] = burst[Writes[p]],
           UNCHANGED <<aw, w, io_awaddr, io_wdata, io_write_queue, handling, bdone>>
    PROVE  WInv'
<1>1. WriteOrder
  BY DEF WInv
<1>2. /\ Writes' = Writes /\ Answered' = Answered /\ Known' = Known /\ Announced' = Announced
      /\ Pending' = Pending /\ Received' = Received /\ Data' = Data
  BY DEF Writes, Answered, Known, Announced, Pending, InHand, Received, Data
<1>3. /\ Answered \in Nat /\ Known \in Nat /\ Announced \in Nat /\ Pending \in Nat
      /\ Len(Writes) \in Nat /\ Len(io_write_queue) \in Nat /\ Len(io_awaddr) \in Nat
      /\ Answered <= Known /\ Known <= Announced /\ Announced <= Len(Writes)
      /\ Pending = Len(Writes) - Answered
  BY <1>1, WriteCounts
<1>4. \A p \in 1 .. Len(Writes) : burst'[Writes'[p]] = burst[Writes[p]]
  BY <1>2
<1>5. WriteOrder'
  <2>1. /\ \A i \in 1 .. Len(bdone) : i \in 1 .. Len(Writes)
        /\ \A i \in 1 .. Len(io_write_queue) : Answered + i \in 1 .. Len(Writes)
        /\ \A i \in 1 .. Len(io_awaddr) : Known + i \in 1 .. Len(Writes)
    BY <1>3 DEF Answered, Known, Announced
  <2>2. \A i \in 1 .. Len(bdone) : bdone'[i] = burst'[Writes'[i]].id
    BY <1>1, <1>4, <2>1 DEF WriteOrder
  <2>3. \A i \in 1 .. Len(io_write_queue) :
            /\ io_write_queue'[i].of = Writes'[Answered' + i]
            /\ io_write_queue'[i].wid = burst'[Writes'[Answered' + i]].id
            /\ io_write_queue'[i].wdata_count \in 1 .. LenMod - 1
    BY <1>1, <1>2, <1>4, <2>1 DEF WriteOrder
  <2>4. \A i \in 1 .. Len(io_awaddr) : io_awaddr'[i] = Announcement(Writes[Known + i])'
    BY <1>1, <1>2, <1>4, <2>1 DEF WriteOrder, Announcement
  <2> QED  BY <1>1, <1>2, <2>2, <2>3, <2>4 DEF WriteOrder
<1>6. Left' = Left /\ Owner' = Owner
  <2>0. \A i \in 1 .. Pending : Answered + i \in 1 .. Len(Writes)
    BY <1>3
  <2>1. \A i \in 1 .. Pending : burst'[Writes'[Answered + i]] = burst[Writes[Answered + i]]
    BY <1>4, <2>0
  <2>2. Left' = Left
    BY <1>2, <2>1 DEF Left
  <2>3. Owner' = Owner
    BY <1>2 DEF Owner
  <2> QED  BY <2>2, <2>3
<1>7. WriteData'
  <2>1. WriteData
    BY DEF WInv
  <2> QED  BY <1>2, <1>6, <2>1 DEF WriteData
<1> QED  BY <1>5, <1>7 DEF WInv, Behind, WritesOwnBurst

LEMMA ReadCounts ==
    ASSUME IoTypes, ReadOrder
    PROVE  /\ Reads \in Seq(Bursts)
           /\ Handled \in Nat /\ Asking \in Nat /\ Len(Reads) \in Nat /\ Len(ar) \in Nat
           /\ Len(io_araddr) \in Nat /\ Len(rdata) \in Nat
           /\ Handled <= Asking /\ Asking <= Len(Reads)
           /\ Asking = Handled + Len(io_araddr) /\ Len(Reads) = Asking + Len(ar)
<1>1. /\ Reads \in Seq(Bursts) /\ ar \in Seq(Bursts) /\ io_araddr \in Seq([of : Bursts, len : Nat, id : Nat])
      /\ rdata \in Seq([id : Nat, last : BOOLEAN])
  BY DEF IoTypes, Reads, Directions
<1>2. Len(Reads) \in Nat /\ Len(ar) \in Nat /\ Len(io_araddr) \in Nat /\ Len(rdata) \in Nat
  BY <1>1
<1>3. Handled \in Nat
  BY DEF ReadOrder
<1> QED  BY <1>1, <1>2, <1>3 DEF Handled, Asking

LEMMA ReadsKept ==
    ASSUME IoTypes, RInv,
           outstanding'["read"] = outstanding["read"],
           \A p \in 1 .. Len(Reads) : burst'[Reads[p]] = burst[Reads[p]],
           UNCHANGED <<ar, io_araddr, rdata>>
    PROVE  RInv'
<1>1. ReadOrder
  BY DEF RInv
<1>2. Reads' = Reads /\ Asking' = Asking /\ Handled' = Handled /\ DataId' = DataId
  BY DEF Reads, Asking, Handled, DataId
<1>3. /\ Handled \in Nat /\ Asking \in Nat /\ Len(Reads) \in Nat /\ Len(io_araddr) \in Nat
      /\ Handled <= Asking /\ Asking <= Len(Reads) /\ Asking = Handled + Len(io_araddr)
  BY <1>1, ReadCounts
<1>4. \A p \in 1 .. Len(Reads) : burst'[Reads'[p]] = burst[Reads[p]]
  BY <1>2
<1>5. ReadOrder'
  <2>1. \A i \in 1 .. Len(io_araddr) : io_araddr'[i] = Announcement(Reads[Handled + i])'
    <3>1. \A i \in 1 .. Len(io_araddr) : Handled + i \in 1 .. Len(Reads)
      BY <1>3
    <3> QED  BY <1>1, <1>2, <1>4, <3>1 DEF ReadOrder, Announcement
  <2>2. \A p \in 1 .. Len(Reads) :
            /\ burst'[Reads'[p]].got < burst'[Reads'[p]].beats
            /\ p > 1 \/ p > Handled => burst'[Reads'[p]].got = 0
    BY <1>1, <1>4 DEF ReadOrder
  <2> QED  BY <1>1, <1>2, <2>1, <2>2 DEF ReadOrder
<1>6. Due' = Due /\ ReadId' = ReadId
  <2>1. \A i \in 1 .. Handled : burst'[Reads'[i]] = burst[Reads[i]]
    BY <1>3, <1>4
  <2>2. Due' = Due
    BY <1>2, <2>1 DEF Due
  <2>3. ReadId' = ReadId
    BY <1>2, <2>1 DEF ReadId
  <2> QED  BY <2>2, <2>3
<1>7. ReadData'
  <2>1. ReadData
    BY DEF RInv
  <2> QED  BY <1>2, <1>6, <2>1 DEF ReadData
<1> QED  BY <1>5, <1>7 DEF RInv

-----------------------------------------------------------------------------
(* The writes *)

\* The length that the hardware announces is that of the burst.
LEMMA LengthIsKept ==
    ASSUME NEW b, burst[b].beats \in 1 .. LenMod - 1
    PROVE  burstLen(b) = burst[b].beats
<1>1. LenMod \in Nat \ {0}
  BY BridgeAssumption
<1>2. \A m \in Nat \ {0} : \A x \in 1 .. m - 1 : x % m = x
  OBVIOUS
<1> QED  BY <1>1, <1>2 DEF burstLen

\* A step that leaves what is under way as it is and brings no data: addresses
\* and data are only passed on.
LEMMA WriteDataKept ==
    ASSUME WriteData, UNCHANGED <<Pending, Left, Owner, Data>>, Received' + Len(w') = Received + Len(w)
    PROVE  WriteData'
BY DEF WriteData

\* An address is passed on to the host.
LEMMA AwPassed ==
    ASSUME IoTypes, Asked, WInv, master1_aw
    PROVE  WInv' /\ io_awaddr' \in Seq([of : Bursts, len : Nat, id : Nat]) /\ aw' \in Seq(Bursts)
<1>1. WriteOrder /\ WriteData /\ Behind /\ WritesOwnBurst
  BY DEF WInv
<1> DEFINE b == Head(aw)
           e == [of |-> b, len |-> burstLen(b), id |-> burst[b].id]
<1>2. /\ aw # <<>> /\ aw' = Tail(aw) /\ io_awaddr' = Append(io_awaddr, e)
      /\ UNCHANGED <<outstanding, burst, w, io_wdata, io_write_queue, handling, bdone>>
  BY DEF master1_aw, guest, answers
<1>3. /\ aw \in Seq(Bursts) /\ io_awaddr \in Seq([of : Bursts, len : Nat, id : Nat])
      /\ Writes \in Seq(Bursts)
  BY DEF IoTypes, Writes, Directions
<1>4. /\ aw' \in Seq(Bursts) /\ b = aw[1] /\ b \in Bursts
      /\ Len(aw) \in Nat \ {0} /\ Len(aw') = Len(aw) - 1
      /\ \A i \in 1 .. Len(aw) - 1 : aw'[i] = aw[i + 1]
  BY <1>2, <1>3, TailIs
<1>5. /\ Known \in Nat /\ Announced \in Nat /\ Len(io_awaddr) \in Nat
      /\ Len(Writes) = Announced + Len(aw) /\ Announced = Known + Len(io_awaddr)
  BY <1>1, WriteCounts DEF WriteOrder, Announced
<1>6. Announced + 1 \in 1 .. Len(Writes) /\ Writes[Announced + 1] = b
  <2>1. 1 \in 1 .. Len(aw) /\ Announced + 1 \in 1 .. Len(Writes)
    BY <1>4, <1>5
  <2> QED  BY <1>1, <1>4, <2>1 DEF WriteOrder
<1>7. e = Announcement(b)
  <2>1. Announced + 1 \in DOMAIN outstanding["write"]
    BY <1>3, <1>6 DEF Writes
  <2>2. burst[Writes[Announced + 1]].beats \in 1 .. LenMod - 1
    BY <2>1 DEF Asked, Writes, Directions
  <2> QED  BY <1>6, <2>2, LengthIsKept DEF Announcement
<1>8. e \in [of : Bursts, len : Nat, id : Nat]
  BY <1>4, <1>7 DEF IoTypes, Announcement
<1> HIDE DEF e, b
<1>9. /\ io_awaddr' \in Seq([of : Bursts, len : Nat, id : Nat])
      /\ Len(io_awaddr') = Len(io_awaddr) + 1
      /\ \A i \in 1 .. Len(io_awaddr) : io_awaddr'[i] = io_awaddr[i]
      /\ io_awaddr'[Len(io_awaddr) + 1] = e
  BY <1>2, <1>3, <1>8, AppendIs
<1>10. /\ Writes' = Writes /\ Answered' = Answered /\ Known' = Known
       /\ Announced' = Announced + 1 /\ Pending' = Pending /\ Received' = Received
       /\ Left' = Left /\ Owner' = Owner /\ Data' = Data
  <2>1. Writes' = Writes /\ Answered' = Answered /\ Known' = Known
    BY <1>2 DEF Writes, Answered, Known
  <2>2. Announced' = Announced + 1
    BY <1>5, <1>9, <2>1 DEF Announced
  <2>3. Pending' = Pending
    BY <2>1 DEF Pending
  <2>4. Received' = Received /\ Data' = Data
    BY <1>2 DEF Received, InHand, Data
  <2>5. Left' = Left
    BY <1>2, <2>1, <2>3 DEF Left
  <2>6. Owner' = Owner
    BY <2>1, <2>3 DEF Owner
  <2> QED  BY <2>1, <2>2, <2>3, <2>4, <2>5, <2>6
<1>11. WriteOrder'
  <2>1. Len(Writes') = Announced' + Len(aw')
    <3>1. Announced + Len(aw) = Announced + 1 + (Len(aw) - 1)
      BY <1>4, <1>5
    <3>2. Len(Writes') = Announced + Len(aw)
      BY <1>5, <1>10, Zenon
    <3> QED  BY <1>4, <1>10, <3>1, <3>2, Zenon
  <2>2. \A i \in 1 .. Len(io_awaddr') : io_awaddr'[i] = Announcement(Writes[Known + i])
    <3> SUFFICES ASSUME NEW i \in 1 .. Len(io_awaddr) + 1
                 PROVE  io_awaddr'[i] = Announcement(Writes[Known + i])
      BY <1>9
    <3>1. CASE i = Len(io_awaddr) + 1
      <4>1. Known + i = Announced + 1
        BY <1>5, <3>1
      <4> QED  BY <1>6, <1>7, <1>9, <3>1, <4>1
    <3>2. CASE i \in 1 .. Len(io_awaddr)
      BY <1>1, <1>9, <3>2 DEF WriteOrder
    <3> QED  BY <1>5, <3>1, <3>2
  <2>3. \A i \in 1 .. Len(aw') : aw'[i] = Writes[Announced + 1 + i]
    <3> SUFFICES ASSUME NEW i \in 1 .. Len(aw) - 1
                 PROVE  aw'[i] = Writes[Announced + 1 + i]
      BY <1>4
    <3>1. i + 1 \in 1 .. Len(aw) /\ Announced + 1 + i = Announced + (i + 1)
      BY <1>4, <1>5
    <3> QED  BY <1>1, <1>4, <3>1 DEF WriteOrder
  <2> QED  BY <1>1, <1>2, <1>10, <2>1, <2>2, <2>3 DEF WriteOrder, Announcement
<1>12. WriteData'
  BY <1>1, <1>2, <1>10, WriteDataKept
<1>13. Behind'
  <2> SUFFICES ASSUME NEW i \in DOMAIN io_wdata, NEW j \in DOMAIN aw'
               PROVE  io_wdata[i] # aw'[j]
    BY <1>2 DEF Behind
  <2>1. j \in 1 .. Len(aw) - 1
    BY <1>4
  <2>2. j + 1 \in DOMAIN aw /\ aw'[j] = aw[j + 1]
    BY <1>3, <1>4, <2>1
  <2> QED  BY <1>1, <2>2 DEF Behind
<1>14. WritesOwnBurst'
  BY <1>1, <1>2 DEF WritesOwnBurst
<1> QED  BY <1>4, <1>9, <1>11, <1>12, <1>13, <1>14 DEF WInv

\* A beat of data is passed on to the host.
LEMMA WdataPassed ==
    ASSUME IoTypes, WInv, master1_wdata, AddressFirst
    PROVE  WInv' /\ io_wdata' \in Seq(Bursts) /\ w' \in Seq(Bursts)
<1>1. WriteOrder /\ WriteData /\ Behind /\ WritesOwnBurst
  BY DEF WInv
<1> DEFINE b == Head(w)
<1>2. /\ w # <<>> /\ w' = Tail(w) /\ io_wdata' = Append(io_wdata, b)
      /\ \A j \in DOMAIN aw : aw[j] # b
      /\ UNCHANGED <<outstanding, burst, aw, io_awaddr, io_write_queue, handling, bdone>>
  BY DEF master1_wdata, guest, answers
<1>3. w \in Seq(Bursts) /\ io_wdata \in Seq(Bursts)
  BY DEF IoTypes
<1>4. /\ w' \in Seq(Bursts) /\ b = w[1] /\ b \in Bursts
      /\ Len(w) \in Nat \ {0} /\ Len(w') = Len(w) - 1
      /\ \A i \in 1 .. Len(w) - 1 : w'[i] = w[i + 1]
  BY <1>2, <1>3, TailIs
<1> HIDE DEF b
<1>5. /\ io_wdata' \in Seq(Bursts) /\ Len(io_wdata) \in Nat
      /\ Len(io_wdata') = Len(io_wdata) + 1
      /\ \A i \in 1 .. Len(io_wdata) : io_wdata'[i] = io_wdata[i]
      /\ io_wdata'[Len(io_wdata) + 1] = b
  BY <1>2, <1>3, <1>4, AppendIs
<1>6. /\ Writes' = Writes /\ Answered' = Answered /\ Known' = Known
      /\ Announced' = Announced /\ Pending' = Pending /\ InHand' = InHand
      /\ Left' = Left /\ Owner' = Owner
  BY <1>2 DEF Writes, Answered, Known, Announced, Pending, InHand, Left, Owner
<1>7. /\ InHand \in Nat /\ Received = InHand + Len(io_wdata)
      /\ Received' = Received + 1 /\ Received \in Nat
  <2>1. InHand \in {0, 1}
    BY DEF InHand
  <2> QED  BY <1>5, <1>6, <2>1 DEF Received
<1>8. Received' + Len(w') = Received + Len(w)
  BY <1>4, <1>7
<1>9. Data' = Data
  <2> DEFINE D(k) == IF k <= InHand THEN handling
                     ELSE IF k <= Received THEN io_wdata[k - InHand] ELSE w[k - Received]
             D2(k) == IF k <= InHand THEN handling
                      ELSE IF k <= Received + 1 THEN io_wdata'[k - InHand] ELSE w'[k - (Received + 1)]
  <2>1. ASSUME NEW k \in 1 .. Received + Len(w) PROVE D(k) = D2(k)
    <3>1. CASE k <= InHand
      BY <3>1
    <3>2. CASE k > InHand /\ k <= Received
      <4>1. k - InHand \in 1 .. Len(io_wdata) /\ k <= Received + 1 /\ ~(k <= InHand)
        BY <1>5, <1>7, <3>2
      <4> QED  BY <1>5, <3>2, <4>1
    <3>3. CASE k = Received + 1
      <4>1. k - InHand = Len(io_wdata) + 1 /\ k - Received = 1 /\ ~(k <= InHand) /\ ~(k <= Received)
            /\ k <= Received + 1
        BY <1>5, <1>7, <3>3
      <4> QED  BY <1>4, <1>5, <4>1
    <3>4. CASE k > Received + 1
      <4>1. /\ k - (Received + 1) \in 1 .. Len(w) - 1 /\ k - (Received + 1) + 1 = k - Received
            /\ ~(k <= InHand) /\ ~(k <= Received) /\ ~(k <= Received + 1)
        BY <1>4, <1>5, <1>7, <3>4
      <4> QED  BY <1>4, <4>1
    <3> QED  BY <1>7, <3>1, <3>2, <3>3, <3>4
  <2>2. Data = [k \in 1 .. Received + Len(w) |-> D(k)]
    BY DEF Data
  <2>3. Data' = [k \in 1 .. Received' + Len(w') |-> D2(k)]
    BY <1>2, <1>6, <1>7 DEF Data
  <2> HIDE DEF D, D2
  <2> QED  BY <1>8, <2>1, <2>2, <2>3
<1>10. WriteOrder'
  BY <1>1, <1>2, <1>6 DEF WriteOrder, Announcement
<1>11. WriteData'
  BY <1>1, <1>6, <1>8, <1>9, WriteDataKept
<1>12. Behind'
  <2> SUFFICES ASSUME NEW i \in DOMAIN io_wdata', NEW j \in DOMAIN aw
               PROVE  io_wdata'[i] # aw[j]
    BY <1>2 DEF Behind
  <2>1. i \in 1 .. Len(io_wdata) + 1
    BY <1>5
  <2>2. CASE i = Len(io_wdata) + 1
    BY <1>2, <1>5, <2>2
  <2>3. CASE i \in 1 .. Len(io_wdata)
    <3>1. i \in DOMAIN io_wdata
      BY <1>3, <2>3
    <3> QED  BY <1>1, <1>5, <2>3, <3>1 DEF Behind
  <2> QED  BY <1>5, <2>1, <2>2, <2>3
<1>13. WritesOwnBurst'
  BY <1>1, <1>2 DEF WritesOwnBurst
<1> QED  BY <1>4, <1>5, <1>10, <1>11, <1>12, <1>13 DEF WInv

\* The host learns of a write.
LEMMA AwHandled ==
    ASSUME IoTypes, Asked, WInv, OnAwaddr
    PROVE  /\ WInv' /\ io_awaddr' \in Seq([of : Bursts, len : Nat, id : Nat])
           /\ io_write_queue' \in Seq([of : Bursts, wdata_count : Nat, wid : Nat])
<1>1. WriteOrder /\ WriteData /\ Behind /\ WritesOwnBurst
  BY DEF WInv
<1> DEFINE a == Head(io_awaddr)
           q == [of |-> a.of, wdata_count |-> a.len, wid |-> a.id]
<1>2. /\ handling = 0 /\ io_awaddr # <<>> /\ io_awaddr' = Tail(io_awaddr)
      /\ io_write_queue' = Append(io_write_queue, q)
      /\ UNCHANGED <<outstanding, burst, aw, w, io_wdata, handling, bdone>>
  BY DEF OnAwaddr, PollerIdle, hardware, guest, answers
<1>3. /\ io_awaddr \in Seq([of : Bursts, len : Nat, id : Nat])
      /\ io_write_queue \in Seq([of : Bursts, wdata_count : Nat, wid : Nat])
      /\ Writes \in Seq(Bursts)
  BY DEF IoTypes, Writes, Directions
<1>4. /\ io_awaddr' \in Seq([of : Bursts, len : Nat, id : Nat])
      /\ a = io_awaddr[1] /\ a \in [of : Bursts, len : Nat, id : Nat]
      /\ Len(io_awaddr) \in Nat \ {0} /\ Len(io_awaddr') = Len(io_awaddr) - 1
      /\ \A i \in 1 .. Len(io_awaddr) - 1 : io_awaddr'[i] = io_awaddr[i + 1]
  <2> DEFINE E == [of : Bursts, len : Nat, id : Nat]
  <2> HIDE DEF E
  <2>1. io_awaddr \in Seq(E) /\ io_awaddr # <<>>
    BY <1>2, <1>3 DEF E
  <2>2. /\ Tail(io_awaddr) \in Seq(E) /\ Head(io_awaddr) = io_awaddr[1] /\ io_awaddr[1] \in E
        /\ Len(io_awaddr) \in Nat \ {0} /\ Len(Tail(io_awaddr)) = Len(io_awaddr) - 1
        /\ \A i \in 1 .. Len(io_awaddr) - 1 : Tail(io_awaddr)[i] = io_awaddr[i + 1]
    BY <2>1, TailIs
  <2> QED  BY <1>2, <2>2 DEF E
<1>5. /\ Answered \in Nat /\ Known \in Nat /\ Announced \in Nat /\ Pending \in Nat
      /\ Len(io_write_queue) \in Nat /\ Len(aw) \in Nat /\ Len(Writes) \in Nat
      /\ Len(Writes) = Announced + Len(aw) /\ Announced = Known + Len(io_awaddr)
      /\ Known = Answered + Len(io_write_queue) /\ Pending = Len(Writes) - Answered
  BY <1>1, WriteCounts DEF WriteOrder, Announced, Known
<1> DEFINE b == Writes[Known + 1]
<1>6. a = Announcement(b) /\ Known + 1 \in 1 .. Len(Writes)
  <2>1. 1 \in 1 .. Len(io_awaddr) /\ Known + 1 \in 1 .. Len(Writes)
    <3>1. Len(io_awaddr) \in Nat /\ 1 <= Len(io_awaddr)
      BY <1>4
    <3>2. Known + 1 <= Len(Writes)
      BY <3>1, <1>5
    <3> QED  BY <3>1, <3>2, <1>5
  <2> QED  BY <1>1, <1>4, <2>1 DEF WriteOrder
<1>7. burst[b].beats \in 1 .. LenMod - 1
  <2>1. Known + 1 \in DOMAIN outstanding["write"]
    BY <1>3, <1>6 DEF Writes
  <2> QED  BY <2>1 DEF Asked, Writes, Directions
<1>8. q = [of |-> b, wdata_count |-> burst[b].beats, wid |-> burst[b].id]
  BY <1>6 DEF Announcement
<1>9. q \in [of : Bursts, wdata_count : Nat, wid : Nat]
  BY <1>4
<1> HIDE DEF q, a
<1>10. /\ io_write_queue' \in Seq([of : Bursts, wdata_count : Nat, wid : Nat])
       /\ Len(io_write_queue') = Len(io_write_queue) + 1
       /\ \A i \in 1 .. Len(io_write_queue) : io_write_queue'[i] = io_write_queue[i]
       /\ io_write_queue'[Len(io_write_queue) + 1] = q
  BY <1>2, <1>3, <1>9, AppendIs
<1>11. /\ Writes' = Writes /\ Answered' = Answered /\ Pending' = Pending /\ Received' = Received
       /\ Owner' = Owner /\ Data' = Data
  BY <1>2 DEF Writes, Answered, Pending, Received, InHand, Owner, Data
<1>12. Known' = Known + 1 /\ Announced' = Announced
  <2>1. Known' = Answered + Len(io_write_queue')
    BY <1>11 DEF Known
  <2>2. Known' = Known + 1
    <3>1. PICK k, more, known, left :
            k = Len(io_write_queue) /\ more = Len(io_write_queue') /\ known = Known /\ left = Answered
      OBVIOUS
    <3>2. k \in Nat /\ left \in Nat /\ more = k + 1 /\ known = left + k /\ Known' = left + more
      BY <1>5, <1>10, <2>1, <3>1
    <3>3. left + more = known + 1
      BY <3>2
    <3> QED  BY <3>1, <3>2, <3>3
  <2>3. Announced' = Known' + Len(io_awaddr')
    BY DEF Announced
  <2> QED  BY <1>4, <1>5, <2>2, <2>3
<1>13. Left' = Left
  <2> DEFINE L(i) == IF i <= Len(io_write_queue) THEN io_write_queue[i].wdata_count
                     ELSE burst[Writes[Answered + i]].beats
             L2(i) == IF i <= Len(io_write_queue') THEN io_write_queue'[i].wdata_count
                      ELSE burst[Writes[Answered + i]].beats
  <2>1. ASSUME NEW i \in 1 .. Pending PROVE L(i) = L2(i)
    <3>1. CASE i \in 1 .. Len(io_write_queue)
      <4>1. i <= Len(io_write_queue) /\ i <= Len(io_write_queue')
        BY <1>5, <1>10, <3>1
      <4> QED  BY <1>10, <3>1, <4>1
    <3>2. CASE i = Len(io_write_queue) + 1
      <4>1. ~(i <= Len(io_write_queue)) /\ i <= Len(io_write_queue') /\ Answered + i = Known + 1
        BY <1>5, <1>10, <3>2
      <4> QED  BY <1>8, <1>10, <3>2, <4>1
    <3>3. CASE i > Len(io_write_queue) + 1
      <4>1. ~(i <= Len(io_write_queue)) /\ ~(i <= Len(io_write_queue'))
        BY <1>5, <1>10, <3>3
      <4> QED  BY <4>1
    <3> QED  BY <1>5, <3>1, <3>2, <3>3
  <2>2. Left = [i \in 1 .. Pending |-> L(i)]
    BY DEF Left
  <2>3. Left' = [i \in 1 .. Pending |-> L2(i)]
    BY <1>2, <1>11 DEF Left
  <2> HIDE DEF L, L2
  <2> QED  BY <2>1, <2>2, <2>3
<1>14. WriteOrder'
  <2>1. \A i \in 1 .. Len(io_write_queue') :
            /\ io_write_queue'[i].of = Writes[Answered + i]
            /\ io_write_queue'[i].wid = burst[Writes[Answered + i]].id
            /\ io_write_queue'[i].wdata_count \in 1 .. LenMod - 1
    <3> SUFFICES ASSUME NEW i \in 1 .. Len(io_write_queue) + 1
                 PROVE  /\ io_write_queue'[i].of = Writes[Answered + i]
                        /\ io_write_queue'[i].wid = burst[Writes[Answered + i]].id
                        /\ io_write_queue'[i].wdata_count \in 1 .. LenMod - 1
      BY <1>10
    <3>1. CASE i = Len(io_write_queue) + 1
      <4>1. Answered + i = Known + 1
        BY <1>5, <3>1
      <4>2. io_write_queue'[i] = q
        BY <1>10, <3>1
      <4>3. b = Writes[Answered + i]
        BY <4>1
      <4>4. /\ q.of = b /\ q.wid = burst[b].id /\ q.wdata_count \in 1 .. LenMod - 1
        BY <1>7, <1>8
      <4> HIDE DEF b
      <4> QED  BY <4>2, <4>3, <4>4, Zenon
    <3>2. CASE i \in 1 .. Len(io_write_queue)
      BY <1>1, <1>10, <3>2 DEF WriteOrder
    <3>3. \A n \in Nat : \A k \in 1 .. n + 1 : k = n + 1 \/ k \in 1 .. n
      OBVIOUS
    <3>4. i = Len(io_write_queue) + 1 \/ i \in 1 .. Len(io_write_queue)
      BY <1>5, <3>3, Zenon
    <3> QED  BY <3>1, <3>2, <3>4, Zenon
  <2>2. \A i \in 1 .. Len(io_awaddr') : io_awaddr'[i] = Announcement(Writes[Known + 1 + i])
    <3> SUFFICES ASSUME NEW i \in 1 .. Len(io_awaddr) - 1
                 PROVE  io_awaddr'[i] = Announcement(Writes[Known + 1 + i])
      BY <1>4
    <3>1. i + 1 \in 1 .. Len(io_awaddr) /\ Known + 1 + i = Known + (i + 1)
      BY <1>4, <1>5
    <3> QED  BY <1>1, <1>4, <3>1 DEF WriteOrder
  <2> QED  BY <1>1, <1>2, <1>11, <1>12, <2>1, <2>2 DEF WriteOrder, Announcement
<1>15. WriteData'
  BY <1>1, <1>2, <1>11, <1>13, WriteDataKept
<1>16. Behind' /\ WritesOwnBurst'
  BY <1>1, <1>2 DEF Behind, WritesOwnBurst
<1> QED  BY <1>4, <1>10, <1>14, <1>15, <1>16 DEF WInv

\* The first item is of the first group.
LEMMA FirstOwned ==
    ASSUME NEW t, NEW count, NEW total, NEW size, Laid(t, count, total, size),
           NEW item, NEW own, Owned(t, count, item, own), total > 0
    PROVE  count > 0 /\ item[1] = own[1]
<1>1. /\ t \in [Nat -> Int] /\ count \in Nat /\ total \in Nat
      /\ t[0] = 0 /\ t[count] = total
  BY DEF Laid
<1>2. count > 0
  BY <1>1
<1>3. 1 \in 1 .. count /\ 1 - 1 = 0
  BY <1>1, <1>2
<1>4. t[1] = t[1 - 1] + size[1] /\ size[1] \in Nat \ {0}
  BY <1>3 DEF Laid
<1>5. 1 \in t[1 - 1] + 1 .. t[1]
  BY <1>1, <1>3, <1>4
<1> QED  BY <1>2, <1>3, <1>5 DEF Owned

\* Every item is of some group.
LEMMA AllOwned ==
    ASSUME NEW t, NEW count, NEW total, NEW size, Laid(t, count, total, size),
           NEW item, NEW own, Owned(t, count, item, own), NEW k \in 1 .. total
    PROVE  \E i \in 1 .. count : item[k] = own[i]
<1>1. /\ t \in [Nat -> Int] /\ count \in Nat /\ total \in Nat
      /\ t[0] = 0 /\ t[count] = total
  BY DEF Laid
<1> DEFINE After == {i \in 0 .. count : k <= t[i]}
<1>2. count \in After /\ After \subseteq Nat
  BY <1>1
<1>3. PICK i \in After : \A j \in After : i <= j
  BY <1>2, LeastNat
<1>4. i \in 1 .. count /\ i - 1 \in 0 .. count /\ i - 1 \notin After
  BY <1>1, <1>3
<1>5. k \in t[i - 1] + 1 .. t[i]
  <2>1. t[i - 1] \in Int /\ t[i] \in Int /\ ~(k <= t[i - 1]) /\ k <= t[i]
    BY <1>1, <1>3, <1>4
  <2> QED  BY <2>1
<1> QED  BY <1>4, <1>5 DEF Owned

\* The host begins with a beat, of the write that it must be counted for.
LEMMA WdataBegins ==
    ASSUME IoTypes, WInv, OnWdata, AddressFirst
    PROVE  WInv' /\ io_wdata' \in Seq(Bursts) /\ handling' \in Bursts
<1>1. WriteOrder /\ WriteData /\ Behind
  BY DEF WInv
<1>2. /\ handling = 0 /\ io_wdata # <<>> /\ io_awaddr = <<>>
      /\ handling' = Head(io_wdata) /\ io_wdata' = Tail(io_wdata)
      /\ UNCHANGED <<outstanding, burst, aw, w, io_awaddr, io_write_queue, bdone>>
  BY DEF OnWdata, PollerIdle, hardware, guest, answers
<1>3. /\ io_wdata \in Seq(Bursts) /\ w \in Seq(Bursts) /\ aw \in Seq(Bursts)
      /\ io_write_queue \in Seq([of : Bursts, wdata_count : Nat, wid : Nat])
  BY DEF IoTypes
<1>4. /\ io_wdata' \in Seq(Bursts) /\ handling' = io_wdata[1] /\ handling' \in Bursts
      /\ Len(io_wdata) \in Nat \ {0} /\ Len(io_wdata') = Len(io_wdata) - 1
      /\ \A i \in 1 .. Len(io_wdata) - 1 : io_wdata'[i] = io_wdata[i + 1]
      /\ handling' # 0 /\ Len(w) \in Nat
  <2>1. /\ io_wdata' \in Seq(Bursts) /\ handling' = io_wdata[1] /\ handling' \in Bursts
        /\ Len(io_wdata) \in Nat \ {0} /\ Len(io_wdata') = Len(io_wdata) - 1
        /\ \A i \in 1 .. Len(io_wdata) - 1 : io_wdata'[i] = io_wdata[i + 1]
    BY <1>2, <1>3, TailIs
  <2>2. 0 \notin Bursts
    BY BridgeAssumption DEF Bursts
  <2>3. Len(w) \in Nat
    BY <1>3
  <2> QED  BY <2>1, <2>2, <2>3
<1>5. /\ Writes' = Writes /\ Answered' = Answered /\ Known' = Known
      /\ Announced' = Announced /\ Pending' = Pending
      /\ Left' = Left /\ Owner' = Owner
  BY <1>2 DEF Writes, Answered, Known, Announced, Pending, Left, Owner
<1>6. InHand = 0 /\ InHand' = 1 /\ Received = Len(io_wdata) /\ Received' = Received
  <2>1. InHand = 0 /\ InHand' = 1
    BY <1>2, <1>4 DEF InHand
  <2>2. Received = InHand + Len(io_wdata) /\ Received' = InHand' + Len(io_wdata')
    BY DEF Received
  <2> QED  BY <1>4, <2>1, <2>2
<1>7. Data' = Data
  <2> DEFINE D(k) == IF k <= 0 THEN 0
                     ELSE IF k <= Received THEN io_wdata[k - 0] ELSE w[k - Received]
             D2(k) == IF k <= 1 THEN handling'
                      ELSE IF k <= Received THEN io_wdata'[k - 1] ELSE w[k - Received]
  <2>1. ASSUME NEW k \in 1 .. Received + Len(w) PROVE D(k) = D2(k)
    <3>1. CASE k = 1
      <4>1. ~(k <= 0) /\ k <= 1 /\ k <= Received /\ k - 0 = 1
        BY <1>4, <1>6, <3>1
      <4> QED  BY <1>4, <4>1
    <3>2. CASE k > 1 /\ k <= Received
      <4>1. /\ ~(k <= 0) /\ ~(k <= 1) /\ k - 1 \in 1 .. Len(io_wdata) - 1
            /\ k - 1 + 1 = k /\ k - 0 = k
        BY <1>4, <1>6, <3>2
      <4> QED  BY <1>4, <3>2, <4>1
    <3>3. CASE k > Received
      <4>1. ~(k <= 0) /\ ~(k <= 1) /\ ~(k <= Received)
        BY <1>4, <1>6, <3>3
      <4> QED  BY <4>1
    <3> QED  BY <1>4, <1>6, <3>1, <3>2, <3>3
  <2>2. Data = [k \in 1 .. Received + Len(w) |-> D(k)]
    BY <1>2, <1>6 DEF Data
  <2>3. Data' = [k \in 1 .. Received + Len(w) |-> D2(k)]
    BY <1>2, <1>6 DEF Data
  <2> HIDE DEF D, D2
  <2> QED  BY <2>1, <2>2, <2>3
<1>8. WriteOrder'
  BY <1>1, <1>2, <1>5 DEF WriteOrder, Announcement
<1>9. WriteData'
  BY <1>1, <1>2, <1>5, <1>6, <1>7, WriteDataKept
<1>10. Behind'
  <2> SUFFICES ASSUME NEW i \in DOMAIN io_wdata', NEW j \in DOMAIN aw
               PROVE  io_wdata'[i] # aw[j]
    BY <1>2 DEF Behind
  <2>1. i \in 1 .. Len(io_wdata) - 1
    BY <1>4
  <2>2. i + 1 \in DOMAIN io_wdata /\ io_wdata'[i] = io_wdata[i + 1]
    <3>1. Len(io_wdata) \in Nat /\ DOMAIN io_wdata = 1 .. Len(io_wdata)
      BY <1>3, <1>4
    <3> QED  BY <1>4, <2>1, <3>1
  <2> QED  BY <1>1, <2>2 DEF Behind
<1>11. Data[1] = Owner[1] /\ Pending > 0 /\ Pending \in Nat
  <2>1. PICK t : Laid(t, Pending, Received + Len(w), Left) /\ Owned(t, Pending, Data, Owner)
    BY <1>1 DEF WriteData
  <2>2. Received + Len(w) > 0
    BY <1>4, <1>6
  <2>3. Pending > 0 /\ Data[1] = Owner[1]
    BY <2>1, <2>2, FirstOwned
  <2>4. Pending \in Nat
    BY <2>1 DEF Laid
  <2> QED  BY <2>3, <2>4
<1>12. Data[1] = io_wdata[1]
  <2>1. 1 \in 1 .. Received + Len(w) /\ ~(1 <= 0) /\ 1 <= Received /\ 1 - 0 = 1
    BY <1>4, <1>6
  <2> QED  BY <1>6, <2>1 DEF Data
<1>13. Owner[1] = Writes[Answered + 1]
  BY <1>11 DEF Owner
<1>14. WritesOwnBurst'
  <2>1. /\ Len(io_awaddr) = 0 /\ Len(io_write_queue) \in Nat /\ Len(aw) \in Nat
        /\ Pending = Len(io_write_queue) + Len(io_awaddr) + Len(aw)
        /\ Answered \in Nat /\ Known = Answered + Len(io_write_queue)
        /\ Announced = Known + Len(io_awaddr)
    BY <1>1, <1>2, WriteCounts DEF Known, Announced
  <2>2. CASE Len(io_write_queue) = 0
    <3>1. 1 \in 1 .. Len(aw) /\ Announced = Answered
      BY <1>11, <2>1, <2>2
    <3>2. aw[1] = Writes[Answered + 1] /\ 1 \in DOMAIN aw /\ 1 \in DOMAIN io_wdata
      BY <1>1, <1>3, <1>4, <3>1 DEF WriteOrder
    <3> QED  BY <1>1, <1>11, <1>12, <1>13, <3>2 DEF Behind
  <2>3. CASE Len(io_write_queue) > 0
    <3>1. 1 \in 1 .. Len(io_write_queue) /\ io_write_queue # <<>>
      BY <1>3, <2>1, <2>3
    <3>2. io_write_queue[1].of = Writes[Answered + 1] /\ Head(io_write_queue) = io_write_queue[1]
      BY <1>1, <1>3, <3>1, TailIs DEF WriteOrder
    <3> QED  BY <1>2, <1>4, <1>11, <1>12, <1>13, <3>1, <3>2 DEF WritesOwnBurst
  <2> QED  BY <2>1, <2>2, <2>3
<1> QED  BY <1>4, <1>8, <1>9, <1>10, <1>14 DEF WInv

\* The data without the beat that was in hand.
LEMMA DataShifts ==
    ASSUME io_wdata \in Seq(Bursts), w \in Seq(Bursts), handling # 0, handling' = 0,
           io_wdata' = io_wdata, w' = w
    PROVE  /\ Received' + Len(w') = (Received + Len(w)) - 1
           /\ \A k \in 1 .. (Received + Len(w)) - 1 : Data'[k] = Data[k + 1]
<1>1. Len(io_wdata) \in Nat /\ Len(w) \in Nat
  OBVIOUS
<1>2. InHand = 1 /\ InHand' = 0
  BY DEF InHand
<1>3. Received = 1 + Len(io_wdata) /\ Received' = Len(io_wdata)
  <2>1. Received = InHand + Len(io_wdata) /\ Received' = InHand' + Len(io_wdata)
    BY DEF Received
  <2> QED  BY <1>1, <1>2, <2>1
<1>4. Received' + Len(w') = (Received + Len(w)) - 1
  BY <1>1, <1>3
<1>5. ASSUME NEW k \in 1 .. (Received + Len(w)) - 1
      PROVE  Data'[k] = Data[k + 1]
  <2>1. Data[k + 1] = IF k + 1 <= 1 THEN handling
                      ELSE IF k + 1 <= Received THEN io_wdata[(k + 1) - 1] ELSE w[(k + 1) - Received]
    <3>1. k + 1 \in 1 .. Received + Len(w)
      BY <1>1, <1>3
    <3>2. Data = [j \in 1 .. Received + Len(w) |->
                    IF j <= 1 THEN handling
                    ELSE IF j <= Received THEN io_wdata[j - 1] ELSE w[j - Received]]
      BY <1>2 DEF Data
    <3> QED  BY <3>1, <3>2, Zenon
  <2>2. Data'[k] = IF k <= 0 THEN handling'
                   ELSE IF k <= Received' THEN io_wdata[k - 0] ELSE w[k - Received']
    <3>1. k \in 1 .. Received' + Len(w')
      BY <1>4
    <3> QED  BY <1>2, <3>1 DEF Data
  <2>3. CASE k <= Len(io_wdata)
    <3>1. /\ ~(k + 1 <= 1) /\ k + 1 <= Received /\ ~(k <= 0) /\ k <= Received'
          /\ (k + 1) - 1 = k /\ k - 0 = k
      BY <1>1, <1>3, <2>3
    <3> QED  BY <2>1, <2>2, <3>1
  <2>4. CASE k > Len(io_wdata)
    <3>1. /\ ~(k + 1 <= 1) /\ ~(k + 1 <= Received) /\ ~(k <= 0) /\ ~(k <= Received')
          /\ (k + 1) - Received = k - Received'
      BY <1>1, <1>3, <2>4
    <3> QED  BY <2>1, <2>2, <3>1
  <2> QED  BY <1>1, <2>3, <2>4
<1> QED  BY <1>4, <1>5

\* The host has counted a beat.
LEMMA WdataCounted ==
    ASSUME IoTypes, WInv, EndWdata
    PROVE  /\ WInv' /\ handling' = 0 /\ bdone' \in Seq(Nat)
           /\ io_write_queue' \in Seq([of : Bursts, wdata_count : Nat, wid : Nat])
<1>1. WriteOrder /\ WriteData /\ Behind /\ WritesOwnBurst
  BY DEF WInv
<1> DEFINE Q == [of : Bursts, wdata_count : Nat, wid : Nat]
           h == Head(io_write_queue)
           q == CountDown(h)
<1>2. /\ handling # 0 /\ handling' = 0
      /\ UNCHANGED <<outstanding, burst, aw, w, io_awaddr, io_wdata>>
      /\ IF q.wdata_count = 0
         THEN bdone' = Append(bdone, q.wid) /\ io_write_queue' = Tail(io_write_queue)
         ELSE io_write_queue' = <<q>> \o Tail(io_write_queue) /\ bdone' = bdone
  BY DEF EndWdata, PollerIdle, hardware, guest, indications
<1>3. /\ io_write_queue \in Seq(Q) /\ bdone \in Seq(Nat)
      /\ io_wdata \in Seq(Bursts) /\ w \in Seq(Bursts) /\ io_write_queue # <<>>
  BY <1>1, <1>2 DEF IoTypes, WritesOwnBurst
<1>4. /\ h = io_write_queue[1] /\ h \in Q /\ Tail(io_write_queue) \in Seq(Q)
      /\ Len(io_write_queue) \in Nat \ {0}
      /\ Len(Tail(io_write_queue)) = Len(io_write_queue) - 1
      /\ \A i \in 1 .. Len(io_write_queue) - 1 : Tail(io_write_queue)[i] = io_write_queue[i + 1]
  <2>1. io_write_queue \in Seq(Q) /\ io_write_queue # <<>>
    BY <1>3
  <2> HIDE DEF Q
  <2> QED  BY <2>1, TailIs
<1>5. /\ Answered \in Nat /\ Known \in Nat /\ Announced \in Nat /\ Pending \in Nat
      /\ Len(Writes) \in Nat /\ Len(bdone) = Answered
      /\ Known = Answered + Len(io_write_queue) /\ Announced = Known + Len(io_awaddr)
      /\ Pending = Len(Writes) - Answered /\ Len(io_write_queue) <= Pending
      /\ Received + Len(w) \in Nat
  <2>1. /\ Answered \in Nat /\ Known \in Nat /\ Announced \in Nat /\ Pending \in Nat
        /\ Len(Writes) \in Nat /\ Pending = Len(Writes) - Answered
        /\ Len(io_awaddr) \in Nat /\ Len(aw) \in Nat
        /\ Pending = Len(io_write_queue) + Len(io_awaddr) + Len(aw)
        /\ Received \in Nat /\ Len(w) \in Nat
    BY <1>1, WriteCounts
  <2>2. Len(io_write_queue) <= Pending /\ Received + Len(w) \in Nat
    BY <1>4, <2>1
  <2> QED  BY <2>1, <2>2 DEF Known, Announced, Answered
<1>6. /\ h.of = Writes[Answered + 1] /\ h.wid = burst[Writes[Answered + 1]].id
      /\ h.wdata_count \in 1 .. LenMod - 1
  <2>1. 1 \in 1 .. Len(io_write_queue)
    BY <1>4
  <2> QED  BY <1>1, <1>4, <2>1 DEF WriteOrder
<1> HIDE DEF h
<1>7. q = [of |-> h.of, wdata_count |-> h.wdata_count - 1, wid |-> h.wid]
  <2>1. LenMod \in Nat /\ CountMod \in Nat \ {0} /\ LenMod <= CountMod
    BY BridgeAssumption
  <2>2. h.wdata_count - 1 \in 0 .. CountMod - 1
    BY <1>6, <2>1
  <2>3. \A m \in Nat \ {0} : \A x \in 0 .. m - 1 : x % m = x
    OBVIOUS
  <2>4. (h.wdata_count - 1) % CountMod = h.wdata_count - 1
    BY <2>1, <2>2, <2>3
  <2>5. q = [h EXCEPT !.wdata_count = (h.wdata_count - 1) % CountMod]
    BY <1>4 DEF CountDown
  <2> QED  BY <1>4, <2>4, <2>5
<1> HIDE DEF q
<1>8. q \in Q /\ q.wdata_count = h.wdata_count - 1
  <2>1. h.wdata_count - 1 \in Nat
    BY <1>6
  <2> QED  BY <1>4, <1>7, <2>1
<1> DEFINE total == Received + Len(w)
<1>9. PICK t : Laid(t, Pending, total, Left) /\ Owned(t, Pending, Data, Owner)
  BY <1>1 DEF WriteData
<1>10. /\ Left \in [1 .. Pending -> Nat \ {0}] /\ Left[1] = h.wdata_count /\ 1 \in 1 .. Pending
       /\ Pending > 0
  <2>1. 1 \in 1 .. Pending /\ 1 <= Len(io_write_queue) /\ Pending > 0
    BY <1>4, <1>5
  <2>2. Left[1] = io_write_queue[1].wdata_count
    BY <2>1 DEF Left
  <2> QED  BY <1>4, <1>9, <2>1, <2>2 DEF Laid
<1>11. /\ Received' + Len(w') = total - 1
       /\ \A k \in 1 .. total - 1 : Data'[k] = Data[k + 1]
  BY <1>2, <1>3, DataShifts
<1> HIDE DEF total
<1>12. Writes' = Writes
  BY <1>2 DEF Writes
<1>13. Behind' /\ WritesOwnBurst'
  BY <1>1, <1>2 DEF Behind, WritesOwnBurst
<1>14. CASE q.wdata_count = 0
  <2>1. bdone' = Append(bdone, q.wid) /\ io_write_queue' = Tail(io_write_queue)
    BY <1>2, <1>14
  <2>2. q.wid \in Nat /\ q.wid = burst[Writes[Answered + 1]].id
    BY <1>6, <1>7, <1>8
  <2>3. /\ bdone' \in Seq(Nat) /\ Len(bdone') = Len(bdone) + 1
        /\ \A i \in 1 .. Len(bdone) : bdone'[i] = bdone[i]
        /\ bdone'[Len(bdone) + 1] = q.wid
    BY <1>3, <2>1, <2>2, AppendIs
  <2>4. Answered' = Answered + 1 /\ Known' = Known /\ Announced' = Announced /\ Pending' = Pending - 1
    <3>1. Answered' = Answered + 1
      BY <2>3 DEF Answered
    <3>2. Known' = Answered' + Len(io_write_queue')
      BY DEF Known
    <3>3. Known' = Known
      <4>1. Len(io_write_queue') = Len(io_write_queue) - 1 /\ Len(io_write_queue) \in Nat
        BY <1>4, <2>1
      <4>2. Answered \in Nat /\ Known = Answered + Len(io_write_queue)
        BY <1>5
      <4> QED  BY <3>1, <3>2, <4>1, <4>2
    <3>4. Announced' = Announced
      BY <1>2, <3>3 DEF Announced
    <3>5. Pending' = Len(Writes') - Answered'
      BY DEF Pending
    <3> QED  BY <1>5, <1>12, <3>1, <3>3, <3>4, <3>5
  <2>5. /\ \A i \in 1 .. Pending - 1 : Left'[i] = Left[i + 1]
        /\ \A i \in 1 .. Pending - 1 : Owner'[i] = Owner[i + 1]
    <3> SUFFICES ASSUME NEW i \in 1 .. Pending - 1
                 PROVE  Left'[i] = Left[i + 1] /\ Owner'[i] = Owner[i + 1]
      OBVIOUS
    <3>1. /\ i \in 1 .. Pending' /\ i + 1 \in 1 .. Pending /\ Answered + 1 + i = Answered + (i + 1)
      BY <1>5, <2>4
    <3>2. Owner'[i] = Owner[i + 1]
      BY <1>12, <2>4, <3>1 DEF Owner
    <3>3. Left'[i] = IF i <= Len(io_write_queue') THEN io_write_queue'[i].wdata_count
                     ELSE burst[Writes[Answered + (i + 1)]].beats
      BY <1>2, <1>12, <2>4, <3>1 DEF Left
    <3>4. Left[i + 1] = IF i + 1 <= Len(io_write_queue) THEN io_write_queue[i + 1].wdata_count
                        ELSE burst[Writes[Answered + (i + 1)]].beats
      BY <3>1 DEF Left
    <3>5. CASE i + 1 <= Len(io_write_queue)
      <4>1. i \in 1 .. Len(io_write_queue) - 1 /\ i <= Len(io_write_queue')
        BY <1>4, <2>1, <3>5
      <4>2. io_write_queue'[i] = io_write_queue[i + 1]
        BY <1>4, <2>1, <4>1
      <4> QED  BY <3>2, <3>3, <3>4, <3>5, <4>1, <4>2
    <3>6. CASE ~(i + 1 <= Len(io_write_queue))
      <4>1. ~(i <= Len(io_write_queue'))
        BY <1>4, <2>1, <3>6
      <4> QED  BY <3>2, <3>3, <3>4, <3>6, <4>1
    <3> QED  BY <3>5, <3>6
  <2>6. Left' \in [1 .. Pending - 1 -> Nat \ {0}]
    <3>1. \A i \in 1 .. Pending - 1 : Left'[i] \in Nat \ {0}
      <4>1. \A i \in 1 .. Pending - 1 : i + 1 \in 1 .. Pending
        BY <1>5
      <4> QED  BY <1>10, <2>5, <4>1
    <3>2. Left' = [i \in 1 .. Pending - 1 |-> Left'[i]]
      BY <2>4 DEF Left
    <3> QED  BY <3>1, <3>2
  <2>7. Left[1] = 1
    BY <1>6, <1>8, <1>10, <1>14
  <2>8. WriteData'
    <3>1. Laid(Without(t), Pending - 1, total - 1, Left')
      BY <1>9, <1>10, <2>5, <2>6, <2>7, DropLaid
    <3>2. Owned(Without(t), Pending - 1, Data', Owner')
      <4>1. \A k \in 1 .. total - 1 : Data'[k] = Data[k + 1]
        BY <1>11, Zenon
      <4>2. \A i \in 1 .. Pending - 1 : Owner'[i] = Owner[i + 1]
        BY <2>5, Zenon
      <4>3. Pending > 0
        BY <1>10
      <4> QED  BY <1>9, <2>7, <4>1, <4>2, <4>3, DropOwned
    <3> QED  BY <1>11, <2>4, <3>1, <3>2 DEF WriteData
  <2>9. WriteOrder'
    <3>1. \A i \in 1 .. Len(bdone') : bdone'[i] = burst[Writes[i]].id
      <4> SUFFICES ASSUME NEW i \in 1 .. Len(bdone) + 1
                   PROVE  bdone'[i] = burst[Writes[i]].id
        BY <2>3
      <4>1. CASE i = Len(bdone) + 1
        BY <1>5, <2>2, <2>3, <4>1
      <4>2. CASE i \in 1 .. Len(bdone)
        BY <1>1, <2>3, <4>2 DEF WriteOrder
      <4> QED  BY <1>5, <4>1, <4>2
    <3>2. \A i \in 1 .. Len(io_write_queue') :
            /\ io_write_queue'[i].of = Writes[Answered + 1 + i]
            /\ io_write_queue'[i].wid = burst[Writes[Answered + 1 + i]].id
            /\ io_write_queue'[i].wdata_count \in 1 .. LenMod - 1
      <4> SUFFICES ASSUME NEW i \in 1 .. Len(io_write_queue) - 1
                   PROVE  /\ io_write_queue'[i].of = Writes[Answered + 1 + i]
                          /\ io_write_queue'[i].wid = burst[Writes[Answered + 1 + i]].id
                          /\ io_write_queue'[i].wdata_count \in 1 .. LenMod - 1
        BY <1>4, <2>1
      <4>1. i + 1 \in 1 .. Len(io_write_queue) /\ Answered + 1 + i = Answered + (i + 1)
        BY <1>4, <1>5
      <4>2. io_write_queue'[i] = io_write_queue[i + 1]
        BY <1>4, <2>1
      <4> QED  BY <1>1, <4>1, <4>2 DEF WriteOrder
    <3> QED  BY <1>1, <1>2, <1>12, <2>4, <3>1, <3>2 DEF WriteOrder, Announcement
  <2> QED  BY <1>2, <1>4, <1>13, <2>1, <2>3, <2>8, <2>9 DEF WInv
<1>15. CASE q.wdata_count # 0
  <2>1. bdone' = bdone /\ io_write_queue' = <<q>> \o Tail(io_write_queue)
    BY <1>2, <1>15
  <2>2. /\ io_write_queue' \in Seq(Q) /\ Len(io_write_queue') = Len(io_write_queue)
        /\ io_write_queue'[1] = q
        /\ \A i \in 2 .. Len(io_write_queue) : io_write_queue'[i] = io_write_queue[i]
    <3>1. io_write_queue \in Seq(Q) /\ q \in Q /\ io_write_queue # <<>>
      BY <1>3, <1>4, <1>8
    <3> HIDE DEF q, Q
    <3> QED  BY <2>1, <3>1, NewHeadIs
  <2>3. Answered' = Answered /\ Known' = Known /\ Announced' = Announced /\ Pending' = Pending
    BY <1>2, <1>12, <2>1, <2>2 DEF Answered, Known, Announced, Pending
  <2>4. Owner' = Owner
    BY <1>12, <2>3 DEF Owner
  <2>5. Left'[1] = Left[1] - 1 /\ \A i \in 2 .. Pending : Left'[i] = Left[i]
    <3>1. ASSUME NEW i \in 1 .. Pending
          PROVE  Left'[i] = IF i <= Len(io_write_queue) THEN io_write_queue'[i].wdata_count
                            ELSE burst[Writes[Answered + i]].beats
      BY <1>2, <1>12, <2>2, <2>3 DEF Left
    <3>2. Left'[1] = Left[1] - 1
      <4>1. 1 <= Len(io_write_queue)
        BY <1>4
      <4> QED  BY <1>8, <1>10, <2>2, <3>1, <4>1
    <3>3. ASSUME NEW i \in 2 .. Pending PROVE Left'[i] = Left[i]
      <4>1. i \in 1 .. Pending /\ (i <= Len(io_write_queue) => i \in 2 .. Len(io_write_queue))
        BY <1>4
      <4>2. Left[i] = IF i <= Len(io_write_queue) THEN io_write_queue[i].wdata_count
                      ELSE burst[Writes[Answered + i]].beats
        BY <4>1 DEF Left
      <4> QED  BY <2>2, <3>1, <4>1, <4>2
    <3> QED  BY <3>2, <3>3
  <2>6. Left[1] > 1
    BY <1>6, <1>8, <1>10, <1>15
  <2>7. Left' \in [1 .. Pending -> Nat \ {0}]
    <3>1. \A i \in 1 .. Pending : Left'[i] \in Nat \ {0}
      <4>1. \A i \in 1 .. Pending : i = 1 \/ i \in 2 .. Pending
        BY <1>5
      <4>2. Left[1] - 1 \in Nat \ {0}
        BY <1>10, <2>6
      <4> QED  BY <1>10, <2>5, <4>1, <4>2
    <3>2. Left' = [i \in 1 .. Pending |-> Left'[i]]
      BY <2>3 DEF Left
    <3> QED  BY <3>1, <3>2
  <2>8. WriteData'
    <3>1. Laid(Shortened(t), Pending, total - 1, Left')
      BY <1>9, <1>10, <2>5, <2>6, <2>7, ShortenLaid
    <3>2. Owned(Shortened(t), Pending, Data', Owner')
      <4>1. \A k \in 1 .. total - 1 : Data'[k] = Data[k + 1]
        BY <1>11, Zenon
      <4>2. \A i \in 1 .. Pending : Owner'[i] = Owner[i]
        BY <2>4
      <4>3. Pending > 0
        BY <1>10
      <4> QED  BY <1>9, <2>6, <4>1, <4>2, <4>3, ShortenOwned
    <3> QED  BY <1>11, <2>3, <3>1, <3>2 DEF WriteData
  <2>9. WriteOrder'
    <3>1. \A i \in 1 .. Len(io_write_queue') :
            /\ io_write_queue'[i].of = Writes[Answered + i]
            /\ io_write_queue'[i].wid = burst[Writes[Answered + i]].id
            /\ io_write_queue'[i].wdata_count \in 1 .. LenMod - 1
      <4> SUFFICES ASSUME NEW i \in 1 .. Len(io_write_queue)
                   PROVE  /\ io_write_queue'[i].of = Writes[Answered + i]
                          /\ io_write_queue'[i].wid = burst[Writes[Answered + i]].id
                          /\ io_write_queue'[i].wdata_count \in 1 .. LenMod - 1
        BY <2>2
      <4>1. CASE i = 1
        <5>1. q.wdata_count \in 1 .. LenMod - 1
          <6>1. LenMod \in Nat
            BY BridgeAssumption
          <6> QED  BY <1>6, <1>8, <1>15, <6>1
        <5>2. q.of = h.of /\ q.wid = h.wid
          BY <1>7
        <5> QED  BY <1>6, <2>2, <4>1, <5>1, <5>2
      <4>2. CASE i \in 2 .. Len(io_write_queue)
        BY <1>1, <2>2, <4>2 DEF WriteOrder
      <4>3. i = 1 \/ i \in 2 .. Len(io_write_queue)
        BY <1>4
      <4> QED  BY <4>1, <4>2, <4>3
    <3> QED  BY <1>1, <1>2, <1>12, <2>1, <2>3, <3>1 DEF WriteOrder, Announcement
  <2> QED  BY <1>2, <1>3, <1>13, <2>1, <2>2, <2>8, <2>9 DEF WInv
<1> QED  BY <1>14, <1>15

\* The guest takes the response of its oldest write.
LEMMA ResponseTaken ==
    ASSUME IoTypes, Distinct, Asked, WInv, TakeResponse
    PROVE  /\ WInv' /\ bdone' \in Seq(Nat)
           /\ Over("write", 1) /\ outstanding["write"] # <<>>
<1>1. WriteOrder /\ WriteData /\ Behind /\ WritesOwnBurst
  BY DEF WInv
<1>2. /\ bdone # <<>> /\ bdone' = Tail(bdone)
      /\ Over("write", Asker("write", Head(bdone)))
      /\ UNCHANGED <<aw, w, io_awaddr, io_wdata, io_write_queue, handling>>
  BY DEF TakeResponse, indications
<1>3. /\ bdone' \in Seq(Nat) /\ Head(bdone) = bdone[1]
      /\ Len(bdone) \in Nat \ {0} /\ Len(bdone') = Len(bdone) - 1
      /\ \A i \in 1 .. Len(bdone) - 1 : bdone'[i] = bdone[i + 1]
  BY <1>2, TailIs DEF IoTypes
<1>4. /\ Answered \in Nat /\ Known \in Nat /\ Announced \in Nat /\ Pending \in Nat
      /\ Len(Writes) \in Nat /\ Len(bdone) = Answered /\ Writes \in Seq(Bursts)
      /\ Len(io_write_queue) \in Nat /\ Len(io_awaddr) \in Nat /\ Len(aw) \in Nat
      /\ Known = Answered + Len(io_write_queue) /\ Announced = Known + Len(io_awaddr)
      /\ Pending = Len(Writes) - Answered /\ Len(Writes) = Announced + Len(aw)
      /\ Answered <= Len(Writes)
  <2>1. /\ Answered \in Nat /\ Known \in Nat /\ Announced \in Nat /\ Pending \in Nat
        /\ Len(Writes) \in Nat /\ Writes \in Seq(Bursts)
        /\ Len(io_write_queue) \in Nat /\ Len(io_awaddr) \in Nat /\ Len(aw) \in Nat
        /\ Pending = Len(Writes) - Answered
    BY <1>1, WriteCounts
  <2>2. Len(Writes) = Announced + Len(aw)
    BY <1>1 DEF WriteOrder
  <2>3. Known = Answered + Len(io_write_queue) /\ Announced = Known + Len(io_awaddr)
    BY DEF Known, Announced
  <2>4. Answered <= Len(Writes)
    BY <2>1, <2>2, <2>3
  <2> QED  BY <2>1, <2>2, <2>3, <2>4 DEF Answered
<1>5. outstanding["write"] # <<>> /\ burst[outstanding["write"][1]].id = Head(bdone)
  <2>1. 1 \in 1 .. Len(bdone) /\ Len(Writes) > 0
    BY <1>3, <1>4
  <2>2. Writes # <<>>
    BY <1>4, <2>1
  <2> QED  BY <1>1, <1>3, <2>1, <2>2 DEF WriteOrder, Writes
<1>6. Over("write", 1)
  <2>1. outstanding["write"] \in Seq(Bursts)
    BY <1>4 DEF Writes
  <2>2. Asker("write", Head(bdone)) = 1
    BY <1>5, <2>1, AskerIsFirst
  <2> QED  BY <1>2, <2>2
<1>7. /\ Len(Writes') = Len(Writes) - 1
      /\ \A p \in 1 .. Len(Writes) - 1 : Writes'[p] = Writes[p + 1]
      /\ \A p \in 1 .. Len(Writes) - 1 : burst'[Writes[p + 1]] = burst[Writes[p + 1]]
  <2>1. /\ Len(outstanding'["write"]) = Len(outstanding["write"]) - 1
        /\ \A p \in 1 .. Len(outstanding["write"]) - 1 :
             outstanding'["write"][p] = outstanding["write"][p + 1]
        /\ \A p \in 1 .. Len(outstanding'["write"]) :
             burst'[outstanding'["write"][p]] = burst[outstanding'["write"][p]]
    BY <1>5, <1>6, OverFirst DEF Directions
  <2>2. Writes' = outstanding'["write"] /\ Writes = outstanding["write"]
    BY DEF Writes
  <2>3. /\ Len(Writes') = Len(Writes) - 1
        /\ \A p \in 1 .. Len(Writes) - 1 : Writes'[p] = Writes[p + 1]
        /\ \A p \in 1 .. Len(Writes') : burst'[Writes'[p]] = burst[Writes'[p]]
    BY <2>1, <2>2, Zenon
  <2>4. \A p \in 1 .. Len(Writes) - 1 : burst'[Writes'[p]] = burst[Writes'[p]]
    BY <2>3, Zenon
  <2>5. \A p \in 1 .. Len(Writes) - 1 : burst'[Writes[p + 1]] = burst[Writes[p + 1]]
    <3> SUFFICES ASSUME NEW p \in 1 .. Len(Writes) - 1
                 PROVE  burst'[Writes[p + 1]] = burst[Writes[p + 1]]
      OBVIOUS
    <3>1. Writes'[p] = Writes[p + 1] /\ burst'[Writes'[p]] = burst[Writes'[p]]
      BY <2>3, <2>4
    <3> QED  BY <3>1
  <2> QED  BY <2>3, <2>5, Zenon
<1>8. /\ Answered' = Answered - 1 /\ Known' = Known - 1 /\ Announced' = Announced - 1
      /\ Pending' = Pending /\ Received' = Received /\ Data' = Data
  <2>1. Answered' = Answered - 1
    BY <1>3 DEF Answered
  <2>2. Known' = Answered' + Len(io_write_queue)
    BY <1>2 DEF Known
  <2>3. Known' = Known - 1
    BY <1>4, <2>1, <2>2
  <2>4. Announced' = Known' + Len(io_awaddr)
    BY <1>2 DEF Announced
  <2>5. Announced' = Announced - 1
    BY <1>4, <2>3, <2>4
  <2>6. Pending' = Len(Writes') - Answered'
    BY DEF Pending
  <2>7. Pending' = Pending
    BY <1>4, <1>7, <2>1, <2>6
  <2> QED  BY <1>2, <2>1, <2>3, <2>5, <2>7 DEF Received, InHand, Data
\* What a write was at a place, it is at the place before.
<1>9. ASSUME NEW m \in 1 .. Len(Writes) - 1
      PROVE  Writes'[m] = Writes[m + 1] /\ burst'[Writes'[m]] = burst[Writes[m + 1]]
  BY <1>7
<1>10. \A i \in 1 .. Pending :
         /\ Writes'[Answered' + i] = Writes[Answered + i]
         /\ burst'[Writes'[Answered' + i]] = burst[Writes[Answered + i]]
  <2> SUFFICES ASSUME NEW i \in 1 .. Pending
               PROVE  /\ Writes'[Answered' + i] = Writes[Answered + i]
                      /\ burst'[Writes'[Answered' + i]] = burst[Writes[Answered + i]]
    OBVIOUS
  <2>1. /\ Answered' + i \in 1 .. Len(Writes) - 1
        /\ (Answered' + i) + 1 = Answered + i
    BY <1>3, <1>4, <1>8
  <2> QED  BY <1>9, <2>1
<1>11. Left' = Left /\ Owner' = Owner
  <2>1. Left' = Left
    BY <1>2, <1>8, <1>10 DEF Left
  <2>2. Owner' = Owner
    BY <1>8, <1>10 DEF Owner
  <2> QED  BY <2>1, <2>2
<1>12. WriteOrder'
  <2>1. Len(Writes') = Announced' + Len(aw')
    <3>1. Len(Writes') = Len(Writes) - 1 /\ Announced' = Announced - 1 /\ aw' = aw
      BY <1>2, <1>7, <1>8
    <3>2. Announced \in Nat /\ Len(aw) \in Nat /\ Len(Writes) = Announced + Len(aw)
      BY <1>4
    <3> QED  BY <3>1, <3>2
  <2>2. \A i \in 1 .. Len(bdone') : bdone'[i] = burst'[Writes'[i]].id
    <3> SUFFICES ASSUME NEW i \in 1 .. Len(bdone) - 1
                 PROVE  bdone'[i] = burst'[Writes'[i]].id
      BY <1>3
    <3>1. i + 1 \in 1 .. Len(bdone) /\ i \in 1 .. Len(Writes) - 1
      BY <1>3, <1>4
    <3> QED  BY <1>1, <1>3, <1>9, <3>1 DEF WriteOrder
  <2>3. \A i \in 1 .. Len(io_write_queue) :
            /\ io_write_queue[i].of = Writes'[Answered' + i]
            /\ io_write_queue[i].wid = burst'[Writes'[Answered' + i]].id
            /\ io_write_queue[i].wdata_count \in 1 .. LenMod - 1
    <3>1. \A i \in 1 .. Len(io_write_queue) : i \in 1 .. Pending
      BY <1>4
    <3> QED  BY <1>1, <1>10, <3>1 DEF WriteOrder
  <2>4. \A i \in 1 .. Len(io_awaddr) : io_awaddr[i] = Announcement(Writes[Known + i])'
    <3> SUFFICES ASSUME NEW i \in 1 .. Len(io_awaddr)
                 PROVE  io_awaddr[i] = Announcement(Writes[Known + i])'
      OBVIOUS
    <3>1. Known' + i \in 1 .. Len(Writes) - 1 /\ (Known' + i) + 1 = Known + i
      <4>1. Known' = Known - 1 /\ Known \in Nat /\ Known >= 1
        <5>1. Known' = Known - 1
          BY <1>8
        <5>2. Answered >= 1 /\ Answered \in Nat
          BY <1>3, <1>4
        <5>3. Known \in Nat /\ Known = Answered + Len(io_write_queue) /\ Len(io_write_queue) \in Nat
          BY <1>4
        <5> QED  BY <5>1, <5>2, <5>3
      <4>2. Len(Writes) \in Nat /\ Known + Len(io_awaddr) <= Len(Writes) /\ Len(io_awaddr) \in Nat
        BY <1>4
      <4> QED  BY <4>1, <4>2
    <3>2. Writes'[Known' + i] = Writes[Known + i] /\ burst'[Writes'[Known' + i]] = burst[Writes[Known + i]]
      BY <1>9, <3>1
    <3>3. io_awaddr[i] = Announcement(Writes[Known + i])
      BY <1>1 DEF WriteOrder
    <3> QED  BY <3>2, <3>3 DEF Announcement
  <2>5. \A i \in 1 .. Len(aw) : aw[i] = Writes'[Announced' + i]
    <3> SUFFICES ASSUME NEW i \in 1 .. Len(aw)
                 PROVE  aw[i] = Writes'[Announced' + i]
      OBVIOUS
    <3>1. Announced' + i \in 1 .. Len(Writes) - 1 /\ (Announced' + i) + 1 = Announced + i
      BY <1>3, <1>4, <1>8
    <3> QED  BY <1>1, <1>9, <3>1 DEF WriteOrder
  <2> QED  BY <1>2, <2>1, <2>2, <2>3, <2>4, <2>5 DEF WriteOrder
<1>13. WriteData'
  BY <1>1, <1>2, <1>8, <1>11, WriteDataKept
<1>14. Behind' /\ WritesOwnBurst'
  BY <1>1, <1>2 DEF Behind, WritesOwnBurst
<1> QED  BY <1>3, <1>5, <1>6, <1>12, <1>13, <1>14 DEF WInv

\* All data on its way is of writes that are under way.
LEMMA DataUnderWay ==
    ASSUME IoTypes, WriteOrder, WriteData
    PROVE  /\ handling # 0 => handling \in UnderWay
           /\ \A i \in DOMAIN io_wdata : io_wdata[i] \in UnderWay
           /\ \A i \in DOMAIN w : w[i] \in UnderWay
<1> DEFINE total == Received + Len(w)
<1>1. PICK t : Laid(t, Pending, total, Left) /\ Owned(t, Pending, Data, Owner)
  BY DEF WriteData
<1> HIDE DEF total
<1>2. ASSUME NEW k \in 1 .. total
      PROVE  Data[k] \in UnderWay
  <2>1. PICK i \in 1 .. Pending : Data[k] = Owner[i]
    BY <1>1, AllOwned
  <2>2. Owner[i] = Writes[Answered + i]
    BY DEF Owner
  <2>3. Answered + i \in 1 .. Len(Writes)
    <3>1. Answered \in Nat /\ Len(Writes) \in Nat /\ Pending = Len(Writes) - Answered
      BY WriteCounts
    <3> QED  BY <3>1
  <2>4. Answered + i \in DOMAIN outstanding["write"]
    <3>1. Writes \in Seq(Bursts)
      BY WriteCounts
    <3> QED  BY <2>3, <3>1 DEF Writes
  <2> QED  BY <2>1, <2>2, <2>4 DEF UnderWay, Directions, Writes
<1>3. /\ io_wdata \in Seq(Bursts) /\ w \in Seq(Bursts)
      /\ Len(io_wdata) \in Nat /\ Len(w) \in Nat
  BY DEF IoTypes
<1>4. /\ InHand \in {0, 1} /\ (handling # 0 => InHand = 1) /\ Received = InHand + Len(io_wdata)
  BY DEF InHand, Received
<1> DEFINE D(k) == IF k <= InHand THEN handling
                   ELSE IF k <= Received THEN io_wdata[k - InHand] ELSE w[k - Received]
<1>5. Data = [k \in 1 .. total |-> D(k)]
  BY DEF Data, total
<1>6. total = Received + Len(w)
  BY DEF total
<1>7. ASSUME handling # 0 PROVE handling \in UnderWay
  <2>1. 1 \in 1 .. total /\ 1 <= InHand
    BY <1>3, <1>4, <1>6, <1>7
  <2>2. Data[1] = handling
    BY <1>5, <2>1
  <2> QED  BY <1>2, <2>1, <2>2
<1>8. ASSUME NEW i \in 1 .. Len(io_wdata) PROVE io_wdata[i] \in UnderWay
  <2> DEFINE k == InHand + i
  <2>1. k \in 1 .. total /\ ~(k <= InHand) /\ k <= Received /\ k - InHand = i
    BY <1>3, <1>4, <1>6
  <2> HIDE DEF k
  <2>2. Data[k] = io_wdata[i]
    BY <1>5, <2>1
  <2> QED  BY <1>2, <2>1, <2>2
<1>9. ASSUME NEW i \in 1 .. Len(w) PROVE w[i] \in UnderWay
  <2> DEFINE k == Received + i
  <2>1. k \in 1 .. total /\ ~(k <= InHand) /\ ~(k <= Received) /\ k - Received = i
    BY <1>3, <1>4, <1>6
  <2> HIDE DEF k
  <2>2. Data[k] = w[i]
    BY <1>5, <2>1
  <2> QED  BY <1>2, <2>1, <2>2
<1> QED  BY <1>3, <1>7, <1>8, <1>9

-----------------------------------------------------------------------------
(* The guest begins a burst *)

\* A burst none of whose beats the guest has got.
AsAsked(kind) ==
    [dir |-> kind.dir, id |-> kind.id, beats |-> kind.beats, target |-> kind.target, got |-> 0]

Begun(kind, b) ==
    /\ burst' = [burst EXCEPT ![b] = AsAsked(kind)]
    /\ outstanding' = [outstanding EXCEPT ![kind.dir] = Append(@, b)]

LEMMA BurstBegins ==
    ASSUME IoTypes, Distinct, Asked, NEW kind \in Kinds, NEW b \in Bursts \ UnderWay, Begun(kind, b)
    PROVE  /\ outstanding' \in [Directions -> Seq(Bursts)]
           /\ burst' \in [Bursts -> [dir : Directions \cup {"none"}, id : Nat, beats : Nat,
                                     target : Targets, got : Nat]]
           /\ burst'[b] = AsAsked(kind)
           /\ \A d \in Directions : \A p \in 1 .. Len(outstanding[d]) :
                burst'[outstanding[d][p]] = burst[outstanding[d][p]]
           /\ \A d \in Directions \ {kind.dir} : outstanding'[d] = outstanding[d]
           /\ outstanding'[kind.dir] = Append(outstanding[kind.dir], b)
           /\ Distinct' /\ Asked'
<1> DEFINE dir == kind.dir
           s == outstanding[dir]
           s2 == outstanding'[dir]
<1>1. /\ dir \in Directions /\ kind.id \in Nat /\ kind.beats \in 1 .. LenMod - 1
      /\ kind.target \in Targets
  BY BridgeAssumption DEF Directions
<1>2. s \in Seq(Bursts) /\ Len(s) \in Nat
  BY <1>1 DEF IoTypes
<1>3. s2 = Append(s, b) /\ \A d \in Directions \ {dir} : outstanding'[d] = outstanding[d]
  BY <1>1 DEF Begun, IoTypes
<1>4. /\ s2 \in Seq(Bursts) /\ Len(s2) = Len(s) + 1
      /\ \A i \in 1 .. Len(s) : s2[i] = s[i]
      /\ s2[Len(s) + 1] = b
  BY <1>2, <1>3, AppendIs
<1>5. outstanding' \in [Directions -> Seq(Bursts)]
  <2>1. Append(s, b) \in Seq(Bursts)
    BY <1>3, <1>4
  <2>2. outstanding' = [outstanding EXCEPT ![dir] = Append(s, b)]
    BY DEF Begun
  <2>3. outstanding \in [Directions -> Seq(Bursts)]
    BY DEF IoTypes
  <2> QED  BY <2>1, <2>2, <2>3
<1>6. AsAsked(kind) \in [dir : Directions \cup {"none"}, id : Nat, beats : Nat,
                         target : Targets, got : Nat]
  BY <1>1, BridgeAssumption DEF AsAsked
<1>7. burst' \in [Bursts -> [dir : Directions \cup {"none"}, id : Nat, beats : Nat,
                             target : Targets, got : Nat]]
  BY <1>6 DEF Begun, IoTypes
<1>8. burst'[b] = AsAsked(kind) /\ \A c \in Bursts \ {b} : burst'[c] = burst[c]
  BY DEF Begun, IoTypes
<1>9. \A d \in Directions : \A p \in 1 .. Len(outstanding[d]) :
        outstanding[d][p] \in Bursts \ {b}
  <2> SUFFICES ASSUME NEW d \in Directions, NEW p \in 1 .. Len(outstanding[d])
               PROVE  outstanding[d][p] \in Bursts \ {b}
    OBVIOUS
  <2>1. p \in DOMAIN outstanding[d] /\ outstanding[d][p] \in Bursts
    BY DEF IoTypes
  <2> QED  BY <2>1 DEF UnderWay
\* Every place is an old one, or the new one.
<1>10. \A d \in Directions : \A p \in DOMAIN outstanding'[d] :
         \/ p \in DOMAIN outstanding[d] /\ outstanding'[d][p] = outstanding[d][p]
         \/ d = dir /\ p = Len(s) + 1 /\ outstanding'[d][p] = b
  <2> SUFFICES ASSUME NEW d \in Directions, NEW p \in DOMAIN outstanding'[d]
               PROVE  \/ p \in DOMAIN outstanding[d] /\ outstanding'[d][p] = outstanding[d][p]
                      \/ d = dir /\ p = Len(s) + 1 /\ outstanding'[d][p] = b
    OBVIOUS
  <2>1. CASE d = dir
    <3>1. p \in 1 .. Len(s) + 1
      BY <1>4, <2>1
    <3>2. CASE p = Len(s) + 1
      BY <1>4, <2>1, <3>2
    <3>3. CASE p \in 1 .. Len(s)
      <4>1. p \in DOMAIN s
        BY <1>2, <3>3
      <4> QED  BY <1>4, <2>1, <3>3, <4>1
    <3> QED  BY <1>2, <3>1, <3>2, <3>3
  <2>2. CASE d # dir
    BY <1>3, <2>2
  <2> QED  BY <2>1, <2>2
<1>11. \A d \in Directions : DOMAIN outstanding[d] = 1 .. Len(outstanding[d])
  BY DEF IoTypes
<1>12. Distinct'
  <2> SUFFICES ASSUME NEW d \in Directions, NEW e \in Directions,
                      NEW i \in DOMAIN outstanding'[d], NEW j \in DOMAIN outstanding'[e],
                      outstanding'[d][i] = outstanding'[e][j]
               PROVE  d = e /\ i = j
    BY DEF Distinct
  <2>1. CASE i \in DOMAIN outstanding[d] /\ outstanding'[d][i] = outstanding[d][i]
    <3>1. outstanding'[d][i] # b
      BY <1>9, <1>11, <2>1
    <3>2. j \in DOMAIN outstanding[e] /\ outstanding'[e][j] = outstanding[e][j]
      BY <1>10, <3>1
    <3>3. i \in DOMAIN outstanding[d] /\ outstanding[d][i] = outstanding[e][j]
      BY <2>1, <3>2, Zenon
    <3> QED  BY <3>2, <3>3, Zenon DEF Distinct
  <2>2. CASE d = dir /\ i = Len(s) + 1 /\ outstanding'[d][i] = b
    <3>1. ~(j \in DOMAIN outstanding[e] /\ outstanding'[e][j] = outstanding[e][j])
      BY <1>9, <1>11, <2>2
    <3>2. e = dir /\ j = Len(s) + 1
      BY <1>10, <3>1
    <3> QED  BY <2>2, <3>2
  <2> QED  BY <1>10, <2>1, <2>2
<1>13. Asked'
  <2> SUFFICES ASSUME NEW d \in Directions, NEW i \in DOMAIN outstanding'[d]
               PROVE  /\ burst'[outstanding'[d][i]].dir = d
                      /\ burst'[outstanding'[d][i]].beats \in 1 .. LenMod - 1
    BY DEF Asked
  <2>1. CASE i \in DOMAIN outstanding[d] /\ outstanding'[d][i] = outstanding[d][i]
    <3>1. burst'[outstanding'[d][i]] = burst[outstanding[d][i]]
      BY <1>8, <1>9, <1>11, <2>1
    <3> QED  BY <2>1, <3>1 DEF Asked
  <2>2. CASE d = dir /\ outstanding'[d][i] = b
    BY <1>1, <1>8, <2>2 DEF AsAsked
  <2> QED  BY <1>10, <2>1, <2>2
<1> QED  BY <1>3, <1>5, <1>7, <1>8, <1>9, <1>12, <1>13

\* A write begins: its address and its data are the last.
LEMMA WriteBegins ==
    ASSUME IoTypes, Distinct, Asked, WInv, NEW kind \in Kinds, kind.dir = "write",
           NEW b \in Bursts \ UnderWay, Begun(kind, b),
           aw' = Append(aw, b), w' = w \o Times(kind.beats, b),
           UNCHANGED <<io_awaddr, io_wdata, io_write_queue, handling, bdone>>
    PROVE  WInv' /\ aw' \in Seq(Bursts) /\ w' \in Seq(Bursts)
<1>1. WriteOrder /\ WriteData /\ Behind /\ WritesOwnBurst
  BY DEF WInv
<1> DEFINE n == kind.beats
           total == Received + Len(w)
<1>2. n \in Nat \ {0} /\ n \in 1 .. LenMod - 1
  BY BridgeAssumption
<1>3. /\ Writes' = Append(Writes, b)
      /\ burst'[b].beats = n
      /\ \A p \in 1 .. Len(Writes) : burst'[Writes[p]] = burst[Writes[p]]
  <2>1. /\ outstanding'["write"] = Append(outstanding["write"], b)
        /\ burst'[b] = AsAsked(kind)
        /\ \A p \in 1 .. Len(outstanding["write"]) :
             burst'[outstanding["write"][p]] = burst[outstanding["write"][p]]
    <3>1. /\ outstanding'[kind.dir] = Append(outstanding[kind.dir], b)
          /\ burst'[b] = AsAsked(kind)
          /\ \A d \in Directions : \A p \in 1 .. Len(outstanding[d]) :
               burst'[outstanding[d][p]] = burst[outstanding[d][p]]
      BY BurstBegins
    <3> QED  BY <3>1 DEF Directions
  <2>2. AsAsked(kind).beats = n
    BY DEF AsAsked
  <2>3. burst'[b].beats = n
    BY <2>1, <2>2
  <2> QED  BY <2>1, <2>3 DEF Writes
<1>4. /\ Answered \in Nat /\ Known \in Nat /\ Announced \in Nat /\ Pending \in Nat
      /\ Len(Writes) \in Nat /\ Len(bdone) = Answered /\ Writes \in Seq(Bursts)
      /\ Len(io_write_queue) \in Nat /\ Len(io_awaddr) \in Nat /\ Len(aw) \in Nat
      /\ Known = Answered + Len(io_write_queue) /\ Announced = Known + Len(io_awaddr)
      /\ Pending = Len(Writes) - Answered /\ Len(Writes) = Announced + Len(aw)
      /\ Received \in Nat /\ Len(w) \in Nat
  BY <1>1, WriteCounts DEF WriteOrder, Known, Announced, Answered
<1>5. /\ aw \in Seq(Bursts) /\ w \in Seq(Bursts) /\ io_wdata \in Seq(Bursts) /\ b \in Bursts
  BY DEF IoTypes
<1>6. /\ aw' \in Seq(Bursts) /\ Len(aw') = Len(aw) + 1
      /\ \A i \in 1 .. Len(aw) : aw'[i] = aw[i]
      /\ aw'[Len(aw) + 1] = b
  BY <1>5, AppendIs
<1>7. /\ Len(Writes') = Len(Writes) + 1
      /\ \A i \in 1 .. Len(Writes) : Writes'[i] = Writes[i]
      /\ Writes'[Len(Writes) + 1] = b
  <2>1. Writes \in Seq(Bursts) /\ b \in Bursts /\ Writes' = Append(Writes, b)
    BY <1>3, <1>4
  <2> QED  BY <2>1, AppendIs
<1>8. /\ Times(n, b) \in Seq(Bursts) /\ Len(Times(n, b)) = n
      /\ \A i \in 1 .. n : Times(n, b)[i] = b
  <2>1. n \in Nat /\ b \in Bursts
    BY <1>2, <1>5
  <2> QED  BY <2>1, TimesIs
<1>9. /\ w' \in Seq(Bursts) /\ Len(w') = Len(w) + n
      /\ \A i \in 1 .. Len(w) : w'[i] = w[i]
      /\ \A i \in 1 .. n : w'[Len(w) + i] = b
  <2> DEFINE u == Times(n, b)
  <2>1. /\ u \in Seq(Bursts) /\ Len(u) = n /\ w' = w \o u
        /\ \A i \in 1 .. n : u[i] = b
    BY <1>8
  <2> HIDE DEF u
  <2>2. /\ w \o u \in Seq(Bursts) /\ Len(w \o u) = Len(w) + Len(u)
        /\ \A i \in 1 .. Len(w) : (w \o u)[i] = w[i]
        /\ \A i \in 1 .. Len(u) : (w \o u)[Len(w) + i] = u[i]
    <3>1. w \in Seq(Bursts) /\ u \in Seq(Bursts)
      BY <1>5, <2>1
    <3> QED  BY <3>1, ConcatIs
  <2> QED  BY <2>1, <2>2
<1> HIDE DEF n
<1>10. /\ Answered' = Answered /\ Known' = Known /\ Announced' = Announced
       /\ Pending' = Pending + 1 /\ InHand' = InHand /\ Received' = Received
  <2>1. Answered' = Answered /\ Known' = Known /\ Announced' = Announced
        /\ InHand' = InHand /\ Received' = Received
    BY DEF Answered, Known, Announced, InHand, Received
  <2>2. Pending' = Pending + 1
    <3>1. PICK k, more, answered :
            k = Len(Writes) /\ more = Len(Writes') /\ answered = Answered
      OBVIOUS
    <3>2. /\ k \in Nat /\ answered \in Nat /\ more = k + 1 /\ Pending = k - answered
          /\ Pending' = more - answered
      BY <1>4, <1>7, <2>1, <3>1 DEF Pending
    <3>3. more - answered = (k - answered) + 1
      BY <3>2
    <3> QED  BY <3>2, <3>3
  <2> QED  BY <2>1, <2>2
<1>11. /\ \A i \in 1 .. Pending : Left'[i] = Left[i] /\ Owner'[i] = Owner[i]
       /\ Left'[Pending + 1] = n /\ Owner'[Pending + 1] = b
       /\ Left' = [i \in 1 .. Pending + 1 |-> Left'[i]]
  <2>1. Left' = [i \in 1 .. Pending + 1 |->
                   IF i <= Len(io_write_queue) THEN io_write_queue[i].wdata_count
                   ELSE burst'[Writes'[Answered + i]].beats]
    BY <1>10 DEF Left
  <2>2. Owner' = [i \in 1 .. Pending + 1 |-> Writes'[Answered + i]]
    BY <1>10 DEF Owner
  <2>3. ASSUME NEW i \in 1 .. Pending
        PROVE  Left'[i] = Left[i] /\ Owner'[i] = Owner[i]
    <3>1. Answered + i \in 1 .. Len(Writes) /\ i \in 1 .. Pending + 1
      BY <1>4
    <3>2. /\ Writes'[Answered + i] = Writes[Answered + i]
          /\ burst'[Writes[Answered + i]] = burst[Writes[Answered + i]]
      BY <1>3, <1>7, <3>1
    <3>3. Left[i] = IF i <= Len(io_write_queue) THEN io_write_queue[i].wdata_count
                    ELSE burst[Writes[Answered + i]].beats
      BY DEF Left
    <3>4. Owner[i] = Writes[Answered + i]
      BY DEF Owner
    <3> QED  BY <2>1, <2>2, <3>1, <3>2, <3>3, <3>4
  <2>4. Left'[Pending + 1] = n /\ Owner'[Pending + 1] = b
    <3>1. /\ Pending + 1 \in 1 .. Pending + 1 /\ ~(Pending + 1 <= Len(io_write_queue))
          /\ Answered + (Pending + 1) = Len(Writes) + 1
      BY <1>4
    <3> QED  BY <1>3, <1>7, <2>1, <2>2, <3>1 DEF n
  <2> QED  BY <2>1, <2>3, <2>4
<1>12. PICK t : Laid(t, Pending, total, Left) /\ Owned(t, Pending, Data, Owner)
  BY <1>1 DEF WriteData
<1>13. /\ \A k \in 1 .. total : Data'[k] = Data[k]
       /\ \A k \in total + 1 .. total + n : Data'[k] = b
       /\ Received' + Len(w') = total + n
  <2>1. InHand \in {0, 1} /\ Received = InHand + Len(io_wdata) /\ Len(io_wdata) \in Nat
    BY <1>5 DEF InHand, Received
  <2>2. Received' + Len(w') = total + n
    <3>1. Received \in Nat /\ Len(w) \in Nat /\ n \in Nat
      BY <1>2, <1>4
    <3>2. Received' = Received /\ Len(w') = Len(w) + n
      BY <1>9, <1>10
    <3> QED  BY <3>1, <3>2
  <2>3. Data' = [k \in 1 .. total + n |->
                   IF k <= InHand THEN handling
                   ELSE IF k <= Received THEN io_wdata[k - InHand] ELSE w'[k - Received]]
    BY <1>10, <2>2 DEF Data
  <2>4. ASSUME NEW k \in 1 .. total
        PROVE  Data'[k] = Data[k]
    <3>1. Data[k] = IF k <= InHand THEN handling
                    ELSE IF k <= Received THEN io_wdata[k - InHand] ELSE w[k - Received]
      BY DEF Data
    <3>2. /\ k \in 1 .. total + n
          /\ ~(k <= Received) => k - Received \in 1 .. Len(w)
      <4>1. Received \in Nat /\ Len(w) \in Nat /\ n \in Nat
        BY <1>2, <1>4
      <4> QED  BY <4>1
    <3>3. Data'[k] = IF k <= InHand THEN handling
                     ELSE IF k <= Received THEN io_wdata[k - InHand] ELSE w'[k - Received]
      BY <2>3, <3>2
    <3> QED  BY <1>9, <3>1, <3>2, <3>3
  <2>5. ASSUME NEW k \in total + 1 .. total + n
        PROVE  Data'[k] = b
    <3>1. /\ k \in 1 .. total + n /\ ~(k <= InHand) /\ ~(k <= Received)
          /\ k - total \in 1 .. n /\ k - Received = Len(w) + (k - total)
      <4>1. Received \in Nat /\ Len(w) \in Nat /\ n \in Nat /\ InHand \in Nat /\ InHand <= Received
        <5>1. Received \in Nat /\ Len(w) \in Nat /\ n \in Nat
          BY <1>2, <1>4
        <5>2. InHand \in Nat /\ InHand <= Received
          BY <2>1
        <5> QED  BY <5>1, <5>2
      <4>2. \A r, l, m, j \in Nat : j \in (r + l) + 1 .. (r + l) + m =>
              /\ j \in 1 .. (r + l) + m /\ ~(j <= r)
              /\ j - (r + l) \in 1 .. m /\ j - r = l + (j - (r + l))
        OBVIOUS
      <4>3. k \in Nat
        BY <4>1
      <4>4. /\ k \in 1 .. total + n /\ ~(k <= Received)
            /\ k - total \in 1 .. n /\ k - Received = Len(w) + (k - total)
        BY <4>1, <4>2, <4>3
      <4> QED  BY <4>1, <4>3, <4>4
    <3>2. Data'[k] = w'[k - Received]
      BY <2>3, <3>1
    <3> QED  BY <1>9, <3>1, <3>2
  <2> QED  BY <2>2, <2>4, <2>5
<1> HIDE DEF total
<1>14. WriteData'
  <2>1. Left' \in [1 .. Pending + 1 -> Nat \ {0}]
    <3>1. Left \in [1 .. Pending -> Nat \ {0}]
      BY <1>12 DEF Laid
    <3>2. \A i \in 1 .. Pending + 1 : i = Pending + 1 \/ i \in 1 .. Pending
      <4>1. Pending \in Nat
        BY <1>4
      <4> QED  BY <4>1
    <3>3. \A i \in 1 .. Pending + 1 : Left'[i] \in Nat \ {0}
      BY <1>2, <1>11, <3>1, <3>2 DEF n
    <3> QED  BY <1>11, <3>3
  <2>2. \A i \in 1 .. Pending : Left'[i] = Left[i]
    BY <1>11
  <2>3. Left'[Pending + 1] = n /\ n \in Nat \ {0}
    BY <1>2, <1>11 DEF n
  <2>4. Laid(Extended(t, Pending, n), Pending + 1, total + n, Left')
    BY <1>12, <2>1, <2>2, <2>3, ExtendLaid
  <2>5. \A i \in 1 .. Pending : Owner'[i] = Owner[i]
    BY <1>11
  <2>6. \A k \in 1 .. total : Data'[k] = Data[k]
    BY <1>13
  <2>7. \A k \in total + 1 .. total + n : Data'[k] = Owner'[Pending + 1]
    BY <1>11, <1>13
  <2>8. Owned(Extended(t, Pending, n), Pending + 1, Data', Owner')
    BY <1>12, <2>3, <2>5, <2>6, <2>7, ExtendOwned
  <2> QED  BY <1>10, <1>13, <2>4, <2>8 DEF WriteData
<1>15. WriteOrder'
  <2>1. Len(Writes') = Announced' + Len(aw')
    BY <1>4, <1>6, <1>7, <1>10
  <2>2. ASSUME NEW p \in 1 .. Len(Writes)
        PROVE  Writes'[p] = Writes[p] /\ burst'[Writes'[p]] = burst[Writes[p]]
    BY <1>3, <1>7
  <2>3. \A i \in 1 .. Len(bdone) : bdone[i] = burst'[Writes'[i]].id
    <3>1. \A i \in 1 .. Len(bdone) : i \in 1 .. Len(Writes)
      BY <1>4
    <3> QED  BY <1>1, <2>2, <3>1 DEF WriteOrder
  <2>4. \A i \in 1 .. Len(io_write_queue) :
            /\ io_write_queue[i].of = Writes'[Answered + i]
            /\ io_write_queue[i].wid = burst'[Writes'[Answered + i]].id
            /\ io_write_queue[i].wdata_count \in 1 .. LenMod - 1
    <3>1. \A i \in 1 .. Len(io_write_queue) : Answered + i \in 1 .. Len(Writes)
      BY <1>4
    <3> QED  BY <1>1, <2>2, <3>1 DEF WriteOrder
  <2>5. \A i \in 1 .. Len(io_awaddr) : io_awaddr[i] = Announcement(Writes[Known + i])'
    <3> SUFFICES ASSUME NEW i \in 1 .. Len(io_awaddr)
                 PROVE  io_awaddr[i] = Announcement(Writes[Known + i])'
      OBVIOUS
    <3>1. Known + i \in 1 .. Len(Writes)
      BY <1>4
    <3>2. Writes'[Known + i] = Writes[Known + i] /\ burst'[Writes'[Known + i]] = burst[Writes[Known + i]]
      BY <2>2, <3>1
    <3>3. io_awaddr[i] = Announcement(Writes[Known + i])
      BY <1>1 DEF WriteOrder
    <3> QED  BY <1>10, <3>2, <3>3 DEF Announcement
  <2>6. \A i \in 1 .. Len(aw') : aw'[i] = Writes'[Announced + i]
    <3> SUFFICES ASSUME NEW i \in 1 .. Len(aw) + 1
                 PROVE  aw'[i] = Writes'[Announced + i]
      BY <1>6
    <3>1. CASE i = Len(aw) + 1
      <4>1. Announced + i = Len(Writes) + 1
        BY <1>4, <3>1
      <4> QED  BY <1>6, <1>7, <3>1, <4>1
    <3>2. CASE i \in 1 .. Len(aw)
      <4>1. Announced + i \in 1 .. Len(Writes)
        BY <1>4, <3>2
      <4> QED  BY <1>1, <1>6, <2>2, <3>2, <4>1 DEF WriteOrder
    <3>3. i = Len(aw) + 1 \/ i \in 1 .. Len(aw)
      BY <1>4
    <3> QED  BY <3>1, <3>2, <3>3
  <2> QED  BY <1>10, <2>1, <2>3, <2>4, <2>5, <2>6 DEF WriteOrder
<1>16. Behind'
  <2>1. \A i \in DOMAIN io_wdata : io_wdata[i] # b
    BY <1>1, DataUnderWay
  <2> SUFFICES ASSUME NEW i \in DOMAIN io_wdata, NEW j \in 1 .. Len(aw) + 1
               PROVE  io_wdata[i] # aw'[j]
    BY <1>6 DEF Behind
  <2>2. CASE j = Len(aw) + 1
    BY <1>6, <2>1, <2>2
  <2>3. CASE j \in 1 .. Len(aw)
    <3>1. j \in DOMAIN aw
      BY <1>5, <2>3
    <3> QED  BY <1>1, <1>6, <2>3, <3>1 DEF Behind
  <2> QED  BY <1>4, <2>2, <2>3
<1>17. WritesOwnBurst'
  BY <1>1 DEF WritesOwnBurst
<1> QED  BY <1>6, <1>9, <1>14, <1>15, <1>16, <1>17 DEF WInv

-----------------------------------------------------------------------------
(* The reads *)

LEMMA ExtendMarked ==
    ASSUME NEW t, NEW count, NEW total, NEW size, Laid(t, count, total, size),
           NEW beat, Marked(t, count, beat), NEW n \in Nat \ {0}, NEW beat2,
           \A k \in 1 .. total : beat2[k] = beat[k],
           \A k \in total + 1 .. total + n : beat2[k].last = (k = total + n)
    PROVE  Marked(Extended(t, count, n), count + 1, beat2)
<1> DEFINE u == Extended(t, count, n)
<1>1. /\ t \in [Nat -> Int] /\ count \in Nat /\ total \in Nat
      /\ t[0] = 0 /\ t[count] = total
  BY DEF Laid
<1>2. u[count + 1] = total + n /\ \A i \in 0 .. count : u[i] = t[i]
  BY <1>1 DEF Extended
<1> HIDE DEF u
<1> SUFFICES ASSUME NEW i \in 1 .. count + 1, NEW k \in u[i - 1] + 1 .. u[i]
             PROVE  beat2[k].last = (k = u[i])
  BY DEF Marked, u
<1>3. CASE i = count + 1
  <2>1. u[i - 1] = total /\ u[i] = total + n
    BY <1>1, <1>2, <1>3
  <2> QED  BY <2>1
<1>4. CASE i \in 1 .. count
  <2>1. u[i - 1] = t[i - 1] /\ u[i] = t[i] /\ i - 1 \in 0 .. count /\ i \in 0 .. count
    BY <1>1, <1>2, <1>4
  <2>2. t[0] <= t[i - 1] /\ t[i] <= t[count]
    BY <1>1, <2>1 DEF Laid
  <2>3. t[i - 1] \in Int /\ t[i] \in Int
    BY <1>1, <2>1
  <2>4. k \in t[i - 1] + 1 .. t[i] /\ k \in 1 .. total
    BY <1>1, <2>1, <2>2, <2>3
  <2>5. beat[k].last = (k = t[i])
    BY <1>4, <2>4 DEF Marked
  <2> QED  BY <2>1, <2>4, <2>5
<1> QED  BY <1>1, <1>3, <1>4

LEMMA ShortenMarked ==
    ASSUME NEW t, NEW count, NEW total, NEW size, Laid(t, count, total, size),
           NEW beat, Marked(t, count, beat), count > 0, size[1] > 1, NEW beat2,
           \A k \in 1 .. total - 1 : beat2[k] = beat[k + 1]
    PROVE  Marked(Shortened(t), count, beat2)
<1> DEFINE u == Shortened(t)
<1>1. /\ t \in [Nat -> Int] /\ count \in Nat /\ total \in Nat /\ t[0] = 0 /\ t[count] = total
  BY DEF Laid
<1>2. u[0] = 0 /\ \A i \in 1 .. count : u[i] = t[i] - 1
  BY <1>1 DEF Shortened
<1> HIDE DEF u
<1> SUFFICES ASSUME NEW i \in 1 .. count, NEW k \in u[i - 1] + 1 .. u[i]
             PROVE  beat2[k].last = (k = u[i])
  BY DEF Marked, u
<1>3. i - 1 \in 0 .. count /\ i \in 0 .. count /\ t[i - 1] \in Int /\ t[i] \in Int
  BY <1>1
<1>4. t[0] <= t[i - 1] /\ t[i] <= t[count]
  BY <1>1, <1>3 DEF Laid
<1>5. u[i] = t[i] - 1 /\ u[i - 1] \in Int /\ u[i - 1] >= t[i - 1] - 1 /\ u[i - 1] >= 0
  <2>1. CASE i = 1
    BY <1>1, <1>2, <2>1
  <2>2. CASE i > 1
    <3>1. 1 \in 0 .. count /\ 1 <= i - 1 /\ i - 1 \in 1 .. count
      BY <1>1, <2>2
    <3>2. t[1] <= t[i - 1] /\ t[1] = t[1 - 1] + size[1]
      BY <1>3, <3>1 DEF Laid
    <3>3. t[1] >= 1 /\ t[1] \in Int
      BY <1>1, <3>1, <3>2 DEF Laid
    <3> QED  BY <1>2, <1>3, <3>1, <3>2, <3>3
  <2> QED  BY <2>1, <2>2
<1>6. k \in 1 .. total - 1 /\ k + 1 \in t[i - 1] + 1 .. t[i]
  BY <1>1, <1>3, <1>4, <1>5
<1>7. beat[k + 1].last = (k + 1 = t[i])
  BY <1>6 DEF Marked
<1>8. (k + 1 = t[i]) = (k = u[i])
  BY <1>3, <1>5, <1>6
<1> QED  BY <1>6, <1>7, <1>8

LEMMA DropMarked ==
    ASSUME NEW t, NEW count, NEW total, NEW size, Laid(t, count, total, size),
           NEW beat, Marked(t, count, beat), count > 0, size[1] = 1, NEW beat2,
           \A k \in 1 .. total - 1 : beat2[k] = beat[k + 1]
    PROVE  Marked(Without(t), count - 1, beat2)
<1> DEFINE u == Without(t)
<1>1. /\ t \in [Nat -> Int] /\ count \in Nat /\ total \in Nat /\ 1 \in 1 .. count
      /\ t[0] = 0 /\ t[count] = total
  BY DEF Laid
<1>2. t[1] = 1
  <2>1. t[1] = t[1 - 1] + size[1]
    BY <1>1 DEF Laid
  <2> QED  BY <1>1, <2>1
<1>3. \A i \in 0 .. count - 1 : u[i] = t[i + 1] - 1
  BY <1>1 DEF Without
<1> HIDE DEF u
<1> SUFFICES ASSUME NEW i \in 1 .. count - 1, NEW k \in u[i - 1] + 1 .. u[i]
             PROVE  beat2[k].last = (k = u[i])
  BY DEF Marked, u
<1>4. i + 1 \in 1 .. count /\ i - 1 \in 0 .. count - 1 /\ i \in 0 .. count - 1 /\ i \in 1 .. count
  BY <1>1
<1>5. t[1] <= t[i] /\ t[i + 1] <= t[count] /\ t[i] \in Int /\ t[i + 1] \in Int
  <2>1. /\ {1, i, i + 1, count} \subseteq 0 .. count
        /\ 1 <= i /\ i + 1 <= count
    BY <1>1, <1>4
  <2>2. t[1] <= t[i] /\ t[i + 1] <= t[count]
    BY <2>1 DEF Laid
  <2> QED  BY <1>1, <1>4, <2>2
<1>6. u[i] = t[i + 1] - 1 /\ u[i - 1] = t[i - 1 + 1] - 1
  BY <1>3, <1>4
<1>7. k \in 1 .. total - 1 /\ k + 1 \in t[i + 1 - 1] + 1 .. t[i + 1]
  BY <1>1, <1>2, <1>4, <1>5, <1>6
<1>8. beat[k + 1].last = (k + 1 = t[i + 1])
  BY <1>4, <1>7 DEF Marked
<1>9. (k + 1 = t[i + 1]) = (k = u[i])
  BY <1>5, <1>6, <1>7
<1> QED  BY <1>7, <1>8, <1>9

\* The first beat is the last of its burst when it is the only one that is due.
LEMMA FirstMarked ==
    ASSUME NEW t, NEW count, NEW total, NEW size, Laid(t, count, total, size),
           NEW beat, Marked(t, count, beat), count > 0
    PROVE  beat[1].last = (size[1] = 1)
<1>1. t \in [Nat -> Int] /\ count \in Nat /\ t[0] = 0
  BY DEF Laid
<1>2. 1 \in 1 .. count /\ 1 - 1 = 0
  BY <1>1
<1>3. t[1] = t[1 - 1] + size[1] /\ size[1] \in Nat \ {0}
  BY <1>2 DEF Laid
<1>4. 1 \in t[1 - 1] + 1 .. t[1]
  BY <1>1, <1>2, <1>3
<1>5. beat[1].last = (1 = t[1])
  BY <1>2, <1>4 DEF Marked
<1> QED  BY <1>1, <1>2, <1>3, <1>5

\* A read's address is passed on to the host.
LEMMA ArPassed ==
    ASSUME IoTypes, Asked, RInv, master1_ar
    PROVE  RInv' /\ io_araddr' \in Seq([of : Bursts, len : Nat, id : Nat]) /\ ar' \in Seq(Bursts)
<1>1. ReadOrder /\ ReadData
  BY DEF RInv
<1> DEFINE b == Head(ar)
           e == [of |-> b, len |-> burstLen(b), id |-> burst[b].id]
<1>2. /\ ar # <<>> /\ ar' = Tail(ar) /\ io_araddr' = Append(io_araddr, e)
      /\ UNCHANGED <<outstanding, burst, rdata>>
  BY DEF master1_ar, guest, answers
<1>3. /\ ar \in Seq(Bursts) /\ io_araddr \in Seq([of : Bursts, len : Nat, id : Nat])
      /\ Reads \in Seq(Bursts)
  BY DEF IoTypes, Reads, Directions
<1>4. /\ ar' \in Seq(Bursts) /\ b = ar[1] /\ b \in Bursts
      /\ Len(ar) \in Nat \ {0} /\ Len(ar') = Len(ar) - 1
      /\ \A i \in 1 .. Len(ar) - 1 : ar'[i] = ar[i + 1]
  BY <1>2, <1>3, TailIs
<1>5. /\ Handled \in Nat /\ Asking \in Nat /\ Len(Reads) \in Nat /\ Len(io_araddr) \in Nat
      /\ Asking = Handled + Len(io_araddr) /\ Len(Reads) = Asking + Len(ar)
      /\ Handled <= Len(Reads)
  BY <1>1, ReadCounts
<1>6. Asking + 1 \in 1 .. Len(Reads) /\ Reads[Asking + 1] = b
  <2>1. 1 \in 1 .. Len(ar) /\ Asking + 1 \in 1 .. Len(Reads)
    BY <1>4, <1>5
  <2> QED  BY <1>1, <1>4, <2>1 DEF ReadOrder
<1>7. e = Announcement(b)
  <2>1. Asking + 1 \in DOMAIN outstanding["read"]
    BY <1>3, <1>6 DEF Reads
  <2>2. burst[Reads[Asking + 1]].beats \in 1 .. LenMod - 1
    BY <2>1 DEF Asked, Reads, Directions
  <2> QED  BY <1>6, <2>2, LengthIsKept DEF Announcement
<1>8. e \in [of : Bursts, len : Nat, id : Nat]
  BY <1>4, <1>7 DEF IoTypes, Announcement
<1> HIDE DEF e, b
<1>9. /\ io_araddr' \in Seq([of : Bursts, len : Nat, id : Nat])
      /\ Len(io_araddr') = Len(io_araddr) + 1
      /\ \A i \in 1 .. Len(io_araddr) : io_araddr'[i] = io_araddr[i]
      /\ io_araddr'[Len(io_araddr) + 1] = e
  BY <1>2, <1>3, <1>8, AppendIs
<1>10. Reads' = Reads /\ Asking' = Asking + 1 /\ Handled' = Handled
  <2>1. Reads' = Reads
    BY <1>2 DEF Reads
  <2>2. Asking' = Len(Reads) - Len(ar')
    BY <2>1 DEF Asking
  <2>3. Asking' = Asking + 1
    BY <1>4, <1>5, <2>2
  <2>4. Handled' = Asking' - Len(io_araddr')
    BY DEF Handled
  <2> QED  BY <1>5, <1>9, <2>1, <2>3, <2>4
<1>11. ReadOrder'
  <2>1. \A i \in 1 .. Len(io_araddr') : io_araddr'[i] = Announcement(Reads[Handled + i])
    <3> SUFFICES ASSUME NEW i \in 1 .. Len(io_araddr) + 1
                 PROVE  io_araddr'[i] = Announcement(Reads[Handled + i])
      BY <1>9
    <3>1. CASE i = Len(io_araddr) + 1
      <4>1. Handled + i = Asking + 1
        BY <1>5, <3>1
      <4> QED  BY <1>6, <1>7, <1>9, <3>1, <4>1
    <3>2. CASE i \in 1 .. Len(io_araddr)
      BY <1>1, <1>9, <3>2 DEF ReadOrder
    <3> QED  BY <1>5, <3>1, <3>2
  <2>2. \A i \in 1 .. Len(ar') : ar'[i] = Reads[Asking + 1 + i]
    <3> SUFFICES ASSUME NEW i \in 1 .. Len(ar) - 1
                 PROVE  ar'[i] = Reads[Asking + 1 + i]
      BY <1>4
    <3>1. i + 1 \in 1 .. Len(ar) /\ Asking + 1 + i = Asking + (i + 1)
      BY <1>4, <1>5
    <3> QED  BY <1>1, <1>4, <3>1 DEF ReadOrder
  <2> QED  BY <1>1, <1>2, <1>10, <2>1, <2>2 DEF ReadOrder, Announcement
<1>12. Due' = Due /\ ReadId' = ReadId /\ DataId' = DataId
  BY <1>2, <1>10 DEF Due, ReadId, DataId
<1>13. ReadData'
  BY <1>1, <1>2, <1>10, <1>12 DEF ReadData
<1> QED  BY <1>4, <1>9, <1>11, <1>13 DEF RInv

\* The host answers a read with all of its beats.
LEMMA ArHandled ==
    ASSUME IoTypes, Asked, RInv, OnAraddr
    PROVE  /\ RInv' /\ io_araddr' \in Seq([of : Bursts, len : Nat, id : Nat])
           /\ rdata' \in Seq([id : Nat, last : BOOLEAN])
<1>1. ReadOrder /\ ReadData
  BY DEF RInv
<1> DEFINE R == [id : Nat, last : BOOLEAN]
           a == Head(io_araddr)
           u == [i \in 1 .. a.len |-> [id |-> a.id, last |-> LastBeat(i - 1, a.len)]]
<1>2. /\ io_araddr # <<>> /\ io_araddr' = Tail(io_araddr) /\ rdata' = rdata \o u
      /\ UNCHANGED <<outstanding, burst, ar>>
  BY DEF OnAraddr, hardware, guest
<1>3. /\ io_araddr \in Seq([of : Bursts, len : Nat, id : Nat]) /\ rdata \in Seq(R)
      /\ Reads \in Seq(Bursts)
  BY DEF IoTypes, Reads, Directions
<1>4. /\ io_araddr' \in Seq([of : Bursts, len : Nat, id : Nat])
      /\ a = io_araddr[1] /\ a \in [of : Bursts, len : Nat, id : Nat]
      /\ Len(io_araddr) \in Nat \ {0} /\ Len(io_araddr') = Len(io_araddr) - 1
      /\ \A i \in 1 .. Len(io_araddr) - 1 : io_araddr'[i] = io_araddr[i + 1]
  <2> DEFINE E == [of : Bursts, len : Nat, id : Nat]
  <2> HIDE DEF E
  <2>1. io_araddr \in Seq(E) /\ io_araddr # <<>>
    BY <1>2, <1>3 DEF E
  <2>2. /\ Tail(io_araddr) \in Seq(E) /\ Head(io_araddr) = io_araddr[1] /\ io_araddr[1] \in E
        /\ Len(io_araddr) \in Nat \ {0} /\ Len(Tail(io_araddr)) = Len(io_araddr) - 1
        /\ \A i \in 1 .. Len(io_araddr) - 1 : Tail(io_araddr)[i] = io_araddr[i + 1]
    BY <2>1, TailIs
  <2> QED  BY <1>2, <2>2 DEF E
<1>5. /\ Handled \in Nat /\ Asking \in Nat /\ Len(Reads) \in Nat /\ Len(ar) \in Nat
      /\ Asking = Handled + Len(io_araddr) /\ Len(Reads) = Asking + Len(ar)
      /\ Len(rdata) \in Nat
  BY <1>1, ReadCounts
<1> DEFINE b == Reads[Handled + 1]
           n == burst[b].beats
<1>6. a = Announcement(b) /\ Handled + 1 \in 1 .. Len(Reads)
  <2>1. 1 \in 1 .. Len(io_araddr) /\ Handled + 1 \in 1 .. Len(Reads)
    <3>1. Len(io_araddr) \in Nat /\ 1 <= Len(io_araddr)
      BY <1>4
    <3>2. Handled + 1 <= Len(Reads)
      BY <3>1, <1>5
    <3> QED  BY <3>1, <3>2, <1>5
  <2> QED  BY <1>1, <1>4, <2>1 DEF ReadOrder
<1>7. n \in Nat \ {0} /\ b \in Bursts /\ burst[b].id \in Nat /\ burst[b].got = 0
  <2>1. Handled + 1 \in DOMAIN outstanding["read"]
    BY <1>3, <1>6 DEF Reads
  <2>2. n \in 1 .. LenMod - 1
    BY <2>1 DEF Asked, Reads, Directions
  <2>3. b \in Bursts
    BY <1>3, <1>6
  <2>4. burst[b].got = 0
    <3>1. Handled + 1 > Handled
      BY <1>5
    <3> QED  BY <1>1, <1>6, <3>1 DEF ReadOrder
  <2>5. n \in Nat \ {0}
    BY <2>2, BridgeAssumption
  <2> QED  BY <2>3, <2>4, <2>5 DEF IoTypes
<1>8. /\ a.len = n /\ a.id = burst[b].id
  BY <1>6 DEF Announcement
<1> HIDE DEF a, n
<1>9. /\ u \in Seq(R) /\ Len(u) = n
      /\ \A i \in 1 .. n : u[i].id = burst[b].id /\ u[i].last = (i = n)
  <2>1. u = [i \in 1 .. n |-> [id |-> burst[b].id, last |-> LastBeat(i - 1, n)]]
    BY <1>8
  <2>2. \A i \in 1 .. n : LastBeat(i - 1, n) = (i = n) /\ LastBeat(i - 1, n) \in BOOLEAN
    BY <1>7 DEF LastBeat
  <2>3. \A i \in 1 .. n : [id |-> burst[b].id, last |-> LastBeat(i - 1, n)] \in R
    BY <1>7, <2>2
  <2> HIDE DEF u, R
  <2>4. u \in [1 .. n -> R]
    BY <2>1, <2>3
  <2>5. u \in Seq(R) /\ Len(u) = n
    BY <1>7, <2>4
  <2> QED  BY <2>1, <2>2, <2>5
<1> HIDE DEF u
<1>10. /\ rdata' \in Seq(R) /\ Len(rdata') = Len(rdata) + n
       /\ \A k \in 1 .. Len(rdata) : rdata'[k] = rdata[k]
       /\ \A i \in 1 .. n : rdata'[Len(rdata) + i] = u[i]
  <2>1. /\ rdata \o u \in Seq(R) /\ Len(rdata \o u) = Len(rdata) + Len(u)
        /\ \A i \in 1 .. Len(rdata) : (rdata \o u)[i] = rdata[i]
        /\ \A i \in 1 .. Len(u) : (rdata \o u)[Len(rdata) + i] = u[i]
    BY <1>3, <1>9, ConcatIs
  <2> QED  BY <1>2, <1>9, <2>1
<1>11. \A k \in Len(rdata) + 1 .. Len(rdata) + n :
         rdata'[k].id = burst[b].id /\ rdata'[k].last = (k = Len(rdata) + n)
  <2> SUFFICES ASSUME NEW k \in Len(rdata) + 1 .. Len(rdata) + n
               PROVE  rdata'[k].id = burst[b].id /\ rdata'[k].last = (k = Len(rdata) + n)
    OBVIOUS
  <2> DEFINE i == k - Len(rdata)
  <2>1. i \in 1 .. n /\ Len(rdata) + i = k /\ (i = n) = (k = Len(rdata) + n)
    BY <1>5, <1>7
  <2> HIDE DEF i
  <2>2. rdata'[k] = u[i]
    BY <1>10, <2>1
  <2>3. u[i].id = burst[b].id /\ u[i].last = (i = n)
    BY <1>9, <2>1
  <2> QED  BY <2>1, <2>2, <2>3
<1>12. Reads' = Reads /\ Asking' = Asking /\ Handled' = Handled + 1
  <2>1. Reads' = Reads /\ Asking' = Asking
    BY <1>2 DEF Reads, Asking
  <2>2. Handled' = Asking' - Len(io_araddr')
    BY DEF Handled
  <2> QED  BY <1>4, <1>5, <2>1, <2>2
<1>13. ReadOrder'
  <2>1. \A i \in 1 .. Len(io_araddr') : io_araddr'[i] = Announcement(Reads[Handled + 1 + i])
    <3> SUFFICES ASSUME NEW i \in 1 .. Len(io_araddr) - 1
                 PROVE  io_araddr'[i] = Announcement(Reads[Handled + 1 + i])
      BY <1>4
    <3>1. i + 1 \in 1 .. Len(io_araddr) /\ Handled + 1 + i = Handled + (i + 1)
      BY <1>4, <1>5
    <3> QED  BY <1>1, <1>4, <3>1 DEF ReadOrder
  <2>2. Handled + 1 \in Nat /\ \A p \in 1 .. Len(Reads) : p > Handled + 1 => p > Handled
    BY <1>5
  <2>3. \A p \in 1 .. Len(Reads) :
            /\ burst[Reads[p]].got < burst[Reads[p]].beats
            /\ p > 1 \/ p > Handled + 1 => burst[Reads[p]].got = 0
    BY <1>1, <2>2 DEF ReadOrder
  <2>4. \A i \in 1 .. Len(ar) : ar[i] = Reads[Asking + i]
    BY <1>1 DEF ReadOrder
  <2> QED  BY <1>2, <1>12, <2>1, <2>2, <2>3, <2>4 DEF ReadOrder, Announcement
<1>14. PICK t : /\ Laid(t, Handled, Len(rdata), Due)
                /\ Owned(t, Handled, DataId, ReadId)
                /\ Marked(t, Handled, rdata)
  BY <1>1 DEF ReadData
<1>15. /\ \A i \in 1 .. Handled : Due'[i] = Due[i] /\ ReadId'[i] = ReadId[i]
       /\ Due'[Handled + 1] = n /\ ReadId'[Handled + 1] = burst[b].id
       /\ Due' = [i \in 1 .. Handled + 1 |-> Due'[i]]
  <2>1. Due' = [i \in 1 .. Handled + 1 |-> burst[Reads[i]].beats - burst[Reads[i]].got]
    BY <1>2, <1>12 DEF Due
  <2>2. ReadId' = [i \in 1 .. Handled + 1 |-> burst[Reads[i]].id]
    BY <1>2, <1>12 DEF ReadId
  <2>3. /\ Handled + 1 \in 1 .. Handled + 1
        /\ \A i \in 1 .. Handled : i \in 1 .. Handled + 1
    BY <1>5
  <2>4. \A i \in 1 .. Handled : Due'[i] = Due[i]
    BY <2>1, <2>3 DEF Due
  <2>5. \A i \in 1 .. Handled : ReadId'[i] = ReadId[i]
    BY <2>2, <2>3 DEF ReadId
  <2>6. n - burst[b].got = n
    BY <1>7
  <2>7. Due'[Handled + 1] = n
    BY <2>1, <2>3, <2>6 DEF n
  <2> QED  BY <2>1, <2>2, <2>3, <2>4, <2>5, <2>7
<1>16. /\ \A k \in 1 .. Len(rdata) : DataId'[k] = DataId[k]
       /\ \A k \in Len(rdata) + 1 .. Len(rdata) + n : DataId'[k] = burst[b].id
  <2>1. DataId = [k \in 1 .. Len(rdata) |-> rdata[k].id]
    BY <1>3 DEF DataId
  <2>2. DataId' = [k \in 1 .. Len(rdata) + n |-> rdata'[k].id]
    BY <1>10 DEF DataId
  <2>3. /\ \A k \in 1 .. Len(rdata) : k \in 1 .. Len(rdata) + n
        /\ \A k \in Len(rdata) + 1 .. Len(rdata) + n : k \in 1 .. Len(rdata) + n
    BY <1>5, <1>7
  <2>4. \A k \in 1 .. Len(rdata) : DataId'[k] = DataId[k]
    BY <1>10, <2>1, <2>2, <2>3
  <2>5. \A k \in Len(rdata) + 1 .. Len(rdata) + n : DataId'[k] = burst[b].id
    BY <1>11, <2>2, <2>3
  <2> QED  BY <2>4, <2>5
<1>17. ReadData'
  <2> DEFINE total == Len(rdata)
  <2> HIDE DEF total
  <2>1. Laid(t, Handled, total, Due) /\ Owned(t, Handled, DataId, ReadId) /\ Marked(t, Handled, rdata)
    BY <1>14 DEF total
  <2>2. Due' \in [1 .. Handled + 1 -> Nat \ {0}]
    <3>1. Due \in [1 .. Handled -> Nat \ {0}]
      BY <1>14 DEF Laid
    <3>2. \A i \in 1 .. Handled + 1 : i = Handled + 1 \/ i \in 1 .. Handled
      BY <1>5
    <3>3. \A i \in 1 .. Handled + 1 : Due'[i] \in Nat \ {0}
      BY <1>7, <1>15, <3>1, <3>2
    <3> QED  BY <1>15, <3>3
  <2>3. \A i \in 1 .. Handled : Due'[i] = Due[i]
    BY <1>15
  <2>4. Due'[Handled + 1] = n /\ n \in Nat \ {0}
    BY <1>7, <1>15
  <2>5. Laid(Extended(t, Handled, n), Handled + 1, total + n, Due')
    BY <2>1, <2>2, <2>3, <2>4, ExtendLaid
  <2>6. \A i \in 1 .. Handled : ReadId'[i] = ReadId[i]
    BY <1>15
  <2>7. /\ \A k \in 1 .. total : DataId'[k] = DataId[k]
        /\ \A k \in total + 1 .. total + n : DataId'[k] = ReadId'[Handled + 1]
    BY <1>15, <1>16 DEF total
  <2>8. Owned(Extended(t, Handled, n), Handled + 1, DataId', ReadId')
    BY <2>1, <2>4, <2>6, <2>7, ExtendOwned
  <2>9. /\ \A k \in 1 .. total : rdata'[k] = rdata[k]
        /\ \A k \in total + 1 .. total + n : rdata'[k].last = (k = total + n)
    BY <1>10, <1>11 DEF total
  <2>10. Marked(Extended(t, Handled, n), Handled + 1, rdata')
    BY <2>1, <2>4, <2>9, ExtendMarked
  <2>11. Len(rdata') = total + n
    BY <1>10 DEF total
  <2> QED  BY <1>12, <2>5, <2>8, <2>10, <2>11 DEF ReadData
<1> QED  BY <1>4, <1>10, <1>13, <1>17 DEF RInv

\* A read begins: its address is the last.
LEMMA ReadBegins ==
    ASSUME IoTypes, Distinct, Asked, RInv, NEW kind \in Kinds, kind.dir = "read",
           NEW b \in Bursts \ UnderWay, Begun(kind, b),
           ar' = Append(ar, b), UNCHANGED <<io_araddr, rdata>>
    PROVE  RInv' /\ ar' \in Seq(Bursts)
<1>1. ReadOrder /\ ReadData
  BY DEF RInv
<1>2. kind.beats \in Nat \ {0}
  BY BridgeAssumption
<1>3. /\ Reads' = Append(Reads, b) /\ burst'[b].got = 0 /\ burst'[b].beats = kind.beats
      /\ \A p \in 1 .. Len(Reads) : burst'[Reads[p]] = burst[Reads[p]]
  <2>1. /\ outstanding'[kind.dir] = Append(outstanding[kind.dir], b)
        /\ burst'[b] = AsAsked(kind)
        /\ \A d \in Directions : \A p \in 1 .. Len(outstanding[d]) :
             burst'[outstanding[d][p]] = burst[outstanding[d][p]]
    BY BurstBegins
  <2> QED  BY <2>1 DEF Reads, Directions, AsAsked
<1>4. ar \in Seq(Bursts) /\ b \in Bursts /\ Reads \in Seq(Bursts)
  BY DEF IoTypes, Reads, Directions
<1>5. /\ ar' \in Seq(Bursts) /\ Len(ar') = Len(ar) + 1 /\ Len(ar) \in Nat
      /\ \A i \in 1 .. Len(ar) : ar'[i] = ar[i]
      /\ ar'[Len(ar) + 1] = b
  BY <1>4, AppendIs
<1>6. /\ Len(Reads') = Len(Reads) + 1
      /\ \A i \in 1 .. Len(Reads) : Reads'[i] = Reads[i]
      /\ Reads'[Len(Reads) + 1] = b
  <2>1. Reads' = Append(Reads, b)
    BY <1>3
  <2> QED  BY <1>4, <2>1, AppendIs
<1>7. /\ Handled \in Nat /\ Asking \in Nat /\ Len(Reads) \in Nat /\ Len(io_araddr) \in Nat
      /\ Asking = Handled + Len(io_araddr) /\ Len(Reads) = Asking + Len(ar)
      /\ Handled <= Len(Reads)
  <2>1. /\ Handled \in Nat /\ Asking \in Nat /\ Len(Reads) \in Nat /\ Len(io_araddr) \in Nat
        /\ Asking = Handled + Len(io_araddr) /\ Len(Reads) = Asking + Len(ar)
        /\ Handled <= Asking /\ Asking <= Len(Reads)
    BY <1>1, ReadCounts
  <2> QED  BY <2>1
<1>8. Asking' = Asking /\ Handled' = Handled
  <2>1. Asking' = Len(Reads') - Len(ar')
    BY DEF Asking
  <2>2. \A m, n \in Nat : (m + 1) - (n + 1) = m - n
    OBVIOUS
  <2>3. (Len(Reads) + 1) - (Len(ar) + 1) = Len(Reads) - Len(ar)
    BY <1>5, <1>7, <2>2, Zenon
  <2>4. Asking' = (Len(Reads) + 1) - (Len(ar) + 1)
    BY <1>5, <1>6, <2>1, Zenon
  <2>5. Asking' = Asking
    BY <2>3, <2>4, Zenon DEF Asking
  <2> QED  BY <2>5 DEF Handled
<1>9. ASSUME NEW p \in 1 .. Len(Reads)
      PROVE  Reads'[p] = Reads[p] /\ burst'[Reads'[p]] = burst[Reads[p]]
  BY <1>3, <1>6
<1>10. ReadOrder'
  <2>1. \A i \in 1 .. Len(io_araddr) : io_araddr[i] = Announcement(Reads[Handled + i])'
    <3> SUFFICES ASSUME NEW i \in 1 .. Len(io_araddr)
                 PROVE  io_araddr[i] = Announcement(Reads[Handled + i])'
      OBVIOUS
    <3>1. Handled + i \in 1 .. Len(Reads)
      BY <1>5, <1>7
    <3>2. Reads'[Handled + i] = Reads[Handled + i] /\ burst'[Reads'[Handled + i]] = burst[Reads[Handled + i]]
      BY <1>9, <3>1
    <3>3. io_araddr[i] = Announcement(Reads[Handled + i])
      BY <1>1 DEF ReadOrder
    <3> QED  BY <1>8, <3>2, <3>3 DEF Announcement
  <2>2. \A i \in 1 .. Len(ar') : ar'[i] = Reads'[Asking + i]
    <3> SUFFICES ASSUME NEW i \in 1 .. Len(ar) + 1
                 PROVE  ar'[i] = Reads'[Asking + i]
      BY <1>5
    <3>1. CASE i = Len(ar) + 1
      <4>1. Asking + i = Len(Reads) + 1
        BY <1>5, <1>7, <3>1
      <4> QED  BY <1>5, <1>6, <3>1, <4>1
    <3>2. CASE i \in 1 .. Len(ar)
      <4>1. Asking + i \in 1 .. Len(Reads)
        BY <1>5, <1>7, <3>2
      <4> QED  BY <1>1, <1>5, <1>9, <3>2, <4>1 DEF ReadOrder
    <3> QED  BY <1>5, <3>1, <3>2
  <2>3. ASSUME NEW p \in 1 .. Len(Reads')
        PROVE  /\ burst'[Reads'[p]].got < burst'[Reads'[p]].beats
               /\ p > 1 \/ p > Handled => burst'[Reads'[p]].got = 0
    <3>1. CASE p = Len(Reads) + 1
      BY <1>2, <1>3, <1>6, <3>1
    <3>2. CASE p \in 1 .. Len(Reads)
      BY <1>1, <1>9, <3>2 DEF ReadOrder
    <3> QED  BY <1>6, <1>7, <3>1, <3>2
  <2>4. Handled' \in Nat
    BY <1>7, <1>8
  <2> QED  BY <1>8, <2>1, <2>2, <2>3, <2>4 DEF ReadOrder
<1>11. Due' = Due /\ ReadId' = ReadId /\ DataId' = DataId
  <2>1. \A i \in 1 .. Handled : burst'[Reads'[i]] = burst[Reads[i]]
    <3>1. \A i \in 1 .. Handled : i \in 1 .. Len(Reads)
      BY <1>7
    <3> QED  BY <1>9, <3>1
  <2>2. Due' = Due
    BY <1>8, <2>1 DEF Due
  <2>3. ReadId' = ReadId
    BY <1>8, <2>1 DEF ReadId
  <2> QED  BY <2>2, <2>3 DEF DataId
<1>12. ReadData'
  BY <1>1, <1>8, <1>11 DEF ReadData
<1> QED  BY <1>5, <1>10, <1>12 DEF RInv
\* The beat that the guest takes is of the oldest read under way, and is marked as
\* the last when one is due.
LEMMA FirstBeat ==
    ASSUME IoTypes, RInv, rdata # <<>>
    PROVE  /\ Handled \in Nat \ {0} /\ 1 \in 1 .. Len(Reads)
           /\ outstanding["read"] # <<>>
           /\ Asker("read", Head(rdata).id) = 1
           /\ Head(rdata).last = (burst[Reads[1]].got = burst[Reads[1]].beats - 1)
           /\ burst[Reads[1]].got \in Nat /\ burst[Reads[1]].beats \in Nat
           /\ Due[1] = burst[Reads[1]].beats - burst[Reads[1]].got
           /\ Reads[1] \in Bursts
<1>1. ReadOrder /\ ReadData
  BY DEF RInv
<1>2. PICK t : /\ Laid(t, Handled, Len(rdata), Due)
               /\ Owned(t, Handled, DataId, ReadId)
               /\ Marked(t, Handled, rdata)
  BY <1>1 DEF ReadData
<1>3. Head(rdata) = rdata[1] /\ Len(rdata) \in Nat \ {0} /\ rdata \in Seq([id : Nat, last : BOOLEAN])
  <2>1. rdata \in Seq([id : Nat, last : BOOLEAN])
    BY DEF IoTypes
  <2> QED  BY <2>1, TailIs
<1>4. /\ Handled \in Nat /\ Handled <= Len(Reads) /\ Len(Reads) \in Nat /\ Reads \in Seq(Bursts)
  <2>1. /\ Handled \in Nat /\ Asking \in Nat /\ Len(Reads) \in Nat /\ Reads \in Seq(Bursts)
        /\ Handled <= Asking /\ Asking <= Len(Reads)
    BY <1>1, ReadCounts
  <2> QED  BY <2>1
<1>5. Handled > 0 /\ DataId[1] = ReadId[1]
  <2>1. Len(rdata) > 0
    BY <1>3
  <2> QED  BY <1>2, <2>1, FirstOwned
<1>6. rdata[1].last = (Due[1] = 1)
  BY <1>2, <1>5, FirstMarked
<1>7. 1 \in 1 .. Handled /\ 1 \in 1 .. Len(Reads) /\ 1 \in DOMAIN rdata
  BY <1>3, <1>4, <1>5
<1>8. /\ Due[1] = burst[Reads[1]].beats - burst[Reads[1]].got
      /\ ReadId[1] = burst[Reads[1]].id /\ DataId[1] = rdata[1].id
  BY <1>7 DEF Due, ReadId, DataId
<1>9. Reads[1] \in Bursts /\ burst[Reads[1]].got \in Nat /\ burst[Reads[1]].beats \in Nat
  <2>1. Reads[1] \in Bursts
    BY <1>4, <1>7
  <2>2. burst \in [Bursts -> [dir : Directions \cup {"none"}, id : Nat, beats : Nat,
                             target : Targets, got : Nat]]
    BY DEF IoTypes
  <2> QED  BY <2>1, <2>2
<1>10. (Due[1] = 1) = (burst[Reads[1]].got = burst[Reads[1]].beats - 1)
  <2>1. \A m, n \in Nat : (m - n = 1) = (n = m - 1)
    OBVIOUS
  <2> QED  BY <1>8, <1>9, <2>1
<1>11. Reads # <<>>
  BY <1>4, <1>7
<1>12. Asker("read", Head(rdata).id) = 1
  <2>1. outstanding["read"] \in Seq(Bursts) /\ outstanding["read"] # <<>>
    BY <1>4, <1>11 DEF Reads
  <2>2. burst[outstanding["read"][1]].id = Head(rdata).id
    BY <1>3, <1>5, <1>8 DEF Reads
  <2> QED  BY <2>1, <2>2, AskerIsFirst
<1> QED  BY <1>3, <1>4, <1>5, <1>6, <1>7, <1>8, <1>9, <1>10, <1>11, <1>12 DEF Reads

\* What is taken is the first of rdata.
LEMMA BeatsShift ==
    ASSUME IoTypes, rdata # <<>>, rdata' = Tail(rdata)
    PROVE  /\ rdata' \in Seq([id : Nat, last : BOOLEAN]) /\ Len(rdata) \in Nat
           /\ Len(rdata') = Len(rdata) - 1
           /\ \A k \in 1 .. Len(rdata) - 1 : rdata'[k] = rdata[k + 1]
           /\ \A k \in 1 .. Len(rdata) - 1 : DataId'[k] = DataId[k + 1]
<1>1. rdata \in Seq([id : Nat, last : BOOLEAN])
  BY DEF IoTypes
<1>2. /\ rdata' \in Seq([id : Nat, last : BOOLEAN]) /\ Len(rdata) \in Nat \ {0}
      /\ Len(rdata') = Len(rdata) - 1
      /\ \A k \in 1 .. Len(rdata) - 1 : rdata'[k] = rdata[k + 1]
  BY <1>1, TailIs
<1>3. ASSUME NEW k \in 1 .. Len(rdata) - 1
      PROVE  DataId'[k] = DataId[k + 1]
  <2>1. k \in DOMAIN rdata' /\ k + 1 \in DOMAIN rdata
    BY <1>1, <1>2
  <2> QED  BY <1>2, <2>1 DEF DataId
<1> QED  BY <1>2, <1>3

\* The guest takes the last beat of a read.
LEMMA LastTaken ==
    ASSUME IoTypes, Distinct, Asked, RInv, rdata # <<>>, rdata' = Tail(rdata), Head(rdata).last,
           Over("read", 1), UNCHANGED <<ar, io_araddr>>
    PROVE  RInv'
<1>1. ReadOrder /\ ReadData
  BY DEF RInv
<1>2. /\ Handled \in Nat \ {0} /\ 1 \in 1 .. Len(Reads) /\ outstanding["read"] # <<>>
      /\ Due[1] = 1
  <2>1. /\ Handled \in Nat \ {0} /\ 1 \in 1 .. Len(Reads) /\ outstanding["read"] # <<>>
        /\ Head(rdata).last = (burst[Reads[1]].got = burst[Reads[1]].beats - 1)
        /\ burst[Reads[1]].got \in Nat /\ burst[Reads[1]].beats \in Nat
        /\ Due[1] = burst[Reads[1]].beats - burst[Reads[1]].got
    BY FirstBeat
  <2>2. \A m, n \in Nat : n = m - 1 => m - n = 1
    OBVIOUS
  <2> QED  BY <2>1, <2>2
<1>3. /\ Len(Reads') = Len(Reads) - 1
      /\ \A p \in 1 .. Len(Reads) - 1 : Reads'[p] = Reads[p + 1]
      /\ \A p \in 1 .. Len(Reads) - 1 : burst'[Reads'[p]] = burst[Reads[p + 1]]
  <2>1. /\ Len(outstanding'["read"]) = Len(outstanding["read"]) - 1
        /\ \A p \in 1 .. Len(outstanding["read"]) - 1 :
             outstanding'["read"][p] = outstanding["read"][p + 1]
        /\ \A p \in 1 .. Len(outstanding'["read"]) :
             burst'[outstanding'["read"][p]] = burst[outstanding'["read"][p]]
    BY <1>2, OverFirst DEF Directions
  <2>2. Reads' = outstanding'["read"] /\ Reads = outstanding["read"]
    BY DEF Reads
  <2>3. /\ Len(Reads') = Len(Reads) - 1
        /\ \A p \in 1 .. Len(Reads) - 1 : Reads'[p] = Reads[p + 1]
        /\ \A p \in 1 .. Len(Reads') : burst'[Reads'[p]] = burst[Reads'[p]]
    BY <2>1, <2>2, Zenon
  <2>4. \A p \in 1 .. Len(Reads) - 1 : burst'[Reads'[p]] = burst[Reads'[p]]
    BY <2>3, Zenon
  <2>5. \A p \in 1 .. Len(Reads) - 1 : burst'[Reads'[p]] = burst[Reads[p + 1]]
    <3> SUFFICES ASSUME NEW p \in 1 .. Len(Reads) - 1
                 PROVE  burst'[Reads'[p]] = burst[Reads[p + 1]]
      OBVIOUS
    <3>1. Reads'[p] = Reads[p + 1] /\ burst'[Reads'[p]] = burst[Reads'[p]]
      BY <2>3, <2>4
    <3> QED  BY <3>1
  <2> QED  BY <2>3, <2>5, Zenon
<1>4. /\ Asking \in Nat /\ Len(Reads) \in Nat /\ Len(ar) \in Nat /\ Len(io_araddr) \in Nat
      /\ Asking = Handled + Len(io_araddr) /\ Len(Reads) = Asking + Len(ar)
  BY <1>1, ReadCounts
<1>5. Asking' = Asking - 1 /\ Handled' = Handled - 1
  <2>1. Asking' = (Len(Reads) - 1) - Len(ar)
    BY <1>3, Zenon DEF Asking
  <2>2. Asking' = Asking - 1
    BY <1>4, <2>1
  <2>3. Handled' = Asking' - Len(io_araddr)
    BY DEF Handled
  <2> QED  BY <1>2, <1>4, <2>2, <2>3
<1>6. ReadOrder'
  <2>1. \A i \in 1 .. Len(io_araddr) : io_araddr[i] = Announcement(Reads[Handled + i])'
    <3> SUFFICES ASSUME NEW i \in 1 .. Len(io_araddr)
                 PROVE  io_araddr[i] = Announcement(Reads[Handled + i])'
      OBVIOUS
    <3>1. Handled' + i \in 1 .. Len(Reads) - 1 /\ (Handled' + i) + 1 = Handled + i
      BY <1>2, <1>4, <1>5
    <3>2. /\ Reads'[Handled' + i] = Reads[Handled + i]
          /\ burst'[Reads'[Handled' + i]] = burst[Reads[Handled + i]]
      BY <1>3, <3>1
    <3>3. io_araddr[i] = Announcement(Reads[Handled + i])
      BY <1>1 DEF ReadOrder
    <3> QED  BY <3>2, <3>3 DEF Announcement
  <2>2. \A i \in 1 .. Len(ar) : ar[i] = Reads'[Asking' + i]
    <3> SUFFICES ASSUME NEW i \in 1 .. Len(ar)
                 PROVE  ar[i] = Reads'[Asking' + i]
      OBVIOUS
    <3>1. Asking' + i \in 1 .. Len(Reads) - 1 /\ (Asking' + i) + 1 = Asking + i
      BY <1>2, <1>4, <1>5
    <3> QED  BY <1>1, <1>3, <3>1 DEF ReadOrder
  <2>3. ASSUME NEW p \in 1 .. Len(Reads')
        PROVE  /\ burst'[Reads'[p]].got < burst'[Reads'[p]].beats
               /\ p > 1 \/ p > Handled' => burst'[Reads'[p]].got = 0
    <3>1. p \in 1 .. Len(Reads) - 1 /\ p + 1 \in 1 .. Len(Reads) /\ p + 1 > 1
      BY <1>3, <1>4
    <3>2. burst'[Reads'[p]] = burst[Reads[p + 1]]
      BY <1>3, <3>1
    <3> QED  BY <1>1, <3>1, <3>2 DEF ReadOrder
  <2>4. Handled' \in Nat
    BY <1>2, <1>5
  <2> QED  BY <2>1, <2>2, <2>3, <2>4 DEF ReadOrder
<1>7. /\ rdata' \in Seq([id : Nat, last : BOOLEAN]) /\ Len(rdata') = Len(rdata) - 1
      /\ \A k \in 1 .. Len(rdata) - 1 : rdata'[k] = rdata[k + 1]
      /\ \A k \in 1 .. Len(rdata) - 1 : DataId'[k] = DataId[k + 1]
  BY BeatsShift
<1>8. \A i \in 1 .. Handled - 1 : Due'[i] = Due[i + 1] /\ ReadId'[i] = ReadId[i + 1]
  <2> SUFFICES ASSUME NEW i \in 1 .. Handled - 1
               PROVE  Due'[i] = Due[i + 1] /\ ReadId'[i] = ReadId[i + 1]
    OBVIOUS
  <2>1. i \in 1 .. Handled' /\ i + 1 \in 1 .. Handled /\ i \in 1 .. Len(Reads) - 1
    BY <1>2, <1>4, <1>5
  <2>2. burst'[Reads'[i]] = burst[Reads[i + 1]]
    BY <1>3, <2>1
  <2>3. Due'[i] = burst'[Reads'[i]].beats - burst'[Reads'[i]].got /\ ReadId'[i] = burst'[Reads'[i]].id
    BY <2>1 DEF Due, ReadId
  <2>4. Due[i + 1] = burst[Reads[i + 1]].beats - burst[Reads[i + 1]].got /\ ReadId[i + 1] = burst[Reads[i + 1]].id
    BY <2>1 DEF Due, ReadId
  <2> QED  BY <2>2, <2>3, <2>4
<1>9. ReadData'
  <2> DEFINE total == Len(rdata)
  <2>1. PICK t : Laid(t, Handled, total, Due) /\ Owned(t, Handled, DataId, ReadId) /\ Marked(t, Handled, rdata)
    BY <1>1 DEF ReadData
  <2>2. Len(rdata') = total - 1 /\ \A k \in 1 .. total - 1 : rdata'[k] = rdata[k + 1] /\ DataId'[k] = DataId[k + 1]
    BY <1>7
  <2> HIDE DEF total
  <2>3. Handled > 0 /\ Due[1] = 1
    BY <1>2
  <2>4. Due' \in [1 .. Handled - 1 -> Nat \ {0}]
    <3>1. Due \in [1 .. Handled -> Nat \ {0}]
      BY <2>1 DEF Laid
    <3>2. \A i \in 1 .. Handled - 1 : i + 1 \in 1 .. Handled
      BY <1>2
    <3>3. \A i \in 1 .. Handled - 1 : Due'[i] \in Nat \ {0}
      BY <1>8, <3>1, <3>2
    <3>4. Due' = [i \in 1 .. Handled - 1 |-> Due'[i]]
      <4>1. Due' = [i \in 1 .. Handled' |-> burst'[Reads'[i]].beats - burst'[Reads'[i]].got]
        BY DEF Due
      <4> QED  BY <1>5, <4>1
    <3> QED  BY <3>3, <3>4
  <2>5. \A i \in 1 .. Handled - 1 : Due'[i] = Due[i + 1]
    BY <1>8
  <2>6. Laid(Without(t), Handled - 1, total - 1, Due')
    BY <2>1, <2>3, <2>4, <2>5, DropLaid
  <2>7. \A i \in 1 .. Handled - 1 : ReadId'[i] = ReadId[i + 1]
    BY <1>8
  <2>8. \A k \in 1 .. total - 1 : DataId'[k] = DataId[k + 1]
    BY <2>2
  <2>9. Owned(Without(t), Handled - 1, DataId', ReadId')
    BY <2>1, <2>3, <2>7, <2>8, DropOwned
  <2>10. \A k \in 1 .. total - 1 : rdata'[k] = rdata[k + 1]
    BY <2>2
  <2>11. Marked(Without(t), Handled - 1, rdata')
    <3>1. \A beat2 : (\A k \in 1 .. total - 1 : beat2[k] = rdata[k + 1])
                      => Marked(Without(t), Handled - 1, beat2)
      BY <2>1, <2>3, DropMarked
    <3> QED  BY <2>10, <3>1
  <2> QED  BY <1>5, <2>2, <2>6, <2>9, <2>11 DEF ReadData
<1> QED  BY <1>6, <1>9 DEF RInv
\* The guest counts a beat of the oldest read.
Counted ==
    /\ burst' = [burst EXCEPT ![outstanding["read"][1]].got = @ + 1]
    /\ UNCHANGED outstanding

LEMMA CountedIs ==
    ASSUME IoTypes, Distinct, Asked, Reads[1] \in Bursts, 1 \in 1 .. Len(Reads), Counted
    PROVE  /\ burst' \in [Bursts -> [dir : Directions \cup {"none"}, id : Nat, beats : Nat,
                                     target : Targets, got : Nat]]
           /\ burst'[Reads[1]].got = burst[Reads[1]].got + 1
           /\ burst'[Reads[1]].beats = burst[Reads[1]].beats
           /\ \A b \in Bursts : /\ burst'[b].dir = burst[b].dir
                                /\ burst'[b].beats = burst[b].beats
                                /\ burst'[b].id = burst[b].id
           /\ \A p \in 1 .. Len(Writes) : burst'[Writes[p]] = burst[Writes[p]]
           /\ \A p \in 2 .. Len(Reads) : burst'[Reads[p]] = burst[Reads[p]]
           /\ Distinct' /\ Asked'
<1> DEFINE B == [dir : Directions \cup {"none"}, id : Nat, beats : Nat,
                 target : Targets, got : Nat]
           r == Reads[1]
           new == [burst[r] EXCEPT !.got = @ + 1]
<1>1. burst \in [Bursts -> B] /\ r \in Bursts /\ outstanding \in [Directions -> Seq(Bursts)]
  BY DEF IoTypes
<1>2. burst' = [burst EXCEPT ![r] = new]
  BY DEF Counted, Reads
<1>3. new \in B /\ new.got = burst[r].got + 1 /\ new.beats = burst[r].beats /\ new.dir = burst[r].dir
      /\ new.id = burst[r].id
  <2>1. burst[r] \in B
    BY <1>1
  <2> HIDE DEF r
  <2> QED  BY <2>1
<1> HIDE DEF new, B
<1>4. burst' \in [Bursts -> B] /\ burst'[r] = new /\ \A b \in Bursts \ {r} : burst'[b] = burst[b]
  BY <1>1, <1>2, <1>3
<1>5. \A b \in Bursts : /\ burst'[b].dir = burst[b].dir
                        /\ burst'[b].beats = burst[b].beats
                        /\ burst'[b].id = burst[b].id
  BY <1>3, <1>4
<1>6. 1 \in DOMAIN outstanding["read"] /\ r = outstanding["read"][1] /\ "read" \in Directions /\ "write" \in Directions
  BY <1>1 DEF Reads, Directions
<1>7. \A p \in 1 .. Len(Writes) : burst'[Writes[p]] = burst[Writes[p]]
  <2> SUFFICES ASSUME NEW p \in 1 .. Len(Writes)
               PROVE  burst'[Writes[p]] = burst[Writes[p]]
    OBVIOUS
  <2>1. p \in DOMAIN outstanding["write"] /\ Writes[p] = outstanding["write"][p] /\ Writes[p] \in Bursts
    BY <1>1, <1>6 DEF Writes
  <2>2. Writes[p] # r
    BY <1>6, <2>1 DEF Distinct
  <2> QED  BY <1>4, <2>1, <2>2
<1>8. \A p \in 2 .. Len(Reads) : burst'[Reads[p]] = burst[Reads[p]]
  <2> SUFFICES ASSUME NEW p \in 2 .. Len(Reads)
               PROVE  burst'[Reads[p]] = burst[Reads[p]]
    OBVIOUS
  <2>1. p \in DOMAIN outstanding["read"] /\ Reads[p] = outstanding["read"][p] /\ Reads[p] \in Bursts /\ p # 1
    BY <1>1, <1>6 DEF Reads
  <2>2. Reads[p] # r
    BY <1>6, <2>1 DEF Distinct
  <2> QED  BY <1>4, <2>1, <2>2
<1>9. Distinct' /\ Asked'
  <2>1. outstanding' = outstanding
    BY DEF Counted
  <2>2. \A d \in Directions : \A i \in DOMAIN outstanding[d] : outstanding[d][i] \in Bursts
    BY <1>1
  <2>3. Distinct'
    BY <2>1 DEF Distinct
  <2>4. Asked'
    BY <1>5, <2>1, <2>2 DEF Asked
  <2> QED  BY <2>3, <2>4
<1>10. burst'[r].got = burst[r].got + 1 /\ burst'[r].beats = burst[r].beats
  BY <1>3, <1>4
<1> QED  BY <1>4, <1>5, <1>7, <1>8, <1>9, <1>10 DEF B

LEMMA BeatTaken ==
    ASSUME IoTypes, Distinct, Asked, RInv, rdata # <<>>, rdata' = Tail(rdata), ~Head(rdata).last,
           Counted, UNCHANGED <<ar, io_araddr>>
    PROVE  RInv'
<1>1. ReadOrder /\ ReadData
  BY DEF RInv
<1> DEFINE r == Reads[1]
<1>2. /\ Handled \in Nat \ {0} /\ 1 \in 1 .. Len(Reads) /\ r \in Bursts
      /\ Head(rdata).last = (burst[r].got = burst[r].beats - 1)
      /\ burst[r].got \in Nat /\ burst[r].beats \in Nat
      /\ Due[1] = burst[r].beats - burst[r].got
  BY FirstBeat
<1>3. /\ burst'[r].got = burst[r].got + 1 /\ burst'[r].beats = burst[r].beats
      /\ \A b \in Bursts : burst'[b].beats = burst[b].beats /\ burst'[b].id = burst[b].id
      /\ \A p \in 2 .. Len(Reads) : burst'[Reads[p]] = burst[Reads[p]]
  BY <1>2, CountedIs
<1>4. burst[r].got < burst[r].beats - 1
  <2>1. burst[r].got < burst[r].beats
    BY <1>1, <1>2 DEF ReadOrder
  <2>2. burst[r].got # burst[r].beats - 1
    BY <1>2
  <2> QED  BY <1>2, <2>1, <2>2
<1>5. /\ Asking \in Nat /\ Len(Reads) \in Nat /\ Len(ar) \in Nat /\ Len(io_araddr) \in Nat
      /\ Asking = Handled + Len(io_araddr) /\ Len(Reads) = Asking + Len(ar) /\ Reads \in Seq(Bursts)
  BY <1>1, ReadCounts
<1>6. Reads' = Reads /\ Asking' = Asking /\ Handled' = Handled
  BY DEF Counted, Reads, Asking, Handled
<1>7. ReadOrder'
  <2>1. \A i \in 1 .. Len(io_araddr) : io_araddr[i] = Announcement(Reads[Handled + i])'
    <3> SUFFICES ASSUME NEW i \in 1 .. Len(io_araddr)
                 PROVE  io_araddr[i] = Announcement(Reads[Handled + i])'
      OBVIOUS
    <3>1. Handled + i \in 1 .. Len(Reads)
      BY <1>2, <1>5
    <3>2. Reads[Handled + i] \in Bursts
      BY <1>5, <3>1
    <3>3. io_araddr[i] = Announcement(Reads[Handled + i])
      BY <1>1 DEF ReadOrder
    <3> QED  BY <1>3, <1>6, <3>2, <3>3 DEF Announcement
  <2>2. ASSUME NEW p \in 1 .. Len(Reads)
        PROVE  /\ burst'[Reads[p]].got < burst'[Reads[p]].beats
               /\ p > 1 \/ p > Handled => burst'[Reads[p]].got = 0
    <3>1. CASE p = 1
      <4>1. ~(p > 1) /\ ~(p > Handled)
        BY <1>2, <3>1
      <4> QED  BY <1>2, <1>3, <1>4, <3>1, <4>1
    <3>2. CASE p # 1
      <4>1. p \in 2 .. Len(Reads)
        BY <1>5, <3>2
      <4> QED  BY <1>1, <1>3, <4>1 DEF ReadOrder
    <3> QED  BY <3>1, <3>2
  <2> QED  BY <1>1, <1>6, <2>1, <2>2 DEF ReadOrder, Counted
<1>8. /\ Len(rdata') = Len(rdata) - 1
      /\ \A k \in 1 .. Len(rdata) - 1 : rdata'[k] = rdata[k + 1]
      /\ \A k \in 1 .. Len(rdata) - 1 : DataId'[k] = DataId[k + 1]
  BY BeatsShift
<1>9. /\ Due'[1] = Due[1] - 1 /\ Due[1] > 1
      /\ \A i \in 2 .. Handled : Due'[i] = Due[i]
      /\ \A i \in 1 .. Handled : ReadId'[i] = ReadId[i]
  <2>1. 1 \in 1 .. Handled /\ \A i \in 1 .. Handled : i \in 1 .. Len(Reads)
    BY <1>2, <1>5
  <2>2. Due'[1] = burst'[r].beats - burst'[r].got
    BY <1>6, <2>1 DEF Due
  <2>3. \A m, n \in Nat : m - (n + 1) = (m - n) - 1
    OBVIOUS
  <2>4. burst[r].beats - (burst[r].got + 1) = (burst[r].beats - burst[r].got) - 1
    BY <1>2, <2>3
  <2>5. Due'[1] = Due[1] - 1
    BY <1>2, <1>3, <2>2, <2>4
  <2>6. Due[1] > 1
    BY <1>2, <1>4
  <2>7. \A i \in 2 .. Handled : Due'[i] = Due[i]
    <3> SUFFICES ASSUME NEW i \in 2 .. Handled
                 PROVE  Due'[i] = Due[i]
      OBVIOUS
    <3>1. i \in 1 .. Handled /\ i \in 2 .. Len(Reads)
      BY <1>2, <1>5
    <3> QED  BY <1>3, <1>6, <3>1 DEF Due
  <2>8. \A i \in 1 .. Handled : ReadId'[i] = ReadId[i]
    <3>1. \A i \in 1 .. Handled : Reads[i] \in Bursts
      BY <1>5, <2>1
    <3> QED  BY <1>3, <1>6, <3>1 DEF ReadId
  <2> QED  BY <2>5, <2>6, <2>7, <2>8
<1>10. ReadData'
  <2> DEFINE total == Len(rdata)
  <2>1. PICK t : Laid(t, Handled, total, Due) /\ Owned(t, Handled, DataId, ReadId) /\ Marked(t, Handled, rdata)
    BY <1>1 DEF ReadData
  <2>2. Len(rdata') = total - 1 /\ \A k \in 1 .. total - 1 : rdata'[k] = rdata[k + 1] /\ DataId'[k] = DataId[k + 1]
    BY <1>8
  <2> HIDE DEF total
  <2>3. Handled > 0 /\ Due[1] > 1
    BY <1>2, <1>9
  <2>4. Due' \in [1 .. Handled -> Nat \ {0}]
    <3>1. Due \in [1 .. Handled -> Nat \ {0}]
      BY <2>1 DEF Laid
    <3>2. \A i \in 1 .. Handled : i = 1 \/ i \in 2 .. Handled
      BY <1>2
    <3>3. Due[1] - 1 \in Nat \ {0}
      <4>1. Due[1] \in Nat
        BY <1>2, <3>1
      <4> QED  BY <1>9, <4>1
    <3>4. \A i \in 1 .. Handled : Due'[i] \in Nat \ {0}
      BY <1>9, <3>1, <3>2, <3>3
    <3>5. Due' = [i \in 1 .. Handled |-> Due'[i]]
      <4>1. Due' = [i \in 1 .. Handled' |-> burst'[Reads'[i]].beats - burst'[Reads'[i]].got]
        BY DEF Due
      <4> QED  BY <1>6, <4>1
    <3> QED  BY <3>4, <3>5
  <2>5. Due'[1] = Due[1] - 1 /\ \A i \in 2 .. Handled : Due'[i] = Due[i]
    BY <1>9
  <2>6. Laid(Shortened(t), Handled, total - 1, Due')
    BY <2>1, <2>3, <2>4, <2>5, ShortenLaid
  <2>7. \A i \in 1 .. Handled : ReadId'[i] = ReadId[i]
    BY <1>9
  <2>8. \A k \in 1 .. total - 1 : DataId'[k] = DataId[k + 1]
    BY <2>2
  <2>9. Owned(Shortened(t), Handled, DataId', ReadId')
    BY <2>1, <2>3, <2>7, <2>8, ShortenOwned
  <2>10. \A k \in 1 .. total - 1 : rdata'[k] = rdata[k + 1]
    BY <2>2
  <2>11. Marked(Shortened(t), Handled, rdata')
    BY <2>1, <2>3, <2>10, ShortenMarked
  <2> QED  BY <1>6, <2>2, <2>6, <2>9, <2>11 DEF ReadData
<1> QED  BY <1>7, <1>10 DEF RInv
-----------------------------------------------------------------------------
(* Every step keeps the invariant, and reads are taken whole *)

LEMMA UnderWayIs ==
    \A b : b \in UnderWay <=> \E d \in Directions : \E i \in DOMAIN outstanding[d] : outstanding[d][i] = b
BY DEF UnderWay

LEMMA UnderWayNextIs ==
    \A b : b \in UnderWay' <=> \E d \in Directions : \E i \in DOMAIN outstanding'[d] : outstanding'[d][i] = b
BY DEF UnderWay

\* What ReadsWhole says of a step.
TakenWhole(b) ==
    burst[b].dir = "read" =>
        IF b \in UnderWay' THEN burst'[b].got < burst[b].beats
        ELSE burst[b].got = burst[b].beats - 1

WholeStep == \A b \in UnderWay : TakenWhole(b)

\* A read under way has a place among Reads.
LEMMA ReadPlace ==
    ASSUME IoTypes, Asked, NEW b \in UnderWay, burst[b].dir = "read"
    PROVE  \E p \in 1 .. Len(Reads) : Reads[p] = b /\ p \in DOMAIN outstanding["read"]
<1>1. PICK d \in Directions : \E i \in DOMAIN outstanding[d] : outstanding[d][i] = b
  BY UnderWayIs
<1>2. PICK i \in DOMAIN outstanding[d] : outstanding[d][i] = b
  BY <1>1
<1>3. d = "read"
  BY <1>2 DEF Asked
<1>4. DOMAIN outstanding["read"] = 1 .. Len(Reads)
  BY DEF IoTypes, Reads, Directions
<1> QED  BY <1>2, <1>3, <1>4 DEF Reads

\* Every read that stays as it is, is taken whole.
LEMMA StaysWhole ==
    ASSUME IoTypes, Asked, ReadOrder, NEW b \in UnderWay, b \in UnderWay', burst'[b] = burst[b]
    PROVE  TakenWhole(b)
<1> SUFFICES ASSUME burst[b].dir = "read"
             PROVE  burst'[b].got < burst[b].beats
  BY DEF TakenWhole
<1>1. PICK p \in 1 .. Len(Reads) : Reads[p] = b
  BY ReadPlace
<1> QED  BY <1>1 DEF ReadOrder

\* A step of the hardware or the host, which leaves what the guest waits for.
LEMMA GuestKept ==
    ASSUME IoTypes, Distinct, Asked, RInv, UNCHANGED guest
    PROVE  Distinct' /\ Asked' /\ WholeStep
<1>1. outstanding' = outstanding /\ burst' = burst
  BY DEF guest
<1>2. Distinct' /\ Asked'
  BY <1>1 DEF Distinct, Asked
<1>3. UnderWay' = UnderWay
  BY <1>1 DEF UnderWay
<1>4. WholeStep
  BY <1>1, <1>3, StaysWhole DEF WholeStep, RInv
<1> QED  BY <1>2, <1>4

LEMMA IoInitHolds == IoInit => IoInv
<1> SUFFICES ASSUME IoInit PROVE IoInv
  OBVIOUS
<1>1. /\ burst = [b \in Bursts |-> NoBurst] /\ outstanding = [dir \in Directions |-> <<>>]
      /\ aw = <<>> /\ w = <<>> /\ ar = <<>>
      /\ io_awaddr = <<>> /\ io_wdata = <<>> /\ io_araddr = <<>>
      /\ io_write_queue = <<>> /\ handling = 0 /\ bdone = <<>> /\ rdata = <<>>
  BY DEF IoInit
<1>2. IoTypes
  <2>1. NoBurst \in [dir : Directions \cup {"none"}, id : Nat, beats : Nat,
                     target : Targets, got : Nat]
    BY DEF NoBurst, Targets
  <2>2. /\ {aw, w, ar, io_wdata} \subseteq Seq(Bursts)
        /\ {io_awaddr, io_araddr} \subseteq Seq([of : Bursts, len : Nat, id : Nat])
        /\ io_write_queue \in Seq([of : Bursts, wdata_count : Nat, wid : Nat])
        /\ bdone \in Seq(Nat) /\ rdata \in Seq([id : Nat, last : BOOLEAN])
        /\ outstanding \in [Directions -> Seq(Bursts)]
    BY <1>1
  <2> QED  BY <1>1, <2>1, <2>2 DEF IoTypes
<1>3. /\ Writes = <<>> /\ Reads = <<>> /\ Len(<<>>) = 0
  BY <1>1 DEF Writes, Reads, Directions
<1>4. Distinct /\ Asked
  BY <1>1 DEF Distinct, Asked
<1> DEFINE t == [i \in Nat |-> 0]
<1>5. \A size \in [1 .. 0 -> Nat \ {0}] : Laid(t, 0, 0, size)
  BY DEF Laid
<1>6. /\ \A item, own : Owned(t, 0, item, own)
      /\ \A beat : Marked(t, 0, beat)
  BY DEF Owned, Marked
<1> HIDE DEF t
<1>7. WriteOrder
  BY <1>1, <1>3 DEF WriteOrder, Announced, Known, Answered
<1>8. WriteData
  <2>1. Pending = 0 /\ Received + Len(w) = 0
    BY <1>1, <1>3 DEF Pending, Answered, Received, InHand
  <2>2. Left \in [1 .. 0 -> Nat \ {0}]
    BY <2>1 DEF Left
  <2> QED  BY <1>5, <1>6, <2>1, <2>2 DEF WriteData
<1>9. Handled = 0 /\ ReadOrder
  <2>1. Len(Reads) = 0 /\ Len(ar) = 0 /\ Len(io_araddr) = 0
    BY <1>1, <1>3
  <2>2. Asking = 0
    BY <2>1 DEF Asking
  <2>3. Handled = 0
    BY <2>1, <2>2 DEF Handled
  <2> QED  BY <1>1, <1>3, <2>2, <2>3 DEF ReadOrder
<1>10. ReadData
  <2>1. Due \in [1 .. 0 -> Nat \ {0}]
    BY <1>9 DEF Due
  <2>2. Len(rdata) = 0
    BY <1>1
  <2> QED  BY <1>5, <1>6, <1>9, <2>1, <2>2 DEF ReadData
<1>11. Behind /\ WritesOwnBurst
  BY <1>1 DEF Behind, WritesOwnBurst
<1> QED  BY <1>2, <1>4, <1>7, <1>8, <1>9, <1>10, <1>11 DEF IoInv, WInv, RInv

\* All of the window but whether the memory is ready.
window == <<guest, aw, w, ar, indications, io_write_queue, handling, answers>>

LEMMA IoElsewhere ==
    ASSUME IoInv, UNCHANGED window
    PROVE  IoInv' /\ WholeStep
<1>1. /\ UNCHANGED guest
      /\ UNCHANGED <<outstanding, burst, aw, w, ar, io_awaddr, io_wdata, io_araddr,
                     io_write_queue, handling, bdone, rdata>>
  BY DEF window, guest, indications, answers
<1>2. IoTypes /\ Distinct /\ Asked /\ WInv /\ RInv
  BY DEF IoInv
<1>3. IoTypes'
  BY <1>1, <1>2 DEF IoTypes
<1>4. WInv'
  BY <1>1, <1>2, WritesKept
<1>5. RInv'
  BY <1>1, <1>2, ReadsKept
<1>6. Distinct' /\ Asked' /\ WholeStep
  BY <1>1, <1>2, GuestKept
<1> QED  BY <1>3, <1>4, <1>5, <1>6 DEF IoInv

\* The rules.
LEMMA RulesKeep ==
    ASSUME IoInv, AddressFirst, master1_aw \/ master1_wdata \/ master1_ar
    PROVE  IoInv' /\ WholeStep
<1>1. IoTypes /\ Distinct /\ Asked /\ WInv /\ RInv
  BY DEF IoInv
<1>2. /\ UNCHANGED guest /\ UNCHANGED <<outstanding, burst>>
      /\ UNCHANGED <<io_write_queue, handling, bdone, rdata>>
  BY DEF master1_aw, master1_wdata, master1_ar, guest, answers
<1>3. Distinct' /\ Asked' /\ WholeStep
  BY <1>1, <1>2, GuestKept
<1>4. CASE master1_aw
  <2>1. UNCHANGED <<w, ar, io_wdata, io_araddr>>
    BY <1>4 DEF master1_aw
  <2>2. WInv' /\ io_awaddr' \in Seq([of : Bursts, len : Nat, id : Nat]) /\ aw' \in Seq(Bursts)
    BY <1>1, <1>4, AwPassed
  <2>3. RInv'
    BY <1>1, <1>2, <2>1, ReadsKept
  <2>4. IoTypes'
    BY <1>1, <1>2, <2>1, <2>2 DEF IoTypes
  <2> QED  BY <1>3, <2>2, <2>3, <2>4 DEF IoInv
<1>5. CASE master1_wdata
  <2>1. UNCHANGED <<aw, ar, io_awaddr, io_araddr>>
    BY <1>5 DEF master1_wdata
  <2>2. WInv' /\ io_wdata' \in Seq(Bursts) /\ w' \in Seq(Bursts)
    BY <1>1, <1>5, WdataPassed
  <2>3. RInv'
    BY <1>1, <1>2, <2>1, ReadsKept
  <2>4. IoTypes'
    BY <1>1, <1>2, <2>1, <2>2 DEF IoTypes
  <2> QED  BY <1>3, <2>2, <2>3, <2>4 DEF IoInv
<1>6. CASE master1_ar
  <2>1. UNCHANGED <<aw, w, io_awaddr, io_wdata>>
    BY <1>6 DEF master1_ar
  <2>2. RInv' /\ io_araddr' \in Seq([of : Bursts, len : Nat, id : Nat]) /\ ar' \in Seq(Bursts)
    BY <1>1, <1>6, ArPassed
  <2>3. WInv'
    BY <1>1, <1>2, <2>1, WritesKept
  <2>4. IoTypes'
    BY <1>1, <1>2, <2>1, <2>2 DEF IoTypes
  <2> QED  BY <1>3, <2>2, <2>3, <2>4 DEF IoInv
<1> QED  BY <1>4, <1>5, <1>6

\* The host's handlers.
LEMMA HandlersKeep ==
    ASSUME IoInv, AddressFirst, OnAwaddr \/ OnAraddr \/ OnWdata \/ EndWdata
    PROVE  IoInv' /\ WholeStep
<1>1. IoTypes /\ Distinct /\ Asked /\ WInv /\ RInv
  BY DEF IoInv
<1>2. UNCHANGED guest /\ UNCHANGED <<outstanding, burst, aw, w, ar>>
  BY DEF OnAwaddr, OnAraddr, OnWdata, EndWdata, hardware, guest
<1>3. Distinct' /\ Asked' /\ WholeStep
  BY <1>1, <1>2, GuestKept
<1>4. CASE OnAwaddr
  <2>1. UNCHANGED <<io_wdata, io_araddr, handling, bdone, rdata>>
    BY <1>4 DEF OnAwaddr, answers
  <2>2. /\ WInv' /\ io_awaddr' \in Seq([of : Bursts, len : Nat, id : Nat])
        /\ io_write_queue' \in Seq([of : Bursts, wdata_count : Nat, wid : Nat])
    BY <1>1, <1>4, AwHandled
  <2>3. RInv'
    BY <1>1, <1>2, <2>1, ReadsKept
  <2>4. IoTypes'
    BY <1>1, <1>2, <2>1, <2>2 DEF IoTypes
  <2> QED  BY <1>3, <2>2, <2>3, <2>4 DEF IoInv
<1>5. CASE OnAraddr
  <2>1. UNCHANGED <<io_awaddr, io_wdata, io_write_queue, handling, bdone>>
    BY <1>5 DEF OnAraddr
  <2>2. /\ RInv' /\ io_araddr' \in Seq([of : Bursts, len : Nat, id : Nat])
        /\ rdata' \in Seq([id : Nat, last : BOOLEAN])
    BY <1>1, <1>5, ArHandled
  <2>3. WInv'
    BY <1>1, <1>2, <2>1, WritesKept
  <2>4. IoTypes'
    BY <1>1, <1>2, <2>1, <2>2 DEF IoTypes
  <2> QED  BY <1>3, <2>2, <2>3, <2>4 DEF IoInv
<1>6. CASE OnWdata
  <2>1. UNCHANGED <<io_awaddr, io_araddr, io_write_queue, bdone, rdata>>
    BY <1>6 DEF OnWdata, answers
  <2>2. WInv' /\ io_wdata' \in Seq(Bursts) /\ handling' \in Bursts
    BY <1>1, <1>6, WdataBegins
  <2>3. RInv'
    BY <1>1, <1>2, <2>1, ReadsKept
  <2>4. IoTypes'
    BY <1>1, <1>2, <2>1, <2>2 DEF IoTypes
  <2> QED  BY <1>3, <2>2, <2>3, <2>4 DEF IoInv
<1>7. CASE EndWdata
  <2>1. UNCHANGED <<io_awaddr, io_wdata, io_araddr, rdata>>
    BY <1>7 DEF EndWdata, indications
  <2>2. /\ WInv' /\ handling' = 0 /\ bdone' \in Seq(Nat)
        /\ io_write_queue' \in Seq([of : Bursts, wdata_count : Nat, wid : Nat])
    BY <1>1, <1>7, WdataCounted
  <2>3. RInv'
    BY <1>1, <1>2, <2>1, ReadsKept
  <2>4. IoTypes'
    BY <1>1, <1>2, <2>1, <2>2 DEF IoTypes
  <2> QED  BY <1>3, <2>2, <2>3, <2>4 DEF IoInv
<1> QED  BY <1>4, <1>5, <1>6, <1>7
LEMMA FirstGone ==
    ASSUME IoTypes, Distinct, Asked, NEW dir \in Directions, outstanding[dir] # <<>>, Over(dir, 1)
    PROVE  outstanding[dir][1] \notin UnderWay'
<1> DEFINE s == outstanding[dir]
<1>1. s \in Seq(Bursts) /\ Len(s) \in Nat \ {0}
  BY TailIs DEF IoTypes
<1>2. /\ Len(outstanding'[dir]) = Len(s) - 1
      /\ \A p \in 1 .. Len(s) - 1 : outstanding'[dir][p] = s[p + 1]
      /\ \A d \in Directions \ {dir} : outstanding'[d] = outstanding[d]
      /\ outstanding' \in [Directions -> Seq(Bursts)]
  BY OverFirst
<1> SUFFICES ASSUME NEW d \in Directions, NEW i \in DOMAIN outstanding'[d],
                    outstanding'[d][i] = s[1]
             PROVE  FALSE
  BY UnderWayNextIs
<1>3. 1 \in DOMAIN s
  BY <1>1
<1>4. CASE d = dir
  <2>1. i \in 1 .. Len(s) - 1
    BY <1>2, <1>4
  <2>2. i + 1 \in DOMAIN s /\ i + 1 # 1
    BY <1>1, <2>1
  <2>3. s[i + 1] = s[1]
    BY <1>2, <1>4, <2>1
  <2> QED  BY <1>3, <2>2, <2>3 DEF Distinct
<1>5. CASE d # dir
  BY <1>2, <1>3, <1>5 DEF Distinct
<1> QED  BY <1>4, <1>5

\* The guest's answers.
LEMMA ResponseKeeps ==
    ASSUME IoInv, TakeResponse
    PROVE  IoInv' /\ WholeStep
<1>1. IoTypes /\ Distinct /\ Asked /\ WInv /\ RInv
  BY DEF IoInv
<1>2. UNCHANGED <<aw, w, ar, io_awaddr, io_wdata, io_araddr, io_write_queue, handling, rdata>>
  BY DEF TakeResponse, indications
<1>3. WInv' /\ bdone' \in Seq(Nat) /\ Over("write", 1) /\ outstanding["write"] # <<>>
  BY <1>1, ResponseTaken
<1>4. /\ outstanding' \in [Directions -> Seq(Bursts)]
      /\ burst' \in [Bursts -> [dir : Directions \cup {"none"}, id : Nat, beats : Nat,
                                target : Targets, got : Nat]]
      /\ Distinct' /\ Asked'
      /\ \A d \in Directions \ {"write"} : outstanding'[d] = outstanding[d]
      /\ \A d \in Directions : \A p \in 1 .. Len(outstanding'[d]) :
           burst'[outstanding'[d][p]] = burst[outstanding'[d][p]]
  BY <1>1, <1>3, OverFirst DEF Directions
<1>5. outstanding'["read"] = outstanding["read"]
  BY <1>4 DEF Directions
<1>6. \A p \in 1 .. Len(Reads) : burst'[Reads[p]] = burst[Reads[p]]
  BY <1>4, <1>5 DEF Directions, Reads
<1>7. RInv'
  BY <1>1, <1>2, <1>5, <1>6, ReadsKept
<1>8. IoTypes'
  BY <1>1, <1>2, <1>3, <1>4 DEF IoTypes
<1>9. WholeStep
  <2> SUFFICES ASSUME NEW b \in UnderWay, burst[b].dir = "read"
               PROVE  TakenWhole(b)
    BY DEF WholeStep, TakenWhole
  <2>1. PICK p \in 1 .. Len(Reads) : Reads[p] = b /\ p \in DOMAIN outstanding["read"]
    BY <1>1, ReadPlace
  <2>2. b \in UnderWay' /\ burst'[b] = burst[b]
    BY <1>5, <1>6, <2>1, UnderWayNextIs DEF Directions, Reads
  <2> QED  BY <1>1, <2>2, StaysWhole DEF RInv
<1> QED  BY <1>3, <1>4, <1>7, <1>8, <1>9 DEF IoInv

LEMMA DataKeeps ==
    ASSUME IoInv, TakeData
    PROVE  IoInv' /\ WholeStep
<1>1. IoTypes /\ Distinct /\ Asked /\ WInv /\ RInv
  BY DEF IoInv
<1>2. /\ rdata # <<>> /\ rdata' = Tail(rdata)
      /\ UNCHANGED <<aw, w, ar, io_awaddr, io_wdata, io_araddr, io_write_queue, handling, bdone>>
  BY DEF TakeData, indications
<1>3. /\ 1 \in 1 .. Len(Reads) /\ outstanding["read"] # <<>>
      /\ Asker("read", Head(rdata).id) = 1
      /\ Head(rdata).last = (burst[Reads[1]].got = burst[Reads[1]].beats - 1)
      /\ burst[Reads[1]].got \in Nat /\ burst[Reads[1]].beats \in Nat
      /\ Reads[1] \in Bursts
  BY <1>1, <1>2, FirstBeat
<1>4. rdata' \in Seq([id : Nat, last : BOOLEAN])
  BY <1>1, <1>2, BeatsShift
<1>5. /\ Reads \in Seq(Bursts) /\ Len(Reads) \in Nat /\ Reads = outstanding["read"]
      /\ Writes = outstanding["write"] /\ "read" \in Directions /\ "write" \in Directions
  BY <1>1 DEF IoTypes, Reads, Writes, Directions
<1>6. CASE Head(rdata).last
  <2>1. Over("read", 1)
    BY <1>3, <1>6 DEF TakeData
  <2>2. /\ outstanding' \in [Directions -> Seq(Bursts)]
        /\ burst' \in [Bursts -> [dir : Directions \cup {"none"}, id : Nat, beats : Nat,
                                  target : Targets, got : Nat]]
        /\ Distinct' /\ Asked'
        /\ Len(outstanding'["read"]) = Len(outstanding["read"]) - 1
        /\ \A p \in 1 .. Len(outstanding["read"]) - 1 :
             outstanding'["read"][p] = outstanding["read"][p + 1]
        /\ \A d \in Directions \ {"read"} : outstanding'[d] = outstanding[d]
        /\ \A d \in Directions : \A p \in 1 .. Len(outstanding'[d]) :
             burst'[outstanding'[d][p]] = burst[outstanding'[d][p]]
    BY <1>1, <1>3, <1>5, <2>1, OverFirst
  <2>3. outstanding'["write"] = outstanding["write"]
    BY <1>5, <2>2
  <2>4. \A p \in 1 .. Len(Writes) : burst'[Writes[p]] = burst[Writes[p]]
    <3>1. \A p \in 1 .. Len(outstanding'["write"]) :
             burst'[outstanding'["write"][p]] = burst[outstanding'["write"][p]]
      BY <1>5, <2>2
    <3> QED  BY <1>5, <2>3, <3>1, Zenon
  <2>5. WInv'
    BY <1>1, <1>2, <2>3, <2>4, WritesKept
  <2>6. RInv'
    BY <1>1, <1>2, <1>6, <2>1, LastTaken
  <2>7. IoTypes'
    BY <1>1, <1>2, <1>4, <2>2 DEF IoTypes
  <2>8. WholeStep
    <3> SUFFICES ASSUME NEW b \in UnderWay, burst[b].dir = "read"
                 PROVE  TakenWhole(b)
      BY DEF WholeStep, TakenWhole
    <3>1. PICK p \in 1 .. Len(Reads) : Reads[p] = b
      BY <1>1, ReadPlace
    <3>2. CASE p = 1
      <4>1. b \notin UnderWay'
        BY <1>1, <1>3, <1>5, <2>1, <3>1, <3>2, FirstGone
      <4>2. burst[b].got = burst[b].beats - 1
        BY <1>3, <1>6, <3>1, <3>2
      <4> QED  BY <4>1, <4>2 DEF TakenWhole
    <3>3. CASE p # 1
      <4> DEFINE q == p - 1
      <4>1. q \in 1 .. Len(Reads) - 1 /\ q + 1 = p
        BY <1>5, <3>3
      <4> HIDE DEF q
      <4>2. outstanding'["read"][q] = b /\ q \in 1 .. Len(outstanding'["read"])
        BY <1>5, <2>2, <3>1, <4>1
      <4>3. q \in DOMAIN outstanding'["read"]
        BY <1>5, <2>2, <4>2
      <4>4. b \in UnderWay'
        BY <1>5, <4>2, <4>3, UnderWayNextIs
      <4>5. burst'[b] = burst[b]
        BY <1>5, <2>2, <4>2
      <4> QED  BY <1>1, <4>4, <4>5, StaysWhole DEF RInv
    <3> QED  BY <3>2, <3>3
  <2> QED  BY <2>2, <2>5, <2>6, <2>7, <2>8 DEF IoInv
<1>7. CASE ~Head(rdata).last
  <2>1. Counted
    BY <1>3, <1>7 DEF TakeData, Counted
  <2>2. /\ burst' \in [Bursts -> [dir : Directions \cup {"none"}, id : Nat, beats : Nat,
                                  target : Targets, got : Nat]]
        /\ burst'[Reads[1]].got = burst[Reads[1]].got + 1
        /\ \A p \in 1 .. Len(Writes) : burst'[Writes[p]] = burst[Writes[p]]
        /\ \A p \in 2 .. Len(Reads) : burst'[Reads[p]] = burst[Reads[p]]
        /\ Distinct' /\ Asked'
    BY <1>1, <1>3, <2>1, CountedIs
  <2>3. outstanding' = outstanding /\ UnderWay' = UnderWay
    BY <2>1 DEF Counted, UnderWay
  <2>4. WInv'
    BY <1>1, <1>2, <2>2, <2>3, WritesKept
  <2>5. RInv'
    BY <1>1, <1>2, <1>7, <2>1, BeatTaken
  <2>6. IoTypes'
    BY <1>1, <1>2, <1>4, <2>2, <2>3 DEF IoTypes
  <2>7. WholeStep
    <3> SUFFICES ASSUME NEW b \in UnderWay, burst[b].dir = "read"
                 PROVE  TakenWhole(b)
      BY DEF WholeStep, TakenWhole
    <3>1. PICK p \in 1 .. Len(Reads) : Reads[p] = b
      BY <1>1, ReadPlace
    <3>2. CASE p = 1
      <4>1. burst[b].got < burst[b].beats
        BY <1>1, <3>1 DEF RInv, ReadOrder
      <4>2. burst[b].got # burst[b].beats - 1
        BY <1>3, <1>7, <3>1, <3>2
      <4>3. burst'[b].got < burst[b].beats
        BY <1>3, <2>2, <3>1, <3>2, <4>1, <4>2
      <4> QED  BY <2>3, <4>3 DEF TakenWhole
    <3>3. CASE p # 1
      <4>1. p \in 2 .. Len(Reads)
        BY <1>5, <3>3
      <4>2. burst'[b] = burst[b]
        BY <2>2, <3>1, <4>1
      <4> QED  BY <1>1, <2>3, <4>2, StaysWhole DEF RInv
    <3> QED  BY <3>2, <3>3
  <2> QED  BY <2>2, <2>4, <2>5, <2>6, <2>7 DEF IoInv
<1> QED  BY <1>6, <1>7

LEMMA IssueKeeps ==
    ASSUME IoInv, NEW kind \in Kinds, Issue(kind)
    PROVE  IoInv' /\ WholeStep
<1>1. IoTypes /\ Distinct /\ Asked /\ WInv /\ RInv
  BY DEF IoInv
<1> DEFINE b == Min(Bursts \ UnderWay)
<1>2. b \in Bursts \ UnderWay
  <2> DEFINE T == Bursts \ UnderWay
  <2>1. T \subseteq Nat /\ Bursts \subseteq Nat
    BY BridgeAssumption DEF Bursts
  <2>2. UnderWay \subseteq Bursts
    BY <1>1, UnderWayIs DEF IoTypes
  <2>3. T # {}
    BY <2>2 DEF Issue
  <2>4. \E x \in T : \A y \in T : x <= y
    BY <2>1, <2>3, LeastNat
  <2> HIDE DEF T
  <2>5. Min(T) \in T
    BY <2>4 DEF Min
  <2> QED  BY <2>5 DEF T
<1>3. /\ burst' = [burst EXCEPT ![b] = [dir |-> kind.dir, id |-> kind.id, beats |-> kind.beats,
                                        target |-> kind.target, got |-> 0]]
      /\ outstanding' = [outstanding EXCEPT ![kind.dir] = Append(@, b)]
      /\ IF kind.dir = "write"
         THEN aw' = Append(aw, b) /\ w' = w \o Times(kind.beats, b) /\ UNCHANGED ar
         ELSE ar' = Append(ar, b) /\ UNCHANGED <<aw, w>>
      /\ UNCHANGED <<io_awaddr, io_wdata, io_araddr, io_write_queue, handling, bdone, rdata>>
  BY DEF Issue, indications, answers
<1> HIDE DEF b
<1>4. Begun(kind, b)
  BY <1>3 DEF Begun, AsAsked
<1>5. /\ outstanding' \in [Directions -> Seq(Bursts)]
      /\ burst' \in [Bursts -> [dir : Directions \cup {"none"}, id : Nat, beats : Nat,
                                target : Targets, got : Nat]]
      /\ \A d \in Directions : \A p \in 1 .. Len(outstanding[d]) :
           burst'[outstanding[d][p]] = burst[outstanding[d][p]]
      /\ \A d \in Directions \ {kind.dir} : outstanding'[d] = outstanding[d]
      /\ outstanding'[kind.dir] = Append(outstanding[kind.dir], b)
      /\ Distinct' /\ Asked'
  BY <1>1, <1>2, <1>4, BurstBegins
<1>6. kind.dir \in Directions /\ "read" \in Directions /\ "write" \in Directions
  BY BridgeAssumption DEF Directions
<1>7. /\ \A p \in 1 .. Len(Writes) : burst'[Writes[p]] = burst[Writes[p]]
      /\ \A p \in 1 .. Len(Reads) : burst'[Reads[p]] = burst[Reads[p]]
  BY <1>5, <1>6 DEF Reads, Writes
<1>8. WholeStep
  <2> SUFFICES ASSUME NEW c \in UnderWay, burst[c].dir = "read"
               PROVE  TakenWhole(c)
    BY DEF WholeStep, TakenWhole
  <2>1. PICK p \in 1 .. Len(Reads) : Reads[p] = c /\ p \in DOMAIN outstanding["read"]
    BY <1>1, ReadPlace
  <2>2. burst'[c] = burst[c]
    BY <1>7, <2>1
  <2>3. p \in DOMAIN outstanding'["read"] /\ outstanding'["read"][p] = c
    <3>1. outstanding["read"] \in Seq(Bursts) /\ outstanding["read"][p] = c
      BY <1>1, <1>6, <2>1 DEF IoTypes, Reads
    <3>2. CASE kind.dir = "read"
      <4>1. outstanding'["read"] = Append(outstanding["read"], b)
        BY <1>5, <3>2
      <4>2. b \in Bursts
        BY <1>2
      <4> QED  BY <2>1, <3>1, <4>1, <4>2, AppendIs
    <3>3. CASE kind.dir # "read"
      <4>1. outstanding'["read"] = outstanding["read"]
        BY <1>5, <1>6, <3>3
      <4> QED  BY <2>1, <3>1, <4>1
    <3> QED  BY <3>2, <3>3
  <2>4. c \in UnderWay'
    BY <1>6, <2>3, UnderWayNextIs
  <2> QED  BY <1>1, <2>2, <2>4, StaysWhole DEF RInv
<1>9. CASE kind.dir = "write"
  <2>1. outstanding'["read"] = outstanding["read"]
    BY <1>5, <1>6, <1>9
  <2>2. RInv'
    BY <1>1, <1>3, <1>7, <1>9, <2>1, ReadsKept
  <2>3. WInv' /\ aw' \in Seq(Bursts) /\ w' \in Seq(Bursts)
    BY <1>1, <1>2, <1>3, <1>4, <1>9, WriteBegins
  <2>4. IoTypes'
    <3>1. UNCHANGED <<ar, io_awaddr, io_wdata, io_araddr, io_write_queue, handling, bdone, rdata>>
      BY <1>3, <1>9
    <3>2. {aw', w', ar', io_wdata'} \subseteq Seq(Bursts)
      BY <1>1, <2>3, <3>1 DEF IoTypes
    <3> QED  BY <1>1, <1>5, <3>1, <3>2 DEF IoTypes
  <2> QED  BY <1>5, <1>8, <2>2, <2>3, <2>4 DEF IoInv
<1>10. CASE kind.dir = "read"
  <2>1. outstanding'["write"] = outstanding["write"]
    BY <1>5, <1>6, <1>10
  <2>2. WInv'
    BY <1>1, <1>3, <1>7, <1>10, <2>1, WritesKept
  <2>3. RInv' /\ ar' \in Seq(Bursts)
    BY <1>1, <1>2, <1>3, <1>4, <1>10, ReadBegins
  <2>4. IoTypes'
    <3>1. UNCHANGED <<aw, w, io_awaddr, io_wdata, io_araddr, io_write_queue, handling, bdone, rdata>>
      BY <1>3, <1>10
    <3>2. {aw', w', ar', io_wdata'} \subseteq Seq(Bursts)
      BY <1>1, <2>3, <3>1 DEF IoTypes
    <3> QED  BY <1>1, <1>5, <3>1, <3>2 DEF IoTypes
  <2> QED  BY <1>5, <1>8, <2>2, <2>3, <2>4 DEF IoInv
<1> QED  BY <1>6, <1>9, <1>10 DEF Directions

\* What the invariant is for.
LEMMA AnsweredHolds == IoInv => WritesOwnBurst /\ AnsweredWhenWritten
<1> SUFFICES ASSUME IoInv PROVE WritesOwnBurst /\ AnsweredWhenWritten
  OBVIOUS
<1>1. IoTypes /\ WriteOrder /\ WriteData /\ WritesOwnBurst
  BY DEF IoInv, WInv
<1>2. /\ handling # 0 => handling \in UnderWay
      /\ \A i \in DOMAIN io_wdata : io_wdata[i] \in UnderWay
      /\ \A i \in DOMAIN w : w[i] \in UnderWay
  BY <1>1, DataUnderWay
<1>3. 0 \notin Bursts
  BY DEF Bursts
<1> QED  BY <1>1, <1>2, <1>3 DEF AnsweredWhenWritten

-----------------------------------------------------------------------------
(* The program *)

CallsAreRecords ==
    call = [t \in Threads |-> [at |-> call[t].at, what |-> call[t].what]]

\* Who may be in a call: main inside an operation of the debug module, or gdb
\* while main is in join_io.
CallersApart ==
    /\ call["main"].at # "none" => op \in DOMAIN Calls
    /\ call["gdb"].at # "none" => gdb = "on"
    /\ gdb = "on" => op = "join_io" /\ gdb_port

Nothing == dmi = {} /\ dmi_read_data = {} /\ sem_dmi_response = 0

\* The request of waiting thread t is in the hardware, or its answer in the portal,
\* or its answer is stored and the semaphore posted; and there is nothing else.
AnswerPending(t) ==
    \/ /\ dmi = {[by |-> t, what |-> call[t].what]}
       /\ dmi_read_data = {} /\ sem_dmi_response = 0
    \/ /\ dmi = {} /\ sem_dmi_response = 0
       /\ \E a \in dmi_read_data : dmi_read_data = {a} /\ a.by = t /\ a.what = call[t].what
    \/ /\ dmi = {} /\ dmi_read_data = {} /\ sem_dmi_response = 1
       /\ dmi_rsp_data.by = t /\ dmi_rsp_data.what = call[t].what

OneRequest ==
    /\ \A t \in Threads : call[t].at = "waiting" => AnswerPending(t)
    /\ (\A t \in Threads : call[t].at # "waiting") => Nothing

IInv ==
    CallsAreRecords /\ CallersApart /\ OneRequest /\ OwnAnswer

\* start_gdb sets gdb_port, which is never reset, before it starts the stub.
PortSet ==
    op = "start_gdb" /\ step = 1 => gdb_port

LEMMA OutsideCalls ==
    DOMAIN Calls \cap {"memory_ready", "dmi_status", "start_gdb", "join_io", "done"} = {}
BY DEF Calls

\* While one thread is in a call the other is in none.
LEMMA OneCaller ==
    ASSUME CallersApart
    PROVE  call["main"].at = "none" \/ call["gdb"].at = "none"
BY OutsideCalls DEF CallersApart

LEMMA InitInvariant == Init => IInv
<1> SUFFICES ASSUME Init PROVE IInv
  OBVIOUS
<1>1. \A t \in Threads : call[t] = NoCall
  BY DEF Init
<1>2. CallsAreRecords
  BY <1>1 DEF Init, CallsAreRecords, NoCall
<1>3. CallersApart
  BY <1>1 DEF Init, CallersApart, NoCall, Threads
<1>4. OneRequest /\ OwnAnswer
  BY <1>1 DEF Init, OneRequest, Nothing, OwnAnswer, NoCall
<1>5. QED
  BY <1>2, <1>3, <1>4 DEF IInv, Init

\* A step that touches neither the calls nor main nor gdb.
LEMMA Elsewhere ==
    ASSUME IInv, UNCHANGED <<op, dmiVars, gdb, gdb_port>>
    PROVE  IInv'
BY DEF IInv, dmiVars, CallsAreRecords, CallersApart, OneRequest, AnswerPending, Nothing, OwnAnswer

\* A step that begins a call of t, which nobody else is in.
LEMMA CallStep ==
    ASSUME IInv, NEW t \in Threads, NEW r, Call(t, r),
           \A u \in Threads : call[u].at = "none",
           t = "main" => op \in DOMAIN Calls,
           t = "gdb" => gdb = "on",
           UNCHANGED <<op, gdb, gdb_port>>
    PROVE  IInv'
<1>1. /\ call' = [call EXCEPT ![t] = [at |-> "waiting", what |-> r]]
      /\ dmi' = {[by |-> t, what |-> r]} /\ dmi_read_data' = {} /\ sem_dmi_response' = 0
  BY DEF Call, IInv, OneRequest, Nothing
<1>2. DOMAIN call = Threads
  BY DEF IInv, CallsAreRecords
<1>3. call'[t] = [at |-> "waiting", what |-> r] /\ \A u \in Threads \ {t} : call'[u] = call[u]
  BY <1>1, <1>2
<1>4. CallsAreRecords'
  BY <1>1, <1>2, <1>3 DEF IInv, CallsAreRecords
<1>5. CallersApart'
  BY <1>3 DEF IInv, CallersApart, Threads
<1>6. OneRequest'
  <2>1. AnswerPending(t)'
    BY <1>1, <1>3 DEF AnswerPending
  <2>2. QED
    BY <1>3, <2>1 DEF OneRequest
<1>7. OwnAnswer'
  BY <1>3 DEF OwnAnswer
<1>8. QED
  BY <1>4, <1>5, <1>6, <1>7 DEF IInv

\* A waiting thread wakes when its own answer is stored.
LEMMA WakeStep ==
    ASSUME IInv, NEW t \in Threads, Wake(t)
    PROVE  IInv'
<1>1. /\ call' = [call EXCEPT ![t].at = "woken"]
      /\ dmi' = {} /\ dmi_read_data' = {} /\ sem_dmi_response' = 0
      /\ dmi_rsp_data' = dmi_rsp_data
      /\ dmi_rsp_data.by = t /\ dmi_rsp_data.what = call[t].what
  BY DEF Wake, IInv, OneRequest, AnswerPending
<1>2. DOMAIN call = Threads /\ call[t].at = "waiting"
  BY DEF IInv, CallsAreRecords, Wake
<1>3. /\ call'[t] = [at |-> "woken", what |-> call[t].what]
      /\ \A u \in Threads \ {t} : call'[u] = call[u] /\ call[u].at = "none"
  <2>1. \A u \in Threads \ {t} : call[u].at = "none"
    BY <1>2, OneCaller DEF IInv, Threads
  <2>2. call[t] = [at |-> call[t].at, what |-> call[t].what]
    BY DEF IInv, CallsAreRecords
  <2>3. QED
    BY <1>1, <1>2, <2>1, <2>2
<1>4. CallsAreRecords'
  BY <1>1, <1>2, <1>3 DEF IInv, CallsAreRecords
<1>5. op' = op /\ gdb' = gdb /\ gdb_port' = gdb_port
  BY DEF Wake, mainVars, ending
<1>6. CallersApart'
  BY <1>2, <1>3, <1>5 DEF IInv, CallersApart, Threads
<1>7. OneRequest' /\ OwnAnswer'
  BY <1>1, <1>3 DEF OneRequest, Nothing, OwnAnswer
<1>8. QED
  BY <1>4, <1>5, <1>6, <1>7 DEF IInv

\* A thread ends its call; main may go on to another operation.
LEMMA ReturnStep ==
    ASSUME IInv, NEW t \in Threads, Return(t), UNCHANGED <<gdb, gdb_port>>,
           gdb = "on" => op' = op
    PROVE  IInv'
<1>1. /\ call' = [call EXCEPT ![t] = NoCall] /\ call[t].at = "woken"
      /\ UNCHANGED <<dmi, dmi_read_data, sem_dmi_response, dmi_rsp_data>>
  BY DEF Return
<1>2. DOMAIN call = Threads
  BY DEF IInv, CallsAreRecords
<1>3. call'[t] = NoCall /\ \A u \in Threads \ {t} : call'[u] = call[u] /\ call[u].at = "none"
  <2>1. \A u \in Threads \ {t} : call[u].at = "none"
    BY <1>1, OneCaller DEF IInv, Threads
  <2>2. QED
    BY <1>1, <1>2, <2>1
<1>4. CallsAreRecords'
  BY <1>1, <1>2, <1>3 DEF IInv, CallsAreRecords, NoCall
<1>5. CallersApart'
  BY <1>3 DEF IInv, CallersApart, Threads, NoCall
<1>6. Nothing
  BY <1>1, <1>3 DEF IInv, OneRequest
<1>7. OneRequest' /\ OwnAnswer'
  BY <1>1, <1>3, <1>6 DEF OneRequest, Nothing, OwnAnswer, NoCall
<1>8. QED
  BY <1>4, <1>5, <1>7 DEF IInv

\* The debug module answers the one request there is.
LEMMA AnswerStep ==
    ASSUME IInv, DmiAnswers
    PROVE  IInv'
<1>1. PICK r \in dmi :
        /\ dmi' = dmi \ {r}
        /\ dmi_read_data' = dmi_read_data \cup {[by |-> r.by, what |-> r.what, val |-> Value(r.what)]}
  BY DEF DmiAnswers
<1>2. UNCHANGED <<op, call, sem_dmi_response, dmi_rsp_data, gdb, gdb_port>>
  BY DEF DmiAnswers, mainVars, ending
<1>3. PICK t \in Threads : call[t].at = "waiting" /\ AnswerPending(t)
  BY DEF IInv, OneRequest, Nothing
<1>4. /\ r = [by |-> t, what |-> call[t].what] /\ dmi = {r}
      /\ dmi_read_data = {} /\ sem_dmi_response = 0
  BY <1>3 DEF AnswerPending
<1>5. /\ dmi' = {} /\ sem_dmi_response' = 0
      /\ dmi_read_data' = {[by |-> t, what |-> call[t].what, val |-> Value(r.what)]}
  BY <1>1, <1>2, <1>4
<1>6. AnswerPending(t)'
  BY <1>2, <1>5 DEF AnswerPending
<1>7. \A u \in Threads \ {t} : call[u].at = "none"
  BY <1>3, OneCaller DEF IInv, Threads
<1>8. OneRequest'
  BY <1>2, <1>3, <1>6, <1>7 DEF OneRequest
<1>9. CallsAreRecords' /\ CallersApart' /\ OwnAnswer'
  BY <1>2 DEF IInv, CallsAreRecords, CallersApart, OwnAnswer
<1>10. QED
  BY <1>8, <1>9 DEF IInv

\* The poller stores the one answer there is.
LEMMA StoreStep ==
    ASSUME IInv, OnDmiReadData
    PROVE  IInv'
<1>1. PICK a \in dmi_read_data : dmi_rsp_data' = a /\ dmi_read_data' = dmi_read_data \ {a}
  BY DEF OnDmiReadData
<1>2. /\ sem_dmi_response' = sem_dmi_response + 1
      /\ UNCHANGED <<op, call, dmi, gdb, gdb_port>>
  BY DEF OnDmiReadData, mainVars, ending
<1>3. PICK t \in Threads : call[t].at = "waiting" /\ AnswerPending(t)
  BY DEF IInv, OneRequest, Nothing
<1>4. /\ dmi_read_data = {a} /\ a.by = t /\ a.what = call[t].what
      /\ dmi = {} /\ sem_dmi_response = 0
  BY <1>1, <1>3 DEF AnswerPending
<1>5. AnswerPending(t)'
  BY <1>1, <1>2, <1>4 DEF AnswerPending
<1>6. \A u \in Threads \ {t} : call[u].at = "none"
  BY <1>3, OneCaller DEF IInv, Threads
<1>7. OneRequest' /\ OwnAnswer'
  BY <1>2, <1>3, <1>5, <1>6 DEF OneRequest, OwnAnswer
<1>8. CallsAreRecords' /\ CallersApart'
  BY <1>2 DEF IInv, CallsAreRecords, CallersApart
<1>9. QED
  BY <1>7, <1>8 DEF IInv

\* main goes on, in no call, while the stub does not run.
LEMMA MainStep ==
    ASSUME IInv, UNCHANGED dmiVars, call["main"].at = "none", gdb # "on",
           gdb' = "on" => op' = "join_io" /\ gdb_port'
    PROVE  IInv'
<1>1. \A t \in Threads : call[t].at = "none"
  BY DEF IInv, CallersApart, Threads
<1>2. UNCHANGED <<call, dmi, dmi_read_data, sem_dmi_response, dmi_rsp_data>>
  BY DEF dmiVars
<1>3. CallersApart'
  BY <1>1, <1>2 DEF CallersApart, Threads
<1>4. OneRequest' /\ OwnAnswer'
  BY <1>1, <1>2 DEF IInv, OneRequest, Nothing, OwnAnswer
<1>5. QED
  BY <1>2, <1>3, <1>4 DEF IInv, CallsAreRecords

LEMMA PortStep == PortSet /\ [Next]_vars => PortSet'
<1> SUFFICES ASSUME PortSet, [Next]_vars PROVE PortSet'
  OBVIOUS
<1>1. CASE UNCHANGED <<op, step, gdb_port>>
  BY <1>1 DEF PortSet
<1>2. CASE memory_ready \/ DmiStatusReturns \/ StartGdb \/ JoinIo
  BY <1>2 DEF memory_ready, DmiStatusReturns, StartGdb, JoinIo, Go, PortSet
<1>3. CASE DmiStatus
  BY <1>3 DEF DmiStatus, PortSet
<1>4. CASE Begin
  BY <1>4, OutsideCalls DEF Begin, PortSet
<1>5. CASE MainReturns
  <2>1. op \in DOMAIN Calls
    BY <1>5 DEF MainReturns
  <2>2. op' = op \/ step' = 0
    BY <1>5 DEF MainReturns, Go
  <2>3. QED
    BY <2>1, <2>2, OutsideCalls DEF PortSet
<1>6. CASE SetGdbPort
  BY <1>6 DEF SetGdbPort, PortSet
<1>7. CASE MainCalls \/ Wake("main") \/ GdbStub \/ GdbCalls
  BY <1>1, <1>7 DEF MainCalls, Wake, GdbStub, GdbCalls, GdbReturns, GdbEnds, mainVars, ending
<1>8. CASE ConsoleStops \/ WriteIsHandled
  BY <1>1, <1>8 DEF ConsoleStops, WriteIsHandled, StopIo, others, mainVars, ending
<1>9. ASSUME UNCHANGED <<others, ending>> PROVE PortSet'
  BY <1>1, <1>9 DEF others, mainVars, ending
<1>10. CASE Poller
  BY <1>1, <1>8, <1>9, <1>10
     DEF Poller, Window, OnDmiReadData, OnDmiStatusData, mainVars, ending
<1>11. CASE Bridge \/ Guest \/ GuestIssues
  BY <1>9, <1>11 DEF Bridge, Guest, GuestIssues, Window
<1>12. CASE Machine
  BY <1>1, <1>12 DEF Machine, DmiAnswers, HartHalts, HartResumes, HartIsReset, mainVars, ending
<1>13. CASE UNCHANGED vars
  BY <1>1, <1>13 DEF vars, mainVars, ending
<1>14. QED
  BY <1>2, <1>3, <1>4, <1>5, <1>6, <1>7, <1>8, <1>10, <1>11, <1>12, <1>13 DEF Next, Main

LEMMA MainKeepsInvariant ==
    ASSUME IInv, PortSet, Main
    PROVE  IInv'
<1>1. /\ call["main"].at # "none" => op \in DOMAIN Calls
      /\ gdb = "on" => op = "join_io"
  BY DEF IInv, CallersApart
<1>2. CASE memory_ready
  BY <1>1, <1>2, OutsideCalls, MainStep DEF memory_ready, ending
<1>3. CASE DmiStatus
  BY <1>3, Elsewhere DEF DmiStatus, ending
<1>4. CASE DmiStatusReturns
  BY <1>1, <1>4, OutsideCalls, MainStep DEF DmiStatusReturns, ending
<1>5. CASE Begin
  BY <1>5, Elsewhere DEF Begin, ending
<1>6. CASE MainCalls
  <2>1. op \in DOMAIN Calls /\ Call("main", Calls[op][step])
        /\ UNCHANGED <<op, gdb, gdb_port>>
    BY <1>6 DEF MainCalls, mainVars, ending
  <2>2. \A u \in Threads : call[u].at = "none"
    BY <1>1, <2>1, OutsideCalls DEF Call, IInv, CallersApart, Threads
  <2>3. QED
    BY <2>1, <2>2, CallStep DEF Threads
<1>7. CASE Wake("main")
  BY <1>7, WakeStep DEF Threads
<1>8. CASE MainReturns
  <2>1. op \in DOMAIN Calls /\ Return("main") /\ UNCHANGED <<gdb, gdb_port>>
    BY <1>8 DEF MainReturns, ending
  <2>2. gdb # "on"
    BY <1>1, <2>1, OutsideCalls
  <2>3. QED
    BY <2>1, <2>2, ReturnStep DEF Threads
<1>9. CASE SetGdbPort
  BY <1>1, <1>9, OutsideCalls, MainStep DEF SetGdbPort
<1>10. CASE StartGdb
  <2>1. op = "start_gdb" /\ step = 1 /\ op' = "join_io" /\ UNCHANGED <<dmiVars, gdb_port>>
    BY <1>10 DEF StartGdb, Following, Go
  <2>2. gdb # "on" /\ call["main"].at = "none" /\ gdb_port
    BY <1>1, <1>10, <2>1, OutsideCalls DEF PortSet, StartGdb
  <2>3. QED
    BY <2>1, <2>2, MainStep
<1>11. CASE JoinIo
  <2>1. op = "join_io" /\ (gdb_port => gdb = "off") /\ UNCHANGED <<dmiVars, gdb, gdb_port>>
    BY <1>11 DEF JoinIo, Joined
  <2>2. gdb # "on"
    BY <2>1 DEF IInv, CallersApart
  <2>3. QED
    BY <1>1, <2>1, <2>2, OutsideCalls, MainStep
<1>12. QED
  BY <1>2, <1>3, <1>4, <1>5, <1>6, <1>7, <1>8, <1>9, <1>10, <1>11 DEF Main

LEMMA GdbKeepsInvariant ==
    ASSUME IInv, GdbStub \/ GdbCalls
    PROVE  IInv'
<1>1. CASE Wake("gdb")
  BY <1>1, WakeStep DEF Threads
<1>2. CASE GdbReturns
  BY <1>2, ReturnStep DEF GdbReturns, Threads, mainVars, ending
<1>3. CASE GdbEnds
  <2>1. /\ gdb = "on" /\ gdb' = "off" /\ call["gdb"].at = "none"
        /\ UNCHANGED <<op, call, dmi, dmi_read_data, sem_dmi_response, dmi_rsp_data, gdb_port>>
    BY <1>3 DEF GdbEnds, mainVars, dmiVars
  <2>2. QED
    BY <2>1 DEF IInv, CallsAreRecords, CallersApart, OneRequest, AnswerPending, Nothing, OwnAnswer
<1>4. CASE GdbCalls
  <2>1. PICK r \in {"haltreq", "resumereq"} : Call("gdb", r)
    BY <1>4 DEF GdbCalls
  <2>2. gdb = "on" /\ UNCHANGED <<op, gdb, gdb_port>>
    BY <1>4 DEF GdbCalls, mainVars, ending
  <2>3. \A u \in Threads : call[u].at = "none"
    BY <2>1, <2>2, OutsideCalls DEF Call, IInv, CallersApart, Threads
  <2>4. QED
    BY <2>1, <2>2, <2>3, CallStep DEF Threads
<1>5. QED
  BY <1>1, <1>2, <1>3, <1>4 DEF GdbStub

LEMMA StepInvariant == IInv /\ PortSet /\ [Next]_vars => IInv'
<1> SUFFICES ASSUME IInv, PortSet, [Next]_vars PROVE IInv'
  OBVIOUS
<1>1. CASE Main
  BY <1>1, MainKeepsInvariant
<1>2. CASE GdbStub \/ GdbCalls
  BY <1>2, GdbKeepsInvariant
<1>3. CASE ConsoleStops
  BY <1>3, Elsewhere DEF ConsoleStops, StopIo, mainVars
<1>4. CASE OnDmiReadData
  BY <1>4, StoreStep
<1>5. CASE OnDmiStatusData
  BY <1>5, Elsewhere DEF OnDmiStatusData, mainVars, ending
<1>6. CASE WriteIsHandled
  BY <1>6, Elsewhere DEF WriteIsHandled, StopIo, others, mainVars, ending
<1>7. ASSUME UNCHANGED <<others, ending>> PROVE IInv'
  BY <1>7, Elsewhere DEF others, mainVars, ending
<1>8. CASE Poller
  BY <1>4, <1>5, <1>6, <1>7, <1>8 DEF Poller, Window
<1>9. CASE Bridge \/ Guest \/ GuestIssues
  BY <1>7, <1>9 DEF Bridge, Guest, GuestIssues, Window
<1>10. CASE Machine
  BY <1>10, AnswerStep, Elsewhere DEF Machine, HartHalts, HartResumes, HartIsReset, mainVars, ending
<1>11. CASE UNCHANGED vars
  BY <1>11, Elsewhere DEF vars, mainVars, ending
<1>12. QED
  BY <1>1, <1>2, <1>3, <1>8, <1>9, <1>10, <1>11 DEF Next

\* A thread that wakes from its wait for the debug module finds the answer to its
\* own request in the variable that every request shares (dmi_read, dmi_write,
\* dmi_read_data in fpga.cpp).
THEOREM AnswersAreOwn == Spec => []OwnAnswer
<1>1. IInv => OwnAnswer
  BY DEF IInv
<1>2. Init => PortSet
  BY DEF Init, PortSet
<1>3. QED
  BY <1>1, <1>2, InitInvariant, PortStep, StepInvariant, PTL DEF Spec

-----------------------------------------------------------------------------
(* The boot *)

Values == {"-", "reset", "program", "entry", "dtb", "mixed"}

BootTypes ==
    /\ op \in DOMAIN Calls \cup {"memory_ready", "dmi_status", "start_gdb", "join_io", "done"}
    /\ step \in Nat
    /\ DOMAIN dm = {"halt", "resume", "ack", "reset", "data"}
    /\ {dm.halt, dm.resume, dm.reset} \subseteq BOOLEAN
    /\ dm.data \in Values \X Values
    /\ hart \in [st : {"running", "halted", "unavailable"}, pc : Values, a1 : Values]

\* main is in one of the calls of its operation.
MainAsks ==
    op \in DOMAIN Calls =>
        /\ step <= Len(Calls[op])
        /\ call["main"].at # "none" => step > 0 /\ call["main"].what = Calls[op][step]

\* The k-th request of the operation has taken effect (a poll may be repeated).
Did(k) == step > k \/ (step = k /\ call["main"].at # "none" /\ dmi = {})

\* The answers that main has not read yet.
Unread ==
    dmi_read_data
        \cup (IF sem_dmi_response > 0 \/ call["main"].at = "woken" THEN {dmi_rsp_data} ELSE {})

\* halt: no request to resume is left to undo it, and a hart that is said to be
\* halted is.
Halting ==
    op = "halt" =>
        /\ Did(2) => ~dm.resume
        /\ step = 3 /\ (\E a \in Unread : a.val = "halted") => hart.st = "halted"
        /\ step > 3 => hart.st = "halted"

\* reset_halt: the hart comes out of its reset halted.
Resetting ==
    op = "reset_halt" =>
        /\ ~dm.resume
        /\ Did(1) => dm.halt
        /\ Did(1) /\ ~Did(2) => dm.reset
        /\ hart.st = "halted" \/ (Did(2) /\ hart.st = "unavailable")
        /\ step = 3 /\ (\E a \in Unread : a.val # "unavailable") => hart.st = "halted"

\* Registers are read and written while the hart is halted, from data0 and data1
\* that hold both halves of the value.
Preparing ==
    /\ op \in {"dmi_status", "write_csr", "read_csr", "write_gpr"} =>
           hart.st = "halted" /\ ~dm.resume
    /\ op = "write_csr" =>
           /\ Did(1) => dm.data[1] = "entry"
           /\ Did(2) => dm.data[2] = "entry"
           /\ Did(3) => hart.pc = "entry"
    /\ op \in {"read_csr", "write_gpr"} => hart.pc = "entry"
    /\ op = "write_gpr" =>
           /\ Did(1) => dm.data[1] = "dtb"
           /\ Did(2) => dm.data[2] = "dtb"
           /\ Did(3) => hart.a1 = "dtb"

\* A hart that resumed is not halted again.
Resuming ==
    /\ dm.resume => ~dm.halt
    /\ op = "resume" =>
           \/ hart.st = "halted" /\ hart.pc = "entry" /\ hart.a1 = "dtb"
           \/ hart.st = "running" /\ ~dm.halt

BootInv == BootTypes /\ MainAsks /\ Halting /\ Resetting /\ Preparing /\ Resuming

-----------------------------------------------------------------------------

\* The calls of each operation.
LEMMA HaltCalls ==
    /\ Len(Calls["halt"]) = 5
    /\ Calls["halt"][1] = "control" /\ Calls["halt"][2] = "haltreq"
    /\ Calls["halt"][3] = "poll_halted" /\ Calls["halt"][4] = "control"
    /\ Calls["halt"][5] = "no_haltreq"
BY DEF Calls

LEMMA WriteCsrCalls ==
    /\ Len(Calls["write_csr"]) = 3
    /\ Calls["write_csr"][1] = "data1_entry" /\ Calls["write_csr"][2] = "data0_entry"
    /\ Calls["write_csr"][3] = "set_dpc"
BY DEF Calls

LEMMA ReadCsrCalls ==
    /\ Len(Calls["read_csr"]) = 3
    /\ Calls["read_csr"][1] = "get_dpc" /\ Calls["read_csr"][2] = "data1"
    /\ Calls["read_csr"][3] = "data0"
BY DEF Calls

LEMMA WriteGprCalls ==
    /\ Len(Calls["write_gpr"]) = 3
    /\ Calls["write_gpr"][1] = "data1_dtb" /\ Calls["write_gpr"][2] = "data0_dtb"
    /\ Calls["write_gpr"][3] = "set_a1"
BY DEF Calls

LEMMA ResumeCalls ==
    /\ Len(Calls["resume"]) = 5
    /\ Calls["resume"][1] = "control" /\ Calls["resume"][2] = "resumereq"
    /\ Calls["resume"][3] = "poll_resumed" /\ Calls["resume"][4] = "control"
    /\ Calls["resume"][5] = "no_resumereq"
BY DEF Calls

LEMMA ResetHaltCalls ==
    /\ Len(Calls["reset_halt"]) = 3
    /\ Calls["reset_halt"][1] = "ndmreset" /\ Calls["reset_halt"][2] = "no_ndmreset"
    /\ Calls["reset_halt"][3] = "poll_available"
BY DEF Calls

LEMMA Operations ==
    DOMAIN Calls = {"halt", "write_csr", "read_csr", "write_gpr", "resume", "reset_halt"}
BY DEF Calls

LEMMA Lengths ==
    /\ Len(Calls["halt"]) = 5 /\ Len(Calls["resume"]) = 5
    /\ Len(Calls["write_csr"]) = 3 /\ Len(Calls["read_csr"]) = 3
    /\ Len(Calls["write_gpr"]) = 3 /\ Len(Calls["reset_halt"]) = 3
BY HaltCalls, WriteCsrCalls, ReadCsrCalls, WriteGprCalls, ResumeCalls, ResetHaltCalls

\* A call of an operation by its place.
LEMMA Places ==
    ASSUME NEW o \in DOMAIN Calls, NEW s \in 1 .. Len(Calls[o])
    PROVE
        /\ o = "halt" =>
               \/ (s = 1 /\ Calls[o][s] = "control")
               \/ (s = 2 /\ Calls[o][s] = "haltreq")
               \/ (s = 3 /\ Calls[o][s] = "poll_halted")
               \/ (s = 4 /\ Calls[o][s] = "control")
               \/ (s = 5 /\ Calls[o][s] = "no_haltreq")
        /\ o = "write_csr" =>
               \/ (s = 1 /\ Calls[o][s] = "data1_entry")
               \/ (s = 2 /\ Calls[o][s] = "data0_entry")
               \/ (s = 3 /\ Calls[o][s] = "set_dpc")
        /\ o = "read_csr" =>
               \/ (s = 1 /\ Calls[o][s] = "get_dpc")
               \/ (s = 2 /\ Calls[o][s] = "data1")
               \/ (s = 3 /\ Calls[o][s] = "data0")
        /\ o = "write_gpr" =>
               \/ (s = 1 /\ Calls[o][s] = "data1_dtb")
               \/ (s = 2 /\ Calls[o][s] = "data0_dtb")
               \/ (s = 3 /\ Calls[o][s] = "set_a1")
        /\ o = "resume" =>
               \/ (s = 1 /\ Calls[o][s] = "control")
               \/ (s = 2 /\ Calls[o][s] = "resumereq")
               \/ (s = 3 /\ Calls[o][s] = "poll_resumed")
               \/ (s = 4 /\ Calls[o][s] = "control")
               \/ (s = 5 /\ Calls[o][s] = "no_resumereq")
        /\ o = "reset_halt" =>
               \/ (s = 1 /\ Calls[o][s] = "ndmreset")
               \/ (s = 2 /\ Calls[o][s] = "no_ndmreset")
               \/ (s = 3 /\ Calls[o][s] = "poll_available")
<1>1. CASE o = "halt"
  <2>1. Len(Calls[o]) = 5
    BY <1>1, HaltCalls
  <2>2. s \in {1, 2, 3, 4, 5}
    BY <2>1
  <2> QED  BY <1>1, <2>2, HaltCalls
<1>2. CASE o = "write_csr"
  <2>1. Len(Calls[o]) = 3
    BY <1>2, WriteCsrCalls
  <2>2. s \in {1, 2, 3}
    BY <2>1
  <2> QED  BY <1>2, <2>2, WriteCsrCalls
<1>3. CASE o = "read_csr"
  <2>1. Len(Calls[o]) = 3
    BY <1>3, ReadCsrCalls
  <2>2. s \in {1, 2, 3}
    BY <2>1
  <2> QED  BY <1>3, <2>2, ReadCsrCalls
<1>4. CASE o = "write_gpr"
  <2>1. Len(Calls[o]) = 3
    BY <1>4, WriteGprCalls
  <2>2. s \in {1, 2, 3}
    BY <2>1
  <2> QED  BY <1>4, <2>2, WriteGprCalls
<1>5. CASE o = "resume"
  <2>1. Len(Calls[o]) = 5
    BY <1>5, ResumeCalls
  <2>2. s \in {1, 2, 3, 4, 5}
    BY <2>1
  <2> QED  BY <1>5, <2>2, ResumeCalls
<1>6. CASE o = "reset_halt"
  <2>1. Len(Calls[o]) = 3
    BY <1>6, ResetHaltCalls
  <2>2. s \in {1, 2, 3}
    BY <2>1
  <2> QED  BY <1>6, <2>2, ResetHaltCalls
<1> QED  BY <1>1, <1>2, <1>3, <1>4, <1>5, <1>6, Operations

\* The operations that poll, and where.
LEMMA Polls ==
    ASSUME NEW o \in DOMAIN Calls, NEW s \in 1 .. Len(Calls[o])
    PROVE  Calls[o][s] \in {"poll_halted", "poll_resumed", "poll_available"}
               => s = 3 /\ o \in {"halt", "resume", "reset_halt"}
BY Places, Operations

LEMMA BootInit == Init => BootInv
<1> SUFFICES ASSUME Init PROVE BootInv
  OBVIOUS
<1>1. /\ op = "memory_ready" /\ step = 0
      /\ dm = [halt |-> FALSE, resume |-> FALSE, ack |-> FALSE, reset |-> FALSE,
               data |-> <<"-", "-">>]
      /\ hart = [st |-> "running", pc |-> "reset", a1 |-> "-"]
  BY DEF Init
<1>2. BootTypes
  BY <1>1 DEF BootTypes, Values
<1> QED  BY <1>1, <1>2, Operations DEF BootInv, MainAsks, Halting, Resetting, Preparing, Resuming

\* Nothing that the invariant speaks of changes, but for an answer that is read.
LEMMA Still ==
    ASSUME BootInv, UNCHANGED <<op, step, dm, hart>>,
           Did(1)' <=> Did(1), Did(2)' <=> Did(2), Did(3)' => Did(3),
           Unread' \subseteq Unread
    PROVE  BootTypes' /\ Halting' /\ Resetting' /\ Preparing' /\ Resuming'
<1>1. BootTypes' /\ Resuming'
  BY DEF BootInv, BootTypes, Resuming
<1>2. Halting' /\ Resetting'
  BY DEF BootInv, Halting, Resetting
<1>3. Preparing'
  BY DEF BootInv, Preparing
<1> QED  BY <1>1, <1>2, <1>3

\* A step that concerns neither main's calls nor the target.
LEMMA Apart ==
    ASSUME BootInv, UNCHANGED <<op, step, dmiVars, target>>
    PROVE  BootInv'
<1>1. \A k \in 1 .. 3 : Did(k)' <=> Did(k)
  BY DEF Did, dmiVars
<1>2. Unread' = Unread
  BY DEF Unread, dmiVars
<1>3. MainAsks'
  BY DEF BootInv, MainAsks, dmiVars
<1> QED  BY <1>1, <1>2, <1>3, Still DEF BootInv, target

\* main is not in an operation of the debug module, before or after.
LEMMA Elsewise ==
    ASSUME BootTypes', op' \in {"memory_ready", "start_gdb", "join_io", "done"},
           (dm.resume => ~dm.halt)'
    PROVE  BootInv'
BY Operations DEF BootInv, MainAsks, Halting, Resetting, Preparing, Resuming

\* What follows each operation.
LEMMA Ways ==
    /\ Following("memory_ready") = {"halt"}
    /\ Following("halt") \subseteq {"reset_halt", "dmi_status"}
    /\ Following("dmi_status") = {"write_csr"} /\ Following("reset_halt") = {"write_csr"}
    /\ Following("write_csr") = {"read_csr"}
    /\ Following("read_csr") = {"write_gpr"}
    /\ Following("write_gpr") = {"resume"}
    /\ Following("resume") \subseteq {"start_gdb", "join_io"}
    /\ Following("start_gdb") = {"join_io"}
    /\ Following("join_io") = {"done", "halt"}
<1>1. Following("memory_ready") = {"halt"}
  BY DEF Following
<1>2. Following("halt") \subseteq {"reset_halt", "dmi_status"}
  BY DEF Following
<1>3. Following("dmi_status") = {"write_csr"} /\ Following("reset_halt") = {"write_csr"}
  BY DEF Following
<1>4. Following("write_csr") = {"read_csr"}
  BY DEF Following
<1>5. Following("read_csr") = {"write_gpr"}
  BY DEF Following
<1>6. Following("write_gpr") = {"resume"}
  BY DEF Following
<1>7. Following("resume") \subseteq {"start_gdb", "join_io"}
  BY DEF Following
<1>8. Following("start_gdb") = {"join_io"}
  BY DEF Following
<1>9. Following("join_io") = {"done", "halt"}
  BY DEF Following
<1> QED  BY <1>1, <1>2, <1>3, <1>4, <1>5, <1>6, <1>7, <1>8, <1>9

\* main goes on to another operation.
LEMMA NextOperation ==
    ASSUME BootInv, UNCHANGED target, step' = 0, op # "done", op' \in Following(op),
           call'["main"].at = "none",
           op = "halt" => hart.st = "halted" /\ ~dm.resume,
           op = "reset_halt" => hart.st = "halted",
           op = "write_csr" => hart.pc = "entry",
           op = "write_gpr" => hart.a1 = "dtb"
    PROVE  BootInv'
<1>1. UNCHANGED <<dm, hart>>
  BY DEF target
<1>2. \A k \in 1 .. 3 : ~Did(k)'
  BY DEF Did
<1>3. op \in {"memory_ready", "halt", "dmi_status", "reset_halt", "write_csr", "read_csr",
              "write_gpr", "resume", "start_gdb", "join_io"}
  BY Operations DEF BootInv, BootTypes
<1>4. /\ op' \in {"halt", "reset_halt", "dmi_status", "write_csr", "read_csr", "write_gpr",
                  "resume", "start_gdb", "join_io", "done"}
      /\ op' = "reset_halt" => op = "halt"
      /\ op' = "dmi_status" => op = "halt"
      /\ op' = "write_csr" => op \in {"dmi_status", "reset_halt"}
      /\ op' = "read_csr" => op = "write_csr"
      /\ op' = "write_gpr" => op = "read_csr"
      /\ op' = "resume" => op = "write_gpr"
  BY <1>3, Ways
<1>5. BootTypes' /\ MainAsks'
  <2>1. BootTypes'
    BY <1>1, <1>4, Operations DEF BootInv, BootTypes
  <2>2. \A o \in DOMAIN Calls : 0 <= Len(Calls[o])
    BY Operations, Lengths
  <2> QED  BY <2>1, <2>2 DEF MainAsks
<1>6. Halting' /\ Resetting'
  BY <1>1, <1>2, <1>4 DEF Halting, Resetting
<1>7. Preparing' /\ Resuming'
  BY <1>1, <1>2, <1>4 DEF BootInv, Resetting, Preparing, Resuming
<1> QED  BY <1>5, <1>6, <1>7 DEF BootInv

-----------------------------------------------------------------------------
(* main's steps *)

LEMMA BeginStep ==
    ASSUME BootInv, IInv, Begin
    PROVE  BootInv'
<1>1. /\ op \in DOMAIN Calls /\ step = 0 /\ step' = 1
      /\ UNCHANGED <<op, dmiVars, dm, hart>>
  BY DEF Begin, target
<1>2. call["main"].at = "none"
  BY <1>1 DEF BootInv, MainAsks
<1>3. \A k \in 1 .. 3 : ~Did(k) /\ ~Did(k)'
  BY <1>1, <1>2 DEF Did, dmiVars
<1>4. BootTypes' /\ MainAsks'
  <2>1. Len(Calls[op]) \in {3, 5}
    BY <1>1, Operations, Lengths
  <2>2. call' = call /\ op' = op
    BY <1>1 DEF dmiVars
  <2>3. step' <= Len(Calls[op])
    <3>1. step' = 1
      BY <1>1
    <3>2. 1 <= Len(Calls[op])
      <4>1. \A n \in {3, 5} : 1 <= n
        OBVIOUS
      <4> QED  BY <2>1, <4>1, Zenon
    <3> QED  BY <3>1, <3>2, Zenon
  <2>4. MainAsks'
    BY <1>2, <2>2, <2>3 DEF MainAsks
  <2> QED  BY <1>1, <2>4 DEF BootInv, BootTypes
<1>5. Halting' /\ Resetting' /\ Preparing' /\ Resuming'
  BY <1>1, <1>3 DEF BootInv, Halting, Resetting, Preparing, Resuming
<1> QED  BY <1>4, <1>5 DEF BootInv

\* While main is in an operation of the debug module and in no call, there is no
\* request and no answer.
LEMMA Quiet ==
    ASSUME IInv, op \in DOMAIN Calls, call["main"].at # "waiting"
    PROVE  call["gdb"].at = "none" /\ Nothing
BY OutsideCalls DEF IInv, CallersApart, OneRequest, Threads

LEMMA CallsStep ==
    ASSUME BootInv, IInv, MainCalls
    PROVE  BootInv'
<1>1. /\ op \in DOMAIN Calls /\ step > 0 /\ call["main"].at = "none"
      /\ call' = [call EXCEPT !["main"] = [at |-> "waiting", what |-> Calls[op][step]]]
      /\ dmi' = dmi \cup {[by |-> "main", what |-> Calls[op][step]]}
      /\ UNCHANGED <<op, step, dm, hart, dmi_read_data, sem_dmi_response, dmi_rsp_data>>
  BY DEF MainCalls, Call, mainVars, target
<1>2. Nothing /\ "main" \in DOMAIN call
  BY <1>1, Quiet DEF IInv, CallsAreRecords, Threads
<1>3. call'["main"] = [at |-> "waiting", what |-> Calls[op][step]] /\ dmi' # {}
  BY <1>1, <1>2
<1>4. \A k \in 1 .. 3 : Did(k)' <=> Did(k)
  BY <1>1, <1>3 DEF Did
<1>5. Unread' = Unread
  BY <1>1, <1>3 DEF Unread
<1>6. MainAsks'
  BY <1>1, <1>3 DEF BootInv, MainAsks
<1> QED  BY <1>1, <1>4, <1>5, <1>6, Still DEF BootInv

LEMMA WakesStep ==
    ASSUME BootInv, IInv, Wake("main")
    PROVE  BootInv'
<1>1. /\ call["main"].at = "waiting" /\ sem_dmi_response > 0
      /\ call' = [call EXCEPT !["main"].at = "woken"]
      /\ UNCHANGED <<op, step, dm, hart, dmi, dmi_read_data, dmi_rsp_data>>
  BY DEF Wake, mainVars, target
<1>2. call'["main"].at = "woken" /\ call'["main"].what = call["main"].what
  <2>1. /\ call["main"] = [at |-> call["main"].at, what |-> call["main"].what]
        /\ "main" \in DOMAIN call
    BY DEF IInv, CallsAreRecords, Threads
  <2> QED  BY <1>1, <2>1
<1>3. \A k \in 1 .. 3 : Did(k)' <=> Did(k)
  BY <1>1, <1>2 DEF Did
<1>4. Unread' = Unread
  BY <1>1, <1>2 DEF Unread
<1>5. MainAsks'
  BY <1>1, <1>2 DEF BootInv, MainAsks
<1> QED  BY <1>1, <1>3, <1>4, <1>5, Still DEF BootInv

\* A call is over: main repeats it, or makes the next one of the operation, or
\* goes on to another operation.
LEMMA ReturnsStep ==
    ASSUME InTime, BootInv, IInv, MainReturns
    PROVE  BootInv'
<1> DEFINE again == PollAgain(Calls[op][step], dmi_rsp_data.val)
<1>1. /\ op \in DOMAIN Calls /\ call["main"].at = "woken"
      /\ call' = [call EXCEPT !["main"] = NoCall]
      /\ UNCHANGED <<target, dmi, dmi_read_data, sem_dmi_response, dmi_rsp_data>>
      /\ \/ again /\ UNCHANGED <<op, step>>
         \/ ~again /\ step < Len(Calls[op]) /\ step' = step + 1 /\ op' = op
         \/ /\ ~again /\ ~(step < Len(Calls[op]))
            /\ op' \in Following(op) /\ step' = 0
  BY DEF MainReturns, Return, Go
<1>2. /\ Nothing /\ call'["main"].at = "none"
      /\ step \in 1 .. Len(Calls[op])
  <2>1. "main" \in DOMAIN call /\ step \in Nat
    BY DEF IInv, CallsAreRecords, Threads, BootInv, BootTypes
  <2> QED  BY <1>1, <2>1, Quiet, Lengths DEF BootInv, MainAsks, NoCall
<1>3. /\ (Did(1) <=> step >= 1) /\ (Did(2) <=> step >= 2) /\ (Did(3) <=> step >= 3)
      /\ (Did(1)' <=> step' > 1) /\ (Did(2)' <=> step' > 2) /\ (Did(3)' <=> step' > 3)
      /\ Unread = {dmi_rsp_data} /\ Unread' = {}
  <2>1. dmi = {} /\ dmi_read_data = {} /\ sem_dmi_response = 0
    BY <1>2 DEF Nothing
  <2>2. step \in Nat
    BY DEF BootInv, BootTypes
  <2> QED  BY <1>1, <1>2, <2>1, <2>2 DEF Did, Unread
<1>4. ASSUME op = "halt", step = 3, ~again PROVE hart.st = "halted"
  <2>1. Calls[op][step] = "poll_halted"
    BY <1>4, HaltCalls
  <2>2. dmi_rsp_data.val = "halted"
    BY <1>4, <2>1 DEF PollAgain
  <2>3. \E a \in Unread : a.val = "halted"
    BY <1>3, <2>2
  <2> QED  BY <1>4, <2>3 DEF BootInv, Halting
<1>5. ASSUME op = "reset_halt", step = 3, ~again PROVE hart.st = "halted"
  <2>1. Calls[op][step] = "poll_available"
    BY <1>5, ResetHaltCalls
  <2>2. dmi_rsp_data.val # "unavailable"
    BY <1>5, <2>1 DEF PollAgain
  <2>3. \E a \in Unread : a.val # "unavailable"
    BY <1>3, <2>2
  <2> QED  BY <1>5, <2>3 DEF BootInv, Resetting
<1>6. CASE again /\ UNCHANGED <<op, step>>
  <2>1. step = 3 /\ op \in {"halt", "resume", "reset_halt"}
    BY <1>1, <1>2, <1>6, Polls DEF PollAgain
  <2>2. (Did(1)' <=> Did(1)) /\ (Did(2)' <=> Did(2)) /\ (Did(3)' => Did(3))
    BY <1>3, <1>6, <2>1
  <2>3. MainAsks'
    BY <1>2, <1>6 DEF BootInv, MainAsks
  <2> QED  BY <1>1, <1>3, <1>6, <2>2, <2>3, Still DEF BootInv, target
<1>7. CASE ~again /\ step < Len(Calls[op]) /\ step' = step + 1 /\ op' = op
  <2>1. (Did(1)' <=> Did(1)) /\ (Did(2)' <=> Did(2)) /\ (Did(3)' <=> Did(3))
    BY <1>2, <1>3, <1>7, Lengths
  <2>2. BootTypes' /\ MainAsks'
    BY <1>1, <1>2, <1>7, Lengths DEF BootInv, BootTypes, MainAsks, target
  <2>3. dm' = dm /\ hart' = hart
    BY <1>1 DEF target
  <2>4. Halting'
    BY <1>2, <1>3, <1>4, <1>7, <2>1, <2>3 DEF BootInv, Halting
  <2>5. Resetting'
    BY <1>3, <1>7, <2>1, <2>3 DEF BootInv, Resetting
  <2>6. Preparing' /\ Resuming'
    BY <1>7, <2>1, <2>3 DEF BootInv, Preparing, Resuming
  <2> QED  BY <2>2, <2>4, <2>5, <2>6 DEF BootInv
<1>8. CASE ~again /\ ~(step < Len(Calls[op])) /\ op' \in Following(op) /\ step' = 0
  <2>1. step = Len(Calls[op])
    BY <1>2, <1>8, Lengths
  <2>2. ASSUME op = "halt" PROVE hart.st = "halted" /\ ~dm.resume
    <3>1. step > 3 /\ step >= 2
      BY <2>1, <2>2, Lengths
    <3> QED  BY <1>3, <2>2, <3>1 DEF BootInv, Halting
  <2>3. ASSUME op = "reset_halt" PROVE hart.st = "halted"
    BY <1>5, <1>8, <2>1, <2>3, Lengths
  <2>4. ASSUME op \in {"write_csr", "write_gpr"}
        PROVE  /\ op = "write_csr" => hart.pc = "entry"
               /\ op = "write_gpr" => hart.a1 = "dtb"
    <3>0. Len(Calls[op]) = 3
      BY <2>4, Lengths
    <3>1. step >= 3
      BY <2>1, <3>0
    <3> QED  BY <1>3, <3>1 DEF BootInv, Preparing
  <2>5. op # "done"
    BY <1>1, OutsideCalls
  <2> QED  BY <1>1, <1>2, <1>8, <2>2, <2>3, <2>4, <2>5, NextOperation
<1> QED  BY <1>1, <1>6, <1>7, <1>8

LEMMA MainKeepsBoot ==
    ASSUME InTime, BootInv, IInv, Main
    PROVE  BootInv'
<1>1. CASE memory_ready \/ DmiStatusReturns \/ JoinIo
  <2>1. /\ op \in {"memory_ready", "dmi_status", "join_io"}
        /\ op' \in Following(op) /\ step' = 0 /\ UNCHANGED <<dmiVars, target>>
    BY <1>1 DEF memory_ready, DmiStatusReturns, JoinIo, Go
  <2>2. call'["main"].at = "none"
    BY <2>1, OutsideCalls DEF IInv, CallersApart, dmiVars
  <2> QED  BY <2>1, <2>2, NextOperation
<1>2. CASE DmiStatus
  <2>1. op = "dmi_status" /\ op' = op /\ step' = 1 /\ UNCHANGED <<dm, hart>>
    BY <1>2 DEF DmiStatus, target
  <2>2. BootTypes' /\ MainAsks'
    BY <2>1, OutsideCalls DEF BootInv, BootTypes, MainAsks
  <2> QED  BY <2>1, <2>2 DEF BootInv, Halting, Resetting, Preparing, Resuming
<1>3. CASE SetGdbPort \/ StartGdb
  <2>1. /\ op' \in {"start_gdb", "join_io"} /\ step' \in Nat /\ UNCHANGED <<dm, hart>>
    BY <1>3, Ways DEF SetGdbPort, StartGdb, Go, target
  <2> QED  BY <2>1, Elsewise DEF BootInv, BootTypes, Resuming
<1>4. CASE Begin
  BY <1>4, BeginStep
<1>5. CASE MainCalls
  BY <1>5, CallsStep
<1>6. CASE Wake("main")
  BY <1>6, WakesStep
<1>7. CASE MainReturns
  BY <1>7, ReturnsStep
<1> QED  BY <1>1, <1>2, <1>3, <1>4, <1>5, <1>6, <1>7 DEF Main

-----------------------------------------------------------------------------
(* The steps of the others *)

\* gdb is only there while main is in join_io.
LEMMA GdbKeepsBoot ==
    ASSUME BootInv, IInv, GdbStub \/ GdbCalls
    PROVE  BootInv'
<1>1. gdb = "on"
  <2>1. CASE Wake("gdb") \/ GdbReturns
    BY <2>1 DEF Wake, GdbReturns, Return, IInv, CallersApart
  <2> QED  BY <2>1 DEF GdbStub, GdbCalls, GdbEnds
<1>2. op = "join_io"
  BY <1>1 DEF IInv, CallersApart
<1>3. UNCHANGED <<op, step, dm, hart>>
  BY DEF GdbStub, GdbCalls, Wake, GdbReturns, GdbEnds, mainVars, target
<1> QED  BY <1>2, <1>3, Elsewise DEF BootInv, BootTypes, Resuming

LEMMA StoreKeepsBoot ==
    ASSUME BootInv, IInv, OnDmiReadData
    PROVE  BootInv'
<1>1. PICK a \in dmi_read_data : dmi_rsp_data' = a /\ dmi_read_data' = dmi_read_data \ {a}
  BY DEF OnDmiReadData
<1>2. UNCHANGED <<op, step, dm, hart, call, dmi>>
  BY DEF OnDmiReadData, mainVars, target
<1>3. Unread' \subseteq Unread
  <2>1. dmi_read_data' \subseteq Unread /\ dmi_rsp_data' \in Unread
    BY <1>1 DEF Unread
  <2> QED  BY <2>1 DEF Unread
<1>4. \A k \in 1 .. 3 : Did(k)' <=> Did(k)
  BY <1>2 DEF Did
<1>5. MainAsks'
  BY <1>2 DEF BootInv, MainAsks
<1> QED  BY <1>2, <1>3, <1>4, <1>5, Still DEF BootInv

LEMMA HartKeepsBoot ==
    ASSUME BootInv, HartHalts \/ HartResumes \/ HartIsReset
    PROVE  BootInv' /\ (op = "resume" /\ hart.st = "halted" /\ hart'.st = "running"
                            => hart.pc = "entry" /\ hart.a1 = "dtb")
<1>1. UNCHANGED <<op, step, dmiVars>>
  BY DEF HartHalts, HartResumes, HartIsReset, mainVars
<1>2. (Did(1)' <=> Did(1)) /\ (Did(2)' <=> Did(2)) /\ (Did(3)' <=> Did(3)) /\ Unread' = Unread
  BY <1>1 DEF Did, Unread, dmiVars
<1>3. MainAsks'
  BY <1>1 DEF BootInv, MainAsks, dmiVars
<1>4. CASE HartHalts
  <2>1. /\ hart.st = "running" /\ dm.halt /\ dm' = dm
        /\ hart'.st = "halted" /\ hart'.pc = hart.pc /\ hart'.a1 = hart.a1
        /\ BootTypes'
    BY <1>1, <1>4 DEF HartHalts, BootInv, BootTypes
  <2>2. Halting' /\ Resetting'
    BY <1>1, <1>2, <2>1 DEF BootInv, Halting, Resetting
  <2>3. Preparing' /\ Resuming'
    BY <1>1, <1>2, <2>1 DEF BootInv, Preparing, Resuming
  <2> QED  BY <1>3, <2>1, <2>2, <2>3 DEF BootInv
<1>5. CASE HartResumes
  <2>1. /\ hart.st = "halted" /\ dm.resume /\ ~dm.halt
        /\ dm'.halt = dm.halt /\ dm'.resume = dm.resume /\ dm'.reset = dm.reset
        /\ dm'.data = dm.data
        /\ hart'.st = "running" /\ hart'.a1 = hart.a1
        /\ BootTypes'
    BY <1>1, <1>5 DEF HartResumes, BootInv, BootTypes, Resuming, Values
  <2>2. op \notin {"dmi_status", "write_csr", "read_csr", "write_gpr", "reset_halt"}
    BY <2>1 DEF BootInv, Preparing, Resetting
  <2>3. op = "halt" => ~Did(2)
    BY <2>1 DEF BootInv, Halting
  <2>4. op = "halt" => step # 3 /\ ~(step > 3)
    <3>1. step \in Nat
      BY DEF BootInv, BootTypes
    <3> QED  BY <2>3, <3>1 DEF Did
  <2>5. Halting'
    BY <1>1, <1>2, <2>3, <2>4 DEF Halting
  <2>6. Resetting' /\ Preparing' /\ Resuming'
    BY <1>1, <2>1, <2>2 DEF Resetting, Preparing, Resuming
  <2>7. op = "resume" => hart.pc = "entry" /\ hart.a1 = "dtb"
    BY <2>1 DEF BootInv, Resuming
  <2> QED  BY <1>3, <2>1, <2>5, <2>6, <2>7 DEF BootInv
<1>6. CASE HartIsReset
  <2>1. /\ hart.st = "unavailable" /\ dm' = dm
        /\ hart'.st = (IF dm.halt THEN "halted" ELSE "running")
        /\ hart'.pc = hart.pc /\ hart'.a1 = hart.a1
        /\ BootTypes'
    BY <1>1, <1>6 DEF HartIsReset, BootInv, BootTypes
  <2>2. op \notin {"dmi_status", "write_csr", "read_csr", "write_gpr", "resume"}
    BY <2>1 DEF BootInv, Preparing, Resuming
  <2>3. op = "reset_halt" => Did(1) /\ hart'.st = "halted"
    BY <2>1 DEF BootInv, Resetting, BootTypes, Did
  <2>4. Halting'
    BY <1>1, <1>2, <2>1 DEF BootInv, Halting
  <2>5. Resetting' /\ Preparing' /\ Resuming'
    BY <1>1, <1>2, <2>1, <2>2, <2>3 DEF BootInv, Resetting, Preparing, Resuming
  <2> QED  BY <1>3, <2>1, <2>4, <2>5 DEF BootInv
<1> QED  BY <1>4, <1>5, <1>6

\* What a request does to the debug module, field by field.
LEMMA ControlIs ==
    ASSUME BootTypes, NEW r
    PROVE  /\ Control(r).halt = CASE r \in {"haltreq", "ndmreset", "no_ndmreset"} -> TRUE
                                  [] r \in {"no_haltreq", "resumereq", "no_resumereq"} -> FALSE
                                  [] OTHER -> dm.halt
           /\ Control(r).resume = CASE r = "resumereq" -> TRUE
                                    [] r \in {"no_resumereq", "haltreq", "no_haltreq",
                                              "ndmreset", "no_ndmreset"} -> FALSE
                                    [] OTHER -> dm.resume
           /\ Control(r).reset = (r = "ndmreset")
           /\ Control(r).data = CASE r = "data1_entry" -> <<"entry", dm.data[2]>>
                                  [] r = "data0_entry" -> <<dm.data[1], "entry">>
                                  [] r = "data1_dtb" -> <<"dtb", dm.data[2]>>
                                  [] r = "data0_dtb" -> <<dm.data[1], "dtb">>
                                  [] r = "get_dpc" /\ hart.st = "halted" -> <<hart.pc, hart.pc>>
                                  [] OTHER -> dm.data
           /\ DOMAIN Control(r) = {"halt", "resume", "ack", "reset", "data"}
           /\ {Control(r).halt, Control(r).resume, Control(r).reset} \subseteq BOOLEAN
           /\ Control(r).data \in Values \X Values
<1>1. DOMAIN dm = {"halt", "resume", "ack", "reset", "data"}
  BY DEF BootTypes
<1>2. Control(r).halt = CASE r \in {"haltreq", "ndmreset", "no_ndmreset"} -> TRUE
                          [] r \in {"no_haltreq", "resumereq", "no_resumereq"} -> FALSE
                          [] OTHER -> dm.halt
  BY <1>1 DEF Control
<1>3. Control(r).resume = CASE r = "resumereq" -> TRUE
                            [] r \in {"no_resumereq", "haltreq", "no_haltreq",
                                      "ndmreset", "no_ndmreset"} -> FALSE
                            [] OTHER -> dm.resume
  BY <1>1 DEF Control
<1>4. Control(r).reset = (r = "ndmreset")
  BY <1>1 DEF Control
<1>5. Control(r).data = CASE r = "data1_entry" -> <<"entry", dm.data[2]>>
                          [] r = "data0_entry" -> <<dm.data[1], "entry">>
                          [] r = "data1_dtb" -> <<"dtb", dm.data[2]>>
                          [] r = "data0_dtb" -> <<dm.data[1], "dtb">>
                          [] r = "get_dpc" /\ hart.st = "halted" -> <<hart.pc, hart.pc>>
                          [] OTHER -> dm.data
  BY <1>1 DEF Control
<1>6. DOMAIN Control(r) = {"halt", "resume", "ack", "reset", "data"}
  BY <1>1 DEF Control
<1>7. {Control(r).halt, Control(r).resume, Control(r).reset} \subseteq BOOLEAN
  BY <1>2, <1>3, <1>4 DEF BootTypes
<1>8. Control(r).data \in Values \X Values
  <2>1. /\ dm.data[1] \in Values /\ dm.data[2] \in Values /\ hart.pc \in Values
        /\ "entry" \in Values /\ "dtb" \in Values
    BY DEF BootTypes, Values
  <2>2. dm.data \in Values \X Values
    BY DEF BootTypes
  <2> HIDE DEF Values
  <2>3. \/ Control(r).data = <<"entry", dm.data[2]>>
        \/ Control(r).data = <<dm.data[1], "entry">>
        \/ Control(r).data = <<"dtb", dm.data[2]>>
        \/ Control(r).data = <<dm.data[1], "dtb">>
        \/ Control(r).data = <<hart.pc, hart.pc>>
        \/ Control(r).data = dm.data
    BY <1>5
  <2> QED  BY <2>1, <2>2, <2>3
<1> QED  BY <1>2, <1>3, <1>4, <1>5, <1>6, <1>7, <1>8

LEMMA ObeyedIs ==
    ASSUME BootTypes, NEW r
    PROVE  /\ Obeyed(r) \in [st : {"running", "halted", "unavailable"}, pc : Values, a1 : Values]
           /\ r = "set_dpc" /\ hart.st = "halted" =>
                  Obeyed(r) = [hart EXCEPT !.pc = Whole(dm.data)]
           /\ r = "set_a1" /\ hart.st = "halted" =>
                  Obeyed(r) = [hart EXCEPT !.a1 = Whole(dm.data)]
           /\ r = "no_ndmreset" /\ dm.reset =>
                  Obeyed(r) = [st |-> "unavailable", pc |-> "reset", a1 |-> "-"]
           /\ r \notin {"set_dpc", "set_a1", "no_ndmreset"} => Obeyed(r) = hart
<1>1. Whole(dm.data) \in Values
  BY DEF Whole, BootTypes, Values
<1>2. r = "set_dpc" /\ hart.st = "halted" => Obeyed(r) = [hart EXCEPT !.pc = Whole(dm.data)]
  BY DEF Obeyed
<1>3. r = "set_a1" /\ hart.st = "halted" => Obeyed(r) = [hart EXCEPT !.a1 = Whole(dm.data)]
  BY DEF Obeyed
<1>4. r = "no_ndmreset" /\ dm.reset => Obeyed(r) = [st |-> "unavailable", pc |-> "reset", a1 |-> "-"]
  BY DEF Obeyed
<1>5. r \notin {"set_dpc", "set_a1", "no_ndmreset"} => Obeyed(r) = hart
  BY DEF Obeyed
<1>6. \/ Obeyed(r) = hart
      \/ Obeyed(r) = [hart EXCEPT !.pc = Whole(dm.data)]
      \/ Obeyed(r) = [hart EXCEPT !.a1 = Whole(dm.data)]
      \/ Obeyed(r) = [st |-> "unavailable", pc |-> "reset", a1 |-> "-"]
  BY DEF Obeyed
<1>7. Obeyed(r) \in [st : {"running", "halted", "unavailable"}, pc : Values, a1 : Values]
  BY <1>1, <1>6 DEF BootTypes, Values
<1> QED  BY <1>2, <1>3, <1>4, <1>5, <1>7

\* The debug module serves a request: if it is main's, it is the one that the
\* operation has come to.
LEMMA AnswerKeepsBoot ==
    ASSUME BootInv, IInv, DmiAnswers
    PROVE  BootInv'
<1>1. PICK r \in dmi :
        /\ dmi' = dmi \ {r}
        /\ dmi_read_data' = dmi_read_data \cup {[by |-> r.by, what |-> r.what, val |-> Value(r.what)]}
        /\ dm' = Control(r.what)
        /\ hart' = Obeyed(r.what)
  BY DEF DmiAnswers
<1>2. UNCHANGED <<op, step, call, sem_dmi_response, dmi_rsp_data>>
  BY DEF DmiAnswers, mainVars
<1>3. PICK t \in Threads : call[t].at = "waiting" /\ AnswerPending(t)
  BY DEF IInv, OneRequest, Nothing
<1>4. /\ r.what = call[t].what /\ dmi = {r} /\ dmi' = {}
      /\ dmi_read_data = {} /\ sem_dmi_response = 0
      /\ dmi_read_data' = {[by |-> r.by, what |-> r.what, val |-> Value(r.what)]}
  BY <1>1, <1>3 DEF AnswerPending
<1>0. PICK q : q = r.what
  OBVIOUS
<1>5. BootTypes
  BY DEF BootInv
<1>halt. dm'.halt = CASE q \in {"haltreq", "ndmreset", "no_ndmreset"} -> TRUE
                     [] q \in {"no_haltreq", "resumereq", "no_resumereq"} -> FALSE
                     [] OTHER -> dm.halt
  BY <1>1, <1>5, ControlIs, <1>0
<1>resume. dm'.resume = CASE q = "resumereq" -> TRUE
                         [] q \in {"no_resumereq", "haltreq", "no_haltreq",
                                   "ndmreset", "no_ndmreset"} -> FALSE
                         [] OTHER -> dm.resume
  BY <1>1, <1>5, ControlIs, <1>0
<1>reset. dm'.reset = (q = "ndmreset")
  BY <1>1, <1>5, ControlIs, <1>0
<1>data. dm'.data = CASE q = "data1_entry" -> <<"entry", dm.data[2]>>
                     [] q = "data0_entry" -> <<dm.data[1], "entry">>
                     [] q = "data1_dtb" -> <<"dtb", dm.data[2]>>
                     [] q = "data0_dtb" -> <<dm.data[1], "dtb">>
                     [] q = "get_dpc" /\ hart.st = "halted" -> <<hart.pc, hart.pc>>
                     [] OTHER -> dm.data
  BY <1>1, <1>5, ControlIs, <1>0
<1>dpc. q = "set_dpc" /\ hart.st = "halted" => hart' = [hart EXCEPT !.pc = Whole(dm.data)]
  BY <1>1, <1>5, ObeyedIs, <1>0
<1>a1. q = "set_a1" /\ hart.st = "halted" => hart' = [hart EXCEPT !.a1 = Whole(dm.data)]
  BY <1>1, <1>5, ObeyedIs, <1>0
<1>hart. /\ q = "no_ndmreset" /\ dm.reset =>
             hart' = [st |-> "unavailable", pc |-> "reset", a1 |-> "-"]
         /\ q \notin {"set_dpc", "set_a1", "no_ndmreset"} => hart' = hart
  BY <1>1, <1>5, ObeyedIs, <1>0
<1>8. BootTypes'
  BY <1>1, <1>2, <1>5, ControlIs, ObeyedIs DEF BootTypes
<1>9. dm'.resume => ~dm'.halt
  BY <1>halt, <1>resume DEF BootInv, Resuming
<1>10. CASE t = "gdb"
  <2>1. op = "join_io"
    BY <1>3, <1>10 DEF IInv, CallersApart
  <2> QED  BY <1>2, <1>8, <1>9, <2>1, Elsewise
<1>11. CASE t = "main"
  <2>1. /\ op \in DOMAIN Calls /\ q = Calls[op][step] /\ step > 0 /\ step <= Len(Calls[op])
        /\ step \in Nat
    BY <1>3, <1>4, <1>11, <1>0 DEF IInv, CallersApart, BootInv, BootTypes, MainAsks
  <2>2. MainAsks'
    BY <1>2 DEF BootInv, MainAsks
  <2>3. /\ (Did(1) <=> step > 1) /\ (Did(2) <=> step > 2) /\ (Did(3) <=> step > 3)
        /\ (Did(1)' <=> step >= 1) /\ (Did(2)' <=> step >= 2) /\ (Did(3)' <=> step >= 3)
    BY <1>2, <1>3, <1>4, <1>11, <2>1 DEF Did
  <2>4. \A a \in Unread' : a.val = Value(q)
    BY <1>2, <1>3, <1>4, <1>11, <1>0 DEF Unread
  <2>5. step \in 1 .. Len(Calls[op])
    <3>1. Len(Calls[op]) \in {3, 5}
      BY <2>1, Operations, Lengths
    <3> QED  BY <2>1, <3>1
  <2>6. CASE op = "halt"
    <3>1. /\ step \in {1, 2, 3, 4, 5}
          /\ step = 1 => q = "control"
          /\ step = 2 => q = "haltreq"
          /\ step = 3 => q = "poll_halted"
          /\ step = 4 => q = "control"
          /\ step = 5 => q = "no_haltreq"
      BY <2>1, <2>5, <2>6, Places
    <3>2. hart' = hart
      BY <1>hart, <3>1
    <3>3. step >= 2 => ~dm'.resume
      <4>1. dm'.resume => q \notin {"haltreq", "no_haltreq"} /\ dm.resume
        BY <1>resume, <3>1
      <4>2. dm'.resume => step # 2 /\ step # 5
        BY <3>1, <4>1
      <4>3. step > 2 => ~dm.resume
        BY <2>3, <2>6 DEF BootInv, Halting
      <4> QED  BY <3>1, <4>1, <4>2, <4>3
    <3>4. step = 3 => Value(q) = hart.st
      BY <3>1 DEF Value
    <3>5. step = 3 /\ (\E a \in Unread' : a.val = "halted") => hart.st = "halted"
      BY <2>4, <3>4
    <3>6. Halting'
      BY <1>2, <2>3, <2>6, <3>2, <3>3, <3>5 DEF BootInv, Halting
    <3> QED  BY <1>2, <1>8, <1>9, <2>2, <2>6, <3>6 DEF BootInv, Resetting, Preparing, Resuming
  <2>7. CASE op = "reset_halt"
    <3>1. /\ step \in {1, 2, 3}
          /\ step = 1 => q = "ndmreset"
          /\ step = 2 => q = "no_ndmreset"
          /\ step = 3 => q = "poll_available"
      BY <2>1, <2>5, <2>7, Places
    <3>2. ~dm'.resume
      <4>1. ~dm.resume
        BY <2>7 DEF BootInv, Resetting
      <4> QED  BY <1>resume, <3>1, <4>1
    <3>7. dm'.halt
      <4>1. step = 3 => dm.halt
        BY <2>3, <2>7 DEF BootInv, Resetting
      <4> QED  BY <1>halt, <3>1, <4>1
    <3>8. step = 1 => dm'.reset
      BY <1>reset, <3>1
    <3>3. step # 2 => hart' = hart
      BY <1>hart, <3>1
    <3>9. step = 2 => hart'.st = "unavailable"
      <4>1. step = 2 => Did(1) /\ ~Did(2)
        BY <2>3
      <4>2. step = 2 => dm.reset
        BY <2>7, <4>1 DEF BootInv, Resetting
      <4> QED  BY <1>hart, <3>1, <4>2
    <3>10. step # 2 => hart.st = "halted" \/ (step = 3 /\ hart.st = "unavailable")
      BY <2>3, <2>7, <3>1 DEF BootInv, Resetting
    <3>4. step = 3 => Value(q) = hart.st
      BY <3>1 DEF Value
    <3>5. step = 3 /\ (\E a \in Unread' : a.val # "unavailable") => hart.st = "halted"
      BY <2>4, <2>7, <3>4 DEF BootInv, Resetting
    <3>6. Resetting'
      BY <1>2, <2>3, <2>7, <3>1, <3>2, <3>3, <3>5, <3>7, <3>8, <3>9, <3>10 DEF Resetting
    <3> QED  BY <1>2, <1>8, <1>9, <2>2, <2>7, <3>6 DEF BootInv, Halting, Preparing, Resuming
  <2>8. CASE op = "write_csr"
    <3>1. /\ step \in {1, 2, 3}
          /\ step = 1 => q = "data1_entry"
          /\ step = 2 => q = "data0_entry"
          /\ step = 3 => q = "set_dpc"
      BY <2>1, <2>5, <2>8, Places
    <3>2. hart.st = "halted" /\ ~dm.resume /\ ~dm'.resume
      BY <1>resume, <2>8, <3>1 DEF BootInv, Preparing
    <3>3. dm'.data[1] = "entry" /\ (step >= 2 => dm'.data[2] = "entry")
      <4>1. /\ step >= 2 => dm.data[1] = "entry"
            /\ step >= 3 => dm.data[2] = "entry"
        BY <2>3, <2>8, <3>1 DEF BootInv, Preparing
      <4> QED  BY <1>data, <3>1, <4>1
    <3>4. hart'.st = "halted" /\ (step = 3 => hart'.pc = "entry")
      <4>1. step = 3 => Whole(dm.data) = "entry"
        BY <2>3, <2>8, <3>1 DEF BootInv, Preparing, Whole
      <4> QED  BY <1>5, <1>dpc, <1>hart, <3>1, <3>2, <4>1 DEF BootTypes
    <3>5. Preparing'
      BY <1>2, <2>3, <2>8, <3>1, <3>2, <3>3, <3>4 DEF Preparing
    <3> QED  BY <1>2, <1>8, <1>9, <2>2, <2>8, <3>5 DEF BootInv, Halting, Resetting, Resuming
  <2>9. CASE op = "read_csr"
    <3>1. q \in {"get_dpc", "data1", "data0"}
      BY <2>1, <2>5, <2>9, Places
    <3>2. hart' = hart /\ dm'.resume = dm.resume
      BY <1>resume, <1>hart, <3>1
    <3> QED  BY <1>2, <1>8, <1>9, <2>2, <2>9, <3>2
             DEF BootInv, Halting, Resetting, Preparing, Resuming
  <2>10. CASE op = "write_gpr"
    <3>1. /\ step \in {1, 2, 3}
          /\ step = 1 => q = "data1_dtb"
          /\ step = 2 => q = "data0_dtb"
          /\ step = 3 => q = "set_a1"
      BY <2>1, <2>5, <2>10, Places
    <3>2. hart.st = "halted" /\ hart.pc = "entry" /\ ~dm.resume /\ ~dm'.resume
      BY <1>resume, <2>10, <3>1 DEF BootInv, Preparing
    <3>3. dm'.data[1] = "dtb" /\ (step >= 2 => dm'.data[2] = "dtb")
      <4>1. /\ step >= 2 => dm.data[1] = "dtb"
            /\ step >= 3 => dm.data[2] = "dtb"
        BY <2>3, <2>10, <3>1 DEF BootInv, Preparing
      <4> QED  BY <1>data, <3>1, <4>1
    <3>4. hart'.st = "halted" /\ hart'.pc = "entry" /\ (step = 3 => hart'.a1 = "dtb")
      <4>1. step = 3 => Whole(dm.data) = "dtb"
        BY <2>3, <2>10, <3>1 DEF BootInv, Preparing, Whole
      <4> QED  BY <1>5, <1>a1, <1>hart, <3>1, <3>2, <4>1 DEF BootTypes
    <3>5. Preparing'
      BY <1>2, <2>3, <2>10, <3>1, <3>2, <3>3, <3>4 DEF Preparing
    <3> QED  BY <1>2, <1>8, <1>9, <2>2, <2>10, <3>5 DEF BootInv, Halting, Resetting, Resuming
  <2>11. CASE op = "resume"
    <3>1. q \in {"control", "resumereq", "poll_resumed", "no_resumereq"}
      BY <2>1, <2>5, <2>11, Places
    <3>2. hart' = hart /\ (~dm.halt => ~dm'.halt)
      BY <1>halt, <1>hart, <3>1
    <3> QED  BY <1>2, <1>8, <1>9, <2>2, <2>11, <3>2
             DEF BootInv, Halting, Resetting, Preparing, Resuming
  <2> QED  BY <2>1, <2>6, <2>7, <2>8, <2>9, <2>10, <2>11, Operations
<1> QED  BY <1>3, <1>10, <1>11 DEF Threads

LEMMA BootStep ==
    ASSUME InTime, BootInv, IInv, [Next]_vars
    PROVE  BootInv' /\ (op = "resume" /\ hart.st = "halted" /\ hart'.st = "running"
                            => hart.pc = "entry" /\ hart.a1 = "dtb")
<1>1. op = "resume" /\ hart.st = "halted" => hart.pc = "entry" /\ hart.a1 = "dtb"
  BY DEF BootInv, Resuming
<1>2. ASSUME UNCHANGED <<others, ending>> PROVE BootInv'
  BY <1>2, Apart DEF others, mainVars
<1>3. CASE Main
  BY <1>1, <1>3, MainKeepsBoot
<1>4. CASE GdbStub \/ GdbCalls
  BY <1>1, <1>4, GdbKeepsBoot
<1>5. CASE ConsoleStops \/ WriteIsHandled \/ OnDmiStatusData
  BY <1>1, <1>5, Apart DEF ConsoleStops, WriteIsHandled, OnDmiStatusData, others, mainVars
<1>6. CASE OnDmiReadData
  BY <1>1, <1>6, StoreKeepsBoot
<1>7. CASE Poller
  BY <1>1, <1>2, <1>5, <1>6, <1>7 DEF Poller, Window
<1>8. CASE Bridge \/ Guest \/ GuestIssues
  BY <1>1, <1>2, <1>8 DEF Bridge, Guest, GuestIssues, Window
<1>9. CASE DmiAnswers
  BY <1>1, <1>9, AnswerKeepsBoot
<1>10. CASE HartHalts \/ HartResumes \/ HartIsReset
  BY <1>10, HartKeepsBoot
<1>11. CASE UNCHANGED vars
  BY <1>1, <1>11, Apart DEF vars, mainVars
<1> QED  BY <1>3, <1>4, <1>5, <1>7, <1>8, <1>9, <1>10, <1>11 DEF Next, Machine

\* Whenever main resumes the hart, at the first boot and after every reset, it
\* starts at the program's entry with the device tree's address in a1 (halt,
\* reset_halt, write_csr, write_gpr and resume in main.cpp's order), if the hart
\* obeys while they poll.
THEOREM AlwaysBootsAtEntry ==
    ASSUME InTime
    PROVE  Spec => BootsAtEntry
<1>1. Init => BootInv /\ IInv /\ PortSet
  BY BootInit, InitInvariant DEF Init, PortSet
<1>2. BootInv /\ IInv /\ PortSet /\ [Next]_vars => BootInv' /\ IInv' /\ PortSet'
  BY BootStep, StepInvariant, PortStep
<1>3. BootInv /\ IInv /\ [Next]_vars =>
          [op = "resume" /\ hart.st = "halted" /\ hart'.st = "running"
              => hart.pc = "entry" /\ hart.a1 = "dtb"]_vars
  BY BootStep
<1> QED  BY <1>1, <1>2, <1>3, PTL DEF Spec, BootsAtEntry

-----------------------------------------------------------------------------
(* The window *)

LEMMA WindowStep ==
    ASSUME AddressFirst, IoInv, [Next]_vars
    PROVE  IoInv' /\ WholeStep
<1>1. CASE Main \/ GdbStub \/ GdbCalls \/ ConsoleStops \/ Machine
  <2>1. UNCHANGED window
    <3>1. CASE Main
      BY <3>1 DEF Main, memory_ready, DmiStatus, DmiStatusReturns, Begin, MainCalls, Wake,
                  MainReturns, SetGdbPort, StartGdb, JoinIo, ioVars, hardware, window
    <3>2. CASE GdbStub \/ GdbCalls \/ ConsoleStops
      BY <3>2 DEF GdbStub, GdbCalls, ConsoleStops, Wake, GdbReturns, GdbEnds,
                  ioVars, hardware, window
    <3>3. CASE Machine
      BY <3>3 DEF Machine, DmiAnswers, HartHalts, HartResumes, HartIsReset,
                  ioVars, hardware, window
    <3> QED  BY <1>1, <3>1, <3>2, <3>3
  <2> QED  BY <2>1, IoElsewhere
<1>2. CASE OnDmiReadData \/ OnDmiStatusData \/ UNCHANGED vars
  <2>1. UNCHANGED window
    BY <1>2 DEF OnDmiReadData, OnDmiStatusData, vars, ioVars, hardware, window
  <2> QED  BY <2>1, IoElsewhere
<1>3. CASE Window(OnAwaddr) \/ Window(OnAraddr) \/ Window(OnWdata) \/ WriteIsHandled
  <2>1. OnAwaddr \/ OnAraddr \/ OnWdata \/ EndWdata
    BY <1>3 DEF Window, WriteIsHandled
  <2> QED  BY <2>1, HandlersKeep
<1>4. CASE Bridge
  <2>1. master1_aw \/ master1_wdata \/ master1_ar
    BY <1>4 DEF Bridge, Window
  <2> QED  BY <2>1, RulesKeep
<1>5. CASE Guest
  <2>1. TakeResponse \/ TakeData
    BY <1>5 DEF Guest, Window
  <2> QED  BY <2>1, ResponseKeeps, DataKeeps
<1>6. CASE GuestIssues
  <2>1. PICK k \in Kinds : Issue(k)
    BY <1>6 DEF GuestIssues
  <2> QED  BY <2>1, IssueKeeps
<1> QED  BY <1>1, <1>2, <1>3, <1>4, <1>5, <1>6 DEF Next, Poller

LEMMA WindowInit == Init => IoInv
BY IoInitHolds DEF Init

\* A beat of data is counted against the burst that it belongs to (io_awaddr and
\* io_wdata in fpga.cpp), whatever bursts the guest asks for, if an address is
\* handled before its data.
THEOREM WritesAreCounted ==
    ASSUME AddressFirst
    PROVE  Spec => []WritesOwnBurst
<1>1. IoInv /\ [Next]_vars => IoInv'
  BY WindowStep
<1> QED  BY <1>1, WindowInit, AnsweredHolds, PTL DEF Spec

\* A write is answered when all of its beats have been handled, and the answer is
\* taken by the burst that it is for (io_bdone).
THEOREM WritesAreAnswered ==
    ASSUME AddressFirst
    PROVE  Spec => []AnsweredWhenWritten
<1>1. IoInv /\ [Next]_vars => IoInv'
  BY WindowStep
<1> QED  BY <1>1, WindowInit, AnsweredHolds, PTL DEF Spec

\* A read ends with its last beat, for whatever bursts the guest asks for and
\* however many are under way (io_araddr).
THEOREM ReadsAreWhole ==
    ASSUME AddressFirst
    PROVE  Spec => ReadsWhole
<1>1. IoInv /\ [Next]_vars => IoInv'
  BY WindowStep
<1>2. IoInv /\ [Next]_vars =>
        [\A b \in UnderWay : burst[b].dir = "read" =>
            IF b \in UnderWay' THEN burst'[b].got < burst[b].beats
            ELSE burst[b].got = burst[b].beats - 1]_ioVars
  BY WindowStep DEF WholeStep, TakenWhole
<1> QED  BY <1>1, <1>2, WindowInit, PTL DEF Spec, ReadsWhole

-----------------------------------------------------------------------------
(* The sessions: HostSession *)

ThreadNames == {"stdin", "worker", "io"}

\* main has created thread t, and joined it, in this session.
Before ==
    [stdin |-> {"start_stdin"}, worker |-> {"start_stdin", "start_stdio", "start_worker"},
     io |-> {"start_stdin", "start_stdio", "start_worker", "start_io"}]
After ==
    [stdin |-> {"join_worker", "join_io", "joined", "exited"},
     worker |-> {"join_io", "joined", "exited"}, io |-> {"joined", "exited"}]
Up(t) == mainpc \notin Before[t]
JoinedThread(t) == mainpc \in After[t]

\* stop_io has told it to stop.
Until ==
    [stdin |-> {"code", "stdin"}, worker |-> {"code", "stdin", "worker"},
     io |-> {"code", "stdin", "worker", "io"}]
Told(t) == asked # {} /\ \A c \in Callers : spc[c] \notin Until[t]

Shapes ==
    /\ session \in Nat
    /\ mainpc \in {"start_stdin", "start_stdio", "start_worker", "start_io",
                   "join_stdin", "join_worker", "join_io", "joined", "exited"}
    /\ fdtab = [n \in Fds |-> fdtab[n]]
    /\ pipe_fds = [p \in Pipes |-> [r |-> pipe_fds[p].r, w |-> pipe_fds[p].w]]
    /\ thread = [t \in ThreadNames |-> thread[t]]
    /\ spc \in [Callers -> {"idle", "code", "stdin", "worker", "io"}]

\* A session is stopped once, and is stopped and typed into after the threads have
\* been created.
StopOnce ==
    /\ \A c, d \in Callers : spc[c] # "idle" /\ spc[d] # "idle" => c = d
    /\ asked = {} => \A c \in Callers : spc[c] = "idle"
    /\ asked # {} \/ thread["stdin"] = "write" => Up("io")

Lives(t) == thread[t] \in {"running", "write"}

\* A thread that main has created lives until it is told to stop.
ThreadsToJoin ==
    \A t \in ThreadNames :
        /\ IF Up(t) THEN Lives(t) \/ (thread[t] = "exited" /\ Told(t))
                    ELSE thread[t] \in {"none", "exited"}
        /\ JoinedThread(t) => thread[t] = "exited"

\* The descriptors of this session, each open as long as its owner may use it.
EndsOwned ==
    /\ Up("stdin") /\ ~Told("stdin") =>
        Refers(pipe_fds["stop_stdin"].w) = End("stop_stdin", "w", session)
    /\ Up("io") /\ ~Told("io") =>
        Refers(pipe_fds["stop"].w) = End("stop", "w", session)
    /\ Lives("stdin") => Refers(stdin_stop_fd) = End("stop_stdin", "r", session)
    /\ Lives("stdin") /\ mainpc # "start_stdio" =>
        Refers(pipe_fds["virtio_stdio"].w) = End("virtio_stdio", "w", session)
    /\ Lives("io") => Refers(io_stop_fd) = End("stop", "r", session)

\* What stop_io has sent and to whom.
Signals ==
    /\ \A s \in Nat : <<"stop_stdin", s>> \in stop_bytes => s < session \/ (s = session /\ Told("stdin"))
    /\ \A s \in Nat : <<"stop", s>> \in stop_bytes => s < session \/ (s = session /\ Told("io"))
    /\ pending_notify_stop => Lives("worker") /\ Told("worker")

SessionInv == Shapes /\ StopOnce /\ ThreadsToJoin /\ EndsOwned /\ Signals /\ DescriptorsOwned

-----------------------------------------------------------------------------
(* What pipe and close do to the table of descriptors *)

LEMMA OpenKeeps ==
    ASSUME Shapes, NEW p \in Pipes, OpenPipe(p), NEW n, Refers(n) # Free
    PROVE  Refers(n)' = Refers(n)
BY DEF Shapes, OpenPipe, Refers

LEMMA OpenGives ==
    ASSUME Shapes, NEW p \in Pipes, OpenPipe(p)
    PROVE  /\ Refers(pipe_fds[p].r)' = End(p, "r", session)
           /\ Refers(pipe_fds[p].w)' = End(p, "w", session)
           /\ \A q \in Pipes \ {p} : pipe_fds'[q] = pipe_fds[q]
           /\ fdtab' = [n \in Fds |-> fdtab'[n]]
           /\ pipe_fds' = [q \in Pipes |-> [r |-> pipe_fds'[q].r, w |-> pipe_fds'[q].w]]
<1>1. PICK r \in Fds, u \in Fds :
        /\ r < u
        /\ fdtab' = [fdtab EXCEPT ![r] = End(p, "r", session), ![u] = End(p, "w", session)]
        /\ pipe_fds' = [pipe_fds EXCEPT ![p] = [r |-> r, w |-> u]]
  BY DEF OpenPipe
<1>2. r # u
  BY <1>1, SessionAssumption DEF SessionAssumption
<1>3. DOMAIN fdtab = Fds /\ DOMAIN pipe_fds = Pipes
  BY DEF Shapes
<1>4. /\ fdtab'[r] = End(p, "r", session) /\ fdtab'[u] = End(p, "w", session)
      /\ pipe_fds'[p].r = r /\ pipe_fds'[p].w = u
  BY <1>1, <1>2, <1>3
<1>5. \A q \in Pipes \ {p} : pipe_fds'[q] = pipe_fds[q]
  BY <1>1, <1>3
<1>6. fdtab' = [n \in Fds |-> fdtab'[n]]
  BY <1>1, <1>3
<1>7. pipe_fds' = [q \in Pipes |-> [r |-> pipe_fds'[q].r, w |-> pipe_fds'[q].w]]
  BY <1>1, <1>3, <1>5 DEF Shapes
<1>8. QED
  BY <1>4, <1>5, <1>6, <1>7 DEF Refers

LEMMA CloseKeeps ==
    ASSUME NEW numbers, fdtab' = Closing(numbers), NEW n, n \notin numbers
    PROVE  Refers(n)' = Refers(n)
BY DEF Closing, Refers

LEMMA SessionStarts == SessionInit => SessionInv
<1> SUFFICES ASSUME SessionInit PROVE SessionInv
  OBVIOUS
<1>1. Shapes
  BY DEF SessionInit, Shapes, ThreadNames, Pipes, Callers
<1>2. StopOnce
  BY DEF SessionInit, StopOnce
<1>3. ThreadsToJoin
  BY DEF SessionInit, ThreadsToJoin, ThreadNames, Up, JoinedThread, Before, After
<1>4. EndsOwned
  BY DEF SessionInit, EndsOwned, Lives, Up, Before
<1>5. Signals /\ DescriptorsOwned
  BY DEF SessionInit, Signals, DescriptorsOwned
<1>6. QED
  BY <1>1, <1>2, <1>3, <1>4, <1>5 DEF SessionInv

-----------------------------------------------------------------------------
(* start_io *)

LEMMA StartStdinStep ==
    ASSUME SessionInv, StartStdin
    PROVE  SessionInv'
<1> USE DEF ThreadNames, Pipes, Callers
<1>1. /\ mainpc = "start_stdin" /\ mainpc' = "start_stdio"
      /\ OpenPipe("stop_stdin") /\ stdin_stop_fd' = pipe_fds'["stop_stdin"].r
      /\ thread' = [thread EXCEPT !["stdin"] = "running"]
      /\ UNCHANGED <<session, io_stop_fd, stop_bytes, pending_notify_stop, spc, asked, stray>>
  BY DEF StartStdin, Create, input, stopping
<1>2. Shapes'
  BY <1>1, OpenGives DEF SessionInv, Shapes
<1>3. asked = {} /\ ~Lives("worker") /\ ~Lives("io")
  BY <1>1 DEF SessionInv, StopOnce, ThreadsToJoin, Up, Before, Lives
<1>4. StopOnce'
  BY <1>1, <1>3 DEF SessionInv, Shapes, StopOnce
<1>5. ThreadsToJoin'
  BY <1>1 DEF SessionInv, Shapes, ThreadsToJoin, Up, Told, JoinedThread, Before, After, Lives
<1>6. EndsOwned'
  BY <1>1, <1>3, OpenGives DEF SessionInv, Shapes, EndsOwned, Up, Lives, Before
<1>7. Signals' /\ DescriptorsOwned'
  BY <1>1, <1>3 DEF SessionInv, Signals, Told, Lives, DescriptorsOwned
<1>8. QED
  BY <1>2, <1>4, <1>5, <1>6, <1>7 DEF SessionInv

LEMMA StartStdioStep ==
    ASSUME SessionInv, StartStdio
    PROVE  SessionInv'
<1> USE DEF ThreadNames, Pipes, Callers
<1>1. /\ mainpc = "start_stdio" /\ mainpc' = "start_worker" /\ OpenPipe("virtio_stdio")
      /\ UNCHANGED <<session, stdin_stop_fd, io_stop_fd, stop_bytes, thread,
                     pending_notify_stop, spc, asked, stray>>
  BY DEF StartStdio, local_fds, input, stopping
<1>2. Shapes'
  BY <1>1, OpenGives DEF SessionInv, Shapes
<1>3. asked = {} /\ ~Lives("worker") /\ ~Lives("io") /\ Lives("stdin")
  BY <1>1 DEF SessionInv, StopOnce, ThreadsToJoin, Up, Told, Before, Lives
<1>4. StopOnce'
  BY <1>1, <1>3 DEF SessionInv, StopOnce, Up, Before
<1>5. ThreadsToJoin'
  BY <1>1 DEF SessionInv, ThreadsToJoin, Up, Told, JoinedThread, Before, After, Lives
<1>6. EndsOwned'
  <2>1. /\ Refers(pipe_fds["stop_stdin"].w) = End("stop_stdin", "w", session)
        /\ Refers(stdin_stop_fd) = End("stop_stdin", "r", session)
    BY <1>1, <1>3 DEF SessionInv, EndsOwned, Up, Told, Before
  <2>2. /\ Refers(pipe_fds["stop_stdin"].w)' = End("stop_stdin", "w", session)
        /\ Refers(stdin_stop_fd)' = End("stop_stdin", "r", session)
    BY <1>1, <2>1, OpenKeeps, OpenGives DEF SessionInv, Refers, End, Free
  <2>3. QED
    BY <1>1, <1>3, <2>2, OpenGives DEF SessionInv, EndsOwned, Up, Lives, Before
<1>7. Signals' /\ DescriptorsOwned'
  BY <1>1, <1>3 DEF SessionInv, Signals, Told, Lives, DescriptorsOwned
<1>8. QED
  BY <1>2, <1>4, <1>5, <1>6, <1>7 DEF SessionInv

LEMMA StartWorkerStep ==
    ASSUME SessionInv, StartWorker
    PROVE  SessionInv'
<1> USE DEF ThreadNames, Pipes, Callers
<1>1. /\ mainpc = "start_worker" /\ mainpc' = "start_io"
      /\ thread' = [thread EXCEPT !["worker"] = "running"]
      /\ UNCHANGED <<session, fdtab, pipe_fds, stdin_stop_fd, io_stop_fd, stop_bytes,
                     pending_notify_stop, spc, asked, stray>>
  BY DEF StartWorker, Create, fds, local_fds, input, stopping
<1>2. Shapes'
  BY <1>1 DEF SessionInv, Shapes
<1>3. asked = {} /\ ~Lives("worker") /\ ~Lives("io")
  BY <1>1 DEF SessionInv, StopOnce, ThreadsToJoin, Up, Before, Lives
<1>4. thread' = [t \in ThreadNames |-> IF t = "worker" THEN "running" ELSE thread[t]]
  BY <1>1 DEF SessionInv, Shapes
<1>5. StopOnce'
  BY <1>1, <1>3, <1>4 DEF SessionInv, StopOnce, Up, Before
<1>6. ThreadsToJoin'
  BY <1>1, <1>4 DEF SessionInv, ThreadsToJoin, Up, Told, JoinedThread, Before, After, Lives
<1>7. EndsOwned'
  BY <1>1, <1>3, <1>4 DEF SessionInv, EndsOwned, Up, Told, Lives, Before, Refers
<1>8. Signals' /\ DescriptorsOwned'
  BY <1>1, <1>3 DEF SessionInv, Signals, Told, Lives, DescriptorsOwned
<1>9. QED
  BY <1>2, <1>5, <1>6, <1>7, <1>8 DEF SessionInv

LEMMA StartIoStep ==
    ASSUME SessionInv, StartIo
    PROVE  SessionInv'
<1> USE DEF ThreadNames, Pipes, Callers
<1>1. /\ mainpc = "start_io" /\ mainpc' = "join_stdin"
      /\ OpenPipe("stop") /\ io_stop_fd' = pipe_fds'["stop"].r
      /\ thread' = [thread EXCEPT !["io"] = "running"]
      /\ UNCHANGED <<session, stdin_stop_fd, stop_bytes, pending_notify_stop, spc, asked, stray>>
  BY DEF StartIo, Create, input, stopping
<1>2. Shapes'
  BY <1>1, OpenGives DEF SessionInv, Shapes
<1>3. asked = {} /\ ~Lives("io") /\ Lives("stdin")
  BY <1>1 DEF SessionInv, StopOnce, ThreadsToJoin, Up, Told, Before, Lives
<1>4. thread' = [t \in ThreadNames |-> IF t = "io" THEN "running" ELSE thread[t]]
  BY <1>1 DEF SessionInv, Shapes
<1>5. StopOnce'
  BY <1>1, <1>3 DEF SessionInv, StopOnce, Up, Before
<1>6. ThreadsToJoin'
  BY <1>1, <1>4 DEF SessionInv, ThreadsToJoin, Up, Told, JoinedThread, Before, After, Lives
<1>7. EndsOwned'
  <2>1. /\ Refers(pipe_fds["stop_stdin"].w) = End("stop_stdin", "w", session)
        /\ Refers(stdin_stop_fd) = End("stop_stdin", "r", session)
        /\ Refers(pipe_fds["virtio_stdio"].w) = End("virtio_stdio", "w", session)
    BY <1>1, <1>3 DEF SessionInv, EndsOwned, Up, Told, Before
  <2>2. /\ Refers(pipe_fds["stop_stdin"].w)' = End("stop_stdin", "w", session)
        /\ Refers(stdin_stop_fd)' = End("stop_stdin", "r", session)
        /\ Refers(pipe_fds["virtio_stdio"].w)' = End("virtio_stdio", "w", session)
    BY <1>1, <2>1, OpenKeeps, OpenGives DEF SessionInv, Refers, End, Free
  <2>3. QED
    BY <1>1, <1>3, <2>2, OpenGives DEF SessionInv, EndsOwned, Lives
<1>8. Signals' /\ DescriptorsOwned'
  BY <1>1, <1>3, <1>4 DEF SessionInv, Signals, Told, Lives, DescriptorsOwned
<1>9. QED
  BY <1>2, <1>5, <1>6, <1>7, <1>8 DEF SessionInv

-----------------------------------------------------------------------------
(* join_io and the reboot *)

LEMMA JoinStep ==
    ASSUME SessionInv, JoinStdinThread \/ JoinWorkerThread \/ JoinIoThread \/ Exit
    PROVE  SessionInv'
<1> USE DEF ThreadNames, Pipes, Callers
<1>1. /\ \/ mainpc = "join_stdin" /\ mainpc' = "join_worker" /\ thread["stdin"] = "exited"
         \/ mainpc = "join_worker" /\ mainpc' = "join_io" /\ thread["worker"] = "exited"
         \/ mainpc = "join_io" /\ mainpc' = "joined" /\ thread["io"] = "exited"
         \/ mainpc = "joined" /\ mainpc' = "exited"
      /\ UNCHANGED <<session, fdtab, pipe_fds, stdin_stop_fd, io_stop_fd, stop_bytes, thread,
                     pending_notify_stop, spc, asked, stray>>
  BY DEF JoinStdinThread, JoinWorkerThread, JoinIoThread, Join, Exit, fds, local_fds, input, stopping
<1>2. Shapes'
  BY <1>1 DEF SessionInv, Shapes
<1>3. StopOnce'
  BY <1>1 DEF SessionInv, StopOnce, Up, Before
<1>4. ThreadsToJoin'
  BY <1>1 DEF SessionInv, ThreadsToJoin, Up, Told, JoinedThread, Before, After, Lives
<1>5. EndsOwned'
  BY <1>1 DEF SessionInv, EndsOwned, Up, Told, Lives, Before, Refers
<1>6. Signals' /\ DescriptorsOwned'
  BY <1>1 DEF SessionInv, Signals, Told, Lives, DescriptorsOwned
<1>7. QED
  BY <1>2, <1>3, <1>4, <1>5, <1>6 DEF SessionInv

LEMMA RebootStep ==
    ASSUME SessionInv, Reboot
    PROVE  SessionInv'
<1> USE DEF ThreadNames, Pipes, Callers
<1>1. /\ mainpc = "joined" /\ mainpc' = "start_stdin" /\ session' = session + 1 /\ asked' = {}
      /\ UNCHANGED <<fdtab, pipe_fds, stdin_stop_fd, io_stop_fd, stop_bytes, thread,
                     pending_notify_stop, spc, stray>>
  BY DEF Reboot, fds, local_fds
<1>2. \A t \in ThreadNames : thread[t] = "exited" /\ Told(t)
  BY <1>1 DEF SessionInv, ThreadsToJoin, Up, JoinedThread, Before, After, Lives
<1>3. \A c \in Callers : spc[c] = "idle"
  BY <1>2 DEF SessionInv, Shapes, Told, Until
<1>4. Shapes'
  BY <1>1 DEF SessionInv, Shapes
<1>5. StopOnce'
  BY <1>1, <1>2, <1>3 DEF StopOnce
<1>6. ThreadsToJoin'
  BY <1>1, <1>2 DEF ThreadsToJoin, Up, JoinedThread, Before, After
<1>7. EndsOwned'
  BY <1>1, <1>2 DEF EndsOwned, Up, Lives, Before
<1>8. Signals' /\ DescriptorsOwned'
  BY <1>1, <1>2 DEF SessionInv, Shapes, Signals, Lives, DescriptorsOwned
<1>9. QED
  BY <1>4, <1>5, <1>6, <1>7, <1>8 DEF SessionInv

-----------------------------------------------------------------------------
(* stop_io *)

\* The guest or the user stops the session for the first time.
LEMMA CallStopStep ==
    ASSUME SessionInv, ~Overlap, NEW c \in Callers, NEW who, NEW why, CallStop(c, who, why), Up("io"),
           UNCHANGED <<session, mainpc, fds, local_fds, input, thread, pending_notify_stop, stray>>
    PROVE  SessionInv'
<1> USE DEF ThreadNames, Pipes, Callers
<1>1. /\ asked = {} /\ asked' # {} /\ spc' = [spc EXCEPT ![c] = "code"]
      /\ UNCHANGED <<session, mainpc, fdtab, pipe_fds, stdin_stop_fd, io_stop_fd, stop_bytes,
                     thread, pending_notify_stop, stray>>
  BY DEF CallStop, fds, local_fds, input
<1>2. \A d \in Callers : spc[d] = "idle" /\ spc'[d] = (IF d = c THEN "code" ELSE "idle")
  BY <1>1 DEF SessionInv, StopOnce, Shapes
<1>3. Shapes'
  BY <1>1 DEF SessionInv, Shapes
<1>4. StopOnce'
  BY <1>1, <1>2 DEF StopOnce, Up, Before
<1>5. \A t \in ThreadNames : ~Told(t) /\ ~Told(t)'
  BY <1>1, <1>2 DEF Told, Until
<1>6. ThreadsToJoin'
  BY <1>1, <1>5 DEF SessionInv, ThreadsToJoin, Up, JoinedThread, Before, After, Lives
<1>7. EndsOwned'
  BY <1>1, <1>5 DEF SessionInv, EndsOwned, Up, Lives, Refers
<1>8. Signals' /\ DescriptorsOwned'
  BY <1>1, <1>5 DEF SessionInv, Signals, DescriptorsOwned
<1>9. QED
  BY <1>3, <1>4, <1>6, <1>7, <1>8 DEF SessionInv

\* While a caller is inside stop_io the other is not, and the session has been asked to stop.
LEMMA InsideStop ==
    ASSUME SessionInv, NEW c \in Callers, spc[c] # "idle"
    PROVE  asked # {} /\ Up("io") /\ \A d \in Callers \ {c} : spc[d] = "idle"
BY DEF SessionInv, StopOnce

LEMMA StopCodeStep ==
    ASSUME SessionInv, NEW c \in Callers, StopCode(c)
    PROVE  SessionInv'
<1> USE DEF ThreadNames, Pipes, Callers
<1>1. /\ spc[c] = "code" /\ spc' = [spc EXCEPT ![c] = "stdin"]
      /\ UNCHANGED <<session, mainpc, fdtab, pipe_fds, stdin_stop_fd, io_stop_fd, stop_bytes,
                     thread, pending_notify_stop, asked, stray>>
  BY DEF StopCode, InStop, fds, local_fds, input
<1>2. asked # {} /\ Up("io") /\ \A d \in Callers \ {c} : spc[d] = "idle"
  BY <1>1, InsideStop
<1>3. \A d \in Callers : spc'[d] = IF d = c THEN "stdin" ELSE "idle"
  BY <1>1, <1>2 DEF SessionInv, Shapes
<1>4. \A t \in ThreadNames : ~Told(t) /\ ~Told(t)'
  BY <1>1, <1>2, <1>3 DEF Told, Until
<1>5. Shapes'
  BY <1>1 DEF SessionInv, Shapes
<1>6. StopOnce'
  BY <1>1, <1>2, <1>3 DEF StopOnce, Up
<1>7. ThreadsToJoin'
  BY <1>1, <1>4 DEF SessionInv, ThreadsToJoin, Up, JoinedThread, Before, After, Lives
<1>8. EndsOwned'
  BY <1>1, <1>4 DEF SessionInv, EndsOwned, Up, Lives, Refers
<1>9. Signals' /\ DescriptorsOwned'
  BY <1>1, <1>4 DEF SessionInv, Signals, DescriptorsOwned
<1>10. QED
  BY <1>5, <1>6, <1>7, <1>8, <1>9 DEF SessionInv

LEMMA OwnSignal ==
    ASSUME NEW p \in Pipes, SignalAndClose(p), ~stray,
           Refers(pipe_fds[p].w) = End(p, "w", session)
    PROVE  /\ fdtab' = Closing({pipe_fds[p].w}) /\ ~stray'
           /\ stop_bytes' = stop_bytes \cup {<<p, session>>}
<1>1. fdtab' = Closing({pipe_fds[p].w})
  BY DEF SignalAndClose
<1>2. ~stray'
  BY DEF SignalAndClose
<1>3. LET e == Refers(pipe_fds[p].w)
      IN  e[1] = p /\ e[2] = "w" /\ e[3] = session
  BY DEF End
<1>4. QED
  BY <1>1, <1>2, <1>3 DEF SignalAndClose

\* The console thread is told by the stop_stdin pipe, whose write end is closed.
LEMMA StopStdinStep ==
    ASSUME SessionInv, NEW c \in Callers, StopStdinThread(c)
    PROVE  SessionInv'
<1> USE DEF ThreadNames, Pipes, Callers
<1>1. /\ spc[c] = "stdin" /\ spc' = [spc EXCEPT ![c] = "worker"]
      /\ SignalAndClose("stop_stdin")
      /\ UNCHANGED <<session, mainpc, pipe_fds, stdin_stop_fd, io_stop_fd,
                     thread, pending_notify_stop, asked>>
  BY DEF StopStdinThread, InStop, local_fds
<1>2. asked # {} /\ Up("io") /\ \A d \in Callers \ {c} : spc[d] = "idle"
  BY <1>1, InsideStop
<1>3. \A d \in Callers : spc'[d] = IF d = c THEN "worker" ELSE "idle"
  BY <1>1, <1>2 DEF SessionInv, Shapes
<1>4. /\ \A t \in ThreadNames : ~Told(t)
      /\ Told("stdin")' /\ ~Told("worker")' /\ ~Told("io")'
  BY <1>1, <1>2, <1>3 DEF Told, Until
<1>5. Refers(pipe_fds["stop_stdin"].w) = End("stop_stdin", "w", session)
  BY <1>2, <1>4 DEF SessionInv, EndsOwned, Up, Before
<1>6. /\ fdtab' = Closing({pipe_fds["stop_stdin"].w}) /\ ~stray'
      /\ stop_bytes' = stop_bytes \cup {<<"stop_stdin", session>>}
  BY <1>1, <1>5, OwnSignal DEF SessionInv, DescriptorsOwned
<1>7. Shapes'
  BY <1>1, <1>6 DEF SessionInv, Shapes, Closing
<1>8. StopOnce'
  BY <1>1, <1>2, <1>3 DEF StopOnce, Up
<1>9. ThreadsToJoin'
  BY <1>1, <1>4 DEF SessionInv, ThreadsToJoin, Up, JoinedThread, Before, After, Lives
<1>10. \A n : Refers(n) # Free /\ Refers(n) # End("stop_stdin", "w", session) =>
            Refers(n)' = Refers(n)
  BY <1>5, <1>6, CloseKeeps
<1>11. EndsOwned'
  BY <1>1, <1>4, <1>10 DEF SessionInv, EndsOwned, Up, Lives, Refers, End, Free
<1>12. Signals' /\ DescriptorsOwned'
  BY <1>1, <1>4, <1>6 DEF SessionInv, Signals, DescriptorsOwned, Shapes
<1>13. QED
  BY <1>7, <1>8, <1>9, <1>11, <1>12 DEF SessionInv

LEMMA StopWorkerStep ==
    ASSUME SessionInv, NEW c \in Callers, StopWorkerThread(c)
    PROVE  SessionInv'
<1> USE DEF ThreadNames, Pipes, Callers
<1>1. /\ spc[c] = "worker" /\ spc' = [spc EXCEPT ![c] = "io"] /\ pending_notify_stop' = TRUE
      /\ UNCHANGED <<session, mainpc, fdtab, pipe_fds, stdin_stop_fd, io_stop_fd, stop_bytes,
                     thread, asked, stray>>
  BY DEF StopWorkerThread, InStop, fds, local_fds, input
<1>2. asked # {} /\ Up("io") /\ \A d \in Callers \ {c} : spc[d] = "idle"
  BY <1>1, InsideStop
<1>3. \A d \in Callers : spc'[d] = IF d = c THEN "io" ELSE "idle"
  BY <1>1, <1>2 DEF SessionInv, Shapes
<1>4. /\ Told("stdin") /\ ~Told("worker") /\ ~Told("io")
      /\ Told("stdin")' /\ Told("worker")' /\ ~Told("io")'
  BY <1>1, <1>2, <1>3 DEF Told, Until
<1>5. Shapes'
  BY <1>1 DEF SessionInv, Shapes
<1>6. StopOnce'
  BY <1>1, <1>2, <1>3 DEF StopOnce, Up
<1>7. ThreadsToJoin'
  BY <1>1, <1>4 DEF SessionInv, ThreadsToJoin, Up, JoinedThread, Before, After, Lives
<1>8. EndsOwned'
  BY <1>1, <1>4 DEF SessionInv, EndsOwned, Up, Lives, Refers
<1>9. Lives("worker")
  BY <1>2, <1>4 DEF SessionInv, ThreadsToJoin, Up, Before
<1>10. Signals' /\ DescriptorsOwned'
  BY <1>1, <1>4, <1>9 DEF SessionInv, Signals, DescriptorsOwned, Lives
<1>11. QED
  BY <1>5, <1>6, <1>7, <1>8, <1>10 DEF SessionInv

\* The I/O thread is told by the stop pipe.
LEMMA StopIoStep ==
    ASSUME SessionInv, NEW c \in Callers, StopIoThread(c)
    PROVE  SessionInv'
<1> USE DEF ThreadNames, Pipes, Callers
<1>1. /\ spc[c] = "io" /\ spc' = [spc EXCEPT ![c] = "idle"]
      /\ SignalAndClose("stop")
      /\ UNCHANGED <<session, mainpc, pipe_fds, stdin_stop_fd, io_stop_fd,
                     thread, pending_notify_stop, asked>>
  BY DEF StopIoThread, InStop, local_fds
<1>2. asked # {} /\ Up("io") /\ \A d \in Callers \ {c} : spc[d] = "idle"
  BY <1>1, InsideStop
<1>3. \A d \in Callers : spc'[d] = "idle"
  BY <1>1, <1>2 DEF SessionInv, Shapes
<1>4. /\ Told("stdin") /\ Told("worker") /\ ~Told("io")
      /\ \A t \in ThreadNames : Told(t)'
  BY <1>1, <1>2, <1>3 DEF Told, Until
<1>5. Refers(pipe_fds["stop"].w) = End("stop", "w", session)
  BY <1>2, <1>4 DEF SessionInv, EndsOwned
<1>6. /\ fdtab' = Closing({pipe_fds["stop"].w}) /\ ~stray'
      /\ stop_bytes' = stop_bytes \cup {<<"stop", session>>}
  BY <1>1, <1>5, OwnSignal DEF SessionInv, DescriptorsOwned
<1>7. Shapes'
  BY <1>1, <1>6 DEF SessionInv, Shapes, Closing
<1>8. StopOnce'
  BY <1>1, <1>2, <1>3 DEF StopOnce, Up
<1>9. ThreadsToJoin'
  BY <1>1, <1>4 DEF SessionInv, ThreadsToJoin, Up, JoinedThread, Before, After, Lives
<1>10. \A n : Refers(n) # Free /\ Refers(n) # End("stop", "w", session) =>
            Refers(n)' = Refers(n)
  BY <1>5, <1>6, CloseKeeps
<1>11. EndsOwned'
  BY <1>1, <1>4, <1>10 DEF SessionInv, EndsOwned, Up, Lives, Refers, End, Free
<1>12. Signals' /\ DescriptorsOwned'
  BY <1>1, <1>4, <1>6 DEF SessionInv, Signals, DescriptorsOwned, Shapes, Lives
<1>13. QED
  BY <1>7, <1>8, <1>9, <1>11, <1>12 DEF SessionInv

-----------------------------------------------------------------------------
(* The three threads *)

\* A thread goes on living; nothing else of the invariant is touched.
LEMMA LiveStep ==
    ASSUME SessionInv, NEW t \in ThreadNames, Lives(t), NEW st \in {"running", "write"}, st = "write" => Up("io"),
           thread' = [thread EXCEPT ![t] = st],
           UNCHANGED <<session, mainpc, fds, local_fds, stop_bytes, pending_notify_stop,
                       spc, asked, stray>>
    PROVE  SessionInv'
<1>1. UNCHANGED <<session, mainpc, fdtab, pipe_fds, stdin_stop_fd, io_stop_fd, stop_bytes,
                  pending_notify_stop, spc, asked, stray>>
  BY DEF fds, local_fds
<1>2. thread' = [u \in ThreadNames |-> IF u = t THEN st ELSE thread[u]]
  BY DEF SessionInv, Shapes
<1>3. \A u \in ThreadNames : (Lives(u)' <=> Lives(u)) /\ (u # t => thread'[u] = thread[u])
  BY <1>2 DEF Lives
<1>4. Shapes' /\ StopOnce'
  BY <1>1, <1>2 DEF SessionInv, Shapes, StopOnce, Up, ThreadNames
<1>5. ThreadsToJoin'
  BY <1>1, <1>2, <1>3 DEF SessionInv, ThreadsToJoin, Up, Told, JoinedThread, Lives
<1>6. EndsOwned'
  BY <1>1, <1>3 DEF SessionInv, EndsOwned, Up, Told, Refers, ThreadNames
<1>7. Signals' /\ DescriptorsOwned'
  BY <1>1, <1>3 DEF SessionInv, Signals, Told, DescriptorsOwned, ThreadNames
<1>8. QED
  BY <1>4, <1>5, <1>6, <1>7 DEF SessionInv

\* A thread that has been told to stop exits, and closes descriptors of its own.
LEMMA ExitStep ==
    ASSUME SessionInv, NEW t \in ThreadNames, Lives(t), Told(t), Exits(t),
           NEW closed, fdtab' = Closing(closed), ~stray',
           t = "worker" => closed = {} /\ ~pending_notify_stop',
           t = "stdin" => \A n \in closed : Refers(n) \in {End("stop_stdin", "r", session),
                                                           End("virtio_stdio", "w", session)},
           t = "io" => \A n \in closed : Refers(n) = End("stop", "r", session),
           t # "worker" => pending_notify_stop' = pending_notify_stop,
           UNCHANGED <<session, mainpc, pipe_fds, local_fds, stop_bytes, spc, asked>>
    PROVE  SessionInv'
<1>1. /\ UNCHANGED <<session, mainpc, pipe_fds, stdin_stop_fd, io_stop_fd, stop_bytes, spc, asked>>
  BY DEF local_fds
<1>2. thread' = [u \in ThreadNames |-> IF u = t THEN "exited" ELSE thread[u]]
  BY DEF Exits, SessionInv, Shapes
<1>3. \A u \in ThreadNames : Lives(u)' <=> u # t /\ Lives(u)
  BY <1>2 DEF Lives
<1>4. \A n : n \notin closed => Refers(n)' = Refers(n)
  BY CloseKeeps
<1>5. Shapes' /\ StopOnce'
  BY <1>1, <1>2 DEF SessionInv, Shapes, StopOnce, Up, Closing, ThreadNames
<1>6. ThreadsToJoin'
  BY <1>1, <1>2, <1>3 DEF SessionInv, ThreadsToJoin, Up, Told, JoinedThread, Lives
<1>7. EndsOwned'
  <2>1. CASE t = "stdin"
    BY <1>1, <1>3, <1>4, <2>1 DEF SessionInv, EndsOwned, Up, Told, Refers, ThreadNames, End
  <2>2. CASE t = "worker"
    BY <1>1, <1>3, <1>4, <2>2 DEF SessionInv, EndsOwned, Up, Told, Refers, ThreadNames
  <2>3. CASE t = "io"
    BY <1>1, <1>3, <1>4, <2>3 DEF SessionInv, EndsOwned, Up, Told, Refers, ThreadNames, End
  <2>4. QED
    BY <2>1, <2>2, <2>3 DEF ThreadNames
<1>8. Signals' /\ DescriptorsOwned'
  BY <1>1, <1>3 DEF SessionInv, Signals, Told, DescriptorsOwned, ThreadNames
<1>9. QED
  BY <1>5, <1>6, <1>7, <1>8 DEF SessionInv

\* The console thread leaves its loop only when it has been told.
LEMMA StdinTold ==
    ASSUME SessionInv, Lives("stdin"), Ready(stdin_stop_fd)
    PROVE  Told("stdin")
<1> SUFFICES ASSUME ~Told("stdin") PROVE FALSE
  OBVIOUS
<1>1. Refers(stdin_stop_fd) = End("stop_stdin", "r", session)
  BY DEF SessionInv, EndsOwned
<1>2. Up("stdin")
  BY DEF SessionInv, ThreadsToJoin, ThreadNames, Lives
<1>3. Refers(pipe_fds["stop_stdin"].w) = End("stop_stdin", "w", session)
  BY <1>2 DEF SessionInv, EndsOwned
<1>4. /\ End("stop_stdin", "r", session) # Free
      /\ End("stop_stdin", "r", session)[1] = "stop_stdin"
      /\ End("stop_stdin", "r", session)[3] = session
      /\ End("stop_stdin", "w", session) # Free
  BY DEF End, Free
<1>5. \/ <<"stop_stdin", session>> \in stop_bytes
      \/ ~ \E m \in Fds : fdtab[m] = End("stop_stdin", "w", session)
  BY <1>1, <1>4 DEF Ready
<1>6. <<"stop_stdin", session>> \notin stop_bytes
  BY DEF SessionInv, Signals, Shapes
<1>7. QED
  BY <1>3, <1>4, <1>5, <1>6 DEF Refers

LEMMA IoTold ==
    ASSUME SessionInv, Lives("io"), Ready(io_stop_fd)
    PROVE  Told("io")
<1> SUFFICES ASSUME ~Told("io") PROVE FALSE
  OBVIOUS
<1>1. Refers(io_stop_fd) = End("stop", "r", session)
  BY DEF SessionInv, EndsOwned
<1>2. Up("io")
  BY DEF SessionInv, ThreadsToJoin, ThreadNames, Lives
<1>3. Refers(pipe_fds["stop"].w) = End("stop", "w", session)
  BY <1>2 DEF SessionInv, EndsOwned
<1>4. /\ End("stop", "r", session) # Free
      /\ End("stop", "r", session)[1] = "stop"
      /\ End("stop", "r", session)[3] = session
      /\ End("stop", "w", session) # Free
  BY DEF End, Free
<1>5. \/ <<"stop", session>> \in stop_bytes
      \/ ~ \E m \in Fds : fdtab[m] = End("stop", "w", session)
  BY <1>1, <1>4 DEF Ready
<1>6. <<"stop", session>> \notin stop_bytes
  BY DEF SessionInv, Signals, Shapes
<1>7. QED
  BY <1>3, <1>4, <1>5, <1>6 DEF Refers

LEMMA StdinExitStep ==
    ASSUME SessionInv, StdinExit
    PROVE  SessionInv'
<1>1. Lives("stdin") /\ Told("stdin")
  BY StdinTold DEF StdinExit, Runs, Lives
<1>2. mainpc # "start_stdio"
  BY <1>1 DEF SessionInv, StopOnce, Told, Up, Before
<1>3. /\ Refers(stdin_stop_fd) = End("stop_stdin", "r", session)
      /\ Refers(pipe_fds["virtio_stdio"].w) = End("virtio_stdio", "w", session)
  BY <1>1, <1>2 DEF SessionInv, EndsOwned
<1>4. ~stray /\ ~stray'
  BY <1>3 DEF StdinExit, SessionInv, DescriptorsOwned
<1>5. QED
  BY <1>1, <1>3, <1>4, ExitStep DEF StdinExit, input, stopping, ThreadNames

LEMMA IoExitStep ==
    ASSUME SessionInv, IoExit
    PROVE  SessionInv'
<1>1. Lives("io") /\ Told("io")
  BY IoTold DEF IoExit, Runs, Lives
<1>2. Refers(io_stop_fd) = End("stop", "r", session)
  BY <1>1 DEF SessionInv, EndsOwned
<1>3. ~stray /\ ~stray'
  BY <1>2 DEF IoExit, SessionInv, DescriptorsOwned
<1>4. QED
  BY <1>1, <1>2, <1>3, ExitStep DEF IoExit, input, stopping, ThreadNames

LEMMA WorkerExitStep ==
    ASSUME SessionInv, WorkerExit
    PROVE  SessionInv'
<1>1. Lives("worker") /\ Told("worker")
  BY DEF WorkerExit, SessionInv, Signals
<1>2. fdtab' = Closing({})
  BY DEF WorkerExit, fds, Closing, SessionInv, Shapes
<1>3. ~stray'
  BY DEF WorkerExit, SessionInv, DescriptorsOwned
<1>4. QED
  BY <1>1, <1>2, <1>3, ExitStep DEF WorkerExit, fds, input, stopping, ThreadNames

\* A character that has been read goes into this session's pipe; nothing aborts.
LEMMA TypingStep ==
    ASSUME SessionInv, ~EarlyInput, UserTypes \/ EnqueueStdin
    PROVE  SessionInv'
<1>1. CASE UserTypes
  <2>1. Lives("stdin") /\ Up("io")
    BY <1>1 DEF UserTypes, StdinReads, Runs, Lives, Up, Before
  <2>2. /\ thread' = [thread EXCEPT !["stdin"] = "write"]
        /\ UNCHANGED <<session, mainpc, fds, local_fds, stop_bytes, pending_notify_stop, spc, asked, stray>>
    BY <1>1 DEF UserTypes, stopping
  <2>3. QED
    BY <2>1, <2>2, LiveStep DEF ThreadNames
<1>2. CASE EnqueueStdin
  <2>1. thread["stdin"] = "write" /\ Lives("stdin")
    BY <1>2 DEF EnqueueStdin, Lives
  <2>2. mainpc # "start_stdio"
    BY <2>1 DEF SessionInv, StopOnce, Up, Before
  <2>3. Refers(pipe_fds["virtio_stdio"].w) = End("virtio_stdio", "w", session)
    BY <2>1, <2>2 DEF SessionInv, EndsOwned
  <2>4. Refers(pipe_fds["virtio_stdio"].w)[2] = "w"
    BY <2>3 DEF End
  <2>5. thread' = [thread EXCEPT !["stdin"] = "running"]
        /\ UNCHANGED <<session, mainpc, fds, local_fds, stop_bytes, pending_notify_stop, spc, asked, stray>>
    BY <1>2, <2>4 DEF EnqueueStdin, stopping
  <2>6. QED
    BY <2>1, <2>2, <2>5, LiveStep DEF ThreadNames
<1>3. QED
  BY <1>1, <1>2

-----------------------------------------------------------------------------
LEMMA SessionElsewhere ==
    ASSUME SessionInv, UNCHANGED <<session, mainpc, fdtab, pipe_fds, stdin_stop_fd, io_stop_fd, stop_bytes,
                             thread, pending_notify_stop, spc, asked, stray>>
    PROVE  SessionInv'
<1>1. Shapes' /\ StopOnce' /\ ThreadsToJoin'
  BY DEF SessionInv, Shapes, StopOnce, ThreadsToJoin, Up, Told, JoinedThread, Lives
<1>2. EndsOwned' /\ Signals' /\ DescriptorsOwned'
  BY DEF SessionInv, EndsOwned, Signals, DescriptorsOwned, Up, Told, Lives, Refers
<1>3. QED
  BY <1>1, <1>2 DEF SessionInv

LEMMA SessionGoesOn == ~Overlap /\ ~EarlyInput /\ SessionInv /\ [SessionNext]_session_vars => SessionInv'
<1> SUFFICES ASSUME ~Overlap, ~EarlyInput, SessionInv, [SessionNext]_session_vars PROVE SessionInv'
  OBVIOUS
<1>1. CASE MainThread
  BY <1>1, StartStdinStep, StartStdioStep, StartWorkerStep, StartIoStep, JoinStep, RebootStep
     DEF MainThread
<1>2. ASSUME NEW c \in Callers, Stop(c) PROVE SessionInv'
  BY <1>2, StopCodeStep, StopStdinStep, StopWorkerStep, StopIoStep DEF Stop
<1>3. CASE StdinExit
  BY <1>3, StdinExitStep
<1>4. CASE EnqueueStdin \/ UserTypes
  BY <1>4, TypingStep
<1>5. CASE WorkerExit
  BY <1>5, WorkerExitStep
<1>6. CASE IoExit
  BY <1>6, IoExitStep
<1>7. CASE IoReads \/ UNCHANGED session_vars
  BY <1>7, SessionElsewhere DEF IoReads, session_vars, fds, local_fds, input, stopping
<1>8. ASSUME NEW why \in Codes, UserStop(why) PROVE SessionInv'
  <2>1. Up("io")
    BY <1>8 DEF UserStop, StdinReads, Up, Before
  <2>2. QED
    BY <1>8, <2>1, CallStopStep DEF UserStop, Callers
<1>9. ASSUME NEW why \in Codes, GuestStop(why) PROVE SessionInv'
  <2>1. Up("io")
    BY <1>9 DEF GuestStop, Up, Before
  <2>2. QED
    BY <1>9, <2>1, CallStopStep DEF GuestStop, Callers
<1>10. QED
  BY <1>1, <1>2, <1>3, <1>4, <1>5, <1>6, <1>7, <1>8, <1>9 DEF SessionNext, StdinThread, Callers

\* Without a second stop in a session, and without input before the pipes exist, the
\* invariant above holds in every state of every session (start_io, stop_io, join_io).
THEOREM SessionInvariant ==
    ASSUME ~Overlap, ~EarlyInput
    PROVE  SessionSpec => []SessionInv
<1>1. SessionInv /\ [SessionNext]_session_vars => SessionInv'
  BY SessionGoesOn
<1>2. QED
  BY <1>1, SessionStarts, PTL DEF SessionSpec

\* No descriptor is written to or closed but by its owner, and while it is open
\* (stop_io, process_stdin, process_io), however often the guest reboots.
THEOREM NothingStray ==
    ASSUME ~Overlap, ~EarlyInput
    PROVE  SessionSpec => []DescriptorsOwned
<1>1. SessionInv => DescriptorsOwned
  BY DEF SessionInv
<1>2. QED
  BY <1>1, SessionInvariant, PTL

\* Every session starts with its three threads, and nothing left of the session
\* before stops one of them (start_io, virtio_start_pending_notify_thread).
THEOREM SessionsStartWhole ==
    ASSUME ~Overlap, ~EarlyInput
    PROVE  SessionSpec => []SessionWhole
<1>1. SessionInv => SessionWhole
  <2> SUFFICES ASSUME SessionInv, mainpc = "join_stdin", asked = {}
               PROVE  /\ \A t \in DOMAIN thread : thread[t] \in {"running", "write"}
                      /\ ~pending_notify_stop
                      /\ ~Ready(stdin_stop_fd) /\ ~Ready(io_stop_fd)
    BY DEF SessionWhole
  <2>1. \A t \in ThreadNames : Lives(t) /\ ~Told(t)
    BY DEF SessionInv, ThreadsToJoin, ThreadNames, Up, Told, Before
  <2>2. DOMAIN thread = ThreadNames
    BY DEF SessionInv, Shapes
  <2>3. ~pending_notify_stop
    BY <2>1 DEF SessionInv, Signals, ThreadNames
  <2>4. ~Ready(stdin_stop_fd) /\ ~Ready(io_stop_fd)
    BY <2>1, StdinTold, IoTold DEF ThreadNames
  <2>5. QED
    BY <2>1, <2>2, <2>3, <2>4 DEF Lives
<1>2. QED
  BY <1>1, SessionInvariant, PTL
=============================================================================
