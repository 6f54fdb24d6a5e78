---------------------------- MODULE FabricProofs ----------------------------
(***************************************************************************)
(* Proofs about Fabric, for any masters, slaves, bursts and FIFO depths.   *)
(*                                                                         *)
(* A response names nobody: that it reaches its master rests on two orders *)
(* of the same bursts, the master's own (wr_bursts, rd_bursts) and the     *)
(* order each slave was given them in (wr_routed, rd_routed).  The book    *)
(* says that v_f_wr_sjs and v_f_wr_mis (v_f_rd_sjs, v_f_rd_mis) are the    *)
(* ends of these two orders, and that both hold the same unanswered bursts *)
(* of a master for a slave, in the same order (Book, Pending).  When the   *)
(* two heads name each other they stand therefore for one burst.           *)
(*                                                                         *)
(* A read is answered in beats: the counter of the slave whose turn it is  *)
(* says how many, and no other counter runs for that master (Progress).    *)
(* Data beats follow v_f_wd_tasks: what a master has moved so far is what  *)
(* the slaves have been given, each its share (DataInv).                   *)
(***************************************************************************)
EXTENDS Fabric, BurstProofs, TLAPS

Dests == Slaves \cup {NoSlave}
BurstSet == [id : Nat \X Nat, to : Dests, len : Nat]

\* The bursts of master mi bear its name and their number.
Numbered(bursts, mi) ==
    bursts \in Seq(BurstSet) /\ \A n \in 1 .. Len(bursts) : bursts[n].id = <<mi, n>>

-----------------------------------------------------------------------------
(* Two orders of one set of bursts: that of a master and that of a slave *)

\* Of what comes after the first lo in order, the bursts of master mi are its
\* bursts from + 1 .. to for dest, in its own order.
Pending(order, lo, bursts, mi, from, to, dest) ==
    /\ \A i \in lo + 1 .. Len(order) :
           order[i].id[1] = mi =>
               /\ order[i].id[2] \in from + 1 .. to
               /\ order[i] = bursts[order[i].id[2]]
    /\ \A i, j \in lo + 1 .. Len(order) :
           order[i].id[1] = mi /\ order[j].id[1] = mi /\ i < j =>
               order[i].id[2] < order[j].id[2]
    /\ \A n \in from + 1 .. to :
           bursts[n].to = dest => \E i \in lo + 1 .. Len(order) : order[i].id = <<mi, n>>

\* What comes after the first lo in order.
After(order, lo) == order[lo + 1]

\* The common hypotheses of the lemmas about it.
Orders(order, lo, bursts, mi, from, to) ==
    /\ Numbered(bursts, mi) /\ order \in Seq(BurstSet)
    /\ lo \in Nat /\ from \in Nat /\ to \in Nat
    /\ lo <= Len(order) /\ from <= to /\ to <= Len(bursts)

\* The master's next burst goes to this order.
LEMMA PendingEnq ==
    ASSUME NEW order, NEW lo, NEW bursts, NEW mi, NEW from, NEW to, NEW dest,
           Orders(order, lo, bursts, mi, from, to), to < Len(bursts),
           Pending(order, lo, bursts, mi, from, to, dest)
    PROVE  Pending(Append(order, After(bursts, to)), lo, bursts, mi, from, to + 1, dest)
<1> USE DEF After
<1> DEFINE b == After(bursts, to)
           longer == Append(order, b)
           last == Len(order) + 1
<1>1. /\ Len(order) \in Nat /\ lo \in Nat /\ from \in Nat /\ to \in Nat /\ lo <= Len(order)
      /\ from <= to
  BY DEF Orders
<1>2. b \in BurstSet /\ b.id = <<mi, to + 1>>
  BY DEF Orders, Numbered
<1> HIDE DEF b
<1>3. /\ Len(longer) = last /\ longer[last] = b
      /\ \A i \in 1 .. Len(order) : longer[i] = order[i]
  BY <1>2 DEF Orders
<1> HIDE DEF longer
<1>4. b.id[1] = mi /\ b.id[2] = to + 1
  BY <1>2
<1>5. ASSUME NEW i \in lo + 1 .. Len(longer), i # last
      PROVE  i \in lo + 1 .. Len(order) /\ longer[i] = order[i]
  BY <1>1, <1>3, <1>5
<1>6. ASSUME NEW i \in lo + 1 .. Len(longer), longer[i].id[1] = mi
      PROVE  longer[i].id[2] \in from + 1 .. to + 1 /\ longer[i] = bursts[longer[i].id[2]]
  <2>1. CASE i = last
    <3>1. longer[i].id[2] = to + 1 /\ longer[i] = b
      BY <2>1, <1>3, <1>4
    <3> QED  BY <3>1, <1>1 DEF b
  <2>2. CASE i # last
    <3>1. i \in lo + 1 .. Len(order) /\ longer[i] = order[i]
      BY <1>5, <2>2
    <3>2. order[i].id[2] \in from + 1 .. to /\ order[i] = bursts[order[i].id[2]]
      BY <3>1, <1>6 DEF Pending
    <3> QED  BY <3>1, <3>2, <1>1
  <2> QED  BY <2>1, <2>2
<1>7. ASSUME NEW i \in lo + 1 .. Len(longer), NEW j \in lo + 1 .. Len(longer),
             longer[i].id[1] = mi, longer[j].id[1] = mi, i < j
      PROVE  longer[i].id[2] < longer[j].id[2]
  <2>1. i # last
    BY <1>1, <1>3, <1>7
  <2>2. i \in lo + 1 .. Len(order) /\ longer[i] = order[i]
    BY <1>5, <2>1
  <2>3. order[i].id[2] \in from + 1 .. to
    BY <2>2, <1>7 DEF Pending
  <2>4. CASE j = last
    <3>1. longer[j].id[2] = to + 1
      BY <2>4, <1>3, <1>4
    <3>2. longer[i].id[2] \in from + 1 .. to
      BY <2>2, <2>3
    <3> QED  BY <3>1, <3>2, <1>1
  <2>5. CASE j # last
    <3>1. j \in lo + 1 .. Len(order) /\ longer[j] = order[j]
      BY <1>5, <2>5
    <3> QED  BY <3>1, <2>2, <1>7 DEF Pending
  <2> QED  BY <2>4, <2>5
<1>8. ASSUME NEW n \in from + 1 .. to + 1, bursts[n].to = dest
      PROVE  \E i \in lo + 1 .. Len(longer) : longer[i].id = <<mi, n>>
  <2>1. CASE n = to + 1
    <3>1. last \in lo + 1 .. Len(longer)
      BY <1>1, <1>3
    <3> QED  BY <2>1, <3>1, <1>2, <1>3
  <2>2. CASE n # to + 1
    <3>1. n \in from + 1 .. to
      BY <2>2, <1>1
    <3>2. PICK i \in lo + 1 .. Len(order) : order[i].id = <<mi, n>>
      BY <3>1, <1>8 DEF Pending
    <3>3. i \in lo + 1 .. Len(longer) /\ longer[i] = order[i]
      BY <1>1, <1>3
    <3> QED  BY <3>2, <3>3
  <2> QED  BY <2>1, <2>2
<1> HIDE DEF last
<1> QED  BY <1>6, <1>7, <1>8 DEF Pending, longer, b

\* The master's next burst goes elsewhere.
LEMMA PendingElsewhere ==
    ASSUME NEW order, NEW lo, NEW bursts, NEW mi, NEW from, NEW to, NEW dest,
           Orders(order, lo, bursts, mi, from, to), to < Len(bursts),
           Pending(order, lo, bursts, mi, from, to, dest), After(bursts, to).to # dest
    PROVE  Pending(order, lo, bursts, mi, from, to + 1, dest)
<1> USE DEF After
<1>1. from \in Nat /\ to \in Nat /\ from <= to
  BY DEF Orders
<1>2. \A n : n \in from + 1 .. to => n \in from + 1 .. to + 1
  BY <1>1
<1>3. ASSUME NEW n \in from + 1 .. to + 1, bursts[n].to = dest
      PROVE  n \in from + 1 .. to
  BY <1>1, <1>3
<1> QED  BY <1>2, <1>3 DEF Pending

\* A burst of another master joins the order.
LEMMA PendingOther ==
    ASSUME NEW order, NEW lo, NEW bursts, NEW mi, NEW from, NEW to, NEW dest,
           Orders(order, lo, bursts, mi, from, to),
           Pending(order, lo, bursts, mi, from, to, dest),
           NEW b \in BurstSet, b.id[1] # mi
    PROVE  Pending(Append(order, b), lo, bursts, mi, from, to, dest)
<1> USE DEF After
<1> DEFINE longer == Append(order, b)
           last == Len(order) + 1
<1>1. Len(order) \in Nat /\ lo \in Nat /\ lo <= Len(order)
  BY DEF Orders
<1>2. /\ Len(longer) = last /\ longer[last] = b
      /\ \A i \in 1 .. Len(order) : longer[i] = order[i]
  BY DEF Orders
<1> HIDE DEF longer
<1>3. ASSUME NEW i \in lo + 1 .. Len(longer), longer[i].id[1] = mi
      PROVE  i \in lo + 1 .. Len(order) /\ longer[i] = order[i]
  BY <1>1, <1>2, <1>3
<1>4. ASSUME NEW i \in lo + 1 .. Len(order)
      PROVE  i \in lo + 1 .. Len(longer) /\ longer[i] = order[i]
  BY <1>1, <1>2
<1>5. ASSUME NEW i \in lo + 1 .. Len(longer), longer[i].id[1] = mi
      PROVE  longer[i].id[2] \in from + 1 .. to /\ longer[i] = bursts[longer[i].id[2]]
  BY <1>3, <1>5 DEF Pending
<1>6. ASSUME NEW i \in lo + 1 .. Len(longer), NEW j \in lo + 1 .. Len(longer),
             longer[i].id[1] = mi, longer[j].id[1] = mi, i < j
      PROVE  longer[i].id[2] < longer[j].id[2]
  BY <1>3, <1>6 DEF Pending
<1>7. ASSUME NEW n \in from + 1 .. to, bursts[n].to = dest
      PROVE  \E i \in lo + 1 .. Len(longer) : longer[i].id = <<mi, n>>
  <2>1. PICK i \in lo + 1 .. Len(order) : order[i].id = <<mi, n>>
    BY <1>7 DEF Pending
  <2> QED  BY <2>1, <1>4
<1> QED  BY <1>5, <1>6, <1>7 DEF Pending, longer

\* When the two heads name each other, they are the same burst.
LEMMA PendingHead ==
    ASSUME NEW order, NEW lo, NEW bursts, NEW mi, NEW from, NEW to, NEW dest,
           Orders(order, lo, bursts, mi, from, to),
           Pending(order, lo, bursts, mi, from, to, dest),
           from < to, After(bursts, from).to = dest,
           lo < Len(order) => After(order, lo).id[1] = mi
    PROVE  lo < Len(order) /\ After(order, lo) = After(bursts, from)
<1> USE DEF After
<1>1. Len(order) \in Nat /\ lo \in Nat /\ from \in Nat /\ to \in Nat /\ from + 1 \in from + 1 .. to
  BY DEF Orders
<1>2. PICK i \in lo + 1 .. Len(order) : order[i].id = <<mi, from + 1>>
  BY <1>1 DEF Pending
<1>3. order[i].id[1] = mi /\ order[i].id[2] = from + 1
  BY <1>2
<1>4. lo < Len(order) /\ lo + 1 \in lo + 1 .. Len(order)
  BY <1>1
<1>5. After(order, lo).id[1] = mi
  BY <1>4
<1>6. After(order, lo).id[2] \in from + 1 .. to /\ After(order, lo) = bursts[After(order, lo).id[2]]
  BY <1>4, <1>5 DEF Pending
<1>7. i = lo + 1
  <2>1. CASE lo + 1 < i
    <3>1. After(order, lo).id[2] < order[i].id[2]
      BY <2>1, <1>3, <1>4, <1>5 DEF Pending
    <3> QED  BY <3>1, <1>1, <1>3, <1>6
  <2>2. CASE ~(lo + 1 < i)
    BY <2>2, <1>1
  <2> QED  BY <2>1, <2>2
<1> QED  BY <1>3, <1>4, <1>6, <1>7

\* That burst is done with: for its master and in this order,
LEMMA PendingDeq ==
    ASSUME NEW order, NEW lo, NEW bursts, NEW mi, NEW from, NEW to, NEW dest,
           Orders(order, lo, bursts, mi, from, to),
           Pending(order, lo, bursts, mi, from, to, dest),
           from < to, lo < Len(order), After(order, lo) = After(bursts, from)
    PROVE  Pending(order, lo + 1, bursts, mi, from + 1, to, dest)
<1> USE DEF After
<1>1. /\ Len(order) \in Nat /\ lo \in Nat /\ from \in Nat /\ to \in Nat /\ lo + 1 \in lo + 1 .. Len(order)
      /\ to <= Len(bursts)
  BY DEF Orders
<1>2. After(bursts, from).id = <<mi, from + 1>>
  BY <1>1 DEF Orders, Numbered
<1>3. After(order, lo).id[1] = mi /\ After(order, lo).id[2] = from + 1
  BY <1>2
<1>4. ASSUME NEW i \in lo + 1 + 1 .. Len(order)
      PROVE  i \in lo + 1 .. Len(order) /\ lo + 1 < i
  BY <1>1
<1>5. ASSUME NEW i \in lo + 1 + 1 .. Len(order), order[i].id[1] = mi
      PROVE  order[i].id[2] \in from + 1 + 1 .. to /\ order[i] = bursts[order[i].id[2]]
  <2>1. i \in lo + 1 .. Len(order) /\ lo + 1 < i
    BY <1>4
  <2>2. order[i].id[2] \in from + 1 .. to /\ order[i] = bursts[order[i].id[2]]
    BY <2>1, <1>5 DEF Pending
  <2>3. After(order, lo).id[2] < order[i].id[2]
    BY <2>1, <1>1, <1>3, <1>5 DEF Pending
  <2> QED  BY <2>2, <2>3, <1>1, <1>3
<1>6. ASSUME NEW i \in lo + 1 + 1 .. Len(order), NEW j \in lo + 1 + 1 .. Len(order),
             order[i].id[1] = mi, order[j].id[1] = mi, i < j
      PROVE  order[i].id[2] < order[j].id[2]
  BY <1>4, <1>6 DEF Pending
<1>7. ASSUME NEW n \in from + 1 + 1 .. to, bursts[n].to = dest
      PROVE  \E i \in lo + 1 + 1 .. Len(order) : order[i].id = <<mi, n>>
  <2>1. n \in from + 1 .. to /\ n # from + 1
    BY <1>1
  <2>2. PICK i \in lo + 1 .. Len(order) : order[i].id = <<mi, n>>
    BY <2>1, <1>7 DEF Pending
  <2>3. i # lo + 1
    BY <2>1, <2>2, <1>3
  <2>4. i \in lo + 1 + 1 .. Len(order)
    BY <2>3, <1>1
  <2> QED  BY <2>2, <2>4
<1> QED  BY <1>5, <1>6, <1>7 DEF Pending

\* for another master,
LEMMA PendingDeqOther ==
    ASSUME NEW order, NEW lo, NEW bursts, NEW mi, NEW from, NEW to, NEW dest,
           Orders(order, lo, bursts, mi, from, to),
           Pending(order, lo, bursts, mi, from, to, dest),
           lo < Len(order), After(order, lo).id[1] # mi
    PROVE  Pending(order, lo + 1, bursts, mi, from, to, dest)
<1> USE DEF After
<1>1. Len(order) \in Nat /\ lo \in Nat
  BY DEF Orders
<1>2. ASSUME NEW i \in lo + 1 + 1 .. Len(order)
      PROVE  i \in lo + 1 .. Len(order)
  BY <1>1
<1>3. ASSUME NEW n \in from + 1 .. to, bursts[n].to = dest
      PROVE  \E i \in lo + 1 + 1 .. Len(order) : order[i].id = <<mi, n>>
  <2>1. PICK i \in lo + 1 .. Len(order) : order[i].id = <<mi, n>>
    BY <1>3 DEF Pending
  <2>2. order[i].id[1] = mi
    BY <2>1
  <2>3. i \in lo + 1 + 1 .. Len(order)
    BY <2>2, <1>1
  <2> QED  BY <2>1, <2>3
<1> QED  BY <1>2, <1>3 DEF Pending

\* and for its master in another order.
LEMMA PendingDeqElsewhere ==
    ASSUME NEW order, NEW lo, NEW bursts, NEW mi, NEW from, NEW to, NEW dest,
           Orders(order, lo, bursts, mi, from, to),
           Pending(order, lo, bursts, mi, from, to, dest),
           \A i \in 1 .. Len(order) : order[i].to = dest,
           from < to, After(bursts, from).to # dest
    PROVE  Pending(order, lo, bursts, mi, from + 1, to, dest)
<1> USE DEF After
<1>1. Len(order) \in Nat /\ lo \in Nat /\ from \in Nat /\ to \in Nat
  BY DEF Orders
<1>2. ASSUME NEW i \in lo + 1 .. Len(order), order[i].id[1] = mi
      PROVE  order[i].id[2] \in from + 1 + 1 .. to /\ order[i] = bursts[order[i].id[2]]
  <2>1. order[i].id[2] \in from + 1 .. to /\ order[i] = bursts[order[i].id[2]]
    BY <1>2 DEF Pending
  <2>2. i \in 1 .. Len(order)
    BY <1>1
  <2>3. order[i].id[2] # from + 1
    BY <2>1, <2>2
  <2> QED  BY <2>1, <2>3, <1>1
<1>3. ASSUME NEW n \in from + 1 + 1 .. to
      PROVE  n \in from + 1 .. to
  BY <1>1
<1> QED  BY <1>2, <1>3 DEF Pending

\* The master issues another burst.
LEMMA PendingGrow ==
    ASSUME NEW order, NEW lo, NEW bursts, NEW mi, NEW from, NEW to, NEW dest,
           Orders(order, lo, bursts, mi, from, to),
           Pending(order, lo, bursts, mi, from, to, dest), NEW b \in BurstSet
    PROVE  Pending(order, lo, Append(bursts, b), mi, from, to, dest)
<1> USE DEF After
<1> DEFINE more == Append(bursts, b)
<1>1. from \in Nat /\ to \in Nat /\ to <= Len(bursts) /\ Len(bursts) \in Nat
  BY DEF Orders, Numbered
<1>2. \A n \in 1 .. Len(bursts) : more[n] = bursts[n]
  BY DEF Orders, Numbered
<1>3. \A n \in from + 1 .. to : n \in 1 .. Len(bursts)
  BY <1>1
<1>4. \A n \in from + 1 .. to : more[n] = bursts[n]
  BY <1>2, <1>3
<1> HIDE DEF more
<1>5. \A i \in lo + 1 .. Len(order) :
        order[i].id[1] = mi =>
            order[i].id[2] \in from + 1 .. to /\ order[i] = more[order[i].id[2]]
  BY <1>4 DEF Pending
<1>6. \A n \in from + 1 .. to :
        more[n].to = dest => \E i \in lo + 1 .. Len(order) : order[i].id = <<mi, n>>
  BY <1>4 DEF Pending
<1> QED  BY <1>5, <1>6 DEF Pending, more

\* A FIFO that is the order forgets what is done with.
LEMMA PendingTail ==
    ASSUME NEW order, NEW bursts, NEW mi, NEW from, NEW to, NEW dest,
           order \in Seq(BurstSet), order # <<>>,
           Pending(order, 1, bursts, mi, from, to, dest)
    PROVE  Pending(Tail(order), 0, bursts, mi, from, to, dest)
<1> USE DEF After
<1> DEFINE rest == Tail(order)
<1>1. /\ Len(order) \in Nat \ {0} /\ Len(rest) = Len(order) - 1
      /\ \A i \in 1 .. Len(order) - 1 : rest[i] = order[i + 1]
  OBVIOUS
<1> HIDE DEF rest
<1>2. ASSUME NEW i \in 0 + 1 .. Len(rest)
      PROVE  i \in Nat /\ i + 1 \in 1 + 1 .. Len(order) /\ rest[i] = order[i + 1]
  BY <1>1
<1>3. ASSUME NEW i \in 0 + 1 .. Len(rest), rest[i].id[1] = mi
      PROVE  rest[i].id[2] \in from + 1 .. to /\ rest[i] = bursts[rest[i].id[2]]
  BY <1>2, <1>3 DEF Pending
<1>4. ASSUME NEW i \in 0 + 1 .. Len(rest), NEW j \in 0 + 1 .. Len(rest),
             rest[i].id[1] = mi, rest[j].id[1] = mi, i < j
      PROVE  rest[i].id[2] < rest[j].id[2]
  <2>1. i + 1 < j + 1
    BY <1>2, <1>4
  <2>2. /\ i + 1 \in 1 + 1 .. Len(order) /\ rest[i] = order[i + 1]
        /\ j + 1 \in 1 + 1 .. Len(order) /\ rest[j] = order[j + 1]
    BY <1>2
  <2> QED  BY <2>1, <2>2, <1>4 DEF Pending
<1>5. ASSUME NEW n \in from + 1 .. to, bursts[n].to = dest
      PROVE  \E i \in 0 + 1 .. Len(rest) : rest[i].id = <<mi, n>>
  <2>1. PICK i \in 1 + 1 .. Len(order) : order[i].id = <<mi, n>>
    BY <1>5 DEF Pending
  <2>2. i - 1 \in 0 + 1 .. Len(rest) /\ (i - 1) + 1 = i
    BY <1>1
  <2>3. rest[i - 1] = order[i]
    BY <2>2, <1>2
  <2> QED  BY <2>1, <2>2, <2>3
<1> QED  BY <1>3, <1>4, <1>5 DEF Pending, rest

-----------------------------------------------------------------------------
(* The books of one direction *)

\* How many of a master's bursts have been accepted, and how many of those have
\* been answered; how many of a slave's bursts it has been relieved of.
Accepted(bursts, addrs) == Len(bursts) - Len(addrs)
Answered(bursts, addrs, sjs) == (Len(bursts) - Len(addrs)) - Len(sjs)
Relieved(routed, mis) == Len(routed) - Len(mis)

ToOf(bursts) == [n \in 1 .. Len(bursts) |-> bursts[n].to]
Noted(who, b) == who[b]
WhoOf(who, routed) == [j \in 1 .. Len(routed) |-> who[routed[j]]]

\* A master's latest bursts wait for the fabric, and it waits for the slaves of
\* those before them.
Port(mi, bursts, addrs, sjs) ==
    /\ Numbered(bursts, mi) /\ addrs \in Seq(BurstSet) /\ sjs \in Seq(Dests)
    /\ Len(addrs) + Len(sjs) <= Len(bursts)
    /\ Run(addrs, bursts, Accepted(bursts, addrs))
    /\ Run(sjs, ToOf(bursts), Answered(bursts, addrs, sjs))

\* A slave works for the masters of the latest bursts it was given, and who is
\* what the fabric notes of a burst.
Route(sj, routed, mis, who, notes) ==
    /\ routed \in Seq(BurstSet) /\ mis \in Seq(notes) /\ who \in [BurstSet -> notes]
    /\ \A j \in 1 .. Len(routed) : routed[j].to = sj /\ routed[j].id[1] \in Masters
    /\ Len(mis) <= Len(routed)
    /\ Run(mis, WhoOf(who, routed), Relieved(routed, mis))

Failed(mi, errs) ==
    errs \in Seq(BurstSet) /\ \A i \in 1 .. Len(errs) : errs[i].to = NoSlave /\ errs[i].id[1] = mi

PendingAt(routed, mis, bursts, addrs, sjs, mi, sj) ==
    Pending(routed, Relieved(routed, mis), bursts, mi,
            Answered(bursts, addrs, sjs), Accepted(bursts, addrs), sj)

FailedAt(errs, bursts, addrs, sjs, mi) ==
    Pending(errs, 0, bursts, mi, Answered(bursts, addrs, sjs), Accepted(bursts, addrs), NoSlave)

BookTypes(bursts, addrs, sjs, routed, mis, notes, errs) ==
    /\ bursts \in [Masters -> Seq(BurstSet)] /\ addrs \in [Masters -> Seq(BurstSet)]
    /\ sjs \in [Masters -> Seq(Dests)] /\ errs \in [Masters -> Seq(BurstSet)]
    /\ routed \in [Slaves -> Seq(BurstSet)] /\ mis \in [Slaves -> Seq(notes)]

Book(bursts, addrs, sjs, routed, mis, who, notes, errs) ==
    /\ BookTypes(bursts, addrs, sjs, routed, mis, notes, errs)
    /\ \A mi \in Masters : Port(mi, bursts[mi], addrs[mi], sjs[mi])
    /\ \A sj \in Slaves : Route(sj, routed[sj], mis[sj], who, notes)
    /\ \A mi \in Masters : Failed(mi, errs[mi])
    /\ \A mi \in Masters : FailedAt(errs[mi], bursts[mi], addrs[mi], sjs[mi], mi)
    /\ \A mi \in Masters, sj \in Slaves :
           PendingAt(routed[sj], mis[sj], bursts[mi], addrs[mi], sjs[mi], mi, sj)

\* The counts of a port are in order.
LEMMA PortCounts ==
    ASSUME NEW mi, NEW bursts, NEW addrs, NEW sjs, Port(mi, bursts, addrs, sjs)
    PROVE  /\ Accepted(bursts, addrs) \in Nat /\ Answered(bursts, addrs, sjs) \in Nat
           /\ Accepted(bursts, addrs) = Answered(bursts, addrs, sjs) + Len(sjs)
           /\ Accepted(bursts, addrs) + Len(addrs) = Len(bursts)
           /\ Answered(bursts, addrs, sjs) <= Accepted(bursts, addrs)
           /\ Accepted(bursts, addrs) <= Len(bursts)
           /\ Len(bursts) \in Nat /\ Len(addrs) \in Nat /\ Len(sjs) \in Nat
<1>1. Len(bursts) \in Nat /\ Len(addrs) \in Nat /\ Len(sjs) \in Nat
  BY DEF Port, Numbered
<1>2. Len(addrs) + Len(sjs) <= Len(bursts)
  BY DEF Port
<1> QED  BY <1>1, <1>2 DEF Accepted, Answered

LEMMA RouteCounts ==
    ASSUME NEW sj, NEW routed, NEW mis, NEW who, NEW notes, Route(sj, routed, mis, who, notes)
    PROVE  /\ Relieved(routed, mis) \in Nat /\ Len(routed) \in Nat /\ Len(mis) \in Nat
           /\ Relieved(routed, mis) + Len(mis) = Len(routed)
           /\ Relieved(routed, mis) <= Len(routed)
BY DEF Route, Relieved

LEMMA PortOrders ==
    ASSUME NEW mi, NEW bursts, NEW addrs, NEW sjs, Port(mi, bursts, addrs, sjs),
           NEW order \in Seq(BurstSet), NEW lo \in Nat, lo <= Len(order)
    PROVE  Orders(order, lo, bursts, mi, Answered(bursts, addrs, sjs), Accepted(bursts, addrs))
<1>1. Numbered(bursts, mi)
  BY DEF Port
<1> QED  BY <1>1, PortCounts DEF Orders

\* The master issues a burst.
LEMMA PortNew ==
    ASSUME NEW mi, NEW bursts, NEW addrs, NEW sjs, Port(mi, bursts, addrs, sjs),
           NEW b \in BurstSet, b.id = <<mi, Len(bursts) + 1>>
    PROVE  /\ Port(mi, Append(bursts, b), Append(addrs, b), sjs)
           /\ Accepted(Append(bursts, b), Append(addrs, b)) = Accepted(bursts, addrs)
           /\ Answered(Append(bursts, b), Append(addrs, b), sjs) = Answered(bursts, addrs, sjs)
<1> DEFINE more == Append(bursts, b)
           longer == Append(addrs, b)
<1>1. /\ Len(bursts) \in Nat /\ Len(addrs) \in Nat /\ Len(sjs) \in Nat
      /\ Accepted(bursts, addrs) + Len(addrs) = Len(bursts)
      /\ Accepted(bursts, addrs) = Answered(bursts, addrs, sjs) + Len(sjs)
      /\ Accepted(bursts, addrs) \in Nat /\ Answered(bursts, addrs, sjs) \in Nat
  BY PortCounts
<1>2. /\ bursts \in Seq(BurstSet) /\ addrs \in Seq(BurstSet) /\ sjs \in Seq(Dests)
      /\ \A n \in 1 .. Len(bursts) : bursts[n].id = <<mi, n>>
      /\ Len(addrs) + Len(sjs) <= Len(bursts)
  BY DEF Port, Numbered
<1>3. /\ more \in Seq(BurstSet) /\ Len(more) = Len(bursts) + 1 /\ more[Len(bursts) + 1] = b
      /\ \A n \in 1 .. Len(bursts) : more[n] = bursts[n]
      /\ longer \in Seq(BurstSet) /\ Len(longer) = Len(addrs) + 1
  BY <1>2
<1> HIDE DEF more
<1>4. Numbered(more, mi)
  <2>1. ASSUME NEW n \in 1 .. Len(more)
        PROVE  more[n].id = <<mi, n>>
    <3>1. CASE n = Len(bursts) + 1
      BY <3>1, <1>3
    <3>2. CASE n # Len(bursts) + 1
      <4>1. n \in 1 .. Len(bursts)
        BY <3>2, <1>1, <1>3
      <4> QED  BY <4>1, <1>2, <1>3
    <3> QED  BY <3>1, <3>2
  <2> QED  BY <2>1, <1>3 DEF Numbered
<1>5. /\ Accepted(more, longer) = Accepted(bursts, addrs)
      /\ Answered(more, longer, sjs) = Answered(bursts, addrs, sjs)
  BY <1>1, <1>3 DEF Accepted, Answered
<1>6. Run(addrs, more, Accepted(bursts, addrs))
  <2>1. Run(addrs, bursts, Accepted(bursts, addrs))
    BY DEF Port
  <2>2. Accepted(bursts, addrs) + Len(addrs) <= Len(bursts)
    BY <1>1
  <2> QED  BY <2>1, <2>2, <1>1, <1>2, <1>3, RunGrow
<1>7. Run(longer, more, Accepted(bursts, addrs))
  <2>1. b = more[(Accepted(bursts, addrs) + Len(addrs)) + 1]
    BY <1>1, <1>3
  <2> QED  BY <2>1, <1>2, <1>6, RunAppend
<1>8. Run(sjs, ToOf(more), Answered(bursts, addrs, sjs))
  <2>1. Run(sjs, ToOf(bursts), Answered(bursts, addrs, sjs))
    BY DEF Port
  <2>2. Answered(bursts, addrs, sjs) + Len(sjs) <= Len(bursts)
    BY <1>1
  <2>3. \A n \in 1 .. Len(bursts) : ToOf(more)[n] = ToOf(bursts)[n]
    BY <1>1, <1>3 DEF ToOf
  <2> QED  BY <2>1, <2>2, <2>3, <1>1, <1>2, RunGrow
<1>9. Len(longer) + Len(sjs) <= Len(more)
  BY <1>1, <1>2, <1>3
<1> HIDE DEF longer
<1>10. Port(mi, more, longer, sjs)
  BY <1>2, <1>3, <1>4, <1>5, <1>7, <1>8, <1>9 DEF Port
<1> QED  BY <1>5, <1>10 DEF more, longer

\* The fabric accepts a burst of it.
LEMMA PortRoute ==
    ASSUME NEW mi, NEW bursts, NEW addrs, NEW sjs, Port(mi, bursts, addrs, sjs), addrs # <<>>
    PROVE  LET rest == Tail(addrs)
               more == Append(sjs, Head(addrs).to)
           IN  /\ Port(mi, bursts, rest, more)
               /\ Accepted(bursts, addrs) < Len(bursts)
               /\ Head(addrs) = After(bursts, Accepted(bursts, addrs)) /\ Head(addrs) \in BurstSet
               /\ Head(addrs).id[1] = mi
               /\ Accepted(bursts, rest) = Accepted(bursts, addrs) + 1
               /\ Answered(bursts, rest, more) = Answered(bursts, addrs, sjs)
<1> DEFINE rest == Tail(addrs)
           b == Head(addrs)
           more == Append(sjs, b.to)
           n == Accepted(bursts, addrs)
<1>1. /\ Len(bursts) \in Nat /\ Len(addrs) \in Nat /\ Len(sjs) \in Nat
      /\ n + Len(addrs) = Len(bursts)
      /\ n = Answered(bursts, addrs, sjs) + Len(sjs)
      /\ n \in Nat /\ Answered(bursts, addrs, sjs) \in Nat
  BY PortCounts
<1>2. /\ bursts \in Seq(BurstSet) /\ addrs \in Seq(BurstSet) /\ sjs \in Seq(Dests)
      /\ \A i \in 1 .. Len(bursts) : bursts[i].id = <<mi, i>>
      /\ Len(addrs) + Len(sjs) <= Len(bursts)
      /\ Run(addrs, bursts, n)
      /\ Run(sjs, ToOf(bursts), Answered(bursts, addrs, sjs))
  BY DEF Port, Numbered
<1>3. rest \in Seq(BurstSet) /\ Len(rest) = Len(addrs) - 1 /\ Len(addrs) >= 1
  BY <1>2
<1>4. b = After(bursts, n) /\ Run(rest, bursts, n + 1)
  BY <1>2, RunTail DEF After
<1>5. n + 1 \in 1 .. Len(bursts)
  BY <1>1, <1>3
<1> HIDE DEF b, rest, n
<1>6. b \in BurstSet /\ b.id = <<mi, n + 1>> /\ b.to \in Dests
  <2>1. b \in BurstSet /\ b.id = <<mi, n + 1>>
    BY <1>2, <1>4, <1>5 DEF After
  <2> QED  BY <2>1 DEF BurstSet
<1>7. more \in Seq(Dests) /\ Len(more) = Len(sjs) + 1
  BY <1>2, <1>6
<1>8. /\ Accepted(bursts, rest) = n + 1
      /\ Answered(bursts, rest, more) = Answered(bursts, addrs, sjs)
  BY <1>1, <1>3, <1>7 DEF Accepted, Answered, n
<1>9. Run(more, ToOf(bursts), Answered(bursts, addrs, sjs))
  <2>1. b.to = ToOf(bursts)[(Answered(bursts, addrs, sjs) + Len(sjs)) + 1]
    BY <1>1, <1>4, <1>5 DEF ToOf, After
  <2> QED  BY <2>1, <1>2, <1>6, RunAppend
<1>10. Len(rest) + Len(more) <= Len(bursts)
  BY <1>1, <1>2, <1>3, <1>7
<1> HIDE DEF more
<1>11. Numbered(bursts, mi)
  BY DEF Port
<1>12. Port(mi, bursts, rest, more)
  BY <1>3, <1>4, <1>7, <1>8, <1>9, <1>10, <1>11 DEF Port
<1>13. b.id[1] = mi
  BY <1>6
<1>14. n < Len(bursts)
  BY <1>1, <1>5
<1> QED  BY <1>4, <1>6, <1>8, <1>12, <1>13, <1>14 DEF rest, more, b, n

\* Its oldest burst without an answer: the slave it names is the one waited for.
LEMMA PortFirst ==
    ASSUME NEW mi, NEW bursts, NEW addrs, NEW sjs, Port(mi, bursts, addrs, sjs), sjs # <<>>
    PROVE  /\ Answered(bursts, addrs, sjs) < Accepted(bursts, addrs)
           /\ Answered(bursts, addrs, sjs) < Len(bursts)
           /\ Answered(bursts, addrs, sjs) \in Nat
           /\ Head(sjs) = After(bursts, Answered(bursts, addrs, sjs)).to
           /\ After(bursts, Answered(bursts, addrs, sjs)) \in BurstSet
           /\ Answered(bursts, addrs, Tail(sjs)) = Answered(bursts, addrs, sjs) + 1
<1> DEFINE n == Answered(bursts, addrs, sjs)
<1>1. /\ Len(bursts) \in Nat /\ Len(addrs) \in Nat /\ Len(sjs) \in Nat
      /\ Accepted(bursts, addrs) = n + Len(sjs) /\ Accepted(bursts, addrs) <= Len(bursts)
      /\ n \in Nat /\ Accepted(bursts, addrs) \in Nat
  BY PortCounts
<1>2. /\ sjs \in Seq(Dests) /\ bursts \in Seq(BurstSet) /\ Run(sjs, ToOf(bursts), n)
  BY DEF Port, Numbered
<1>3. Len(Tail(sjs)) = Len(sjs) - 1 /\ Len(sjs) >= 1
  BY <1>2
<1>4. Head(sjs) = ToOf(bursts)[n + 1]
  BY <1>2, RunTail
<1> HIDE DEF n
<1>5. n + 1 \in 1 .. Len(bursts) /\ n < Accepted(bursts, addrs) /\ n < Len(bursts)
  BY <1>1, <1>3
<1>6. Head(sjs) = After(bursts, n).to /\ After(bursts, n) \in BurstSet
  BY <1>2, <1>4, <1>5 DEF ToOf, After
<1>7. Answered(bursts, addrs, Tail(sjs)) = n + 1
  BY <1>1, <1>3 DEF Answered, n
<1> QED  BY <1>1, <1>5, <1>6, <1>7 DEF n

\* That burst is answered.
LEMMA PortDone ==
    ASSUME NEW mi, NEW bursts, NEW addrs, NEW sjs, Port(mi, bursts, addrs, sjs), sjs # <<>>
    PROVE  Port(mi, bursts, addrs, Tail(sjs))
<1>1. /\ sjs \in Seq(Dests) /\ addrs \in Seq(BurstSet) /\ Numbered(bursts, mi)
      /\ Len(addrs) + Len(sjs) <= Len(bursts)
      /\ Run(addrs, bursts, Accepted(bursts, addrs))
      /\ Run(sjs, ToOf(bursts), Answered(bursts, addrs, sjs))
  BY DEF Port
<1>2. /\ Tail(sjs) \in Seq(Dests) /\ Len(Tail(sjs)) = Len(sjs) - 1
      /\ Len(sjs) \in Nat /\ Len(addrs) \in Nat /\ Len(bursts) \in Nat
  BY <1>1 DEF Numbered
<1>3. Run(Tail(sjs), ToOf(bursts), Answered(bursts, addrs, sjs) + 1)
  BY <1>1, RunTail
<1>4. Answered(bursts, addrs, Tail(sjs)) = Answered(bursts, addrs, sjs) + 1
  BY PortFirst
<1>5. Len(addrs) + Len(Tail(sjs)) <= Len(bursts)
  BY <1>1, <1>2
<1> QED  BY <1>1, <1>2, <1>3, <1>4, <1>5 DEF Port

\* A slave is given a burst.
LEMMA RouteEnq ==
    ASSUME NEW sj, NEW routed, NEW mis, NEW who, NEW notes, Route(sj, routed, mis, who, notes),
           NEW b \in BurstSet, b.to = sj, b.id[1] \in Masters
    PROVE  /\ Route(sj, Append(routed, b), Append(mis, who[b]), who, notes)
           /\ Relieved(Append(routed, b), Append(mis, who[b])) = Relieved(routed, mis)
<1> DEFINE more == Append(routed, b)
           longer == Append(mis, who[b])
           n == Relieved(routed, mis)
<1>1. n \in Nat /\ Len(routed) \in Nat /\ Len(mis) \in Nat /\ n + Len(mis) = Len(routed)
  BY RouteCounts
<1>2. /\ routed \in Seq(BurstSet) /\ mis \in Seq(notes) /\ who \in [BurstSet -> notes]
      /\ \A j \in 1 .. Len(routed) : routed[j].to = sj /\ routed[j].id[1] \in Masters
      /\ Run(mis, WhoOf(who, routed), n)
  BY DEF Route
<1>3. /\ more \in Seq(BurstSet) /\ Len(more) = Len(routed) + 1 /\ more[Len(routed) + 1] = b
      /\ \A j \in 1 .. Len(routed) : more[j] = routed[j]
  BY <1>2
<1>4. who[b] \in notes
  BY <1>2
<1>5. longer \in Seq(notes) /\ Len(longer) = Len(mis) + 1
  BY <1>2, <1>4
<1> HIDE DEF n
<1>6. Relieved(more, longer) = n
  BY <1>1, <1>3, <1>5 DEF Relieved, n
<1> HIDE DEF more
<1>7. Run(longer, WhoOf(who, more), n)
  <2>1. \A j \in 1 .. Len(routed) : WhoOf(who, more)[j] = WhoOf(who, routed)[j]
    BY <1>1, <1>3 DEF WhoOf
  <2>2. n + Len(mis) <= Len(routed)
    BY <1>1
  <2>3. Run(mis, WhoOf(who, more), n)
    BY <2>1, <2>2, <1>1, <1>2, RunGrow
  <2>4. who[b] = WhoOf(who, more)[(n + Len(mis)) + 1]
    BY <1>1, <1>3 DEF WhoOf
  <2> QED  BY <2>3, <2>4, <1>2, <1>4, RunAppend
<1>8. Len(longer) <= Len(more)
  BY <1>1, <1>3, <1>5
<1>9. \A j \in 1 .. Len(more) : more[j].to = sj /\ more[j].id[1] \in Masters
  <2> TAKE j \in 1 .. Len(more)
  <2>1. CASE j = Len(routed) + 1
    BY <2>1, <1>3
  <2>2. CASE j # Len(routed) + 1
    <3>1. j \in 1 .. Len(routed)
      BY <2>2, <1>1, <1>3
    <3> QED  BY <3>1, <1>2, <1>3
  <2> QED  BY <2>1, <2>2
<1> HIDE DEF longer
<1>10. Route(sj, more, longer, who, notes)
  BY <1>2, <1>3, <1>5, <1>6, <1>7, <1>8, <1>9 DEF Route
<1> QED  BY <1>6, <1>10 DEF more, longer, n

\* The oldest burst it works at is the one noted first.
LEMMA RouteFirst ==
    ASSUME NEW sj, NEW routed, NEW mis, NEW who, NEW notes, Route(sj, routed, mis, who, notes),
           mis # <<>>
    PROVE  /\ Relieved(routed, mis) < Len(routed)
           /\ Head(mis) = Noted(who, After(routed, Relieved(routed, mis)))
           /\ After(routed, Relieved(routed, mis)) \in BurstSet
           /\ Relieved(routed, Tail(mis)) = Relieved(routed, mis) + 1
<1> DEFINE n == Relieved(routed, mis)
<1>1. n \in Nat /\ Len(routed) \in Nat /\ Len(mis) \in Nat /\ n + Len(mis) = Len(routed)
  BY RouteCounts
<1>2. /\ routed \in Seq(BurstSet) /\ mis \in Seq(notes) /\ Run(mis, WhoOf(who, routed), n)
  BY DEF Route
<1>3. Len(Tail(mis)) = Len(mis) - 1 /\ Len(mis) >= 1
  BY <1>2
<1>4. Head(mis) = WhoOf(who, routed)[n + 1]
  BY <1>2, RunTail
<1> HIDE DEF n
<1>5. n + 1 \in 1 .. Len(routed) /\ n < Len(routed)
  BY <1>1, <1>3
<1>6. Head(mis) = Noted(who, After(routed, n)) /\ After(routed, n) \in BurstSet
  BY <1>2, <1>4, <1>5 DEF WhoOf, Noted, After
<1>7. Relieved(routed, Tail(mis)) = n + 1
  BY <1>1, <1>3 DEF Relieved, n
<1> QED  BY <1>5, <1>6, <1>7 DEF n

\* It is relieved of that one.
LEMMA RouteDeq ==
    ASSUME NEW sj, NEW routed, NEW mis, NEW who, NEW notes, Route(sj, routed, mis, who, notes),
           mis # <<>>
    PROVE  Route(sj, routed, Tail(mis), who, notes)
<1>1. /\ routed \in Seq(BurstSet) /\ mis \in Seq(notes) /\ who \in [BurstSet -> notes]
      /\ \A j \in 1 .. Len(routed) : routed[j].to = sj /\ routed[j].id[1] \in Masters
      /\ Len(mis) <= Len(routed)
      /\ Run(mis, WhoOf(who, routed), Relieved(routed, mis))
  BY DEF Route
<1>2. /\ Tail(mis) \in Seq(notes) /\ Len(Tail(mis)) = Len(mis) - 1
      /\ Len(mis) \in Nat /\ Len(routed) \in Nat
  BY <1>1
<1>3. Run(Tail(mis), WhoOf(who, routed), Relieved(routed, mis) + 1)
  BY <1>1, RunTail
<1>4. Relieved(routed, Tail(mis)) = Relieved(routed, mis) + 1
  BY RouteFirst
<1>5. Len(Tail(mis)) <= Len(routed)
  BY <1>1, <1>2
<1> QED  BY <1>1, <1>2, <1>3, <1>4, <1>5 DEF Route

LEMMA NoSlaveIsNone == NoSlave \notin Slaves
BY FabricAssumption DEF NoSlave, Slaves

\* What the books say of one master and one slave, in the terms of the lemmas
\* about their orders.
LEMMA BookOrders ==
    ASSUME NEW bursts, NEW addrs, NEW sjs, NEW routed, NEW mis, NEW who, NEW notes, NEW errs,
           Book(bursts, addrs, sjs, routed, mis, who, notes, errs), NEW mi \in Masters
    PROVE  LET from == Answered(bursts[mi], addrs[mi], sjs[mi])
               to == Accepted(bursts[mi], addrs[mi])
           IN  /\ Orders(errs[mi], 0, bursts[mi], mi, from, to)
               /\ Pending(errs[mi], 0, bursts[mi], mi, from, to, NoSlave)
               /\ \A sj \in Slaves :
                      LET lo == Relieved(routed[sj], mis[sj])
                      IN  /\ Orders(routed[sj], lo, bursts[mi], mi, from, to)
                          /\ Pending(routed[sj], lo, bursts[mi], mi, from, to, sj)
<1>1. Port(mi, bursts[mi], addrs[mi], sjs[mi]) /\ Failed(mi, errs[mi])
  BY DEF Book
<1>2. errs[mi] \in Seq(BurstSet) /\ Len(errs[mi]) \in Nat
  BY <1>1 DEF Failed
<1>3. /\ Orders(errs[mi], 0, bursts[mi], mi, Answered(bursts[mi], addrs[mi], sjs[mi]),
                Accepted(bursts[mi], addrs[mi]))
  BY <1>1, <1>2, PortOrders
<1>4. ASSUME NEW sj \in Slaves
      PROVE  Orders(routed[sj], Relieved(routed[sj], mis[sj]), bursts[mi], mi,
                    Answered(bursts[mi], addrs[mi], sjs[mi]), Accepted(bursts[mi], addrs[mi]))
  <2>1. Route(sj, routed[sj], mis[sj], who, notes)
    BY DEF Book
  <2>2. routed[sj] \in Seq(BurstSet)
    BY <2>1 DEF Route
  <2> QED  BY <2>1, <2>2, <1>1, RouteCounts, PortOrders
<1> QED  BY <1>3, <1>4 DEF Book, PendingAt, FailedAt

\* A master issues a burst.
LEMMA BookNew ==
    ASSUME NEW bursts, NEW addrs, NEW sjs, NEW routed, NEW mis, NEW who, NEW notes, NEW errs,
           Book(bursts, addrs, sjs, routed, mis, who, notes, errs), NEW mi \in Masters,
           NEW b \in BurstSet, b.id = <<mi, Len(bursts[mi]) + 1>>
    PROVE  Book([bursts EXCEPT ![mi] = Append(@, b)], [addrs EXCEPT ![mi] = Append(@, b)],
                sjs, routed, mis, who, notes, errs)
<1> DEFINE bursts2 == [bursts EXCEPT ![mi] = Append(@, b)]
           addrs2 == [addrs EXCEPT ![mi] = Append(@, b)]
           from == Answered(bursts[mi], addrs[mi], sjs[mi])
           to == Accepted(bursts[mi], addrs[mi])
<1>1. /\ bursts \in [Masters -> Seq(BurstSet)] /\ addrs \in [Masters -> Seq(BurstSet)]
  BY DEF Book, BookTypes
<1>2. /\ bursts2[mi] = Append(bursts[mi], b) /\ addrs2[mi] = Append(addrs[mi], b)
      /\ \A m \in Masters : m # mi => bursts2[m] = bursts[m] /\ addrs2[m] = addrs[m]
  BY <1>1
<1>3. BookTypes(bursts2, addrs2, sjs, routed, mis, notes, errs)
  <2>1. bursts[mi] \in Seq(BurstSet) /\ addrs[mi] \in Seq(BurstSet)
    BY <1>1
  <2>2. Append(bursts[mi], b) \in Seq(BurstSet) /\ Append(addrs[mi], b) \in Seq(BurstSet)
    BY <2>1
  <2> QED  BY <2>2 DEF Book, BookTypes
<1> HIDE DEF bursts2, addrs2
<1>4. /\ Port(mi, bursts2[mi], addrs2[mi], sjs[mi])
      /\ Accepted(bursts2[mi], addrs2[mi]) = to
      /\ Answered(bursts2[mi], addrs2[mi], sjs[mi]) = from
  <2>1. Port(mi, bursts[mi], addrs[mi], sjs[mi])
    BY DEF Book
  <2> QED  BY <2>1, <1>2, PortNew
<1>5. /\ Orders(errs[mi], 0, bursts[mi], mi, from, to)
      /\ Pending(errs[mi], 0, bursts[mi], mi, from, to, NoSlave)
      /\ \A sj \in Slaves :
             LET lo == Relieved(routed[sj], mis[sj])
             IN  /\ Orders(routed[sj], lo, bursts[mi], mi, from, to)
                 /\ Pending(routed[sj], lo, bursts[mi], mi, from, to, sj)
  BY BookOrders
<1> HIDE DEF from, to
<1>6. \A m \in Masters : Port(m, bursts2[m], addrs2[m], sjs[m])
  BY <1>2, <1>4 DEF Book
<1>7. \A m \in Masters : FailedAt(errs[m], bursts2[m], addrs2[m], sjs[m], m)
  <2> TAKE m \in Masters
  <2>1. CASE m = mi
    <3>1. Pending(errs[mi], 0, bursts2[mi], mi, from, to, NoSlave)
      BY <1>2, <1>5, PendingGrow
    <3> QED  BY <2>1, <3>1, <1>4 DEF FailedAt
  <2>2. CASE m # mi
    BY <2>2, <1>2 DEF Book
  <2> QED  BY <2>1, <2>2
<1>8. \A m \in Masters, s \in Slaves :
        PendingAt(routed[s], mis[s], bursts2[m], addrs2[m], sjs[m], m, s)
  <2> TAKE m \in Masters, s \in Slaves
  <2>1. CASE m = mi
    <3>1. Pending(routed[s], Relieved(routed[s], mis[s]), bursts2[mi], mi, from, to, s)
      BY <1>2, <1>5, PendingGrow
    <3> QED  BY <2>1, <3>1, <1>4 DEF PendingAt
  <2>2. CASE m # mi
    BY <2>2, <1>2 DEF Book
  <2> QED  BY <2>1, <2>2
<1> QED  BY <1>3, <1>6, <1>7, <1>8 DEF Book, bursts2, addrs2

\* The fabric passes a burst to a slave.
LEMMA BookRoute ==
    ASSUME NEW bursts, NEW addrs, NEW sjs, NEW routed, NEW mis, NEW who, NEW notes, NEW errs,
           Book(bursts, addrs, sjs, routed, mis, who, notes, errs), NEW mi \in Masters,
           NEW sj \in Slaves, addrs[mi] # <<>>, Head(addrs[mi]).to = sj
    PROVE  Book(bursts, [addrs EXCEPT ![mi] = Tail(@)], [sjs EXCEPT ![mi] = Append(@, sj)],
                [routed EXCEPT ![sj] = Append(@, Head(addrs[mi]))],
                [mis EXCEPT ![sj] = Append(@, who[Head(addrs[mi])])], who, notes, errs)
<1> DEFINE b == Head(addrs[mi])
           addrs2 == [addrs EXCEPT ![mi] = Tail(@)]
           sjs2 == [sjs EXCEPT ![mi] = Append(@, sj)]
           routed2 == [routed EXCEPT ![sj] = Append(@, b)]
           mis2 == [mis EXCEPT ![sj] = Append(@, who[b])]
           from == Answered(bursts[mi], addrs[mi], sjs[mi])
           to == Accepted(bursts[mi], addrs[mi])
<1>1. /\ addrs \in [Masters -> Seq(BurstSet)] /\ sjs \in [Masters -> Seq(Dests)]
      /\ routed \in [Slaves -> Seq(BurstSet)] /\ mis \in [Slaves -> Seq(notes)]
  BY DEF Book, BookTypes
<1> HIDE DEF b
<1>2. /\ addrs2[mi] = Tail(addrs[mi]) /\ sjs2[mi] = Append(sjs[mi], sj)
      /\ routed2[sj] = Append(routed[sj], b) /\ mis2[sj] = Append(mis[sj], who[b])
      /\ \A m \in Masters : m # mi => addrs2[m] = addrs[m] /\ sjs2[m] = sjs[m]
      /\ \A s \in Slaves : s # sj => routed2[s] = routed[s] /\ mis2[s] = mis[s]
  BY <1>1
<1>3. /\ Port(mi, bursts[mi], addrs2[mi], sjs2[mi])
      /\ b = After(bursts[mi], to) /\ b \in BurstSet /\ b.id[1] = mi /\ b.to = sj
      /\ to < Len(bursts[mi])
      /\ Accepted(bursts[mi], addrs2[mi]) = to + 1
      /\ Answered(bursts[mi], addrs2[mi], sjs2[mi]) = from
  <2>1. Port(mi, bursts[mi], addrs[mi], sjs[mi])
    BY DEF Book
  <2> QED  BY <2>1, <1>2, PortRoute DEF b
<1>4. /\ Route(sj, routed2[sj], mis2[sj], who, notes)
      /\ Relieved(routed2[sj], mis2[sj]) = Relieved(routed[sj], mis[sj])
  <2>1. Route(sj, routed[sj], mis[sj], who, notes)
    BY DEF Book
  <2> QED  BY <2>1, <1>2, <1>3, RouteEnq
<1>5. BookTypes(bursts, addrs2, sjs2, routed2, mis2, notes, errs)
  <2>1. /\ Tail(addrs[mi]) \in Seq(BurstSet) /\ Append(sjs[mi], sj) \in Seq(Dests)
        /\ Append(routed[sj], b) \in Seq(BurstSet)
    <3>1. addrs[mi] \in Seq(BurstSet) /\ sjs[mi] \in Seq(Dests) /\ routed[sj] \in Seq(BurstSet)
      BY <1>1
    <3>2. sj \in Dests
      BY DEF Dests
    <3> QED  BY <3>1, <3>2, <1>3
  <2>2. Append(mis[sj], who[b]) \in Seq(notes)
    BY <1>2, <1>4 DEF Route
  <2> QED  BY <2>1, <2>2 DEF Book, BookTypes
<1>6. /\ Orders(errs[mi], 0, bursts[mi], mi, from, to)
      /\ Pending(errs[mi], 0, bursts[mi], mi, from, to, NoSlave)
      /\ \A s \in Slaves :
             LET lo == Relieved(routed[s], mis[s])
             IN  /\ Orders(routed[s], lo, bursts[mi], mi, from, to)
                 /\ Pending(routed[s], lo, bursts[mi], mi, from, to, s)
  BY BookOrders
<1> HIDE DEF addrs2, sjs2, routed2, mis2, from, to
<1>7. \A m \in Masters : Port(m, bursts[m], addrs2[m], sjs2[m])
  BY <1>2, <1>3 DEF Book
<1>8. \A s \in Slaves : Route(s, routed2[s], mis2[s], who, notes)
  BY <1>2, <1>4 DEF Book
<1>9. \A m \in Masters : FailedAt(errs[m], bursts[m], addrs2[m], sjs2[m], m)
  <2> TAKE m \in Masters
  <2>1. CASE m = mi
    <3>1. After(bursts[mi], to).to # NoSlave
      BY <1>3, NoSlaveIsNone
    <3>2. Pending(errs[mi], 0, bursts[mi], mi, from, to + 1, NoSlave)
      BY <3>1, <1>3, <1>6, PendingElsewhere
    <3> QED  BY <2>1, <3>2, <1>3 DEF FailedAt
  <2>2. CASE m # mi
    BY <2>2, <1>2 DEF Book
  <2> QED  BY <2>1, <2>2
<1>10. \A m \in Masters, s \in Slaves :
         PendingAt(routed2[s], mis2[s], bursts[m], addrs2[m], sjs2[m], m, s)
  <2> TAKE m \in Masters, s \in Slaves
  <2>1. CASE m = mi /\ s = sj
    <3>1. Pending(routed2[sj], Relieved(routed[sj], mis[sj]), bursts[mi], mi, from, to + 1, sj)
      BY <1>2, <1>3, <1>6, PendingEnq
    <3> QED  BY <2>1, <3>1, <1>3, <1>4 DEF PendingAt
  <2>2. CASE m = mi /\ s # sj
    <3>1. Pending(routed[s], Relieved(routed[s], mis[s]), bursts[mi], mi, from, to + 1, s)
      BY <2>2, <1>3, <1>6, PendingElsewhere
    <3> QED  BY <2>2, <3>1, <1>2, <1>3 DEF PendingAt
  <2>3. CASE m # mi /\ s = sj
    <3> DEFINE lo == Relieved(routed[sj], mis[sj])
               mfrom == Answered(bursts[m], addrs[m], sjs[m])
               mto == Accepted(bursts[m], addrs[m])
    <3>1. /\ Orders(routed[sj], lo, bursts[m], m, mfrom, mto)
          /\ Pending(routed[sj], lo, bursts[m], m, mfrom, mto, sj)
      BY BookOrders
    <3> HIDE DEF lo, mfrom, mto
    <3>2. Pending(routed2[sj], lo, bursts[m], m, mfrom, mto, sj)
      BY <2>3, <3>1, <1>2, <1>3, PendingOther
    <3> QED  BY <2>3, <3>2, <1>2, <1>4 DEF PendingAt, lo, mfrom, mto
  <2>4. CASE m # mi /\ s # sj
    BY <2>4, <1>2 DEF Book
  <2> QED  BY <2>1, <2>2, <2>3, <2>4
<1>11. \A m \in Masters : Failed(m, errs[m])
  BY DEF Book
<1> QED  BY <1>5, <1>7, <1>8, <1>9, <1>10, <1>11 DEF Book, addrs2, sjs2, routed2, mis2, b

\* The fabric notes a burst without a slave.
LEMMA BookFail ==
    ASSUME NEW bursts, NEW addrs, NEW sjs, NEW routed, NEW mis, NEW who, NEW notes, NEW errs,
           Book(bursts, addrs, sjs, routed, mis, who, notes, errs), NEW mi \in Masters,
           addrs[mi] # <<>>, Head(addrs[mi]).to = NoSlave
    PROVE  Book(bursts, [addrs EXCEPT ![mi] = Tail(@)], [sjs EXCEPT ![mi] = Append(@, NoSlave)],
                routed, mis, who, notes, [errs EXCEPT ![mi] = Append(@, Head(addrs[mi]))])
<1> DEFINE b == Head(addrs[mi])
           addrs2 == [addrs EXCEPT ![mi] = Tail(@)]
           sjs2 == [sjs EXCEPT ![mi] = Append(@, NoSlave)]
           errs2 == [errs EXCEPT ![mi] = Append(@, b)]
           from == Answered(bursts[mi], addrs[mi], sjs[mi])
           to == Accepted(bursts[mi], addrs[mi])
<1>1. /\ addrs \in [Masters -> Seq(BurstSet)] /\ sjs \in [Masters -> Seq(Dests)]
      /\ errs \in [Masters -> Seq(BurstSet)]
  BY DEF Book, BookTypes
<1> HIDE DEF b
<1>2. /\ addrs2[mi] = Tail(addrs[mi]) /\ sjs2[mi] = Append(sjs[mi], NoSlave)
      /\ errs2[mi] = Append(errs[mi], b)
      /\ \A m \in Masters :
             m # mi => addrs2[m] = addrs[m] /\ sjs2[m] = sjs[m] /\ errs2[m] = errs[m]
  BY <1>1
<1>3. /\ Port(mi, bursts[mi], addrs2[mi], sjs2[mi])
      /\ b = After(bursts[mi], to) /\ b \in BurstSet /\ b.id[1] = mi /\ b.to = NoSlave
      /\ to < Len(bursts[mi])
      /\ Accepted(bursts[mi], addrs2[mi]) = to + 1
      /\ Answered(bursts[mi], addrs2[mi], sjs2[mi]) = from
  <2>1. Port(mi, bursts[mi], addrs[mi], sjs[mi])
    BY DEF Book
  <2> QED  BY <2>1, <1>2, PortRoute DEF b
<1>4. BookTypes(bursts, addrs2, sjs2, routed, mis, notes, errs2)
  <2>1. addrs[mi] \in Seq(BurstSet) /\ sjs[mi] \in Seq(Dests) /\ errs[mi] \in Seq(BurstSet)
    BY <1>1
  <2>2. NoSlave \in Dests
    BY DEF Dests
  <2>3. /\ Tail(addrs[mi]) \in Seq(BurstSet) /\ Append(sjs[mi], NoSlave) \in Seq(Dests)
        /\ Append(errs[mi], b) \in Seq(BurstSet)
    BY <2>1, <2>2, <1>3
  <2> QED  BY <2>3 DEF Book, BookTypes
<1>5. /\ Orders(errs[mi], 0, bursts[mi], mi, from, to)
      /\ Pending(errs[mi], 0, bursts[mi], mi, from, to, NoSlave)
      /\ \A s \in Slaves :
             LET lo == Relieved(routed[s], mis[s])
             IN  /\ Orders(routed[s], lo, bursts[mi], mi, from, to)
                 /\ Pending(routed[s], lo, bursts[mi], mi, from, to, s)
  BY BookOrders
<1> HIDE DEF addrs2, sjs2, errs2, from, to
<1>6. \A m \in Masters : Port(m, bursts[m], addrs2[m], sjs2[m])
  BY <1>2, <1>3 DEF Book
<1>7. \A m \in Masters : Failed(m, errs2[m])
  <2> TAKE m \in Masters
  <2>1. Failed(m, errs[m])
    BY DEF Book
  <2>2. CASE m = mi
    <3>1. /\ errs[mi] \in Seq(BurstSet) /\ Len(errs[mi]) \in Nat
          /\ \A i \in 1 .. Len(errs[mi]) : errs[mi][i].to = NoSlave /\ errs[mi][i].id[1] = mi
      BY <2>1, <2>2 DEF Failed
    <3>2. /\ errs2[mi] \in Seq(BurstSet) /\ Len(errs2[mi]) = Len(errs[mi]) + 1
          /\ errs2[mi][Len(errs[mi]) + 1] = b
          /\ \A i \in 1 .. Len(errs[mi]) : errs2[mi][i] = errs[mi][i]
      BY <3>1, <1>2, <1>3
    <3>3. ASSUME NEW i \in 1 .. Len(errs2[mi]), i # Len(errs[mi]) + 1
          PROVE  i \in 1 .. Len(errs[mi])
      BY <3>1, <3>2, <3>3
    <3>4. \A i \in 1 .. Len(errs2[mi]) : errs2[mi][i].to = NoSlave /\ errs2[mi][i].id[1] = mi
      BY <3>1, <3>2, <3>3, <1>3
    <3>5. Failed(mi, errs2[mi])
      BY <3>2, <3>4 DEF Failed
    <3> QED  BY <2>2, <3>5
  <2>3. CASE m # mi
    BY <2>1, <2>3, <1>2
  <2> QED  BY <2>2, <2>3
<1>8. \A m \in Masters : FailedAt(errs2[m], bursts[m], addrs2[m], sjs2[m], m)
  <2> TAKE m \in Masters
  <2>1. CASE m = mi
    <3>1. Pending(errs2[mi], 0, bursts[mi], mi, from, to + 1, NoSlave)
      BY <1>2, <1>3, <1>5, PendingEnq
    <3> QED  BY <2>1, <3>1, <1>3 DEF FailedAt
  <2>2. CASE m # mi
    BY <2>2, <1>2 DEF Book
  <2> QED  BY <2>1, <2>2
<1>9. \A m \in Masters, s \in Slaves :
        PendingAt(routed[s], mis[s], bursts[m], addrs2[m], sjs2[m], m, s)
  <2> TAKE m \in Masters, s \in Slaves
  <2>1. CASE m = mi
    <3>1. After(bursts[mi], to).to # s
      BY <1>3, NoSlaveIsNone
    <3>2. Pending(routed[s], Relieved(routed[s], mis[s]), bursts[mi], mi, from, to + 1, s)
      BY <3>1, <1>3, <1>5, PendingElsewhere
    <3> QED  BY <2>1, <3>2, <1>3 DEF PendingAt
  <2>2. CASE m # mi
    BY <2>2, <1>2 DEF Book
  <2> QED  BY <2>1, <2>2
<1>10. \A s \in Slaves : Route(s, routed[s], mis[s], who, notes)
  BY DEF Book
<1> QED  BY <1>4, <1>6, <1>7, <1>8, <1>9, <1>10 DEF Book, addrs2, sjs2, errs2, b

\* A master and a slave whose heads name each other mean the same burst.
LEMMA BookFirst ==
    ASSUME NEW bursts, NEW addrs, NEW sjs, NEW routed, NEW mis, NEW who, NEW notes, NEW errs,
           Book(bursts, addrs, sjs, routed, mis, who, notes, errs), NEW mi \in Masters,
           NEW sj \in Slaves, sjs[mi] # <<>>, Head(sjs[mi]) = sj, mis[sj] # <<>>,
           After(routed[sj], Relieved(routed[sj], mis[sj])).id[1] = mi
    PROVE  After(routed[sj], Relieved(routed[sj], mis[sj]))
               = After(bursts[mi], Answered(bursts[mi], addrs[mi], sjs[mi]))
<1> DEFINE from == Answered(bursts[mi], addrs[mi], sjs[mi])
           to == Accepted(bursts[mi], addrs[mi])
           lo == Relieved(routed[sj], mis[sj])
<1>1. /\ Orders(routed[sj], lo, bursts[mi], mi, from, to)
      /\ Pending(routed[sj], lo, bursts[mi], mi, from, to, sj)
  BY BookOrders
<1>2. from < to /\ After(bursts[mi], from).to = sj
  <2>1. Port(mi, bursts[mi], addrs[mi], sjs[mi])
    BY DEF Book
  <2> QED  BY <2>1, PortFirst
<1>3. After(routed[sj], lo).id[1] = mi
  OBVIOUS
<1> HIDE DEF from, to, lo
<1>4. After(routed[sj], lo) = After(bursts[mi], from)
  BY <1>1, <1>2, <1>3, PendingHead
<1> QED  BY <1>4 DEF lo, from

\* They are done with it.
LEMMA BookDone ==
    ASSUME NEW bursts, NEW addrs, NEW sjs, NEW routed, NEW mis, NEW who, NEW notes, NEW errs,
           Book(bursts, addrs, sjs, routed, mis, who, notes, errs), NEW mi \in Masters,
           NEW sj \in Slaves, sjs[mi] # <<>>, Head(sjs[mi]) = sj, mis[sj] # <<>>,
           After(routed[sj], Relieved(routed[sj], mis[sj])).id[1] = mi
    PROVE  Book(bursts, addrs, [sjs EXCEPT ![mi] = Tail(@)], routed,
                [mis EXCEPT ![sj] = Tail(@)], who, notes, errs)
<1> DEFINE sjs2 == [sjs EXCEPT ![mi] = Tail(@)]
           mis2 == [mis EXCEPT ![sj] = Tail(@)]
           from == Answered(bursts[mi], addrs[mi], sjs[mi])
           to == Accepted(bursts[mi], addrs[mi])
           lo == Relieved(routed[sj], mis[sj])
<1>1. sjs \in [Masters -> Seq(Dests)] /\ mis \in [Slaves -> Seq(notes)]
  BY DEF Book, BookTypes
<1>2. /\ sjs2[mi] = Tail(sjs[mi]) /\ mis2[sj] = Tail(mis[sj])
      /\ \A m \in Masters : m # mi => sjs2[m] = sjs[m]
      /\ \A s \in Slaves : s # sj => mis2[s] = mis[s]
  BY <1>1
<1>3. /\ Port(mi, bursts[mi], addrs[mi], sjs2[mi])
      /\ from < to /\ After(bursts[mi], from).to = sj
      /\ Answered(bursts[mi], addrs[mi], sjs2[mi]) = from + 1
  <2>1. Port(mi, bursts[mi], addrs[mi], sjs[mi])
    BY DEF Book
  <2>2. /\ Port(mi, bursts[mi], addrs[mi], Tail(sjs[mi]))
        /\ from < to /\ Head(sjs[mi]) = After(bursts[mi], from).to
        /\ Answered(bursts[mi], addrs[mi], Tail(sjs[mi])) = from + 1
    BY <2>1, PortFirst, PortDone
  <2>3. sjs2[mi] = Tail(sjs[mi])
    BY <1>2
  <2> HIDE DEF sjs2, from, to
  <2> QED  BY <2>2, <2>3
<1>4. /\ Route(sj, routed[sj], mis2[sj], who, notes)
      /\ lo < Len(routed[sj])
      /\ Relieved(routed[sj], mis2[sj]) = lo + 1
  <2>1. Route(sj, routed[sj], mis[sj], who, notes)
    BY DEF Book
  <2>2. /\ Route(sj, routed[sj], Tail(mis[sj]), who, notes)
        /\ lo < Len(routed[sj]) /\ Relieved(routed[sj], Tail(mis[sj])) = lo + 1
    BY <2>1, RouteFirst, RouteDeq
  <2>3. mis2[sj] = Tail(mis[sj])
    BY <1>2
  <2> HIDE DEF mis2, lo
  <2> QED  BY <2>2, <2>3
<1>5. BookTypes(bursts, addrs, sjs2, routed, mis2, notes, errs)
  <2>1. sjs[mi] \in Seq(Dests) /\ mis[sj] \in Seq(notes)
    BY <1>1
  <2>2. Tail(sjs[mi]) \in Seq(Dests) /\ Tail(mis[sj]) \in Seq(notes)
    BY <2>1
  <2> QED  BY <2>2 DEF Book, BookTypes
<1>6. /\ Orders(errs[mi], 0, bursts[mi], mi, from, to)
      /\ Pending(errs[mi], 0, bursts[mi], mi, from, to, NoSlave)
      /\ \A s \in Slaves :
             /\ Orders(routed[s], Relieved(routed[s], mis[s]), bursts[mi], mi, from, to)
             /\ Pending(routed[s], Relieved(routed[s], mis[s]), bursts[mi], mi, from, to, s)
  BY BookOrders
<1> HIDE DEF sjs2, mis2, from, to, lo
<1>7. After(routed[sj], lo) = After(bursts[mi], from)
  BY BookFirst DEF lo, from
<1>8. \A m \in Masters : Port(m, bursts[m], addrs[m], sjs2[m])
  BY <1>2, <1>3 DEF Book
<1>9. \A s \in Slaves : Route(s, routed[s], mis2[s], who, notes)
  BY <1>2, <1>4 DEF Book
<1>10. \A m \in Masters : FailedAt(errs[m], bursts[m], addrs[m], sjs2[m], m)
  <2> TAKE m \in Masters
  <2>1. CASE m = mi
    <3>1. After(bursts[mi], from).to # NoSlave
      BY <1>3, NoSlaveIsNone
    <3>2. \A i \in 1 .. Len(errs[mi]) : errs[mi][i].to = NoSlave
      BY DEF Book, Failed
    <3>3. Pending(errs[mi], 0, bursts[mi], mi, from + 1, to, NoSlave)
      BY <3>1, <3>2, <1>3, <1>6, PendingDeqElsewhere
    <3> QED  BY <2>1, <3>3, <1>3 DEF FailedAt, to
  <2>2. CASE m # mi
    BY <2>2, <1>2 DEF Book
  <2> QED  BY <2>1, <2>2
<1>11. \A m \in Masters, s \in Slaves :
         PendingAt(routed[s], mis2[s], bursts[m], addrs[m], sjs2[m], m, s)
  <2> TAKE m \in Masters, s \in Slaves
  <2>1. CASE m = mi /\ s = sj
    <3>1. /\ Orders(routed[sj], lo, bursts[mi], mi, from, to)
          /\ Pending(routed[sj], lo, bursts[mi], mi, from, to, sj)
      BY <1>6 DEF lo
    <3>2. Pending(routed[sj], lo + 1, bursts[mi], mi, from + 1, to, sj)
      BY <3>1, <1>3, <1>4, <1>7, PendingDeq
    <3> QED  BY <2>1, <3>2, <1>3, <1>4 DEF PendingAt, to
  <2>2. CASE m = mi /\ s # sj
    <3>1. After(bursts[mi], from).to # s
      BY <2>2, <1>3
    <3>2. \A j \in 1 .. Len(routed[s]) : routed[s][j].to = s
      BY DEF Book, Route
    <3>3. Pending(routed[s], Relieved(routed[s], mis[s]), bursts[mi], mi, from + 1, to, s)
      BY <3>1, <3>2, <1>3, <1>6, PendingDeqElsewhere
    <3> QED  BY <2>2, <3>3, <1>2, <1>3 DEF PendingAt, to
  <2>3. CASE m # mi /\ s = sj
    <3> DEFINE mfrom == Answered(bursts[m], addrs[m], sjs[m])
               mto == Accepted(bursts[m], addrs[m])
    <3>1. /\ Orders(routed[sj], lo, bursts[m], m, mfrom, mto)
          /\ Pending(routed[sj], lo, bursts[m], m, mfrom, mto, sj)
      BY BookOrders DEF lo
    <3> HIDE DEF mfrom, mto
    <3>2. After(routed[sj], lo).id[1] # m
      BY <2>3 DEF lo
    <3>3. Pending(routed[sj], lo + 1, bursts[m], m, mfrom, mto, sj)
      BY <3>1, <3>2, <1>4, PendingDeqOther
    <3> QED  BY <2>3, <3>3, <1>2, <1>4 DEF PendingAt, mfrom, mto
  <2>4. CASE m # mi /\ s # sj
    BY <2>4, <1>2 DEF Book
  <2> QED  BY <2>1, <2>2, <2>3, <2>4
<1>12. \A m \in Masters : Failed(m, errs[m])
  BY DEF Book
<1> QED  BY <1>5, <1>8, <1>9, <1>10, <1>11, <1>12 DEF Book, sjs2, mis2

\* A master whose head names no slave means the oldest of its errors, and is done
\* with it.
LEMMA BookFailFirst ==
    ASSUME NEW bursts, NEW addrs, NEW sjs, NEW routed, NEW mis, NEW who, NEW notes, NEW errs,
           Book(bursts, addrs, sjs, routed, mis, who, notes, errs), NEW mi \in Masters,
           sjs[mi] # <<>>, Head(sjs[mi]) = NoSlave
    PROVE  /\ errs[mi] # <<>>
           /\ Head(errs[mi]) = After(bursts[mi], Answered(bursts[mi], addrs[mi], sjs[mi]))
<1> DEFINE from == Answered(bursts[mi], addrs[mi], sjs[mi])
           to == Accepted(bursts[mi], addrs[mi])
<1>1. /\ Orders(errs[mi], 0, bursts[mi], mi, from, to)
      /\ Pending(errs[mi], 0, bursts[mi], mi, from, to, NoSlave)
  BY BookOrders
<1>2. from < to /\ After(bursts[mi], from).to = NoSlave
  <2>1. Port(mi, bursts[mi], addrs[mi], sjs[mi])
    BY DEF Book
  <2> QED  BY <2>1, PortFirst
<1> HIDE DEF from, to
<1>3. /\ errs[mi] \in Seq(BurstSet) /\ Len(errs[mi]) \in Nat
      /\ \A i \in 1 .. Len(errs[mi]) : errs[mi][i].to = NoSlave /\ errs[mi][i].id[1] = mi
  BY DEF Book, Failed
<1>4. 0 < Len(errs[mi]) => After(errs[mi], 0).id[1] = mi
  BY <1>3 DEF After
<1>5. 0 < Len(errs[mi]) /\ After(errs[mi], 0) = After(bursts[mi], from)
  BY <1>1, <1>2, <1>4, PendingHead
<1>6. errs[mi] # <<>> /\ Head(errs[mi]) = After(bursts[mi], from)
  BY <1>3, <1>5 DEF After
<1> QED  BY <1>6 DEF from

LEMMA BookFailDone ==
    ASSUME NEW bursts, NEW addrs, NEW sjs, NEW routed, NEW mis, NEW who, NEW notes, NEW errs,
           Book(bursts, addrs, sjs, routed, mis, who, notes, errs), NEW mi \in Masters,
           sjs[mi] # <<>>, Head(sjs[mi]) = NoSlave
    PROVE  Book(bursts, addrs, [sjs EXCEPT ![mi] = Tail(@)], routed, mis, who, notes,
                [errs EXCEPT ![mi] = Tail(@)])
<1> DEFINE sjs2 == [sjs EXCEPT ![mi] = Tail(@)]
           errs2 == [errs EXCEPT ![mi] = Tail(@)]
           from == Answered(bursts[mi], addrs[mi], sjs[mi])
           to == Accepted(bursts[mi], addrs[mi])
<1>1. sjs \in [Masters -> Seq(Dests)] /\ errs \in [Masters -> Seq(BurstSet)]
  BY DEF Book, BookTypes
<1>2. /\ sjs2[mi] = Tail(sjs[mi]) /\ errs2[mi] = Tail(errs[mi])
      /\ \A m \in Masters : m # mi => sjs2[m] = sjs[m] /\ errs2[m] = errs[m]
  BY <1>1
<1>3. /\ Port(mi, bursts[mi], addrs[mi], sjs2[mi])
      /\ from < to /\ After(bursts[mi], from).to = NoSlave
      /\ Answered(bursts[mi], addrs[mi], sjs2[mi]) = from + 1
  <2>1. Port(mi, bursts[mi], addrs[mi], sjs[mi])
    BY DEF Book
  <2>2. /\ Port(mi, bursts[mi], addrs[mi], Tail(sjs[mi]))
        /\ from < to /\ Head(sjs[mi]) = After(bursts[mi], from).to
        /\ Answered(bursts[mi], addrs[mi], Tail(sjs[mi])) = from + 1
    BY <2>1, PortFirst, PortDone
  <2>3. sjs2[mi] = Tail(sjs[mi])
    BY <1>2
  <2> HIDE DEF sjs2, from, to
  <2> QED  BY <2>2, <2>3
<1>4. /\ Orders(errs[mi], 0, bursts[mi], mi, from, to)
      /\ Pending(errs[mi], 0, bursts[mi], mi, from, to, NoSlave)
      /\ \A s \in Slaves :
             /\ Orders(routed[s], Relieved(routed[s], mis[s]), bursts[mi], mi, from, to)
             /\ Pending(routed[s], Relieved(routed[s], mis[s]), bursts[mi], mi, from, to, s)
  BY BookOrders
<1> HIDE DEF sjs2, errs2, from, to
<1>5. /\ errs[mi] \in Seq(BurstSet) /\ Len(errs[mi]) \in Nat
      /\ \A i \in 1 .. Len(errs[mi]) : errs[mi][i].to = NoSlave /\ errs[mi][i].id[1] = mi
  BY DEF Book, Failed
<1>6. errs[mi] # <<>> /\ Head(errs[mi]) = After(bursts[mi], from)
  BY BookFailFirst DEF from
<1>7. 0 < Len(errs[mi]) /\ After(errs[mi], 0) = After(bursts[mi], from)
  BY <1>5, <1>6 DEF After
<1>8. BookTypes(bursts, addrs, sjs2, routed, mis, notes, errs2)
  <2>1. sjs[mi] \in Seq(Dests)
    BY <1>1
  <2>2. Tail(sjs[mi]) \in Seq(Dests) /\ Tail(errs[mi]) \in Seq(BurstSet)
    BY <2>1, <1>5, <1>6
  <2> QED  BY <2>2 DEF Book, BookTypes, sjs2, errs2
<1>9. \A m \in Masters : Port(m, bursts[m], addrs[m], sjs2[m])
  BY <1>2, <1>3 DEF Book
<1>10. \A m \in Masters : Failed(m, errs2[m])
  <2> TAKE m \in Masters
  <2>1. CASE m = mi
    <3>1. /\ errs2[mi] \in Seq(BurstSet) /\ Len(errs2[mi]) = Len(errs[mi]) - 1
          /\ \A i \in 1 .. Len(errs[mi]) - 1 : errs2[mi][i] = errs[mi][i + 1]
      BY <1>2, <1>5, <1>6
    <3>2. \A i \in 1 .. Len(errs2[mi]) : errs2[mi][i] = errs[mi][i + 1] /\ i + 1 \in 1 .. Len(errs[mi])
      BY <3>1, <1>5
    <3> QED  BY <2>1, <3>1, <3>2, <1>5 DEF Failed
  <2>2. CASE m # mi
    BY <2>2, <1>2 DEF Book
  <2> QED  BY <2>1, <2>2
<1>11. \A m \in Masters : FailedAt(errs2[m], bursts[m], addrs[m], sjs2[m], m)
  <2> TAKE m \in Masters
  <2>1. CASE m = mi
    <3>1. Pending(errs[mi], 0 + 1, bursts[mi], mi, from + 1, to, NoSlave)
      BY <1>3, <1>4, <1>7, PendingDeq
    <3>2. Pending(errs2[mi], 0, bursts[mi], mi, from + 1, to, NoSlave)
      <4>1. 0 + 1 = 1
        OBVIOUS
      <4> QED  BY <3>1, <4>1, <1>2, <1>5, <1>6, PendingTail
    <3> QED  BY <2>1, <3>2, <1>3 DEF FailedAt, to
  <2>2. CASE m # mi
    BY <2>2, <1>2 DEF Book
  <2> QED  BY <2>1, <2>2
<1>12. \A m \in Masters, s \in Slaves :
         PendingAt(routed[s], mis[s], bursts[m], addrs[m], sjs2[m], m, s)
  <2> TAKE m \in Masters, s \in Slaves
  <2>1. CASE m = mi
    <3>1. After(bursts[mi], from).to # s
      BY <1>3, NoSlaveIsNone
    <3>2. \A j \in 1 .. Len(routed[s]) : routed[s][j].to = s
      BY DEF Book, Route
    <3>3. Pending(routed[s], Relieved(routed[s], mis[s]), bursts[mi], mi, from + 1, to, s)
      BY <3>1, <3>2, <1>3, <1>4, PendingDeqElsewhere
    <3> QED  BY <2>1, <3>3, <1>3 DEF PendingAt, to
  <2>2. CASE m # mi
    BY <2>2, <1>2 DEF Book
  <2> QED  BY <2>1, <2>2
<1>13. \A s \in Slaves : Route(s, routed[s], mis[s], who, notes)
  BY DEF Book
<1> QED  BY <1>8, <1>9, <1>10, <1>11, <1>12, <1>13 DEF Book, sjs2, errs2

-----------------------------------------------------------------------------
(* Writes: addresses and responses *)

WrWho == [b \in BurstSet |-> b.id[1]]
WrAnswerSet == [id : Nat \X Nat, resp : {"okay", "decerr"}]
WriteAnswers(bursts) == [n \in 1 .. Len(bursts) |-> WriteAnswer(bursts[n])]

WrBook ==
    Book(wr_bursts, m_aw, v_f_wr_sjs, wr_routed, v_f_wr_mis, WrWho, Nat, v_f_wr_err_info)

WrAnswered(mi) == Answered(wr_bursts[mi], m_aw[mi], v_f_wr_sjs[mi])
WrRelieved(sj) == Relieved(wr_routed[sj], v_f_wr_mis[sj])

\* What a master has been answered: the first responses to its bursts, those
\* it has not taken in its FIFO.
Returned(fifo, bursts, answered, taken) ==
    /\ fifo \in Seq(WrAnswerSet) /\ taken \in Nat
    /\ taken + Len(fifo) = answered
    /\ Run(fifo, WriteAnswers(bursts), taken)

\* What a slave works at: bursts it has still to take, and behind them the
\* responses it has not got rid of.
Serving(addrs, resps, routed, relieved) ==
    /\ addrs \in Seq(BurstSet) /\ resps \in Seq(WrAnswerSet) /\ relieved \in Nat
    /\ (relieved + Len(resps)) + Len(addrs) = Len(routed)
    /\ Run(addrs, routed, relieved + Len(resps))
    /\ Run(resps, WriteAnswers(routed), relieved)

WriteTypes ==
    /\ m_b \in [Masters -> Seq(WrAnswerSet)] /\ b_taken \in [Masters -> Nat]
    /\ s_aw \in [Slaves -> Seq(BurstSet)] /\ s_b \in [Slaves -> Seq(WrAnswerSet)]

WriteInv ==
    /\ WrBook
    /\ WriteTypes
    /\ \A mi \in Masters : Returned(m_b[mi], wr_bursts[mi], WrAnswered(mi), b_taken[mi])
    /\ \A sj \in Slaves : Serving(s_aw[sj], s_b[sj], wr_routed[sj], WrRelieved(sj))

LEMMA BurstFields ==
    ASSUME NEW b \in BurstSet
    PROVE  b.id \in Nat \X Nat /\ b.id[1] \in Nat /\ b.id[2] \in Nat /\ b.to \in Dests /\ b.len \in Nat
<1>1. b.id \in Nat \X Nat /\ b.to \in Dests /\ b.len \in Nat
  BY DEF BurstSet
<1> QED  BY <1>1

LEMMA WriteAnswerType ==
    ASSUME NEW b \in BurstSet
    PROVE  WriteAnswer(b) \in WrAnswerSet
<1>1. b.id \in Nat \X Nat
  BY BurstFields
<1>2. Resp(b) \in {"okay", "decerr"}
  BY DEF Resp
<1> QED  BY <1>1, <1>2 DEF WriteAnswer, WrAnswerSet

LEMMA BurstIsOne ==
    ASSUME NEW mi \in Masters, NEW shape \in Shapes, NEW bursts, bursts[mi] \in Seq(BurstSet)
    PROVE  /\ Burst(bursts, mi, shape) \in BurstSet
           /\ Burst(bursts, mi, shape).id = <<mi, Len(bursts[mi]) + 1>>
<1>1. shape.to \in Dests /\ shape.len \in Nat
  BY FabricAssumption DEF Dests
<1>2. mi \in Nat
  BY FabricAssumption DEF Masters
<1>3. Len(bursts[mi]) + 1 \in Nat
  OBVIOUS
<1>4. <<mi, Len(bursts[mi]) + 1>> \in Nat \X Nat
  BY <1>2, <1>3
<1> QED  BY <1>1, <1>4 DEF Burst, BurstSet

LEMMA ReturnedNew ==
    ASSUME NEW fifo, NEW bursts \in Seq(BurstSet), NEW answered \in Nat, NEW taken,
           Returned(fifo, bursts, answered, taken), answered <= Len(bursts), NEW b \in BurstSet
    PROVE  Returned(fifo, Append(bursts, b), answered, taken)
<1> DEFINE more == Append(bursts, b)
<1>1. /\ Len(bursts) \in Nat /\ Len(more) = Len(bursts) + 1
      /\ \A n \in 1 .. Len(bursts) : more[n] = bursts[n]
  OBVIOUS
<1> HIDE DEF more
<1>2. \A n \in 1 .. Len(bursts) : WriteAnswers(more)[n] = WriteAnswers(bursts)[n]
  BY <1>1 DEF WriteAnswers
<1>3. /\ fifo \in Seq(WrAnswerSet) /\ Run(fifo, WriteAnswers(bursts), taken)
      /\ taken + Len(fifo) = answered
  BY DEF Returned
<1>4. Run(fifo, WriteAnswers(more), taken)
  BY <1>1, <1>2, <1>3, RunGrow
<1> QED  BY <1>4 DEF Returned, more

LEMMA ReturnedEnq ==
    ASSUME NEW fifo, NEW bursts \in Seq(BurstSet), NEW answered \in Nat, NEW taken,
           Returned(fifo, bursts, answered, taken), answered < Len(bursts)
    PROVE  Returned(Append(fifo, WriteAnswer(After(bursts, answered))), bursts, answered + 1, taken)
<1> DEFINE x == WriteAnswer(After(bursts, answered))
<1>1. answered + 1 \in 1 .. Len(bursts)
  OBVIOUS
<1>2. After(bursts, answered) \in BurstSet
  BY <1>1 DEF After
<1>3. x \in WrAnswerSet
  BY <1>2, WriteAnswerType
<1>4. /\ fifo \in Seq(WrAnswerSet) /\ Run(fifo, WriteAnswers(bursts), taken)
      /\ taken + Len(fifo) = answered /\ taken \in Nat
  BY DEF Returned
<1>5. x = WriteAnswers(bursts)[(taken + Len(fifo)) + 1]
  BY <1>1, <1>4 DEF WriteAnswers, After
<1> HIDE DEF x
<1>6. Run(Append(fifo, x), WriteAnswers(bursts), taken)
  BY <1>3, <1>4, <1>5, RunAppend
<1>7. Append(fifo, x) \in Seq(WrAnswerSet) /\ taken + Len(Append(fifo, x)) = answered + 1
  BY <1>3, <1>4
<1> QED  BY <1>4, <1>6, <1>7 DEF Returned, x

LEMMA ReturnedFirst ==
    ASSUME NEW fifo, NEW bursts \in Seq(BurstSet), NEW answered \in Nat, NEW taken,
           Returned(fifo, bursts, answered, taken), answered <= Len(bursts), fifo # <<>>
    PROVE  Head(fifo) = WriteAnswer(After(bursts, taken))
<1>1. /\ fifo \in Seq(WrAnswerSet) /\ Run(fifo, WriteAnswers(bursts), taken)
      /\ taken + Len(fifo) = answered /\ taken \in Nat
  BY DEF Returned
<1>2. Head(fifo) = WriteAnswers(bursts)[taken + 1]
  BY <1>1, RunTail
<1>3. taken + 1 \in 1 .. Len(bursts)
  BY <1>1
<1> QED  BY <1>2, <1>3 DEF WriteAnswers, After

LEMMA ReturnedDeq ==
    ASSUME NEW fifo, NEW bursts \in Seq(BurstSet), NEW answered \in Nat, NEW taken,
           Returned(fifo, bursts, answered, taken), fifo # <<>>
    PROVE  Returned(Tail(fifo), bursts, answered, taken + 1)
<1>1. /\ fifo \in Seq(WrAnswerSet) /\ Run(fifo, WriteAnswers(bursts), taken)
      /\ taken + Len(fifo) = answered /\ taken \in Nat
  BY DEF Returned
<1>2. Run(Tail(fifo), WriteAnswers(bursts), taken + 1)
  BY <1>1, RunTail
<1>3. Tail(fifo) \in Seq(WrAnswerSet) /\ Len(Tail(fifo)) = Len(fifo) - 1 /\ Len(fifo) \in Nat
  BY <1>1
<1>4. taken + 1 \in Nat /\ (taken + 1) + Len(Tail(fifo)) = answered
  BY <1>1, <1>3
<1> QED  BY <1>2, <1>3, <1>4 DEF Returned

LEMMA ServingEnq ==
    ASSUME NEW addrs, NEW resps, NEW routed \in Seq(BurstSet), NEW relieved,
           Serving(addrs, resps, routed, relieved), NEW b \in BurstSet
    PROVE  Serving(Append(addrs, b), resps, Append(routed, b), relieved)
<1> DEFINE more == Append(routed, b)
           longer == Append(addrs, b)
<1>1. /\ addrs \in Seq(BurstSet) /\ resps \in Seq(WrAnswerSet) /\ relieved \in Nat
      /\ (relieved + Len(resps)) + Len(addrs) = Len(routed)
      /\ Run(addrs, routed, relieved + Len(resps))
      /\ Run(resps, WriteAnswers(routed), relieved)
      /\ Len(addrs) \in Nat /\ Len(resps) \in Nat
  BY DEF Serving
<1>2. /\ Len(routed) \in Nat /\ Len(more) = Len(routed) + 1 /\ more[Len(routed) + 1] = b
      /\ \A n \in 1 .. Len(routed) : more[n] = routed[n]
      /\ longer \in Seq(BurstSet) /\ Len(longer) = Len(addrs) + 1
  BY <1>1
<1> HIDE DEF more
<1>3. \A n \in 1 .. Len(routed) : WriteAnswers(more)[n] = WriteAnswers(routed)[n]
  BY <1>2 DEF WriteAnswers
<1>4. Run(addrs, more, relieved + Len(resps))
  <2> DEFINE n == relieved + Len(resps)
  <2>1. n + Len(addrs) <= Len(routed) /\ Run(addrs, routed, n)
    BY <1>1, <1>2
  <2> HIDE DEF n
  <2>2. Run(addrs, more, n)
    BY <2>1, <1>1, <1>2, RunGrow
  <2> QED  BY <2>2 DEF n
<1>5. b = more[((relieved + Len(resps)) + Len(addrs)) + 1]
  BY <1>1, <1>2
<1>6. Run(longer, more, relieved + Len(resps))
  BY <1>1, <1>4, <1>5, RunAppend
<1>7. Run(resps, WriteAnswers(more), relieved)
  <2>1. relieved + Len(resps) <= Len(routed)
    BY <1>1
  <2> QED  BY <2>1, <1>1, <1>2, <1>3, RunGrow
<1> HIDE DEF longer
<1>8. (relieved + Len(resps)) + Len(longer) = Len(more)
  BY <1>1, <1>2
<1> QED  BY <1>1, <1>2, <1>6, <1>7, <1>8 DEF Serving, more, longer

LEMMA ServingWork ==
    ASSUME NEW addrs, NEW resps, NEW routed \in Seq(BurstSet), NEW relieved,
           Serving(addrs, resps, routed, relieved), addrs # <<>>
    PROVE  Serving(Tail(addrs), Append(resps, WriteAnswer(Head(addrs))), routed, relieved)
<1> DEFINE n == relieved + Len(resps)
           x == WriteAnswer(Head(addrs))
           longer == Append(resps, x)
<1>1. /\ addrs \in Seq(BurstSet) /\ resps \in Seq(WrAnswerSet) /\ relieved \in Nat
      /\ n + Len(addrs) = Len(routed)
      /\ Run(addrs, routed, n)
      /\ Run(resps, WriteAnswers(routed), relieved)
      /\ Len(addrs) \in Nat /\ Len(resps) \in Nat
  BY DEF Serving
<1>2. /\ Tail(addrs) \in Seq(BurstSet) /\ Len(Tail(addrs)) = Len(addrs) - 1 /\ Len(addrs) >= 1
      /\ Head(addrs) \in BurstSet
  BY <1>1
<1>3. Head(addrs) = routed[n + 1] /\ Run(Tail(addrs), routed, n + 1)
  <2> HIDE DEF n
  <2> QED  BY <1>1, RunTail
<1>4. x \in WrAnswerSet
  BY <1>2, WriteAnswerType
<1>5. n + 1 \in 1 .. Len(routed)
  BY <1>1, <1>2
<1>6. x = WriteAnswers(routed)[n + 1]
  BY <1>3, <1>5 DEF WriteAnswers
<1> HIDE DEF x
<1>7. Run(longer, WriteAnswers(routed), relieved)
  BY <1>1, <1>4, <1>6, RunAppend
<1>8. longer \in Seq(WrAnswerSet) /\ Len(longer) = Len(resps) + 1
  BY <1>1, <1>4
<1> HIDE DEF longer
<1>9. relieved + Len(longer) = n + 1 /\ (relieved + Len(longer)) + Len(Tail(addrs)) = Len(routed)
  BY <1>1, <1>2, <1>8
<1> QED  BY <1>1, <1>2, <1>3, <1>7, <1>8, <1>9 DEF Serving, x, longer

LEMMA ServingFirst ==
    ASSUME NEW addrs, NEW resps, NEW routed \in Seq(BurstSet), NEW relieved,
           Serving(addrs, resps, routed, relieved), resps # <<>>
    PROVE  Head(resps) = WriteAnswer(After(routed, relieved))
<1>1. /\ addrs \in Seq(BurstSet) /\ resps \in Seq(WrAnswerSet) /\ relieved \in Nat
      /\ (relieved + Len(resps)) + Len(addrs) = Len(routed)
      /\ Run(resps, WriteAnswers(routed), relieved)
      /\ Len(addrs) \in Nat /\ Len(resps) \in Nat
  BY DEF Serving
<1>2. Head(resps) = WriteAnswers(routed)[relieved + 1]
  BY <1>1, RunTail
<1>3. relieved + 1 \in 1 .. Len(routed)
  BY <1>1
<1> QED  BY <1>2, <1>3 DEF WriteAnswers, After

LEMMA ServingDeq ==
    ASSUME NEW addrs, NEW resps, NEW routed \in Seq(BurstSet), NEW relieved,
           Serving(addrs, resps, routed, relieved), resps # <<>>
    PROVE  Serving(addrs, Tail(resps), routed, relieved + 1)
<1>1. /\ addrs \in Seq(BurstSet) /\ resps \in Seq(WrAnswerSet) /\ relieved \in Nat
      /\ (relieved + Len(resps)) + Len(addrs) = Len(routed)
      /\ Run(addrs, routed, relieved + Len(resps))
      /\ Run(resps, WriteAnswers(routed), relieved)
      /\ Len(addrs) \in Nat /\ Len(resps) \in Nat
  BY DEF Serving
<1>2. Run(Tail(resps), WriteAnswers(routed), relieved + 1)
  BY <1>1, RunTail
<1>3. Tail(resps) \in Seq(WrAnswerSet) /\ Len(Tail(resps)) = Len(resps) - 1
  BY <1>1
<1>4. /\ relieved + 1 \in Nat /\ (relieved + 1) + Len(Tail(resps)) = relieved + Len(resps)
  BY <1>1, <1>3
<1> QED  BY <1>1, <1>2, <1>3, <1>4 DEF Serving

write_addrs == <<wr_bursts, m_aw, v_f_wr_sjs, wr_routed, v_f_wr_mis, v_f_wr_err_info,
                 m_b, b_taken, s_aw, s_b>>

\* What a port and a route are in WrBook.
LEMMA WrParts ==
    ASSUME WriteInv
    PROVE  /\ \A mi \in Masters :
                  /\ Port(mi, wr_bursts[mi], m_aw[mi], v_f_wr_sjs[mi])
                  /\ wr_bursts[mi] \in Seq(BurstSet)
                  /\ WrAnswered(mi) \in Nat /\ WrAnswered(mi) <= Len(wr_bursts[mi])
                  /\ Returned(m_b[mi], wr_bursts[mi], WrAnswered(mi), b_taken[mi])
           /\ \A sj \in Slaves :
                  /\ Route(sj, wr_routed[sj], v_f_wr_mis[sj], WrWho, Nat)
                  /\ wr_routed[sj] \in Seq(BurstSet)
                  /\ Serving(s_aw[sj], s_b[sj], wr_routed[sj], WrRelieved(sj))
<1>1. ASSUME NEW mi \in Masters
      PROVE  /\ Port(mi, wr_bursts[mi], m_aw[mi], v_f_wr_sjs[mi])
             /\ wr_bursts[mi] \in Seq(BurstSet)
             /\ WrAnswered(mi) \in Nat /\ WrAnswered(mi) <= Len(wr_bursts[mi])
             /\ Returned(m_b[mi], wr_bursts[mi], WrAnswered(mi), b_taken[mi])
  <2>1. Port(mi, wr_bursts[mi], m_aw[mi], v_f_wr_sjs[mi])
    BY DEF WriteInv, WrBook, Book
  <2>2. wr_bursts[mi] \in Seq(BurstSet)
    BY <2>1 DEF Port, Numbered
  <2>3. WrAnswered(mi) \in Nat /\ WrAnswered(mi) <= Len(wr_bursts[mi])
    BY <2>1, PortCounts DEF WrAnswered
  <2> QED  BY <2>1, <2>2, <2>3 DEF WriteInv
<1>2. ASSUME NEW sj \in Slaves
      PROVE  /\ Route(sj, wr_routed[sj], v_f_wr_mis[sj], WrWho, Nat)
             /\ wr_routed[sj] \in Seq(BurstSet)
             /\ Serving(s_aw[sj], s_b[sj], wr_routed[sj], WrRelieved(sj))
  BY DEF WriteInv, WrBook, Book, Route
<1> QED  BY <1>1, <1>2

LEMMA WrXactionKeeps ==
    ASSUME WriteInv, NEW mi \in Masters, NEW sj \in Slaves, WrXaction(mi, sj)
    PROVE  WriteInv'
<1> DEFINE b == Head(m_aw[mi])
<1>1. /\ m_aw[mi] # <<>> /\ b.to = sj
      /\ m_aw' = [m_aw EXCEPT ![mi] = Tail(@)]
      /\ s_aw' = [s_aw EXCEPT ![sj] = Append(@, b)]
      /\ v_f_wr_mis' = [v_f_wr_mis EXCEPT ![sj] = Append(@, mi)]
      /\ v_f_wr_sjs' = [v_f_wr_sjs EXCEPT ![mi] = Append(@, sj)]
      /\ wr_routed' = [wr_routed EXCEPT ![sj] = Append(@, b)]
      /\ UNCHANGED <<wr_bursts, v_f_wr_err_info, m_b, b_taken, s_b>>
  BY DEF WrXaction, Ready, Enq, Deq, wr_env
<1>2. /\ wr_bursts \in [Masters -> Seq(BurstSet)] /\ m_aw \in [Masters -> Seq(BurstSet)]
      /\ v_f_wr_sjs \in [Masters -> Seq(Dests)] /\ v_f_wr_mis \in [Slaves -> Seq(Nat)]
      /\ wr_routed \in [Slaves -> Seq(BurstSet)] /\ s_aw \in [Slaves -> Seq(BurstSet)]
  BY DEF WriteInv, WrBook, Book, BookTypes, WriteTypes
<1> HIDE DEF b
<1>3. /\ b \in BurstSet /\ b.id[1] = mi
      /\ Answered(wr_bursts[mi], Tail(m_aw[mi]), Append(v_f_wr_sjs[mi], sj)) = WrAnswered(mi)
  <2>1. Port(mi, wr_bursts[mi], m_aw[mi], v_f_wr_sjs[mi])
    BY WrParts
  <2> QED  BY <2>1, <1>1, PortRoute DEF b, WrAnswered
<1>4. WrWho[b] = mi
  BY <1>3 DEF WrWho
<1>5. WrBook'
  <2>1. WrBook
    BY DEF WriteInv
  <2> QED  BY <2>1, <1>1, <1>4, BookRoute DEF WrBook, b
<1>6. \A m \in Masters : Returned(m_b[m], wr_bursts[m], WrAnswered(m), b_taken[m])'
  <2> TAKE m \in Masters
  <2>1. WrAnswered(m)' = WrAnswered(m)
    <3>1. CASE m = mi
      <4>1. m_aw'[mi] = Tail(m_aw[mi]) /\ v_f_wr_sjs'[mi] = Append(v_f_wr_sjs[mi], sj)
        BY <1>1, <1>2
      <4> QED  BY <3>1, <4>1, <1>1, <1>3 DEF WrAnswered
    <3>2. CASE m # mi
      <4>1. m_aw'[m] = m_aw[m] /\ v_f_wr_sjs'[m] = v_f_wr_sjs[m]
        BY <3>2, <1>1, <1>2
      <4> QED  BY <4>1, <1>1 DEF WrAnswered
    <3> QED  BY <3>1, <3>2
  <2> QED  BY <2>1, <1>1, WrParts
<1>7. \A s \in Slaves : Serving(s_aw[s], s_b[s], wr_routed[s], WrRelieved(s))'
  <2> TAKE s \in Slaves
  <2>1. CASE s = sj
    <3>1. /\ s_aw'[sj] = Append(s_aw[sj], b) /\ wr_routed'[sj] = Append(wr_routed[sj], b)
          /\ v_f_wr_mis'[sj] = Append(v_f_wr_mis[sj], mi)
      BY <1>1, <1>2
    <3>2. Serving(s_aw'[sj], s_b[sj], wr_routed'[sj], WrRelieved(sj))
      BY <3>1, <1>3, WrParts, ServingEnq
    <3>3. WrRelieved(sj)' = WrRelieved(sj)
      BY <3>1, <1>1, <1>3, <1>4, WrParts, RouteEnq DEF WrRelieved
    <3> QED  BY <2>1, <3>2, <3>3, <1>1
  <2>2. CASE s # sj
    <3>1. s_aw'[s] = s_aw[s] /\ wr_routed'[s] = wr_routed[s] /\ v_f_wr_mis'[s] = v_f_wr_mis[s]
      BY <2>2, <1>1, <1>2
    <3> QED  BY <3>1, <1>1, WrParts DEF WrRelieved
  <2> QED  BY <2>1, <2>2
<1>8. WriteTypes'
  <2>1. s_aw' \in [Slaves -> Seq(BurstSet)]
    BY <1>1, <1>2, <1>3
  <2> QED  BY <2>1, <1>1 DEF WriteInv, WriteTypes
<1> QED  BY <1>5, <1>6, <1>7, <1>8 DEF WriteInv

LEMMA WrNoSuchSlaveKeeps ==
    ASSUME WriteInv, NEW mi \in Masters, WrNoSuchSlave(mi)
    PROVE  WriteInv'
<1>1. /\ m_aw[mi] # <<>> /\ Head(m_aw[mi]).to = NoSlave
      /\ m_aw' = [m_aw EXCEPT ![mi] = Tail(@)]
      /\ v_f_wr_sjs' = [v_f_wr_sjs EXCEPT ![mi] = Append(@, NoSlave)]
      /\ v_f_wr_err_info' = [v_f_wr_err_info EXCEPT ![mi] = Append(@, Head(m_aw[mi]))]
      /\ UNCHANGED <<wr_bursts, wr_routed, v_f_wr_mis, m_b, b_taken, s_aw, s_b>>
  BY DEF WrNoSuchSlave, Ready, Enq, Deq, wr_env
<1>2. m_aw \in [Masters -> Seq(BurstSet)] /\ v_f_wr_sjs \in [Masters -> Seq(Dests)]
  BY DEF WriteInv, WrBook, Book, BookTypes
<1>3. Answered(wr_bursts[mi], Tail(m_aw[mi]), Append(v_f_wr_sjs[mi], NoSlave)) = WrAnswered(mi)
  <2>1. Port(mi, wr_bursts[mi], m_aw[mi], v_f_wr_sjs[mi])
    BY WrParts
  <2> QED  BY <2>1, <1>1, PortRoute DEF WrAnswered
<1>4. WrBook'
  <2>1. WrBook
    BY DEF WriteInv
  <2> QED  BY <2>1, <1>1, BookFail DEF WrBook
<1>5. \A m \in Masters : Returned(m_b[m], wr_bursts[m], WrAnswered(m), b_taken[m])'
  <2> TAKE m \in Masters
  <2>1. WrAnswered(m)' = WrAnswered(m)
    <3>1. CASE m = mi
      <4>1. m_aw'[mi] = Tail(m_aw[mi]) /\ v_f_wr_sjs'[mi] = Append(v_f_wr_sjs[mi], NoSlave)
        BY <1>1, <1>2
      <4> QED  BY <3>1, <4>1, <1>1, <1>3 DEF WrAnswered
    <3>2. CASE m # mi
      <4>1. m_aw'[m] = m_aw[m] /\ v_f_wr_sjs'[m] = v_f_wr_sjs[m]
        BY <3>2, <1>1, <1>2
      <4> QED  BY <4>1, <1>1 DEF WrAnswered
    <3> QED  BY <3>1, <3>2
  <2> QED  BY <2>1, <1>1, WrParts
<1>6. \A s \in Slaves : Serving(s_aw[s], s_b[s], wr_routed[s], WrRelieved(s))'
  BY <1>1, WrParts DEF WrRelieved
<1> QED  BY <1>1, <1>4, <1>5, <1>6 DEF WriteInv, WriteTypes

LEMMA WrRespKeeps ==
    ASSUME WriteInv, NEW mi \in Masters, NEW sj \in Slaves, WrResp(mi, sj)
    PROVE  WriteInv'
<1> DEFINE x == Head(s_b[sj])
<1>0. /\ v_f_wr_mis[sj] # <<>> /\ Head(v_f_wr_mis[sj]) = mi
      /\ v_f_wr_sjs[mi] # <<>> /\ Head(v_f_wr_sjs[mi]) = sj /\ s_b[sj] # <<>>
  BY DEF WrResp, Ready
<1>1. /\ v_f_wr_mis' = [v_f_wr_mis EXCEPT ![sj] = Tail(@)]
      /\ v_f_wr_sjs' = [v_f_wr_sjs EXCEPT ![mi] = Tail(@)]
      /\ s_b' = [s_b EXCEPT ![sj] = Tail(@)]
      /\ m_b' = [m_b EXCEPT ![mi] = Append(@, x)]
      /\ UNCHANGED <<wr_bursts, m_aw, wr_routed, v_f_wr_err_info, b_taken, s_aw>>
  BY DEF WrResp, Ready, Enq, Deq, wr_env
<1>2. /\ v_f_wr_sjs \in [Masters -> Seq(Dests)] /\ v_f_wr_mis \in [Slaves -> Seq(Nat)]
      /\ m_b \in [Masters -> Seq(WrAnswerSet)] /\ s_b \in [Slaves -> Seq(WrAnswerSet)]
  BY DEF WriteInv, WrBook, Book, BookTypes, WriteTypes
<1> HIDE DEF x
<1>3. /\ WrRelieved(sj) < Len(wr_routed[sj])
      /\ After(wr_routed[sj], WrRelieved(sj)).id[1] = mi
      /\ Relieved(wr_routed[sj], Tail(v_f_wr_mis[sj])) = WrRelieved(sj) + 1
  <2>1. Route(sj, wr_routed[sj], v_f_wr_mis[sj], WrWho, Nat)
    BY WrParts
  <2>2. /\ WrRelieved(sj) < Len(wr_routed[sj])
        /\ Head(v_f_wr_mis[sj]) = Noted(WrWho, After(wr_routed[sj], WrRelieved(sj)))
        /\ After(wr_routed[sj], WrRelieved(sj)) \in BurstSet
        /\ Relieved(wr_routed[sj], Tail(v_f_wr_mis[sj])) = WrRelieved(sj) + 1
    BY <2>1, <1>0, RouteFirst DEF WrRelieved
  <2> QED  BY <2>2, <1>0 DEF WrWho, Noted
<1>4. /\ Answered(wr_bursts[mi], m_aw[mi], Tail(v_f_wr_sjs[mi])) = WrAnswered(mi) + 1
      /\ WrAnswered(mi) < Len(wr_bursts[mi])
  <2>1. Port(mi, wr_bursts[mi], m_aw[mi], v_f_wr_sjs[mi])
    BY WrParts
  <2>2. /\ Answered(wr_bursts[mi], m_aw[mi], Tail(v_f_wr_sjs[mi])) = WrAnswered(mi) + 1
        /\ WrAnswered(mi) < Accepted(wr_bursts[mi], m_aw[mi])
    BY <2>1, <1>0, PortFirst DEF WrAnswered
  <2>3. /\ Accepted(wr_bursts[mi], m_aw[mi]) <= Len(wr_bursts[mi])
        /\ Accepted(wr_bursts[mi], m_aw[mi]) \in Nat
        /\ WrAnswered(mi) \in Nat /\ Len(wr_bursts[mi]) \in Nat
    BY <2>1, PortCounts DEF WrAnswered
  <2> QED  BY <2>2, <2>3
<1>5. /\ WrBook'
      /\ After(wr_routed[sj], WrRelieved(sj)) = After(wr_bursts[mi], WrAnswered(mi))
  <2>1. WrBook
    BY DEF WriteInv
  <2>2. After(wr_routed[sj], Relieved(wr_routed[sj], v_f_wr_mis[sj])).id[1] = mi
    BY <1>3 DEF WrRelieved
  <2>3. Book(wr_bursts, m_aw, [v_f_wr_sjs EXCEPT ![mi] = Tail(@)], wr_routed,
             [v_f_wr_mis EXCEPT ![sj] = Tail(@)], WrWho, Nat, v_f_wr_err_info)
    BY <2>1, <2>2, <1>0, BookDone DEF WrBook
  <2>4. After(wr_routed[sj], WrRelieved(sj)) = After(wr_bursts[mi], WrAnswered(mi))
    BY <2>1, <2>2, <1>0, BookFirst DEF WrBook, WrAnswered, WrRelieved
  <2> QED  BY <2>3, <2>4, <1>1 DEF WrBook
<1>6. /\ x = WriteAnswer(After(wr_bursts[mi], WrAnswered(mi)))
      /\ Serving(s_aw[sj], Tail(s_b[sj]), wr_routed[sj], WrRelieved(sj) + 1)
  <2>1. /\ x = WriteAnswer(After(wr_routed[sj], WrRelieved(sj)))
        /\ Serving(s_aw[sj], Tail(s_b[sj]), wr_routed[sj], WrRelieved(sj) + 1)
    BY <1>0, WrParts, ServingFirst, ServingDeq DEF x
  <2> QED  BY <2>1, <1>5
<1>7. \A m \in Masters : Returned(m_b[m], wr_bursts[m], WrAnswered(m), b_taken[m])'
  <2> TAKE m \in Masters
  <2>1. CASE m = mi
    <3>1. m_b'[mi] = Append(m_b[mi], x) /\ v_f_wr_sjs'[mi] = Tail(v_f_wr_sjs[mi])
      BY <1>1, <1>2
    <3>2. Returned(m_b'[mi], wr_bursts[mi], WrAnswered(mi) + 1, b_taken[mi])
      BY <3>1, <1>4, <1>6, WrParts, ReturnedEnq
    <3>3. WrAnswered(mi)' = WrAnswered(mi) + 1
      BY <3>1, <1>1, <1>4 DEF WrAnswered
    <3> QED  BY <2>1, <3>2, <3>3, <1>1
  <2>2. CASE m # mi
    <3>1. m_b'[m] = m_b[m] /\ v_f_wr_sjs'[m] = v_f_wr_sjs[m]
      BY <2>2, <1>1, <1>2
    <3> QED  BY <3>1, <1>1, WrParts DEF WrAnswered
  <2> QED  BY <2>1, <2>2
<1>8. \A s \in Slaves : Serving(s_aw[s], s_b[s], wr_routed[s], WrRelieved(s))'
  <2> TAKE s \in Slaves
  <2>1. CASE s = sj
    <3>1. s_b'[sj] = Tail(s_b[sj]) /\ v_f_wr_mis'[sj] = Tail(v_f_wr_mis[sj])
      BY <1>1, <1>2
    <3>2. WrRelieved(sj)' = WrRelieved(sj) + 1
      BY <3>1, <1>1, <1>3 DEF WrRelieved
    <3> QED  BY <2>1, <3>1, <3>2, <1>1, <1>6
  <2>2. CASE s # sj
    <3>1. s_b'[s] = s_b[s] /\ v_f_wr_mis'[s] = v_f_wr_mis[s]
      BY <2>2, <1>1, <1>2
    <3> QED  BY <3>1, <1>1, WrParts DEF WrRelieved
  <2> QED  BY <2>1, <2>2
<1>9. WriteTypes'
  <2>1. m_b[mi] \in Seq(WrAnswerSet) /\ s_b[sj] \in Seq(WrAnswerSet)
    BY <1>2
  <2>2. x \in WrAnswerSet /\ Tail(s_b[sj]) \in Seq(WrAnswerSet)
    BY <2>1, <1>0 DEF x
  <2>3. m_b' \in [Masters -> Seq(WrAnswerSet)] /\ s_b' \in [Slaves -> Seq(WrAnswerSet)]
    BY <2>1, <2>2, <1>1, <1>2
  <2> QED  BY <2>3, <1>1 DEF WriteInv, WriteTypes
<1> QED  BY <1>5, <1>7, <1>8, <1>9 DEF WriteInv

LEMMA WrRespErrKeeps ==
    ASSUME WriteInv, NEW mi \in Masters, WrRespErr(mi)
    PROVE  WriteInv'
<1> DEFINE x == [id |-> Head(v_f_wr_err_info[mi]).id, resp |-> "decerr"]
<1>0. v_f_wr_sjs[mi] # <<>> /\ Head(v_f_wr_sjs[mi]) = NoSlave
  BY DEF WrRespErr, Ready
<1>1. /\ v_f_wr_sjs' = [v_f_wr_sjs EXCEPT ![mi] = Tail(@)]
      /\ v_f_wr_err_info' = [v_f_wr_err_info EXCEPT ![mi] = Tail(@)]
      /\ m_b' = [m_b EXCEPT ![mi] = Append(@, x)]
      /\ UNCHANGED <<wr_bursts, m_aw, wr_routed, v_f_wr_mis, b_taken, s_aw, s_b>>
  BY DEF WrRespErr, Ready, Enq, Deq, wr_env
<1>2. /\ v_f_wr_sjs \in [Masters -> Seq(Dests)] /\ m_b \in [Masters -> Seq(WrAnswerSet)]
  BY DEF WriteInv, WrBook, Book, BookTypes, WriteTypes
<1> HIDE DEF x
<1>3. /\ Answered(wr_bursts[mi], m_aw[mi], Tail(v_f_wr_sjs[mi])) = WrAnswered(mi) + 1
      /\ WrAnswered(mi) < Len(wr_bursts[mi]) /\ WrAnswered(mi) \in Nat
      /\ After(wr_bursts[mi], WrAnswered(mi)).to = NoSlave
  <2>1. Port(mi, wr_bursts[mi], m_aw[mi], v_f_wr_sjs[mi])
    BY WrParts
  <2>2. /\ Answered(wr_bursts[mi], m_aw[mi], Tail(v_f_wr_sjs[mi])) = WrAnswered(mi) + 1
        /\ WrAnswered(mi) < Accepted(wr_bursts[mi], m_aw[mi])
        /\ Head(v_f_wr_sjs[mi]) = After(wr_bursts[mi], WrAnswered(mi)).to
    BY <2>1, <1>0, PortFirst DEF WrAnswered
  <2>3. /\ Accepted(wr_bursts[mi], m_aw[mi]) <= Len(wr_bursts[mi])
        /\ Accepted(wr_bursts[mi], m_aw[mi]) \in Nat
        /\ WrAnswered(mi) \in Nat /\ Len(wr_bursts[mi]) \in Nat
    BY <2>1, PortCounts DEF WrAnswered
  <2> QED  BY <2>2, <2>3, <1>0
<1>4. WrBook' /\ Head(v_f_wr_err_info[mi]) = After(wr_bursts[mi], WrAnswered(mi))
  <2>1. WrBook
    BY DEF WriteInv
  <2>2. Book(wr_bursts, m_aw, [v_f_wr_sjs EXCEPT ![mi] = Tail(@)], wr_routed, v_f_wr_mis,
             WrWho, Nat, [v_f_wr_err_info EXCEPT ![mi] = Tail(@)])
    BY <2>1, <1>0, BookFailDone DEF WrBook
  <2>3. Head(v_f_wr_err_info[mi]) = After(wr_bursts[mi], WrAnswered(mi))
    BY <2>1, <1>0, BookFailFirst DEF WrBook, WrAnswered
  <2> QED  BY <2>2, <2>3, <1>1 DEF WrBook
<1>5. x = WriteAnswer(After(wr_bursts[mi], WrAnswered(mi)))
  BY <1>3, <1>4 DEF x, WriteAnswer, Resp
<1>6. \A m \in Masters : Returned(m_b[m], wr_bursts[m], WrAnswered(m), b_taken[m])'
  <2> TAKE m \in Masters
  <2>1. CASE m = mi
    <3>1. m_b'[mi] = Append(m_b[mi], x) /\ v_f_wr_sjs'[mi] = Tail(v_f_wr_sjs[mi])
      BY <1>1, <1>2
    <3>2. Returned(m_b'[mi], wr_bursts[mi], WrAnswered(mi) + 1, b_taken[mi])
      BY <3>1, <1>3, <1>5, WrParts, ReturnedEnq
    <3>3. WrAnswered(mi)' = WrAnswered(mi) + 1
      BY <3>1, <1>1, <1>3 DEF WrAnswered
    <3> QED  BY <2>1, <3>2, <3>3, <1>1
  <2>2. CASE m # mi
    <3>1. m_b'[m] = m_b[m] /\ v_f_wr_sjs'[m] = v_f_wr_sjs[m]
      BY <2>2, <1>1, <1>2
    <3> QED  BY <3>1, <1>1, WrParts DEF WrAnswered
  <2> QED  BY <2>1, <2>2
<1>7. \A s \in Slaves : Serving(s_aw[s], s_b[s], wr_routed[s], WrRelieved(s))'
  BY <1>1, WrParts DEF WrRelieved
<1>8. WriteTypes'
  <2>1. After(wr_bursts[mi], WrAnswered(mi)) \in BurstSet
    BY <1>0, WrParts, PortFirst DEF WrAnswered
  <2>2. x \in WrAnswerSet
    BY <2>1, <1>5, WriteAnswerType
  <2>3. m_b' \in [Masters -> Seq(WrAnswerSet)]
    BY <2>2, <1>1, <1>2
  <2> QED  BY <2>3, <1>1 DEF WriteInv, WriteTypes
<1> QED  BY <1>4, <1>6, <1>7, <1>8 DEF WriteInv

LEMMA MasterWriteKeeps ==
    ASSUME WriteInv, NEW mi \in Masters, NEW shape \in Shapes, MasterWrite(mi, shape)
    PROVE  WriteInv'
<1> DEFINE b == Burst(wr_bursts, mi, shape)
<1>1. /\ m_aw' = [m_aw EXCEPT ![mi] = Append(@, b)]
      /\ wr_bursts' = [wr_bursts EXCEPT ![mi] = Append(@, b)]
      /\ UNCHANGED <<v_f_wr_sjs, wr_routed, v_f_wr_mis, v_f_wr_err_info, m_b, b_taken, s_aw, s_b>>
  BY DEF MasterWrite, Enq, wr_book
<1>2. wr_bursts \in [Masters -> Seq(BurstSet)] /\ m_aw \in [Masters -> Seq(BurstSet)]
  BY DEF WriteInv, WrBook, Book, BookTypes
<1>3. b \in BurstSet /\ b.id = <<mi, Len(wr_bursts[mi]) + 1>>
  BY <1>2, BurstIsOne
<1> HIDE DEF b
<1>4. WrBook'
  <2>1. WrBook
    BY DEF WriteInv
  <2> QED  BY <2>1, <1>1, <1>3, BookNew DEF WrBook
<1>5. \A m \in Masters : Returned(m_b[m], wr_bursts[m], WrAnswered(m), b_taken[m])'
  <2> TAKE m \in Masters
  <2>1. CASE m = mi
    <3>1. wr_bursts'[mi] = Append(wr_bursts[mi], b) /\ m_aw'[mi] = Append(m_aw[mi], b)
      BY <1>1, <1>2
    <3>2. Port(mi, wr_bursts[mi], m_aw[mi], v_f_wr_sjs[mi])
      BY WrParts
    <3>3. WrAnswered(mi)' = WrAnswered(mi)
      BY <3>1, <3>2, <1>1, <1>3, PortNew DEF WrAnswered
    <3>4. Returned(m_b[mi], wr_bursts'[mi], WrAnswered(mi), b_taken[mi])
      BY <3>1, <1>3, WrParts, ReturnedNew
    <3> QED  BY <2>1, <3>3, <3>4, <1>1
  <2>2. CASE m # mi
    <3>1. wr_bursts'[m] = wr_bursts[m] /\ m_aw'[m] = m_aw[m]
      BY <2>2, <1>1, <1>2
    <3> QED  BY <3>1, <1>1, WrParts DEF WrAnswered
  <2> QED  BY <2>1, <2>2
<1>6. \A s \in Slaves : Serving(s_aw[s], s_b[s], wr_routed[s], WrRelieved(s))'
  BY <1>1, WrParts DEF WrRelieved
<1> QED  BY <1>1, <1>4, <1>5, <1>6 DEF WriteInv, WriteTypes

LEMMA MasterTakeBKeeps ==
    ASSUME WriteInv, NEW mi \in Masters, MasterTakeB(mi)
    PROVE  WriteInv'
<1>1. /\ m_b[mi] # <<>>
      /\ m_b' = [m_b EXCEPT ![mi] = Tail(@)]
      /\ b_taken' = [b_taken EXCEPT ![mi] = @ + 1]
      /\ UNCHANGED <<wr_bursts, m_aw, v_f_wr_sjs, wr_routed, v_f_wr_mis, v_f_wr_err_info, s_aw, s_b>>
  BY DEF MasterTakeB, Ready, Deq, wr_book
<1>2. m_b \in [Masters -> Seq(WrAnswerSet)] /\ b_taken \in [Masters -> Nat]
  BY DEF WriteInv, WriteTypes
<1>3. \A m \in Masters : Returned(m_b[m], wr_bursts[m], WrAnswered(m), b_taken[m])'
  <2> TAKE m \in Masters
  <2>1. CASE m = mi
    <3>1. m_b'[mi] = Tail(m_b[mi]) /\ b_taken'[mi] = b_taken[mi] + 1
      BY <1>1, <1>2
    <3>2. Returned(Tail(m_b[mi]), wr_bursts[mi], WrAnswered(mi), b_taken[mi] + 1)
      BY <1>1, WrParts, ReturnedDeq
    <3> QED  BY <2>1, <3>1, <3>2, <1>1 DEF WrAnswered
  <2>2. CASE m # mi
    <3>1. m_b'[m] = m_b[m] /\ b_taken'[m] = b_taken[m]
      BY <2>2, <1>1, <1>2
    <3> QED  BY <3>1, <1>1, WrParts DEF WrAnswered
  <2> QED  BY <2>1, <2>2
<1>4. \A s \in Slaves : Serving(s_aw[s], s_b[s], wr_routed[s], WrRelieved(s))'
  BY <1>1, WrParts DEF WrRelieved
<1>5. WriteTypes'
  <2>1. Tail(m_b[mi]) \in Seq(WrAnswerSet) /\ b_taken[mi] + 1 \in Nat
    BY <1>1, <1>2
  <2> QED  BY <2>1, <1>1 DEF WriteInv, WriteTypes
<1>6. WrBook'
  BY <1>1 DEF WriteInv, WrBook
<1> QED  BY <1>3, <1>4, <1>5, <1>6 DEF WriteInv

LEMMA SlaveTakeWKeeps ==
    ASSUME WriteInv, NEW sj \in Slaves, SlaveTakeW(sj)
    PROVE  WriteInv'
<1>1. /\ s_aw[sj] # <<>>
      /\ UNCHANGED <<wr_bursts, m_aw, v_f_wr_sjs, wr_routed, v_f_wr_mis, v_f_wr_err_info, m_b, b_taken>>
  BY DEF SlaveTakeW, Ready, wr_book
<1>2. s_aw \in [Slaves -> Seq(BurstSet)] /\ s_b \in [Slaves -> Seq(WrAnswerSet)]
  BY DEF WriteInv, WriteTypes
<1>3. CASE UNCHANGED <<s_aw, s_b>>
  BY <1>1, <1>3, WrParts DEF WriteInv, WrBook, WriteTypes, WrAnswered, WrRelieved
<1>4. CASE /\ s_aw' = [s_aw EXCEPT ![sj] = Tail(@)]
           /\ s_b' = [s_b EXCEPT ![sj] = Append(@, WriteAnswer(Head(s_aw[sj])))]
  <2>1. \A s \in Slaves : Serving(s_aw[s], s_b[s], wr_routed[s], WrRelieved(s))'
    <3> TAKE s \in Slaves
    <3>1. CASE s = sj
      <4>1. /\ s_aw'[sj] = Tail(s_aw[sj])
            /\ s_b'[sj] = Append(s_b[sj], WriteAnswer(Head(s_aw[sj])))
        BY <1>2, <1>4
      <4>2. Serving(s_aw'[sj], s_b'[sj], wr_routed[sj], WrRelieved(sj))
        BY <4>1, <1>1, WrParts, ServingWork
      <4> QED  BY <3>1, <4>2, <1>1 DEF WrRelieved
    <3>2. CASE s # sj
      <4>1. s_aw'[s] = s_aw[s] /\ s_b'[s] = s_b[s]
        BY <3>2, <1>2, <1>4
      <4> QED  BY <4>1, <1>1, WrParts DEF WrRelieved
    <3> QED  BY <3>1, <3>2
  <2>2. WriteTypes'
    <3>1. s_aw[sj] \in Seq(BurstSet) /\ s_b[sj] \in Seq(WrAnswerSet)
      BY <1>2
    <3>2. Tail(s_aw[sj]) \in Seq(BurstSet) /\ Head(s_aw[sj]) \in BurstSet
      BY <3>1, <1>1
    <3>3. WriteAnswer(Head(s_aw[sj])) \in WrAnswerSet
      BY <3>2, WriteAnswerType
    <3>4. s_aw' \in [Slaves -> Seq(BurstSet)] /\ s_b' \in [Slaves -> Seq(WrAnswerSet)]
      BY <3>1, <3>2, <3>3, <1>2, <1>4
    <3> QED  BY <3>4, <1>1 DEF WriteInv, WriteTypes
  <2>3. \A m \in Masters : Returned(m_b[m], wr_bursts[m], WrAnswered(m), b_taken[m])'
    BY <1>1, WrParts DEF WrAnswered
  <2>4. WrBook'
    BY <1>1 DEF WriteInv, WrBook
  <2> QED  BY <2>1, <2>2, <2>3, <2>4 DEF WriteInv
<1> QED  BY <1>3, <1>4 DEF SlaveTakeW, Deq, Enq

LEMMA WriteUnchanged ==
    ASSUME WriteInv, UNCHANGED write_addrs
    PROVE  WriteInv'
BY DEF WriteInv, write_addrs, WrBook, WriteTypes, WrAnswered, WrRelieved

LEMMA EmptySeq == \A S : <<>> \in Seq(S) /\ Len(<<>>) = 0
OBVIOUS

LEMMA NoneYet ==
    ASSUME NEW bursts, NEW addrs, NEW sjs, Len(bursts) = 0, Len(addrs) = 0, Len(sjs) = 0
    PROVE  Accepted(bursts, addrs) = 0 /\ Answered(bursts, addrs, sjs) = 0 /\ Relieved(bursts, addrs) = 0
<1>1. 0 - 0 = 0
  OBVIOUS
<1> QED  BY <1>1, Zenon DEF Accepted, Answered, Relieved

\* Empty books.
LEMMA BookInit ==
    ASSUME NEW who, NEW notes, who \in [BurstSet -> notes]
    PROVE  Book(EmptyFor(Masters), EmptyFor(Masters), EmptyFor(Masters), EmptyFor(Slaves),
                EmptyFor(Slaves), who, notes, EmptyFor(Masters))
<1> DEFINE m == EmptyFor(Masters)
           s == EmptyFor(Slaves)
<1>1. /\ \A S : m \in [Masters -> Seq(S)] /\ s \in [Slaves -> Seq(S)]
      /\ \A mi \in Masters : m[mi] = <<>>
      /\ \A sj \in Slaves : s[sj] = <<>>
  BY EmptySeq DEF EmptyFor
<1> HIDE DEF m, s
<1>2. BookTypes(m, m, m, s, s, notes, m)
  BY <1>1 DEF BookTypes
<1>3. Accepted(<<>>, <<>>) = 0 /\ Answered(<<>>, <<>>, <<>>) = 0 /\ Relieved(<<>>, <<>>) = 0
  BY EmptySeq, NoneYet
<1>4. Numbered(<<>>, 0) /\ \A i \in 1 .. Len(<<>>) : FALSE
  BY EmptySeq DEF Numbered
<1>5. ASSUME NEW mi
      PROVE  Port(mi, <<>>, <<>>, <<>>) /\ Failed(mi, <<>>)
  <2>1. Numbered(<<>>, mi)
    BY <1>4, EmptySeq DEF Numbered
  <2>2. Len(<<>>) + Len(<<>>) <= Len(<<>>)
    BY EmptySeq
  <2> QED  BY <2>1, <2>2, <1>3, <1>4, EmptySeq, RunNothing DEF Port, Failed
<1>6. ASSUME NEW sj
      PROVE  Route(sj, <<>>, <<>>, who, notes)
  <2>1. Len(<<>>) <= Len(<<>>)
    BY EmptySeq
  <2> QED  BY <2>1, <1>3, <1>4, EmptySeq, RunNothing DEF Route
<1>7. ASSUME NEW mi, NEW dest
      PROVE  Pending(<<>>, 0, <<>>, mi, 0, 0, dest)
  BY EmptySeq DEF Pending
<1>8. \A mi \in Masters : FailedAt(m[mi], m[mi], m[mi], m[mi], mi)
  BY <1>1, <1>3, <1>7 DEF FailedAt
<1>9. \A mi \in Masters, sj \in Slaves : PendingAt(s[sj], s[sj], m[mi], m[mi], m[mi], mi, sj)
  BY <1>1, <1>3, <1>7 DEF PendingAt
<1>10. \A mi \in Masters : Port(mi, m[mi], m[mi], m[mi]) /\ Failed(mi, m[mi])
  BY <1>1, <1>5
<1>11. \A sj \in Slaves : Route(sj, s[sj], s[sj], who, notes)
  BY <1>1, <1>6
<1>12. Book(m, m, m, s, s, who, notes, m)
  BY <1>2, <1>8, <1>9, <1>10, <1>11 DEF Book
<1> QED  BY <1>12 DEF m, s

LEMMA WriteInit == Init => WriteInv
<1> SUFFICES ASSUME Init PROVE WriteInv
  OBVIOUS
<1>1. WrWho \in [BurstSet -> Nat]
  BY BurstFields DEF WrWho
<1>2. WrBook
  BY <1>1, BookInit DEF Init, WrBook
<1>3. /\ \A mi \in Masters :
             /\ wr_bursts[mi] = <<>> /\ m_aw[mi] = <<>> /\ v_f_wr_sjs[mi] = <<>> /\ m_b[mi] = <<>>
             /\ b_taken[mi] = 0
      /\ \A sj \in Slaves :
             wr_routed[sj] = <<>> /\ v_f_wr_mis[sj] = <<>> /\ s_aw[sj] = <<>> /\ s_b[sj] = <<>>
  BY DEF Init, EmptyFor, ZeroFor
<1>4. Answered(<<>>, <<>>, <<>>) = 0 /\ Relieved(<<>>, <<>>) = 0
  BY EmptySeq, NoneYet
<1>5. Returned(<<>>, <<>>, 0, 0) /\ Serving(<<>>, <<>>, <<>>, 0)
  <2>1. 0 + Len(<<>>) = 0 /\ (0 + Len(<<>>)) + Len(<<>>) = Len(<<>>) /\ 0 \in Nat
    BY EmptySeq
  <2> QED  BY <2>1, EmptySeq, RunNothing DEF Returned, Serving
<1>6. WriteTypes
  BY EmptySeq DEF Init, WriteTypes, EmptyFor, ZeroFor
<1>7. \A mi \in Masters : Returned(m_b[mi], wr_bursts[mi], WrAnswered(mi), b_taken[mi])
  BY <1>3, <1>4, <1>5 DEF WrAnswered
<1>8. \A sj \in Slaves : Serving(s_aw[sj], s_b[sj], wr_routed[sj], WrRelieved(sj))
  BY <1>3, <1>4, <1>5 DEF WrRelieved
<1> QED  BY <1>2, <1>6, <1>7, <1>8 DEF WriteInv

LEMMA WriteNext == WriteInv /\ [Next]_vars => WriteInv'
<1> SUFFICES ASSUME WriteInv, [Next]_vars PROVE WriteInv'
  OBVIOUS
<1>1. ASSUME WriteSide PROVE WriteInv'
  <2>1. ASSUME NEW mi \in Masters, NEW sj \in Slaves, WrXaction(mi, sj) \/ WrResp(mi, sj)
        PROVE  WriteInv'
    BY <2>1, WrXactionKeeps, WrRespKeeps
  <2>2. ASSUME NEW mi \in Masters, WrNoSuchSlave(mi) \/ WrRespErr(mi) \/ MasterTakeB(mi)
        PROVE  WriteInv'
    BY <2>2, WrNoSuchSlaveKeeps, WrRespErrKeeps, MasterTakeBKeeps
  <2>3. ASSUME NEW mi \in Masters, WrData(mi) \/ MasterSendW(mi)
        PROVE  WriteInv'
    <3>1. UNCHANGED write_addrs
      BY <2>3 DEF WrData, MasterSendW, write_addrs, wr_env, wr_book
    <3> QED  BY <3>1, WriteUnchanged
  <2>4. ASSUME NEW sj \in Slaves, SlaveTakeW(sj)
        PROVE  WriteInv'
    BY <2>4, SlaveTakeWKeeps
  <2> QED  BY <1>1, <2>1, <2>2, <2>3, <2>4 DEF WriteSide
<1>2. ASSUME UNCHANGED writes PROVE WriteInv'
  <2>1. UNCHANGED write_addrs
    BY <1>2 DEF writes, wr_path, wr_env, wr_book, write_addrs
  <2> QED  BY <2>1, WriteUnchanged
<1>3. ReadSide => UNCHANGED writes
  BY DEF ReadSide, RdXaction, RdResp, RdNoSuchSlave, RdRespErr, MasterTakeR, SlaveSendR
<1>4. ASSUME NEW mi \in Masters, NEW shape \in Shapes, MasterWrite(mi, shape) PROVE WriteInv'
  BY <1>4, MasterWriteKeeps
<1>5. ASSUME NEW mi \in Masters, NEW shape \in Shapes, MasterRead(mi, shape) PROVE UNCHANGED writes
  BY <1>5 DEF MasterRead
<1>6. CASE UNCHANGED vars
  <2>1. UNCHANGED writes
    BY <1>6 DEF vars
  <2> QED  BY <2>1, <1>2
<1> QED  BY <1>1, <1>2, <1>3, <1>4, <1>5, <1>6 DEF Next

-----------------------------------------------------------------------------
(* Reads *)

RdNotes == [mi : Nat, len : Nat]
RdWho == [b \in BurstSet |-> [mi |-> b.id[1], len |-> b.len]]
RdAnswerSet ==
    [id : Nat \X Nat, beat : Nat, last : BOOLEAN, resp : {"okay", "slverr", "decerr"}]
AnswerItem(bursts) ==
    [beat \in BeatsOf(bursts) |-> {AnswerBeat(bursts[beat[1]], beat[2])}]

RdBook ==
    Book(rd_bursts, m_ar, v_f_rd_sjs, rd_routed, v_f_rd_mis, RdWho, RdNotes, v_f_rd_err_info)

RdAnswered(mi) == Answered(rd_bursts[mi], m_ar[mi], v_f_rd_sjs[mi])
RdRelieved(sj) == Relieved(rd_routed[sj], v_f_rd_mis[sj])

\* What a slave works at: bursts it has still to answer, of the first of them
\* it has answered out beats, and the beats from position <<relieved + 1, count>>
\* on wait to be passed.
Working(addrs, resps, routed, relieved, count, out) ==
    /\ addrs \in Seq(BurstSet) /\ resps \in Seq(RdAnswerSet) /\ out \in Nat
    /\ Len(addrs) <= Len(routed)
    /\ Run(addrs, routed, Accepted(routed, addrs))
    /\ IF addrs = <<>> THEN out = 0 ELSE out <= Head(addrs).len
    /\ Carries(resps, AnswerItem(routed), routed, <<relieved + 1, count>>,
               <<Accepted(routed, addrs) + 1, out>>)

\* Master mi and slave sj wait for each other.
Turn(sjs, mis, mi, sj) ==
    /\ sjs[mi] # <<>> /\ Head(sjs[mi]) = sj
    /\ mis[sj] # <<>> /\ Head(mis[sj]).mi = mi

\* The oldest burst of master mi, of length len, has been answered k beats: so
\* says the counter of the slave whose turn it is, or that of its errors.
Progress(sjs, mis, counts, err, mi, k, len) ==
    /\ k \in Nat
    /\ sjs[mi] = <<>> => k = 0
    /\ sjs[mi] # <<>> => k <= len
    /\ err = IF sjs[mi] # <<>> /\ Head(sjs[mi]) = NoSlave THEN k ELSE 0
    /\ \A sj \in Slaves : Turn(sjs, mis, mi, sj) => counts[sj] = k
    /\ sjs[mi] # <<>> /\ Head(sjs[mi]) \in Slaves /\ ~Turn(sjs, mis, mi, Head(sjs[mi])) => k = 0

\* A counter that is not 0 is that of a slave whose turn it is.
CountsHeld(sjs, mis, counts) ==
    \A sj \in Slaves : counts[sj] # 0 => \E mi \in Masters : Turn(sjs, mis, mi, sj)

\* What has been passed to a master and not been taken.
Passing(fifo, bursts, next, answered, k) ==
    /\ fifo \in Seq(RdAnswerSet)
    /\ Carries(fifo, AnswerItem(bursts), bursts, next, <<answered + 1, k>>)

ReadTypes ==
    /\ m_r \in [Masters -> Seq(RdAnswerSet)] /\ r_next \in [Masters -> Position]
    /\ v_rg_r_err_beat_count \in [Masters -> Nat] /\ v_rg_r_beat_count \in [Slaves -> Nat]
    /\ s_ar \in [Slaves -> Seq(BurstSet)] /\ s_r \in [Slaves -> Seq(RdAnswerSet)]
    /\ beats_out \in [Slaves -> Nat]

Reading(mi, k) ==
    /\ Progress(v_f_rd_sjs, v_f_rd_mis, v_rg_r_beat_count, v_rg_r_err_beat_count[mi], mi, k,
                After(rd_bursts[mi], RdAnswered(mi)).len)
    /\ Passing(m_r[mi], rd_bursts[mi], r_next[mi], RdAnswered(mi), k)

ReadInv ==
    /\ RdBook
    /\ ReadTypes
    /\ CountsHeld(v_f_rd_sjs, v_f_rd_mis, v_rg_r_beat_count)
    /\ \A mi \in Masters : \E k \in Nat : Reading(mi, k)
    /\ \A sj \in Slaves :
           Working(s_ar[sj], s_r[sj], rd_routed[sj], RdRelieved(sj), v_rg_r_beat_count[sj],
                   beats_out[sj])

\* What the counters say of a burst does not depend on what comes behind it.
LEMMA TurnIsOne ==
    ASSUME NEW sjs, NEW mis, NEW counts, CountsHeld(sjs, mis, counts), NEW sj \in Slaves,
           NEW mi, mis[sj] # <<>> => Head(mis[sj]).mi = mi, counts[sj] # 0
    PROVE  Turn(sjs, mis, mi, sj)
BY DEF CountsHeld, Turn

\* More behind the oldest of a master's and of a slave's FIFO.
LEMMA ProgressMore ==
    ASSUME NEW sjs, NEW mis, NEW counts, NEW sjs2, NEW mis2,
           CountsHeld(sjs, mis, counts),
           \A m \in Masters : sjs[m] # <<>> => sjs2[m] # <<>> /\ Head(sjs2[m]) = Head(sjs[m]),
           \A s \in Slaves : mis[s] # <<>> => mis2[s] # <<>> /\ Head(mis2[s]) = Head(mis[s])
    PROVE  /\ CountsHeld(sjs2, mis2, counts)
           /\ \A m \in Masters : \A err, k, len :
                  /\ Progress(sjs, mis, counts, err, m, k, len)
                  /\ sjs[m] = <<>> /\ sjs2[m] # <<>> => len \in Nat
                  => Progress(sjs2, mis2, counts, err, m, k, len)
<1>1. ASSUME NEW m \in Masters, NEW s \in Slaves, Turn(sjs, mis, m, s)
      PROVE  Turn(sjs2, mis2, m, s)
  BY <1>1 DEF Turn
<1>2. CountsHeld(sjs2, mis2, counts)
  BY <1>1 DEF CountsHeld
<1>3. ASSUME NEW m \in Masters, NEW err, NEW k, NEW len,
             Progress(sjs, mis, counts, err, m, k, len),
             sjs[m] = <<>> /\ sjs2[m] # <<>> => len \in Nat
      PROVE  Progress(sjs2, mis2, counts, err, m, k, len)
  <2>1. k \in Nat /\ (sjs2[m] = <<>> => k = 0) /\ (sjs2[m] # <<>> => k <= len)
    BY <1>3 DEF Progress
  <2>2. err = IF sjs2[m] # <<>> /\ Head(sjs2[m]) = NoSlave THEN k ELSE 0
    BY <1>3 DEF Progress
  <2>3. ASSUME NEW s \in Slaves, Turn(sjs2, mis2, m, s) PROVE counts[s] = k
    <3>1. CASE Turn(sjs, mis, m, s)
      BY <3>1, <1>3 DEF Progress
    <3>2. CASE ~Turn(sjs, mis, m, s)
      <4>1. mis[s] # <<>> => Head(mis[s]).mi = m
        BY <2>3 DEF Turn
      <4>2. counts[s] = 0
        BY <4>1, <3>2, TurnIsOne
      <4>3. sjs[m] # <<>> => Head(sjs[m]) = s
        BY <2>3 DEF Turn
      <4>4. k = 0
        BY <4>3, <3>2, <1>3 DEF Progress
      <4> QED  BY <4>2, <4>4
    <3> QED  BY <3>1, <3>2
  <2>4. ASSUME sjs2[m] # <<>>, Head(sjs2[m]) \in Slaves, ~Turn(sjs2, mis2, m, Head(sjs2[m]))
        PROVE  k = 0
    <3>1. CASE sjs[m] = <<>>
      BY <3>1, <1>3 DEF Progress
    <3>2. CASE sjs[m] # <<>>
      <4>1. Head(sjs[m]) \in Slaves /\ ~Turn(sjs, mis, m, Head(sjs[m]))
        BY <3>2, <2>4, <1>1
      <4> QED  BY <4>1, <3>2, <1>3 DEF Progress
    <3> QED  BY <3>1, <3>2
  <2> QED  BY <2>1, <2>2, <2>3, <2>4 DEF Progress
<1> QED  BY <1>2, <1>3

\* A beat passes that is not the last of its burst.
BeatPassed(sjs, mis, counts, counts2, mi, sj) ==
    /\ CountsHeld(sjs, mis, counts) /\ Turn(sjs, mis, mi, sj)
    /\ counts2[sj] = counts[sj] + 1
    /\ \A s \in Slaves : s # sj => counts2[s] = counts[s]

LEMMA ProgressBeat ==
    ASSUME NEW sjs, NEW mis, NEW counts, NEW counts2, NEW mi \in Masters, NEW sj \in Slaves,
           BeatPassed(sjs, mis, counts, counts2, mi, sj),
           NEW err, NEW k, NEW len \in Nat, Progress(sjs, mis, counts, err, mi, k, len), k # len
    PROVE  /\ CountsHeld(sjs, mis, counts2)
           /\ Progress(sjs, mis, counts2, err, mi, k + 1, len)
           /\ \A m \in Masters : \A e, j, l :
                  m # mi /\ Progress(sjs, mis, counts, e, m, j, l)
                      => Progress(sjs, mis, counts2, e, m, j, l)
<1> USE DEF BeatPassed
<1>1. k \in Nat /\ k <= len /\ counts[sj] = k /\ sjs[mi] # <<>> /\ Head(sjs[mi]) = sj
  BY DEF Progress, Turn
<1>2. sj # NoSlave /\ err = 0
  BY <1>1, NoSlaveIsNone DEF Progress
<1>3. CountsHeld(sjs, mis, counts2)
  BY DEF CountsHeld
<1>4. k + 1 \in Nat /\ k + 1 <= len
  BY <1>1
<1>5. ASSUME NEW s \in Slaves, Turn(sjs, mis, mi, s) PROVE counts2[s] = k + 1
  <2>1. s = sj
    BY <1>5, <1>1 DEF Turn
  <2> QED  BY <2>1, <1>1
<1>6. Progress(sjs, mis, counts2, err, mi, k + 1, len)
  BY <1>1, <1>2, <1>4, <1>5 DEF Progress
<1>7. ASSUME NEW m \in Masters, NEW e, NEW j, NEW l, m # mi,
             Progress(sjs, mis, counts, e, m, j, l)
      PROVE  Progress(sjs, mis, counts2, e, m, j, l)
  <2>1. ASSUME NEW s \in Slaves, Turn(sjs, mis, m, s) PROVE counts2[s] = j
    <3>1. s # sj
      BY <2>1, <1>7 DEF Turn
    <3> QED  BY <3>1, <2>1, <1>7 DEF Progress
  <2> QED  BY <2>1, <1>7 DEF Progress
<1> QED  BY <1>3, <1>6, <1>7

\* The last beat passes.
LastPassed(sjs, mis, counts, sjs2, mis2, counts2, mi, sj) ==
    /\ CountsHeld(sjs, mis, counts) /\ Turn(sjs, mis, mi, sj)
    /\ \A m \in Masters : m # mi => sjs2[m] = sjs[m]
    /\ \A s \in Slaves : s # sj => mis2[s] = mis[s] /\ counts2[s] = counts[s]
    /\ counts2[sj] = 0

LEMMA ProgressLast ==
    ASSUME NEW sjs, NEW mis, NEW counts, NEW sjs2, NEW mis2, NEW counts2,
           NEW mi \in Masters, NEW sj \in Slaves,
           LastPassed(sjs, mis, counts, sjs2, mis2, counts2, mi, sj),
           NEW err, NEW k, NEW len, Progress(sjs, mis, counts, err, mi, k, len)
    PROVE  /\ CountsHeld(sjs2, mis2, counts2)
           /\ \A l \in Nat : Progress(sjs2, mis2, counts2, err, mi, 0, l)
           /\ \A m \in Masters : \A e, j, l :
                  m # mi /\ Progress(sjs, mis, counts, e, m, j, l)
                      => Progress(sjs2, mis2, counts2, e, m, j, l)
<1> USE DEF LastPassed
<1>1. sjs[mi] # <<>> /\ Head(sjs[mi]) = sj
  BY DEF Turn
<1>2. sj # NoSlave /\ err = 0
  BY <1>1, NoSlaveIsNone DEF Progress
<1>3. ASSUME NEW s \in Slaves, counts2[s] # 0
      PROVE  s # sj /\ \E m \in Masters : m # mi /\ Turn(sjs, mis, m, s) /\ Turn(sjs2, mis2, m, s)
  <2>1. s # sj /\ counts[s] # 0
    BY <1>3
  <2>2. PICK m \in Masters : Turn(sjs, mis, m, s)
    BY <2>1 DEF CountsHeld
  <2>3. m # mi
    BY <2>1, <2>2, <1>1 DEF Turn
  <2>4. Turn(sjs2, mis2, m, s)
    BY <2>1, <2>2, <2>3 DEF Turn
  <2> QED  BY <2>1, <2>2, <2>3, <2>4
<1>4. CountsHeld(sjs2, mis2, counts2)
  BY <1>3 DEF CountsHeld
<1>5. ASSUME NEW s \in Slaves, Turn(sjs2, mis2, mi, s) PROVE counts2[s] = 0
  <2> SUFFICES ASSUME counts2[s] # 0 PROVE FALSE
    OBVIOUS
  <2>1. PICK m \in Masters : m # mi /\ Turn(sjs2, mis2, m, s)
    BY <1>3
  <2> QED  BY <2>1, <1>5 DEF Turn
<1>6. ASSUME NEW l \in Nat PROVE Progress(sjs2, mis2, counts2, err, mi, 0, l)
  BY <1>2, <1>5 DEF Progress
<1>7. ASSUME NEW m \in Masters, NEW e, NEW j, NEW l, m # mi,
             Progress(sjs, mis, counts, e, m, j, l)
      PROVE  Progress(sjs2, mis2, counts2, e, m, j, l)
  <2>1. sjs2[m] = sjs[m] /\ ~Turn(sjs, mis, m, sj)
    BY <1>7 DEF Turn
  <2>2. sjs[m] # <<>> /\ Head(sjs[m]) = sj => j = 0
    BY <2>1, <1>7 DEF Progress
  <2>3. ASSUME NEW s \in Slaves, Turn(sjs2, mis2, m, s) PROVE counts2[s] = j
    <3>1. CASE s = sj
      <4>1. sjs[m] # <<>> /\ Head(sjs[m]) = sj
        BY <3>1, <2>1, <2>3 DEF Turn
      <4> QED  BY <4>1, <3>1, <2>2
    <3>2. CASE s # sj
      <4>1. Turn(sjs, mis, m, s)
        BY <3>2, <2>1, <2>3 DEF Turn
      <4> QED  BY <4>1, <3>2, <1>7 DEF Progress
    <3> QED  BY <3>1, <3>2
  <2>4. ASSUME sjs2[m] # <<>>, Head(sjs2[m]) \in Slaves, ~Turn(sjs2, mis2, m, Head(sjs2[m]))
        PROVE  j = 0
    <3>1. CASE Head(sjs[m]) = sj
      BY <3>1, <2>1, <2>2, <2>4
    <3>2. CASE Head(sjs[m]) # sj
      <4>1. ~Turn(sjs, mis, m, Head(sjs[m]))
        BY <3>2, <2>1, <2>4 DEF Turn
      <4> QED  BY <4>1, <2>1, <2>4, <1>7 DEF Progress
    <3> QED  BY <3>1, <3>2
  <2> QED  BY <2>1, <2>3, <2>4, <1>7 DEF Progress
<1> QED  BY <1>4, <1>6, <1>7

\* A beat of a decode error passes that is not the last of its burst.
LEMMA ProgressFail ==
    ASSUME NEW sjs, NEW mis, NEW counts, NEW mi \in Masters,
           sjs[mi] # <<>>, Head(sjs[mi]) = NoSlave,
           NEW err, NEW k, NEW len \in Nat, Progress(sjs, mis, counts, err, mi, k, len), k # len
    PROVE  err = k /\ Progress(sjs, mis, counts, err + 1, mi, k + 1, len)
<1>1. k \in Nat /\ k <= len /\ err = k
  BY DEF Progress
<1>2. k + 1 \in Nat /\ k + 1 <= len
  BY <1>1
<1>3. \A s \in Slaves : ~Turn(sjs, mis, mi, s)
  BY NoSlaveIsNone DEF Turn
<1> QED  BY <1>1, <1>2, <1>3, NoSlaveIsNone DEF Progress

\* The last beat of a decode error passes.
FailPassed(sjs, mis, counts, sjs2, mi) ==
    /\ CountsHeld(sjs, mis, counts) /\ sjs[mi] # <<>> /\ Head(sjs[mi]) = NoSlave
    /\ \A m \in Masters : m # mi => sjs2[m] = sjs[m]

LEMMA ProgressFailLast ==
    ASSUME NEW sjs, NEW mis, NEW counts, NEW sjs2, NEW mi \in Masters,
           FailPassed(sjs, mis, counts, sjs2, mi)
    PROVE  /\ CountsHeld(sjs2, mis, counts)
           /\ \A l \in Nat : Progress(sjs2, mis, counts, 0, mi, 0, l)
           /\ \A m \in Masters : \A e, j, l :
                  m # mi /\ Progress(sjs, mis, counts, e, m, j, l)
                      => Progress(sjs2, mis, counts, e, m, j, l)
<1> USE DEF FailPassed
<1>1. ASSUME NEW s \in Slaves, counts[s] # 0
      PROVE  \E m \in Masters : m # mi /\ Turn(sjs, mis, m, s) /\ Turn(sjs2, mis, m, s)
  <2>1. PICK m \in Masters : Turn(sjs, mis, m, s)
    BY <1>1 DEF CountsHeld
  <2>2. m # mi
    BY <2>1, NoSlaveIsNone DEF Turn
  <2> QED  BY <2>1, <2>2 DEF Turn
<1>2. CountsHeld(sjs2, mis, counts)
  BY <1>1 DEF CountsHeld
<1>3. ASSUME NEW s \in Slaves, Turn(sjs2, mis, mi, s) PROVE counts[s] = 0
  <2> SUFFICES ASSUME counts[s] # 0 PROVE FALSE
    OBVIOUS
  <2>1. PICK m \in Masters : m # mi /\ Turn(sjs2, mis, m, s)
    BY <1>1
  <2> QED  BY <2>1, <1>3 DEF Turn
<1>4. ASSUME NEW l \in Nat PROVE Progress(sjs2, mis, counts, 0, mi, 0, l)
  BY <1>3 DEF Progress
<1>5. ASSUME NEW m \in Masters, NEW e, NEW j, NEW l, m # mi,
             Progress(sjs, mis, counts, e, m, j, l)
      PROVE  Progress(sjs2, mis, counts, e, m, j, l)
  <2>1. sjs2[m] = sjs[m] /\ \A s \in Slaves : Turn(sjs2, mis, m, s) <=> Turn(sjs, mis, m, s)
    BY <1>5 DEF Turn
  <2>2. ASSUME sjs2[m] # <<>>, Head(sjs2[m]) \in Slaves, ~Turn(sjs2, mis, m, Head(sjs2[m]))
        PROVE  j = 0
    <3>1. sjs[m] # <<>> /\ Head(sjs[m]) \in Slaves /\ ~Turn(sjs, mis, m, Head(sjs[m]))
      BY <2>1, <2>2
    <3> QED  BY <3>1, <1>5 DEF Progress
  <2> QED  BY <2>1, <2>2, <1>5 DEF Progress
<1> QED  BY <1>2, <1>4, <1>5

LEMMA AnswerBeatType ==
    ASSUME NEW b \in BurstSet, NEW k \in Nat
    PROVE  AnswerBeat(b, k) \in RdAnswerSet
<1>1. b.id \in Nat \X Nat
  BY BurstFields
<1>2. Resp(b) \in {"okay", "slverr", "decerr"} /\ (k = b.len) \in BOOLEAN
  BY DEF Resp
<1> QED  BY <1>1, <1>2 DEF AnswerBeat, RdAnswerSet

\* The beat <<n + 1, k>> and the one after it, counted.
LEMMA AnswerNext ==
    ASSUME NEW bursts \in Seq(BurstSet), NEW n \in Nat, NEW k \in Nat,
           n < Len(bursts), k <= After(bursts, n).len
    PROVE  /\ <<n + 1, k>> \in BeatsOf(bursts)
           /\ AnswerItem(bursts)[<<n + 1, k>>] = {AnswerBeat(After(bursts, n), k)}
           /\ NextBeat(bursts, <<n + 1, k>>)
                  = IF k = After(bursts, n).len THEN <<(n + 1) + 1, 0>> ELSE <<n + 1, k + 1>>
           /\ AnswerBeat(After(bursts, n), k) \in RdAnswerSet
           /\ After(bursts, n) \in BurstSet
<1>1. n + 1 \in 1 .. Len(bursts) /\ n + 1 \in Nat
  OBVIOUS
<1>2. After(bursts, n) = bursts[n + 1] /\ After(bursts, n) \in BurstSet
  BY <1>1 DEF After
<1>3. After(bursts, n).len \in Nat
  BY <1>2, BurstFields
<1>4. <<n + 1, k>> \in Position /\ <<n + 1, k>>[1] = n + 1 /\ <<n + 1, k>>[2] = k
  BY <1>1 DEF Position
<1>5. <<n + 1, k>> \in BeatsOf(bursts)
  BY <1>1, <1>2, <1>4 DEF BeatsOf
<1>6. AnswerItem(bursts)[<<n + 1, k>>] = {AnswerBeat(After(bursts, n), k)}
  BY <1>2, <1>4, <1>5 DEF AnswerItem
<1>7. NextBeat(bursts, <<n + 1, k>>)
          = IF k = After(bursts, n).len THEN <<(n + 1) + 1, 0>> ELSE <<n + 1, k + 1>>
  BY <1>1, <1>2, <1>3, CountedBeat
<1> QED  BY <1>2, <1>5, <1>6, <1>7, AnswerBeatType

\* What beat is in BeatsOf says of its burst.
LEMMA AnswerFrom ==
    ASSUME NEW bursts \in Seq(BurstSet), NEW n \in Nat, NEW k \in Nat,
           <<n + 1, k>> \in BeatsOf(bursts)
    PROVE  n < Len(bursts) /\ k <= After(bursts, n).len
<1>1. <<n + 1, k>>[1] = n + 1 /\ <<n + 1, k>>[2] = k
  OBVIOUS
<1>2. n + 1 \in 1 .. Len(bursts) /\ k <= bursts[n + 1].len
  BY <1>1 DEF BeatsOf
<1> QED  BY <1>2 DEF After

LEMMA AnswersMore ==
    ASSUME NEW bursts \in Seq(BurstSet), NEW b \in BurstSet, NEW fifo \in Seq(RdAnswerSet),
           NEW from, NEW to, Carries(fifo, AnswerItem(bursts), bursts, from, to)
    PROVE  Carries(fifo, AnswerItem(Append(bursts, b)), Append(bursts, b), from, to)
<1> DEFINE more == Append(bursts, b)
<1>0. /\ Len(bursts) \in Nat /\ Len(more) \in Nat /\ Len(bursts) <= Len(more)
      /\ \A n \in 1 .. Len(bursts) : more[n] = bursts[n]
  OBVIOUS
<1> HIDE DEF more
<1>1. ASSUME NEW beat \in BeatsOf(bursts)
      PROVE  /\ beat \in BeatsOf(more)
             /\ NextBeat(more, beat) = NextBeat(bursts, beat)
             /\ AnswerItem(bursts)[beat] \subseteq AnswerItem(more)[beat]
  <2>1. /\ beat \in BeatsOf(more) /\ NextBeat(more, beat) = NextBeat(bursts, beat)
        /\ more[beat[1]] = bursts[beat[1]]
    BY <1>0, BeatsOfMore
  <2> QED  BY <2>1 DEF AnswerItem
<1> QED  BY <1>1, CarriesMono DEF more

LEMMA PassingNew ==
    ASSUME NEW bursts \in Seq(BurstSet), NEW b \in BurstSet, NEW fifo, NEW next,
           NEW answered, NEW k, Passing(fifo, bursts, next, answered, k)
    PROVE  Passing(fifo, Append(bursts, b), next, answered, k)
BY AnswersMore DEF Passing

LEMMA PassingEnq ==
    ASSUME NEW bursts \in Seq(BurstSet), NEW fifo, NEW next, NEW answered \in Nat, NEW k \in Nat,
           Passing(fifo, bursts, next, answered, k),
           answered < Len(bursts), k <= After(bursts, answered).len
    PROVE  LET longer == Append(fifo, AnswerBeat(After(bursts, answered), k))
           IN  IF k = After(bursts, answered).len
               THEN Passing(longer, bursts, next, answered + 1, 0)
               ELSE Passing(longer, bursts, next, answered, k + 1)
<1> DEFINE x == AnswerBeat(After(bursts, answered), k)
           to == <<answered + 1, k>>
<1>1. fifo \in Seq(RdAnswerSet) /\ Carries(fifo, AnswerItem(bursts), bursts, next, to)
  BY DEF Passing
<1>2. /\ to \in BeatsOf(bursts) /\ x \in AnswerItem(bursts)[to] /\ x \in RdAnswerSet
      /\ NextBeat(bursts, to)
             = IF k = After(bursts, answered).len THEN <<(answered + 1) + 1, 0>> ELSE <<answered + 1, k + 1>>
  BY AnswerNext
<1> HIDE DEF x, to
<1>3. Carries(Append(fifo, x), AnswerItem(bursts), bursts, next, NextBeat(bursts, to))
  BY <1>1, <1>2, CarriesAppend
<1>4. Append(fifo, x) \in Seq(RdAnswerSet)
  BY <1>1, <1>2
<1>5. CASE k = After(bursts, answered).len
  <2>1. Passing(Append(fifo, x), bursts, next, answered + 1, 0)
    BY <1>2, <1>3, <1>4, <1>5 DEF Passing
  <2> QED  BY <2>1, <1>5 DEF x
<1>6. CASE k # After(bursts, answered).len
  <2>1. Passing(Append(fifo, x), bursts, next, answered, k + 1)
    BY <1>2, <1>3, <1>4, <1>6 DEF Passing
  <2> QED  BY <2>1, <1>6 DEF x
<1> QED  BY <1>5, <1>6

LEMMA PassingTake ==
    ASSUME NEW bursts, NEW fifo, NEW next, NEW answered, NEW k,
           Passing(fifo, bursts, next, answered, k), fifo # <<>>
    PROVE  /\ Head(fifo) = AnswerBeat(bursts[next[1]], next[2])
           /\ Passing(Tail(fifo), bursts, NextBeat(bursts, next), answered, k)
           /\ NextBeat(bursts, next) \in Position
<1>1. fifo \in Seq(RdAnswerSet) /\ Tail(fifo) \in Seq(RdAnswerSet)
      /\ Carries(fifo, AnswerItem(bursts), bursts, next, <<answered + 1, k>>)
  BY DEF Passing
<1>2. /\ next \in BeatsOf(bursts) /\ Head(fifo) \in AnswerItem(bursts)[next]
      /\ Carries(Tail(fifo), AnswerItem(bursts), bursts, NextBeat(bursts, next), <<answered + 1, k>>)
  BY <1>1, CarriesTail
<1>3. Head(fifo) = AnswerBeat(bursts[next[1]], next[2])
  BY <1>2 DEF AnswerItem
<1> QED  BY <1>1, <1>2, <1>3, NextIsPosition DEF Passing

LEMMA WorkingEnq ==
    ASSUME NEW addrs, NEW resps, NEW routed \in Seq(BurstSet), NEW relieved, NEW count, NEW out,
           Working(addrs, resps, routed, relieved, count, out), NEW b \in BurstSet
    PROVE  Working(Append(addrs, b), resps, Append(routed, b), relieved, count, out)
<1> DEFINE more == Append(routed, b)
           longer == Append(addrs, b)
           n == Accepted(routed, addrs)
<1>1. /\ addrs \in Seq(BurstSet) /\ resps \in Seq(RdAnswerSet) /\ out \in Nat
      /\ Len(addrs) <= Len(routed) /\ Run(addrs, routed, n)
      /\ (addrs = <<>> => out = 0) /\ (addrs # <<>> => out <= Head(addrs).len)
      /\ Carries(resps, AnswerItem(routed), routed, <<relieved + 1, count>>, <<n + 1, out>>)
  BY DEF Working
<1>2. /\ Len(routed) \in Nat /\ Len(more) = Len(routed) + 1 /\ more[Len(routed) + 1] = b
      /\ \A i \in 1 .. Len(routed) : more[i] = routed[i]
      /\ longer \in Seq(BurstSet) /\ Len(longer) = Len(addrs) + 1 /\ Len(addrs) \in Nat
      /\ longer # <<>> /\ (addrs = <<>> => Head(longer) = b)
      /\ (addrs # <<>> => Head(longer) = Head(addrs))
  <2>1. /\ Len(routed) \in Nat /\ Len(more) = Len(routed) + 1 /\ more[Len(routed) + 1] = b
        /\ \A i \in 1 .. Len(routed) : more[i] = routed[i]
    OBVIOUS
  <2>2. addrs \in Seq(BurstSet)
    BY <1>1
  <2>3. /\ longer \in Seq(BurstSet) /\ Len(longer) = Len(addrs) + 1 /\ Len(addrs) \in Nat
        /\ longer # <<>> /\ (addrs = <<>> => Head(longer) = b)
        /\ (addrs # <<>> => Head(longer) = Head(addrs))
    BY <2>2
  <2> QED  BY <2>1, <2>3
<1>3. Carries(resps, AnswerItem(more), more, <<relieved + 1, count>>, <<n + 1, out>>)
  BY <1>1, AnswersMore
<1>4. out <= Head(longer).len
  <2>1. b.len \in Nat
    BY BurstFields
  <2> HIDE DEF longer
  <2> QED  BY <2>1, <1>1, <1>2
<1> HIDE DEF more
<1>5. n + Len(addrs) = Len(routed) /\ n \in Nat
  BY <1>1, <1>2 DEF Accepted
<1>6. Accepted(more, longer) = n
  <2> HIDE DEF longer
  <2> QED  BY <1>2 DEF Accepted
<1> HIDE DEF n
<1>7. n + Len(addrs) <= Len(routed)
  BY <1>2, <1>5
<1>8. Run(addrs, more, n)
  BY <1>1, <1>2, <1>7, RunGrow
<1>9. b = more[(n + Len(addrs)) + 1]
  BY <1>2, <1>5
<1>10. Run(longer, more, n)
  BY <1>1, <1>8, <1>9, RunAppend
<1>11. Len(longer) <= Len(more)
  BY <1>1, <1>2
<1> HIDE DEF longer
<1>12. Working(longer, resps, more, relieved, count, out)
  BY <1>1, <1>2, <1>3, <1>4, <1>6, <1>10, <1>11 DEF Working
<1> QED  BY <1>12 DEF longer, more

LEMMA WorkingSend ==
    ASSUME NEW addrs, NEW resps, NEW routed \in Seq(BurstSet), NEW relieved, NEW count, NEW out,
           Working(addrs, resps, routed, relieved, count, out), addrs # <<>>
    PROVE  LET b == Head(addrs)
               longer == Append(resps, AnswerBeat(b, out))
           IN  /\ longer \in Seq(RdAnswerSet)
               /\ IF out = b.len
                  THEN Working(Tail(addrs), longer, routed, relieved, count, 0)
                  ELSE Working(addrs, longer, routed, relieved, count, out + 1)
<1> DEFINE n == Accepted(routed, addrs)
           b == Head(addrs)
           x == AnswerBeat(b, out)
           longer == Append(resps, x)
           to == <<n + 1, out>>
<1>1. /\ addrs \in Seq(BurstSet) /\ resps \in Seq(RdAnswerSet) /\ out \in Nat
      /\ Len(addrs) <= Len(routed) /\ Run(addrs, routed, n) /\ out <= b.len
      /\ Carries(resps, AnswerItem(routed), routed, <<relieved + 1, count>>, to)
  BY DEF Working
<1>2. /\ Len(routed) \in Nat /\ Len(addrs) \in Nat /\ Len(addrs) >= 1
      /\ Tail(addrs) \in Seq(BurstSet) /\ Len(Tail(addrs)) = Len(addrs) - 1
      /\ b \in BurstSet
      /\ (Tail(addrs) # <<>> => Head(Tail(addrs)) \in BurstSet)
  BY <1>1
<1>3. n \in Nat /\ n < Len(routed) /\ Accepted(routed, Tail(addrs)) = n + 1
  BY <1>1, <1>2 DEF Accepted
<1> HIDE DEF n
<1>4. b = After(routed, n) /\ Run(Tail(addrs), routed, n + 1)
  BY <1>1, RunTail DEF After
<1>5. /\ to \in BeatsOf(routed) /\ x \in AnswerItem(routed)[to] /\ x \in RdAnswerSet
      /\ NextBeat(routed, to) = IF out = b.len THEN <<(n + 1) + 1, 0>> ELSE <<n + 1, out + 1>>
  <2> HIDE DEF b
  <2> QED  BY <1>1, <1>3, <1>4, AnswerNext
<1>6. b.len \in Nat /\ (Tail(addrs) # <<>> => Head(Tail(addrs)).len \in Nat)
  <2>1. \A c \in BurstSet : c.len \in Nat
    BY BurstFields
  <2> QED  BY <2>1, <1>2
<1> HIDE DEF b, x, to
<1>7. /\ longer \in Seq(RdAnswerSet)
      /\ Carries(longer, AnswerItem(routed), routed, <<relieved + 1, count>>, NextBeat(routed, to))
  BY <1>1, <1>5, CarriesAppend
<1> HIDE DEF longer
<1>8. CASE out = b.len
  <2>1. NextBeat(routed, to) = <<Accepted(routed, Tail(addrs)) + 1, 0>>
    BY <1>3, <1>5, <1>8
  <2>2. Len(Tail(addrs)) <= Len(routed)
    BY <1>1, <1>2
  <2>3. IF Tail(addrs) = <<>> THEN 0 = 0 ELSE 0 <= Head(Tail(addrs)).len
    BY <1>6
  <2>4. Run(Tail(addrs), routed, Accepted(routed, Tail(addrs)))
    BY <1>3, <1>4
  <2>5. Working(Tail(addrs), longer, routed, relieved, count, 0)
    BY <2>1, <2>2, <2>3, <2>4, <1>2, <1>7 DEF Working
  <2> QED  BY <2>5, <1>7, <1>8 DEF longer, x, b
<1>9. CASE out # b.len
  <2>1. NextBeat(routed, to) = <<Accepted(routed, addrs) + 1, out + 1>>
    BY <1>5, <1>9 DEF n
  <2>2. out + 1 <= b.len /\ out + 1 \in Nat
    BY <1>1, <1>6, <1>9
  <2>3. Run(addrs, routed, Accepted(routed, addrs))
    BY <1>1 DEF n
  <2>4. Working(addrs, longer, routed, relieved, count, out + 1)
    BY <2>1, <2>2, <2>3, <1>1, <1>7 DEF Working, b
  <2> QED  BY <2>4, <1>7, <1>9 DEF longer, x, b
<1> QED  BY <1>8, <1>9

LEMMA WorkingFirst ==
    ASSUME NEW addrs, NEW resps, NEW routed \in Seq(BurstSet), NEW relieved \in Nat,
           NEW count \in Nat, NEW out,
           Working(addrs, resps, routed, relieved, count, out), resps # <<>>
    PROVE  /\ Head(resps) = AnswerBeat(After(routed, relieved), count)
           /\ count <= After(routed, relieved).len /\ relieved < Len(routed)
<1> DEFINE from == <<relieved + 1, count>>
           to == <<Accepted(routed, addrs) + 1, out>>
<1>1. resps \in Seq(RdAnswerSet) /\ Carries(resps, AnswerItem(routed), routed, from, to)
  BY DEF Working
<1>2. from \in BeatsOf(routed) /\ Head(resps) \in AnswerItem(routed)[from]
  <2> HIDE DEF from, to
  <2> QED  BY <1>1, CarriesTail
<1>3. relieved < Len(routed) /\ count <= After(routed, relieved).len
  BY <1>2, AnswerFrom
<1>4. /\ AnswerItem(routed)[from] = {AnswerBeat(After(routed, relieved), count)}
      /\ NextBeat(routed, from) = IF count = After(routed, relieved).len
                                  THEN <<(relieved + 1) + 1, 0>>
                                  ELSE <<relieved + 1, count + 1>>
  BY <1>3, AnswerNext
<1> QED  BY <1>2, <1>3, <1>4

LEMMA WorkingPass ==
    ASSUME NEW addrs, NEW resps, NEW routed \in Seq(BurstSet), NEW relieved \in Nat,
           NEW count \in Nat, NEW out,
           Working(addrs, resps, routed, relieved, count, out), resps # <<>>
    PROVE  /\ Tail(resps) \in Seq(RdAnswerSet)
           /\ count = After(routed, relieved).len =>
                  Working(addrs, Tail(resps), routed, relieved + 1, 0, out)
           /\ count # After(routed, relieved).len =>
                  Working(addrs, Tail(resps), routed, relieved, count + 1, out)
<1> DEFINE b == After(routed, relieved)
           from == <<relieved + 1, count>>
           to == <<Accepted(routed, addrs) + 1, out>>
           rest == Tail(resps)
<1>1. /\ resps \in Seq(RdAnswerSet) /\ rest \in Seq(RdAnswerSet)
      /\ Carries(resps, AnswerItem(routed), routed, from, to)
  BY DEF Working
<1>2. Carries(rest, AnswerItem(routed), routed, NextBeat(routed, from), to)
  <2> HIDE DEF from, to
  <2> QED  BY <1>1, CarriesTail
<1>3. relieved < Len(routed) /\ count <= b.len
  BY WorkingFirst
<1>4. NextBeat(routed, from)
          = IF count = b.len THEN <<(relieved + 1) + 1, 0>> ELSE <<relieved + 1, count + 1>>
  BY <1>3, AnswerNext
<1> HIDE DEF b, from, rest
<1>5. CASE count = b.len
  <2>1. Working(addrs, rest, routed, relieved + 1, 0, out)
    BY <1>1, <1>2, <1>4, <1>5 DEF Working
  <2> QED  BY <2>1, <1>1, <1>5 DEF b, rest
<1>6. CASE count # b.len
  <2>1. Working(addrs, rest, routed, relieved, count + 1, out)
    BY <1>1, <1>2, <1>4, <1>6 DEF Working
  <2> QED  BY <2>1, <1>1, <1>6 DEF b, rest
<1> QED  BY <1>5, <1>6

LEMMA AfterIsBurst ==
    ASSUME NEW bursts \in Seq(BurstSet), NEW n \in Nat, n < Len(bursts)
    PROVE  After(bursts, n) \in BurstSet /\ After(bursts, n).len \in Nat
<1>1. n + 1 \in 1 .. Len(bursts)
  OBVIOUS
<1>2. After(bursts, n) \in BurstSet
  BY <1>1 DEF After
<1> QED  BY <1>2, BurstFields

\* What a port and a route are in RdBook.
LEMMA RdParts ==
    ASSUME ReadInv
    PROVE  /\ \A mi \in Masters :
                  /\ Port(mi, rd_bursts[mi], m_ar[mi], v_f_rd_sjs[mi])
                  /\ rd_bursts[mi] \in Seq(BurstSet)
                  /\ RdAnswered(mi) \in Nat /\ RdAnswered(mi) <= Len(rd_bursts[mi])
           /\ \A sj \in Slaves :
                  /\ Route(sj, rd_routed[sj], v_f_rd_mis[sj], RdWho, RdNotes)
                  /\ rd_routed[sj] \in Seq(BurstSet) /\ RdRelieved(sj) \in Nat
                  /\ Working(s_ar[sj], s_r[sj], rd_routed[sj], RdRelieved(sj),
                             v_rg_r_beat_count[sj], beats_out[sj])
<1>1. ASSUME NEW mi \in Masters
      PROVE  /\ Port(mi, rd_bursts[mi], m_ar[mi], v_f_rd_sjs[mi])
             /\ rd_bursts[mi] \in Seq(BurstSet)
             /\ RdAnswered(mi) \in Nat /\ RdAnswered(mi) <= Len(rd_bursts[mi])
  <2>1. Port(mi, rd_bursts[mi], m_ar[mi], v_f_rd_sjs[mi])
    BY DEF ReadInv, RdBook, Book
  <2>2. rd_bursts[mi] \in Seq(BurstSet)
    BY <2>1 DEF Port, Numbered
  <2>3. RdAnswered(mi) \in Nat /\ RdAnswered(mi) <= Len(rd_bursts[mi])
    BY <2>1, PortCounts DEF RdAnswered
  <2> QED  BY <2>1, <2>2, <2>3
<1>2. ASSUME NEW sj \in Slaves
      PROVE  /\ Route(sj, rd_routed[sj], v_f_rd_mis[sj], RdWho, RdNotes)
             /\ rd_routed[sj] \in Seq(BurstSet) /\ RdRelieved(sj) \in Nat
             /\ Working(s_ar[sj], s_r[sj], rd_routed[sj], RdRelieved(sj),
                        v_rg_r_beat_count[sj], beats_out[sj])
  <2>1. /\ Route(sj, rd_routed[sj], v_f_rd_mis[sj], RdWho, RdNotes)
        /\ Working(s_ar[sj], s_r[sj], rd_routed[sj], RdRelieved(sj),
                   v_rg_r_beat_count[sj], beats_out[sj])
    BY DEF ReadInv, RdBook, Book
  <2>2. RdRelieved(sj) \in Nat
    BY <2>1, RouteCounts DEF RdRelieved
  <2> QED  BY <2>1, <2>2 DEF Route
<1> QED  BY <1>1, <1>2

\* The fabric accepts a burst of master mi: for the answers nothing changes.
LEMMA RdAcceptedKeeps ==
    ASSUME ReadInv, NEW mi \in Masters, NEW dest, m_ar[mi] # <<>>, Head(m_ar[mi]).to = dest,
           m_ar' = [m_ar EXCEPT ![mi] = Tail(@)],
           v_f_rd_sjs' = [v_f_rd_sjs EXCEPT ![mi] = Append(@, dest)],
           \A s \in Slaves : v_f_rd_mis[s] # <<>> =>
               v_f_rd_mis'[s] # <<>> /\ Head(v_f_rd_mis'[s]) = Head(v_f_rd_mis[s]),
           UNCHANGED <<rd_bursts, m_r, r_next, v_rg_r_beat_count, v_rg_r_err_beat_count>>
    PROVE  /\ Head(m_ar[mi]) \in BurstSet /\ Head(m_ar[mi]).id[1] = mi
           /\ CountsHeld(v_f_rd_sjs, v_f_rd_mis, v_rg_r_beat_count)'
           /\ \A m \in Masters : (\E k \in Nat : Reading(m, k))'
<1>1. /\ m_ar \in [Masters -> Seq(BurstSet)] /\ v_f_rd_sjs \in [Masters -> Seq(Dests)]
      /\ CountsHeld(v_f_rd_sjs, v_f_rd_mis, v_rg_r_beat_count)
  BY DEF ReadInv, RdBook, Book, BookTypes
<1>2. Port(mi, rd_bursts[mi], m_ar[mi], v_f_rd_sjs[mi])
  BY RdParts
<1>3. /\ Head(m_ar[mi]) \in BurstSet /\ Head(m_ar[mi]).id[1] = mi
      /\ Answered(rd_bursts[mi], Tail(m_ar[mi]), Append(v_f_rd_sjs[mi], dest)) = RdAnswered(mi)
      /\ Accepted(rd_bursts[mi], m_ar[mi]) < Len(rd_bursts[mi])
  BY <1>2, PortRoute DEF RdAnswered
<1>4. After(rd_bursts[mi], RdAnswered(mi)).len \in Nat
  <2>1. /\ Accepted(rd_bursts[mi], m_ar[mi]) \in Nat /\ Len(rd_bursts[mi]) \in Nat
        /\ RdAnswered(mi) <= Accepted(rd_bursts[mi], m_ar[mi])
    BY <1>2, PortCounts DEF RdAnswered
  <2>2. RdAnswered(mi) \in Nat /\ rd_bursts[mi] \in Seq(BurstSet)
    BY RdParts
  <2>3. RdAnswered(mi) < Len(rd_bursts[mi])
    BY <2>1, <2>2, <1>3
  <2> QED  BY <2>2, <2>3, AfterIsBurst
<1>5. v_f_rd_sjs'[mi] = Append(v_f_rd_sjs[mi], dest) /\ m_ar'[mi] = Tail(m_ar[mi])
  BY <1>1
<1>6. \A m \in Masters : m # mi => v_f_rd_sjs'[m] = v_f_rd_sjs[m] /\ m_ar'[m] = m_ar[m]
  BY <1>1
<1>7. \A m \in Masters : v_f_rd_sjs[m] # <<>> =>
          v_f_rd_sjs'[m] # <<>> /\ Head(v_f_rd_sjs'[m]) = Head(v_f_rd_sjs[m])
  <2> TAKE m \in Masters
  <2>1. v_f_rd_sjs[mi] \in Seq(Dests)
    BY <1>1
  <2>2. dest \in Dests
    BY <1>3, BurstFields
  <2>3. v_f_rd_sjs[mi] # <<>> =>
            Append(v_f_rd_sjs[mi], dest) # <<>> /\ Head(Append(v_f_rd_sjs[mi], dest)) = Head(v_f_rd_sjs[mi])
    BY <2>1, <2>2
  <2> QED  BY <2>3, <1>5, <1>6
<1>8. /\ CountsHeld(v_f_rd_sjs', v_f_rd_mis', v_rg_r_beat_count)
      /\ \A m \in Masters : \A err, k, len :
             /\ Progress(v_f_rd_sjs, v_f_rd_mis, v_rg_r_beat_count, err, m, k, len)
             /\ v_f_rd_sjs[m] = <<>> /\ v_f_rd_sjs'[m] # <<>> => len \in Nat
             => Progress(v_f_rd_sjs', v_f_rd_mis', v_rg_r_beat_count, err, m, k, len)
  <2> DEFINE sjs2 == v_f_rd_sjs'
             mis2 == v_f_rd_mis'
  <2>1. \A m \in Masters : v_f_rd_sjs[m] # <<>> =>
            sjs2[m] # <<>> /\ Head(sjs2[m]) = Head(v_f_rd_sjs[m])
    BY <1>7
  <2>2. \A s \in Slaves : v_f_rd_mis[s] # <<>> =>
            mis2[s] # <<>> /\ Head(mis2[s]) = Head(v_f_rd_mis[s])
    OBVIOUS
  <2> HIDE DEF sjs2, mis2
  <2>3. CountsHeld(sjs2, mis2, v_rg_r_beat_count)
    BY <1>1, <2>1, <2>2, ProgressMore
  <2>4. \A m \in Masters : \A err, k, len :
            /\ Progress(v_f_rd_sjs, v_f_rd_mis, v_rg_r_beat_count, err, m, k, len)
            /\ v_f_rd_sjs[m] = <<>> /\ sjs2[m] # <<>> => len \in Nat
            => Progress(sjs2, mis2, v_rg_r_beat_count, err, m, k, len)
    BY <1>1, <2>1, <2>2, ProgressMore
  <2> QED  BY <2>3, <2>4 DEF sjs2, mis2
<1>9. ASSUME NEW m \in Masters
      PROVE  (\E k \in Nat : Reading(m, k))'
  <2>1. PICK k \in Nat : Reading(m, k)
    BY DEF ReadInv
  <2>2. RdAnswered(m)' = RdAnswered(m)
    BY <1>3, <1>5, <1>6 DEF RdAnswered
  <2>3. v_f_rd_sjs[m] = <<>> /\ v_f_rd_sjs'[m] # <<>> => After(rd_bursts[m], RdAnswered(m)).len \in Nat
    BY <1>4, <1>6
  <2>4. Progress(v_f_rd_sjs', v_f_rd_mis', v_rg_r_beat_count, v_rg_r_err_beat_count[m], m, k,
                 After(rd_bursts[m], RdAnswered(m)).len)
    BY <2>1, <2>3, <1>8 DEF Reading
  <2>5. Reading(m, k)'
    BY <2>1, <2>2, <2>4 DEF Reading
  <2> QED  BY <2>5
<1> QED  BY <1>3, <1>8, <1>9

LEMMA RdXactionKeeps ==
    ASSUME ReadInv, NEW mi \in Masters, NEW sj \in Slaves, RdXaction(mi, sj)
    PROVE  ReadInv'
<1> DEFINE b == Head(m_ar[mi])
           note == [mi |-> mi, len |-> b.len]
<1>1. /\ m_ar[mi] # <<>> /\ b.to = sj
      /\ m_ar' = [m_ar EXCEPT ![mi] = Tail(@)]
      /\ s_ar' = [s_ar EXCEPT ![sj] = Append(@, b)]
      /\ v_f_rd_mis' = [v_f_rd_mis EXCEPT ![sj] = Append(@, note)]
      /\ v_f_rd_sjs' = [v_f_rd_sjs EXCEPT ![mi] = Append(@, sj)]
      /\ rd_routed' = [rd_routed EXCEPT ![sj] = Append(@, b)]
      /\ UNCHANGED <<rd_bursts, v_f_rd_err_info, m_r, r_next, s_r, beats_out,
                     v_rg_r_beat_count, v_rg_r_err_beat_count>>
  BY DEF RdXaction, Ready, Enq, Deq, rd_env
<1>2. /\ v_f_rd_mis \in [Slaves -> Seq(RdNotes)]
      /\ rd_routed \in [Slaves -> Seq(BurstSet)] /\ s_ar \in [Slaves -> Seq(BurstSet)]
  BY DEF ReadInv, RdBook, Book, BookTypes, ReadTypes
<1>3. b \in BurstSet /\ b.id[1] = mi
  <2>1. Port(mi, rd_bursts[mi], m_ar[mi], v_f_rd_sjs[mi])
    BY RdParts
  <2> QED  BY <2>1, <1>1, PortRoute
<1>4. RdWho[b] = note /\ note \in RdNotes
  BY <1>3, BurstFields DEF RdWho, RdNotes
<1> HIDE DEF b, note
<1>5. RdBook'
  <2>1. RdBook
    BY DEF ReadInv
  <2> QED  BY <2>1, <1>1, <1>4, BookRoute DEF RdBook, b
<1>6. \A s \in Slaves : v_f_rd_mis[s] # <<>> =>
          v_f_rd_mis'[s] # <<>> /\ Head(v_f_rd_mis'[s]) = Head(v_f_rd_mis[s])
  <2> TAKE s \in Slaves
  <2>1. v_f_rd_mis[s] \in Seq(RdNotes)
    BY <1>2
  <2>2. v_f_rd_mis[s] # <<>> =>
            Append(v_f_rd_mis[s], note) # <<>> /\ Head(Append(v_f_rd_mis[s], note)) = Head(v_f_rd_mis[s])
    BY <2>1, <1>4
  <2>3. v_f_rd_mis'[s] = IF s = sj THEN Append(v_f_rd_mis[s], note) ELSE v_f_rd_mis[s]
    BY <1>1, <1>2
  <2> QED  BY <2>2, <2>3
<1>7. /\ CountsHeld(v_f_rd_sjs, v_f_rd_mis, v_rg_r_beat_count)'
      /\ \A m \in Masters : (\E k \in Nat : Reading(m, k))'
  BY <1>1, <1>6, RdAcceptedKeeps DEF b
<1>8. \A s \in Slaves : Working(s_ar[s], s_r[s], rd_routed[s], RdRelieved(s),
                                v_rg_r_beat_count[s], beats_out[s])'
  <2> TAKE s \in Slaves
  <2>1. CASE s = sj
    <3>1. /\ s_ar'[sj] = Append(s_ar[sj], b) /\ rd_routed'[sj] = Append(rd_routed[sj], b)
          /\ v_f_rd_mis'[sj] = Append(v_f_rd_mis[sj], note)
      BY <1>1, <1>2
    <3>2. Working(s_ar'[sj], s_r[sj], rd_routed'[sj], RdRelieved(sj),
                  v_rg_r_beat_count[sj], beats_out[sj])
      BY <3>1, <1>3, RdParts, WorkingEnq
    <3>3. RdRelieved(sj)' = RdRelieved(sj)
      <4>1. Route(sj, rd_routed[sj], v_f_rd_mis[sj], RdWho, RdNotes)
        BY RdParts
      <4>2. Relieved(Append(rd_routed[sj], b), Append(v_f_rd_mis[sj], RdWho[b]))
                = Relieved(rd_routed[sj], v_f_rd_mis[sj])
        BY <4>1, <1>1, <1>3, RouteEnq
      <4> QED  BY <4>2, <3>1, <1>4 DEF RdRelieved
    <3> QED  BY <2>1, <3>2, <3>3, <1>1
  <2>2. CASE s # sj
    <3>1. s_ar'[s] = s_ar[s] /\ rd_routed'[s] = rd_routed[s] /\ v_f_rd_mis'[s] = v_f_rd_mis[s]
      BY <2>2, <1>1, <1>2
    <3> QED  BY <3>1, <1>1, RdParts DEF RdRelieved
  <2> QED  BY <2>1, <2>2
<1>9. ReadTypes'
  <2>1. s_ar' \in [Slaves -> Seq(BurstSet)]
    BY <1>1, <1>2, <1>3
  <2> QED  BY <2>1, <1>1 DEF ReadInv, ReadTypes
<1> QED  BY <1>5, <1>7, <1>8, <1>9 DEF ReadInv

LEMMA RdNoSuchSlaveKeeps ==
    ASSUME ReadInv, NEW mi \in Masters, RdNoSuchSlave(mi)
    PROVE  ReadInv'
<1>1. /\ m_ar[mi] # <<>> /\ Head(m_ar[mi]).to = NoSlave
      /\ m_ar' = [m_ar EXCEPT ![mi] = Tail(@)]
      /\ v_f_rd_sjs' = [v_f_rd_sjs EXCEPT ![mi] = Append(@, NoSlave)]
      /\ v_f_rd_err_info' = [v_f_rd_err_info EXCEPT ![mi] = Append(@, Head(m_ar[mi]))]
      /\ UNCHANGED <<rd_bursts, rd_routed, v_f_rd_mis, m_r, r_next, s_ar, s_r, beats_out,
                     v_rg_r_beat_count, v_rg_r_err_beat_count>>
  BY DEF RdNoSuchSlave, Ready, Enq, Deq, rd_env
<1>2. RdBook'
  <2>1. RdBook
    BY DEF ReadInv
  <2> QED  BY <2>1, <1>1, BookFail DEF RdBook
<1>3. /\ CountsHeld(v_f_rd_sjs, v_f_rd_mis, v_rg_r_beat_count)'
      /\ \A m \in Masters : (\E k \in Nat : Reading(m, k))'
  BY <1>1, RdAcceptedKeeps
<1>4. \A s \in Slaves : Working(s_ar[s], s_r[s], rd_routed[s], RdRelieved(s),
                                v_rg_r_beat_count[s], beats_out[s])'
  BY <1>1, RdParts DEF RdRelieved
<1> QED  BY <1>1, <1>2, <1>3, <1>4 DEF ReadInv, ReadTypes

\* Whose turn it is, and for which beat.
LEMMA RdRespTurn ==
    ASSUME ReadInv, NEW mi \in Masters, NEW sj \in Slaves,
           Turn(v_f_rd_sjs, v_f_rd_mis, mi, sj)
    PROVE  /\ After(rd_routed[sj], RdRelieved(sj)) = After(rd_bursts[mi], RdAnswered(mi))
           /\ After(rd_routed[sj], RdRelieved(sj)).id[1] = mi
           /\ Head(v_f_rd_mis[sj]).len = After(rd_bursts[mi], RdAnswered(mi)).len
           /\ RdAnswered(mi) < Len(rd_bursts[mi])
           /\ After(rd_bursts[mi], RdAnswered(mi)) \in BurstSet
           /\ Answered(rd_bursts[mi], m_ar[mi], Tail(v_f_rd_sjs[mi])) = RdAnswered(mi) + 1
           /\ Relieved(rd_routed[sj], Tail(v_f_rd_mis[sj])) = RdRelieved(sj) + 1
<1>1. /\ v_f_rd_sjs[mi] # <<>> /\ Head(v_f_rd_sjs[mi]) = sj
      /\ v_f_rd_mis[sj] # <<>> /\ Head(v_f_rd_mis[sj]).mi = mi
  BY DEF Turn
<1>2. /\ Head(v_f_rd_mis[sj]) = Noted(RdWho, After(rd_routed[sj], RdRelieved(sj)))
      /\ After(rd_routed[sj], RdRelieved(sj)) \in BurstSet
      /\ Relieved(rd_routed[sj], Tail(v_f_rd_mis[sj])) = RdRelieved(sj) + 1
  <2>1. Route(sj, rd_routed[sj], v_f_rd_mis[sj], RdWho, RdNotes)
    BY RdParts
  <2> QED  BY <2>1, <1>1, RouteFirst DEF RdRelieved
<1>3. /\ After(rd_routed[sj], RdRelieved(sj)).id[1] = mi
      /\ Head(v_f_rd_mis[sj]).len = After(rd_routed[sj], RdRelieved(sj)).len
  BY <1>1, <1>2 DEF RdWho, Noted
<1>4. /\ RdAnswered(mi) < Len(rd_bursts[mi])
      /\ After(rd_bursts[mi], RdAnswered(mi)) \in BurstSet
      /\ Answered(rd_bursts[mi], m_ar[mi], Tail(v_f_rd_sjs[mi])) = RdAnswered(mi) + 1
  <2>1. Port(mi, rd_bursts[mi], m_ar[mi], v_f_rd_sjs[mi])
    BY RdParts
  <2> QED  BY <2>1, <1>1, PortFirst DEF RdAnswered
<1>5. After(rd_routed[sj], RdRelieved(sj)) = After(rd_bursts[mi], RdAnswered(mi))
  <2>1. RdBook
    BY DEF ReadInv
  <2>2. After(rd_routed[sj], Relieved(rd_routed[sj], v_f_rd_mis[sj])).id[1] = mi
    BY <1>3 DEF RdRelieved
  <2> QED  BY <2>1, <2>2, <1>1, BookFirst DEF RdBook, RdAnswered, RdRelieved
<1> QED  BY <1>2, <1>3, <1>4, <1>5

LEMMA RdRespKeeps ==
    ASSUME ReadInv, NEW mi \in Masters, NEW sj \in Slaves, RdResp(mi, sj)
    PROVE  ReadInv'
<1> DEFINE b == After(rd_bursts[mi], RdAnswered(mi))
           count == v_rg_r_beat_count[sj]
           x == AnswerBeat(b, count)
<1>1. /\ Turn(v_f_rd_sjs, v_f_rd_mis, mi, sj)
      /\ v_f_rd_sjs[mi] # <<>> /\ Head(v_f_rd_sjs[mi]) = sj
      /\ v_f_rd_mis[sj] # <<>> /\ Head(v_f_rd_mis[sj]).mi = mi /\ s_r[sj] # <<>>
  BY DEF RdResp, Ready, Turn
<1>2. /\ After(rd_routed[sj], RdRelieved(sj)) = b /\ b.id[1] = mi
      /\ Head(v_f_rd_mis[sj]).len = b.len
      /\ RdAnswered(mi) < Len(rd_bursts[mi]) /\ b \in BurstSet
      /\ Answered(rd_bursts[mi], m_ar[mi], Tail(v_f_rd_sjs[mi])) = RdAnswered(mi) + 1
      /\ Relieved(rd_routed[sj], Tail(v_f_rd_mis[sj])) = RdRelieved(sj) + 1
  BY <1>1, RdRespTurn
<1>3. /\ v_f_rd_sjs \in [Masters -> Seq(Dests)] /\ v_f_rd_mis \in [Slaves -> Seq(RdNotes)]
      /\ m_r \in [Masters -> Seq(RdAnswerSet)] /\ s_r \in [Slaves -> Seq(RdAnswerSet)]
      /\ v_rg_r_beat_count \in [Slaves -> Nat]
      /\ CountsHeld(v_f_rd_sjs, v_f_rd_mis, v_rg_r_beat_count)
  BY DEF ReadInv, RdBook, Book, BookTypes, ReadTypes
<1>4. /\ rd_bursts[mi] \in Seq(BurstSet) /\ RdAnswered(mi) \in Nat
      /\ rd_routed[sj] \in Seq(BurstSet) /\ RdRelieved(sj) \in Nat
      /\ Working(s_ar[sj], s_r[sj], rd_routed[sj], RdRelieved(sj), count, beats_out[sj])
  BY RdParts
<1>5. count \in Nat /\ b.len \in Nat
  BY <1>2, <1>3, BurstFields
<1> HIDE DEF b
<1>6. /\ Head(s_r[sj]) = x /\ count <= b.len /\ Tail(s_r[sj]) \in Seq(RdAnswerSet)
      /\ count = b.len =>
             Working(s_ar[sj], Tail(s_r[sj]), rd_routed[sj], RdRelieved(sj) + 1, 0, beats_out[sj])
      /\ count # b.len =>
             Working(s_ar[sj], Tail(s_r[sj]), rd_routed[sj], RdRelieved(sj), count + 1, beats_out[sj])
  <2> DEFINE c == After(rd_routed[sj], RdRelieved(sj))
  <2> HIDE DEF count, x
  <2>1. Head(s_r[sj]) = AnswerBeat(c, count) /\ count <= c.len
    BY <1>1, <1>4, <1>5, WorkingFirst
  <2>3. Tail(s_r[sj]) \in Seq(RdAnswerSet)
    BY <1>1, <1>3
  <2>4. count = c.len =>
            Working(s_ar[sj], Tail(s_r[sj]), rd_routed[sj], RdRelieved(sj) + 1, 0, beats_out[sj])
    BY <1>1, <1>4, <1>5, WorkingPass
  <2>5. count # c.len =>
            Working(s_ar[sj], Tail(s_r[sj]), rd_routed[sj], RdRelieved(sj), count + 1, beats_out[sj])
    BY <1>1, <1>4, <1>5, WorkingPass
  <2>2. c = b
    BY <1>2
  <2> HIDE DEF c
  <2> QED  BY <2>1, <2>2, <2>3, <2>4, <2>5 DEF x
<1>7. x.last = (count = b.len) /\ x \in RdAnswerSet
  BY <1>2, <1>5, AnswerBeatType DEF AnswerBeat
<1>8. PICK k \in Nat : Reading(mi, k)
  BY DEF ReadInv
<1>9. /\ Progress(v_f_rd_sjs, v_f_rd_mis, v_rg_r_beat_count, v_rg_r_err_beat_count[mi], mi, k, b.len)
      /\ Passing(m_r[mi], rd_bursts[mi], r_next[mi], RdAnswered(mi), k)
  BY <1>8 DEF Reading, b
<1>10. k = count
  BY <1>1, <1>9 DEF Progress
<1>11. IF count = b.len
       THEN Passing(Append(m_r[mi], x), rd_bursts[mi], r_next[mi], RdAnswered(mi) + 1, 0)
       ELSE Passing(Append(m_r[mi], x), rd_bursts[mi], r_next[mi], RdAnswered(mi), count + 1)
  BY <1>2, <1>4, <1>5, <1>6, <1>9, <1>10, PassingEnq DEF b
<1>12. /\ s_r' = [s_r EXCEPT ![sj] = Tail(@)]
       /\ m_r' = [m_r EXCEPT ![mi] = Append(@, x)]
       /\ UNCHANGED <<rd_bursts, m_ar, rd_routed, v_f_rd_err_info, v_rg_r_err_beat_count,
                      r_next, s_ar, beats_out>>
  <2>1. /\ s_r' = [s_r EXCEPT ![sj] = Tail(@)]
        /\ m_r' = [m_r EXCEPT ![mi] = Append(@, IF count = b.len /\ ~x.last /\ x.resp = "okay"
                                                THEN [x EXCEPT !.resp = "slverr"]
                                                ELSE x)]
        /\ UNCHANGED <<rd_bursts, m_ar, rd_routed, v_f_rd_err_info, v_rg_r_err_beat_count,
                       r_next, s_ar, beats_out>>
    BY <1>2, <1>6 DEF RdResp, Enq, Deq, rd_env
  <2> HIDE DEF x
  <2>2. ~(count = b.len /\ ~x.last /\ x.resp = "okay")
    BY <1>7
  <2> QED  BY <2>1, <2>2
<1>13. ReadTypes /\ RdBook
  BY DEF ReadInv
<1> HIDE DEF x, count
<1>14. m_r' \in [Masters -> Seq(RdAnswerSet)] /\ s_r' \in [Slaves -> Seq(RdAnswerSet)]
  <2>1. Append(m_r[mi], x) \in Seq(RdAnswerSet)
    BY <1>3, <1>7
  <2> QED  BY <2>1, <1>3, <1>6, <1>12
<1>15. \A m \in Masters : m_r'[m] = IF m = mi THEN Append(m_r[mi], x) ELSE m_r[m]
  BY <1>3, <1>12
<1>16. \A s \in Slaves : s_r'[s] = IF s = sj THEN Tail(s_r[sj]) ELSE s_r[s]
  BY <1>3, <1>12
<1>17. CASE count = b.len
  <2>1. /\ v_f_rd_sjs' = [v_f_rd_sjs EXCEPT ![mi] = Tail(@)]
        /\ v_f_rd_mis' = [v_f_rd_mis EXCEPT ![sj] = Tail(@)]
        /\ v_rg_r_beat_count' = [v_rg_r_beat_count EXCEPT ![sj] = 0]
    BY <1>2, <1>17 DEF RdResp, Deq, NextCount, count
  <2>2. /\ v_f_rd_sjs'[mi] = Tail(v_f_rd_sjs[mi]) /\ v_f_rd_mis'[sj] = Tail(v_f_rd_mis[sj])
        /\ v_rg_r_beat_count'[sj] = 0
        /\ \A m \in Masters : m # mi => v_f_rd_sjs'[m] = v_f_rd_sjs[m]
        /\ \A s \in Slaves : s # sj => /\ v_f_rd_mis'[s] = v_f_rd_mis[s]
                                       /\ v_rg_r_beat_count'[s] = v_rg_r_beat_count[s]
        /\ v_rg_r_beat_count' \in [Slaves -> Nat]
    BY <2>1, <1>3
  <2>3. RdBook'
    <3>1. After(rd_routed[sj], Relieved(rd_routed[sj], v_f_rd_mis[sj])).id[1] = mi
      BY <1>2 DEF RdRelieved
    <3>2. Book(rd_bursts, m_ar, [v_f_rd_sjs EXCEPT ![mi] = Tail(@)], rd_routed,
               [v_f_rd_mis EXCEPT ![sj] = Tail(@)], RdWho, RdNotes, v_f_rd_err_info)
      BY <3>1, <1>1, <1>13, BookDone DEF RdBook
    <3> QED  BY <3>2, <2>1, <1>12 DEF RdBook
  <2>4. /\ CountsHeld(v_f_rd_sjs, v_f_rd_mis, v_rg_r_beat_count)'
        /\ \A l \in Nat : Progress(v_f_rd_sjs', v_f_rd_mis', v_rg_r_beat_count',
                                   v_rg_r_err_beat_count[mi], mi, 0, l)
        /\ \A m \in Masters : \A e, j, l :
               m # mi /\ Progress(v_f_rd_sjs, v_f_rd_mis, v_rg_r_beat_count, e, m, j, l)
                   => Progress(v_f_rd_sjs', v_f_rd_mis', v_rg_r_beat_count', e, m, j, l)
    <3> DEFINE sjs2 == v_f_rd_sjs'
               mis2 == v_f_rd_mis'
               counts2 == v_rg_r_beat_count'
    <3>1. LastPassed(v_f_rd_sjs, v_f_rd_mis, v_rg_r_beat_count, sjs2, mis2, counts2, mi, sj)
      BY <2>2, <1>1, <1>3 DEF LastPassed
    <3> HIDE DEF sjs2, mis2, counts2
    <3>2. CountsHeld(sjs2, mis2, counts2)
      BY <3>1, <1>9, ProgressLast
    <3>3. \A l \in Nat : Progress(sjs2, mis2, counts2, v_rg_r_err_beat_count[mi], mi, 0, l)
      BY <3>1, <1>9, ProgressLast
    <3>4. ASSUME NEW m \in Masters, NEW e, NEW j, NEW l, m # mi,
                 Progress(v_f_rd_sjs, v_f_rd_mis, v_rg_r_beat_count, e, m, j, l)
          PROVE  Progress(sjs2, mis2, counts2, e, m, j, l)
      BY <3>1, <3>4, <1>9, ProgressLast
    <3> QED  BY <3>2, <3>3, <3>4 DEF sjs2, mis2, counts2
  <2>5. ASSUME NEW m \in Masters PROVE (\E j \in Nat : Reading(m, j))'
    <3>1. CASE m = mi
      <4>1. RdAnswered(mi)' = RdAnswered(mi) + 1
        BY <2>2, <1>2, <1>12 DEF RdAnswered
      <4>2. Passing(m_r[mi], rd_bursts[mi], r_next[mi], RdAnswered(mi), 0)'
        BY <4>1, <1>11, <1>12, <1>15, <1>17
      <4>3. \A l : Progress(v_f_rd_sjs', v_f_rd_mis', v_rg_r_beat_count',
                            v_rg_r_err_beat_count[mi], mi, 0, l)
                => Progress(v_f_rd_sjs', v_f_rd_mis', v_rg_r_beat_count',
                            v_rg_r_err_beat_count'[mi], mi, 0, l)
        BY <1>12
      <4>4. v_f_rd_sjs'[mi] = <<>> \/ After(rd_bursts[mi], RdAnswered(mi) + 1).len \in Nat
        <5>1. RdBook' => Port(mi, rd_bursts[mi], m_ar[mi], v_f_rd_sjs[mi])'
          BY DEF RdBook, Book
        <5>2. Port(mi, rd_bursts[mi], m_ar[mi], Tail(v_f_rd_sjs[mi]))
          BY <5>1, <2>2, <2>3, <1>12
        <5>3. v_f_rd_sjs'[mi] # <<>> => RdAnswered(mi) + 1 < Len(rd_bursts[mi])
          <6>1. Tail(v_f_rd_sjs[mi]) # <<>> =>
                    Answered(rd_bursts[mi], m_ar[mi], Tail(v_f_rd_sjs[mi])) < Len(rd_bursts[mi])
            BY <5>2, PortFirst
          <6> QED  BY <6>1, <2>2, <1>2
        <5>4. RdAnswered(mi) + 1 \in Nat
          BY <1>4
        <5> QED  BY <5>3, <5>4, <1>4, AfterIsBurst
      <4>5. Progress(v_f_rd_sjs', v_f_rd_mis', v_rg_r_beat_count', v_rg_r_err_beat_count'[mi], mi, 0,
                     After(rd_bursts[mi], RdAnswered(mi) + 1).len)
        <5>1. CASE v_f_rd_sjs'[mi] = <<>>
          <6>1. Progress(v_f_rd_sjs', v_f_rd_mis', v_rg_r_beat_count',
                         v_rg_r_err_beat_count'[mi], mi, 0, 0)
            BY <2>4, <4>3
          <6> QED  BY <6>1, <5>1 DEF Progress
        <5>2. CASE After(rd_bursts[mi], RdAnswered(mi) + 1).len \in Nat
          BY <5>2, <2>4, <4>3
        <5> QED  BY <5>1, <5>2, <4>4
      <4>6. Reading(mi, 0)'
        BY <4>1, <4>2, <4>5, <1>12 DEF Reading
      <4>7. 0 \in Nat
        OBVIOUS
      <4> QED  BY <4>6, <4>7, <3>1
    <3>2. CASE m # mi
      <4>1. PICK j \in Nat : Reading(m, j)
        BY DEF ReadInv
      <4>2. RdAnswered(m)' = RdAnswered(m)
        BY <3>2, <2>2, <1>12 DEF RdAnswered
      <4>3. Progress(v_f_rd_sjs', v_f_rd_mis', v_rg_r_beat_count', v_rg_r_err_beat_count[m], m, j,
                     After(rd_bursts[m], RdAnswered(m)).len)
        BY <4>1, <3>2, <2>4 DEF Reading
      <4>4. Reading(m, j)'
        BY <4>1, <4>2, <4>3, <3>2, <1>12, <1>15 DEF Reading
      <4> QED  BY <4>4
    <3> QED  BY <3>1, <3>2
  <2>6. \A s \in Slaves : Working(s_ar[s], s_r[s], rd_routed[s], RdRelieved(s),
                                  v_rg_r_beat_count[s], beats_out[s])'
    <3> TAKE s \in Slaves
    <3>1. CASE s = sj
      <4>1. RdRelieved(sj)' = RdRelieved(sj) + 1
        BY <2>2, <1>2, <1>12 DEF RdRelieved
      <4> QED  BY <4>1, <3>1, <2>2, <1>6, <1>12, <1>16, <1>17
    <3>2. CASE s # sj
      BY <3>2, <2>2, <1>12, <1>16, RdParts DEF RdRelieved
    <3> QED  BY <3>1, <3>2
  <2>7. ReadTypes'
    BY <2>2, <1>12, <1>13, <1>14 DEF ReadTypes
  <2> QED  BY <2>3, <2>4, <2>5, <2>6, <2>7 DEF ReadInv
<1>18. CASE count # b.len
  <2>1. /\ UNCHANGED <<v_f_rd_sjs, v_f_rd_mis>>
        /\ v_rg_r_beat_count' = [v_rg_r_beat_count EXCEPT ![sj] = count + 1]
    BY <1>2, <1>18 DEF RdResp, NextCount, count
  <2>2. /\ v_rg_r_beat_count'[sj] = count + 1
        /\ \A s \in Slaves : s # sj => v_rg_r_beat_count'[s] = v_rg_r_beat_count[s]
        /\ v_rg_r_beat_count' \in [Slaves -> Nat]
    BY <2>1, <1>3, <1>5
  <2>3. RdBook'
    BY <2>1, <1>12, <1>13 DEF RdBook
  <2>4. /\ CountsHeld(v_f_rd_sjs, v_f_rd_mis, v_rg_r_beat_count')
        /\ Progress(v_f_rd_sjs, v_f_rd_mis, v_rg_r_beat_count',
                    v_rg_r_err_beat_count[mi], mi, count + 1, b.len)
        /\ \A m \in Masters : \A e, j, l :
               m # mi /\ Progress(v_f_rd_sjs, v_f_rd_mis, v_rg_r_beat_count, e, m, j, l)
                   => Progress(v_f_rd_sjs, v_f_rd_mis, v_rg_r_beat_count', e, m, j, l)
    <3> DEFINE counts2 == v_rg_r_beat_count'
    <3>1. BeatPassed(v_f_rd_sjs, v_f_rd_mis, v_rg_r_beat_count, counts2, mi, sj)
      BY <2>2, <1>1, <1>3 DEF BeatPassed, count
    <3> HIDE DEF counts2
    <3> DEFINE err == v_rg_r_err_beat_count[mi]
    <3>2. /\ Progress(v_f_rd_sjs, v_f_rd_mis, v_rg_r_beat_count, err, mi, k, b.len)
          /\ b.len \in Nat /\ k # b.len
      BY <1>5, <1>9, <1>10, <1>18
    <3> HIDE DEF err
    <3>3. CountsHeld(v_f_rd_sjs, v_f_rd_mis, counts2)
      BY <3>1, <3>2, ProgressBeat
    <3>4. Progress(v_f_rd_sjs, v_f_rd_mis, counts2, err, mi, k + 1, b.len)
      BY <3>1, <3>2, ProgressBeat
    <3>5. \A m \in Masters : \A e, j, l :
              m # mi /\ Progress(v_f_rd_sjs, v_f_rd_mis, v_rg_r_beat_count, e, m, j, l)
                  => Progress(v_f_rd_sjs, v_f_rd_mis, counts2, e, m, j, l)
      BY <3>1, <3>2, ProgressBeat
    <3> QED  BY <3>3, <3>4, <3>5, <1>10 DEF counts2, err
  <2>5. ASSUME NEW m \in Masters PROVE (\E j \in Nat : Reading(m, j))'
    <3>0. RdAnswered(m)' = RdAnswered(m)
      BY <2>1, <1>12 DEF RdAnswered
    <3>1. CASE m = mi
      <4>1. PICK c \in Nat : c = count + 1
        BY <1>5
      <4>2. Passing(m_r'[mi], rd_bursts[mi], r_next[mi], RdAnswered(mi), c)
        BY <4>1, <1>11, <1>15, <1>18
      <4>3. Progress(v_f_rd_sjs, v_f_rd_mis, v_rg_r_beat_count', v_rg_r_err_beat_count[mi], mi, c,
                     After(rd_bursts[mi], RdAnswered(mi)).len)
        BY <4>1, <2>4 DEF b
      <4>4. Reading(mi, c)'
        BY <4>2, <4>3, <3>0, <3>1, <2>1, <1>12 DEF Reading
      <4> QED  BY <4>4, <3>1
    <3>2. CASE m # mi
      <4>1. PICK j \in Nat : Reading(m, j)
        BY DEF ReadInv
      <4>2. Progress(v_f_rd_sjs, v_f_rd_mis, v_rg_r_beat_count', v_rg_r_err_beat_count[m], m, j,
                     After(rd_bursts[m], RdAnswered(m)).len)
        BY <4>1, <3>2, <2>4 DEF Reading
      <4>3. Reading(m, j)'
        BY <4>1, <4>2, <3>0, <3>2, <2>1, <1>12, <1>15 DEF Reading
      <4> QED  BY <4>3
    <3> QED  BY <3>1, <3>2
  <2>6. \A s \in Slaves : Working(s_ar[s], s_r[s], rd_routed[s], RdRelieved(s),
                                  v_rg_r_beat_count[s], beats_out[s])'
    <3> TAKE s \in Slaves
    <3>0. RdRelieved(s)' = RdRelieved(s)
      BY <2>1, <1>12 DEF RdRelieved
    <3>1. CASE s = sj
      BY <3>0, <3>1, <2>2, <1>6, <1>12, <1>16, <1>18
    <3>2. CASE s # sj
      BY <3>0, <3>2, <2>2, <1>12, <1>16, RdParts
    <3> QED  BY <3>1, <3>2
  <2>7. ReadTypes'
    BY <2>2, <1>12, <1>13, <1>14 DEF ReadTypes
  <2>8. CountsHeld(v_f_rd_sjs, v_f_rd_mis, v_rg_r_beat_count)'
    BY <2>1, <2>4
  <2> QED  BY <2>3, <2>5, <2>6, <2>7, <2>8 DEF ReadInv
<1> QED  BY <1>17, <1>18

LEMMA RdRespErrKeeps ==
    ASSUME ReadInv, NEW mi \in Masters, RdRespErr(mi)
    PROVE  ReadInv'
<1> DEFINE b == After(rd_bursts[mi], RdAnswered(mi))
           count == v_rg_r_err_beat_count[mi]
           x == AnswerBeat(b, count)
<1>1. v_f_rd_sjs[mi] # <<>> /\ Head(v_f_rd_sjs[mi]) = NoSlave
  BY DEF RdRespErr, Ready
<1>2. /\ RdAnswered(mi) < Len(rd_bursts[mi]) /\ b.to = NoSlave /\ b \in BurstSet
      /\ Answered(rd_bursts[mi], m_ar[mi], Tail(v_f_rd_sjs[mi])) = RdAnswered(mi) + 1
  <2>1. Port(mi, rd_bursts[mi], m_ar[mi], v_f_rd_sjs[mi])
    BY RdParts
  <2> QED  BY <2>1, <1>1, PortFirst DEF RdAnswered
<1>3. /\ v_f_rd_sjs \in [Masters -> Seq(Dests)]
      /\ m_r \in [Masters -> Seq(RdAnswerSet)] /\ v_rg_r_err_beat_count \in [Masters -> Nat]
      /\ CountsHeld(v_f_rd_sjs, v_f_rd_mis, v_rg_r_beat_count) /\ ReadTypes /\ RdBook
  BY DEF ReadInv, RdBook, Book, BookTypes, ReadTypes
<1>4. rd_bursts[mi] \in Seq(BurstSet) /\ RdAnswered(mi) \in Nat
  BY RdParts
<1>5. count \in Nat /\ b.len \in Nat
  BY <1>2, <1>3, BurstFields
<1>6. Head(v_f_rd_err_info[mi]) = b
  BY <1>1, <1>3, BookFailFirst DEF RdBook, RdAnswered
<1> HIDE DEF b
<1>7. x \in RdAnswerSet
  BY <1>2, <1>5, AnswerBeatType
<1>8. PICK k \in Nat : Reading(mi, k)
  BY DEF ReadInv
<1>9. /\ Progress(v_f_rd_sjs, v_f_rd_mis, v_rg_r_beat_count, count, mi, k, b.len)
      /\ Passing(m_r[mi], rd_bursts[mi], r_next[mi], RdAnswered(mi), k)
  BY <1>8 DEF Reading, b
<1>10. k = count /\ count <= b.len
  BY <1>1, <1>9 DEF Progress
<1>11. IF count = b.len
       THEN Passing(Append(m_r[mi], x), rd_bursts[mi], r_next[mi], RdAnswered(mi) + 1, 0)
       ELSE Passing(Append(m_r[mi], x), rd_bursts[mi], r_next[mi], RdAnswered(mi), count + 1)
  BY <1>2, <1>4, <1>5, <1>9, <1>10, PassingEnq DEF b
<1>12. [id |-> b.id, beat |-> count, last |-> count = b.len, resp |-> "decerr"] = x
  BY <1>2 DEF AnswerBeat, Resp
<1> HIDE DEF x
<1>13. /\ m_r' = [m_r EXCEPT ![mi] = Append(@, x)]
       /\ UNCHANGED <<rd_bursts, m_ar, rd_routed, v_f_rd_mis, v_rg_r_beat_count,
                      r_next, s_ar, s_r, beats_out>>
  BY <1>6, <1>12 DEF RdRespErr, Enq, rd_env
<1> HIDE DEF count
<1>14. m_r' \in [Masters -> Seq(RdAnswerSet)]
  <2>1. Append(m_r[mi], x) \in Seq(RdAnswerSet)
    BY <1>3, <1>7
  <2> QED  BY <2>1, <1>3, <1>13
<1>15. \A m \in Masters : m_r'[m] = IF m = mi THEN Append(m_r[mi], x) ELSE m_r[m]
  BY <1>3, <1>13
<1>16. \A s \in Slaves : Working(s_ar[s], s_r[s], rd_routed[s], RdRelieved(s),
                                 v_rg_r_beat_count[s], beats_out[s])'
  BY <1>13, RdParts DEF RdRelieved
<1>17. CASE count = b.len
  <2>1. /\ v_f_rd_sjs' = [v_f_rd_sjs EXCEPT ![mi] = Tail(@)]
        /\ v_f_rd_err_info' = [v_f_rd_err_info EXCEPT ![mi] = Tail(@)]
        /\ v_rg_r_err_beat_count' = [v_rg_r_err_beat_count EXCEPT ![mi] = 0]
    BY <1>6, <1>17 DEF RdRespErr, Deq, NextCount, count
  <2>2. /\ v_f_rd_sjs'[mi] = Tail(v_f_rd_sjs[mi]) /\ v_rg_r_err_beat_count'[mi] = 0
        /\ \A m \in Masters : m # mi => /\ v_f_rd_sjs'[m] = v_f_rd_sjs[m]
                                        /\ v_rg_r_err_beat_count'[m] = v_rg_r_err_beat_count[m]
        /\ v_rg_r_err_beat_count' \in [Masters -> Nat]
    BY <2>1, <1>3
  <2>3. RdBook'
    <3>1. Book(rd_bursts, m_ar, [v_f_rd_sjs EXCEPT ![mi] = Tail(@)], rd_routed, v_f_rd_mis,
               RdWho, RdNotes, [v_f_rd_err_info EXCEPT ![mi] = Tail(@)])
      BY <1>1, <1>3, BookFailDone DEF RdBook
    <3> QED  BY <3>1, <2>1, <1>13 DEF RdBook
  <2>4. /\ CountsHeld(v_f_rd_sjs', v_f_rd_mis, v_rg_r_beat_count)
        /\ \A l \in Nat : Progress(v_f_rd_sjs', v_f_rd_mis, v_rg_r_beat_count, 0, mi, 0, l)
        /\ \A m \in Masters : \A e, j, l :
               m # mi /\ Progress(v_f_rd_sjs, v_f_rd_mis, v_rg_r_beat_count, e, m, j, l)
                   => Progress(v_f_rd_sjs', v_f_rd_mis, v_rg_r_beat_count, e, m, j, l)
    <3> DEFINE sjs2 == v_f_rd_sjs'
    <3>1. FailPassed(v_f_rd_sjs, v_f_rd_mis, v_rg_r_beat_count, sjs2, mi)
      BY <2>2, <1>1, <1>3 DEF FailPassed
    <3> HIDE DEF sjs2
    <3>2. CountsHeld(sjs2, v_f_rd_mis, v_rg_r_beat_count)
      BY <3>1, ProgressFailLast
    <3>3. \A l \in Nat : Progress(sjs2, v_f_rd_mis, v_rg_r_beat_count, 0, mi, 0, l)
      BY <3>1, ProgressFailLast
    <3>4. ASSUME NEW m \in Masters, NEW e, NEW j, NEW l, m # mi,
                 Progress(v_f_rd_sjs, v_f_rd_mis, v_rg_r_beat_count, e, m, j, l)
          PROVE  Progress(sjs2, v_f_rd_mis, v_rg_r_beat_count, e, m, j, l)
      BY <3>1, <3>4, ProgressFailLast
    <3> QED  BY <3>2, <3>3, <3>4 DEF sjs2
  <2>5. ASSUME NEW m \in Masters PROVE (\E j \in Nat : Reading(m, j))'
    <3>1. CASE m = mi
      <4>1. RdAnswered(mi)' = RdAnswered(mi) + 1
        BY <2>2, <1>2, <1>13 DEF RdAnswered
      <4>2. Passing(m_r[mi], rd_bursts[mi], r_next[mi], RdAnswered(mi), 0)'
        BY <4>1, <1>11, <1>13, <1>15, <1>17
      <4>3. v_f_rd_sjs'[mi] = <<>> \/ After(rd_bursts[mi], RdAnswered(mi) + 1).len \in Nat
        <5>1. RdBook' => Port(mi, rd_bursts[mi], m_ar[mi], v_f_rd_sjs[mi])'
          BY DEF RdBook, Book
        <5>2. Port(mi, rd_bursts[mi], m_ar[mi], Tail(v_f_rd_sjs[mi]))
          BY <5>1, <2>2, <2>3, <1>13
        <5>3. v_f_rd_sjs'[mi] # <<>> => RdAnswered(mi) + 1 < Len(rd_bursts[mi])
          <6>1. Tail(v_f_rd_sjs[mi]) # <<>> =>
                    Answered(rd_bursts[mi], m_ar[mi], Tail(v_f_rd_sjs[mi])) < Len(rd_bursts[mi])
            BY <5>2, PortFirst
          <6> QED  BY <6>1, <2>2, <1>2
        <5>4. RdAnswered(mi) + 1 \in Nat
          BY <1>4
        <5> QED  BY <5>3, <5>4, <1>4, AfterIsBurst
      <4>4. Progress(v_f_rd_sjs', v_f_rd_mis, v_rg_r_beat_count, 0, mi, 0,
                     After(rd_bursts[mi], RdAnswered(mi) + 1).len)
        <5>1. CASE v_f_rd_sjs'[mi] = <<>>
          <6>1. Progress(v_f_rd_sjs', v_f_rd_mis, v_rg_r_beat_count, 0, mi, 0, 0)
            BY <2>4
          <6> QED  BY <6>1, <5>1 DEF Progress
        <5>2. CASE After(rd_bursts[mi], RdAnswered(mi) + 1).len \in Nat
          BY <5>2, <2>4
        <5> QED  BY <5>1, <5>2, <4>3
      <4>5. Reading(mi, 0)'
        BY <4>1, <4>2, <4>4, <2>2, <1>13 DEF Reading
      <4>6. 0 \in Nat
        OBVIOUS
      <4> QED  BY <4>5, <4>6, <3>1
    <3>2. CASE m # mi
      <4>1. PICK j \in Nat : Reading(m, j)
        BY DEF ReadInv
      <4>2. RdAnswered(m)' = RdAnswered(m)
        BY <3>2, <2>2, <1>13 DEF RdAnswered
      <4>3. Progress(v_f_rd_sjs', v_f_rd_mis, v_rg_r_beat_count, v_rg_r_err_beat_count[m], m, j,
                     After(rd_bursts[m], RdAnswered(m)).len)
        BY <4>1, <3>2, <2>4 DEF Reading
      <4>4. Reading(m, j)'
        BY <4>1, <4>2, <4>3, <3>2, <2>2, <1>13, <1>15 DEF Reading
      <4> QED  BY <4>4
    <3> QED  BY <3>1, <3>2
  <2>6. ReadTypes'
    BY <2>2, <1>3, <1>13, <1>14 DEF ReadTypes
  <2>7. CountsHeld(v_f_rd_sjs, v_f_rd_mis, v_rg_r_beat_count)'
    BY <2>4, <1>13
  <2> QED  BY <2>3, <2>5, <2>6, <2>7, <1>16 DEF ReadInv
<1>18. CASE count # b.len
  <2>1. /\ UNCHANGED <<v_f_rd_sjs, v_f_rd_err_info>>
        /\ v_rg_r_err_beat_count' = [v_rg_r_err_beat_count EXCEPT ![mi] = count + 1]
    BY <1>6, <1>18 DEF RdRespErr, NextCount, count
  <2>2. /\ v_rg_r_err_beat_count'[mi] = count + 1
        /\ \A m \in Masters : m # mi => v_rg_r_err_beat_count'[m] = v_rg_r_err_beat_count[m]
        /\ v_rg_r_err_beat_count' \in [Masters -> Nat]
    BY <2>1, <1>3, <1>5
  <2>3. RdBook'
    BY <2>1, <1>3, <1>13 DEF RdBook
  <2>4. Progress(v_f_rd_sjs, v_f_rd_mis, v_rg_r_beat_count, count + 1, mi, count + 1, b.len)
    BY <1>1, <1>5, <1>9, <1>10, <1>18, ProgressFail
  <2>5. ASSUME NEW m \in Masters PROVE (\E j \in Nat : Reading(m, j))'
    <3>0. RdAnswered(m)' = RdAnswered(m)
      BY <2>1, <1>13 DEF RdAnswered
    <3>1. CASE m = mi
      <4>1. PICK c \in Nat : c = count + 1
        BY <1>5
      <4>2. Passing(m_r'[mi], rd_bursts[mi], r_next[mi], RdAnswered(mi), c)
        BY <4>1, <1>11, <1>15, <1>18
      <4>3. Progress(v_f_rd_sjs, v_f_rd_mis, v_rg_r_beat_count, v_rg_r_err_beat_count'[mi], mi, c,
                     After(rd_bursts[mi], RdAnswered(mi)).len)
        BY <4>1, <2>2, <2>4 DEF b
      <4>4. Reading(mi, c)'
        BY <4>2, <4>3, <3>0, <3>1, <2>1, <1>13 DEF Reading
      <4> QED  BY <4>4, <3>1
    <3>2. CASE m # mi
      <4>1. PICK j \in Nat : Reading(m, j)
        BY DEF ReadInv
      <4>2. Reading(m, j)'
        BY <4>1, <3>0, <3>2, <2>1, <2>2, <1>13, <1>15 DEF Reading
      <4> QED  BY <4>2
    <3> QED  BY <3>1, <3>2
  <2>6. ReadTypes'
    BY <2>2, <1>3, <1>13, <1>14 DEF ReadTypes
  <2>7. CountsHeld(v_f_rd_sjs, v_f_rd_mis, v_rg_r_beat_count)'
    BY <2>1, <1>3, <1>13
  <2> QED  BY <2>3, <2>5, <2>6, <2>7, <1>16 DEF ReadInv
<1> QED  BY <1>17, <1>18

LEMMA MasterReadKeeps ==
    ASSUME ReadInv, NEW mi \in Masters, NEW shape \in Shapes, MasterRead(mi, shape)
    PROVE  ReadInv'
<1> DEFINE b == Burst(rd_bursts, mi, shape)
<1>1. /\ m_ar' = [m_ar EXCEPT ![mi] = Append(@, b)]
      /\ rd_bursts' = [rd_bursts EXCEPT ![mi] = Append(@, b)]
      /\ UNCHANGED <<v_f_rd_sjs, rd_routed, v_f_rd_mis, v_f_rd_err_info, v_rg_r_beat_count,
                     v_rg_r_err_beat_count, m_r, r_next, s_ar, s_r, beats_out>>
  BY DEF MasterRead, Enq, rd_book
<1>2. /\ rd_bursts \in [Masters -> Seq(BurstSet)] /\ m_ar \in [Masters -> Seq(BurstSet)]
      /\ RdBook
  BY DEF ReadInv, RdBook, Book, BookTypes
<1>3. b \in BurstSet /\ b.id = <<mi, Len(rd_bursts[mi]) + 1>>
  BY <1>2, BurstIsOne
<1> HIDE DEF b
<1>4. RdBook'
  BY <1>1, <1>2, <1>3, BookNew DEF RdBook
<1>5. rd_bursts'[mi] = Append(rd_bursts[mi], b) /\ m_ar'[mi] = Append(m_ar[mi], b)
  BY <1>1, <1>2
<1>6. \A m \in Masters : m # mi => rd_bursts'[m] = rd_bursts[m] /\ m_ar'[m] = m_ar[m]
  BY <1>1, <1>2
<1>7. ASSUME NEW m \in Masters PROVE (\E j \in Nat : Reading(m, j))'
  <2>1. PICK k \in Nat : Reading(m, k)
    BY DEF ReadInv
  <2>2. CASE m = mi
    <3>1. Port(mi, rd_bursts[mi], m_ar[mi], v_f_rd_sjs[mi])
      BY RdParts
    <3>2. RdAnswered(mi)' = RdAnswered(mi)
      BY <3>1, <1>1, <1>3, <1>5, PortNew DEF RdAnswered
    <3>3. Passing(m_r[mi], rd_bursts'[mi], r_next[mi], RdAnswered(mi), k)
      <4>1. rd_bursts[mi] \in Seq(BurstSet)
        BY <1>2
      <4> QED  BY <4>1, <2>1, <2>2, <1>3, <1>5, PassingNew DEF Reading
    <3>4. v_f_rd_sjs[mi] = <<>> \/ After(rd_bursts'[mi], RdAnswered(mi)) = After(rd_bursts[mi], RdAnswered(mi))
      <4>1. v_f_rd_sjs[mi] # <<>> => RdAnswered(mi) < Len(rd_bursts[mi])
        BY <3>1, PortFirst DEF RdAnswered
      <4>2. RdAnswered(mi) \in Nat /\ rd_bursts[mi] \in Seq(BurstSet)
        BY RdParts
      <4> QED  BY <4>1, <4>2, <1>3, <1>5 DEF After
    <3>5. Progress(v_f_rd_sjs, v_f_rd_mis, v_rg_r_beat_count, v_rg_r_err_beat_count[mi], mi, k,
                   After(rd_bursts'[mi], RdAnswered(mi)).len)
      <4>1. Progress(v_f_rd_sjs, v_f_rd_mis, v_rg_r_beat_count, v_rg_r_err_beat_count[mi], mi, k,
                     After(rd_bursts[mi], RdAnswered(mi)).len)
        BY <2>1, <2>2 DEF Reading
      <4>2. CASE v_f_rd_sjs[mi] = <<>>
        BY <4>1, <4>2 DEF Progress
      <4> QED  BY <4>1, <4>2, <3>4
    <3>6. Reading(mi, k)'
      BY <3>2, <3>3, <3>5, <1>1 DEF Reading
    <3> QED  BY <3>6, <2>2
  <2>3. CASE m # mi
    <3>1. RdAnswered(m)' = RdAnswered(m)
      BY <2>3, <1>1, <1>6 DEF RdAnswered
    <3>2. Reading(m, k)'
      BY <2>1, <2>3, <3>1, <1>1, <1>6 DEF Reading
    <3> QED  BY <3>2
  <2> QED  BY <2>2, <2>3
<1>8. \A s \in Slaves : Working(s_ar[s], s_r[s], rd_routed[s], RdRelieved(s),
                                v_rg_r_beat_count[s], beats_out[s])'
  BY <1>1, RdParts DEF RdRelieved
<1> QED  BY <1>1, <1>4, <1>7, <1>8 DEF ReadInv, ReadTypes

LEMMA MasterTakeRKeeps ==
    ASSUME ReadInv, NEW mi \in Masters, MasterTakeR(mi)
    PROVE  ReadInv'
<1> DEFINE next == NextBeat(rd_bursts[mi], r_next[mi])
<1>1. /\ m_r[mi] # <<>>
      /\ m_r' = [m_r EXCEPT ![mi] = Tail(@)]
      /\ r_next' = [r_next EXCEPT ![mi] = next]
      /\ UNCHANGED <<rd_bursts, m_ar, v_f_rd_sjs, rd_routed, v_f_rd_mis, v_f_rd_err_info,
                     v_rg_r_beat_count, v_rg_r_err_beat_count, s_ar, s_r, beats_out>>
  BY DEF MasterTakeR, Ready, Deq, rd_book
<1>2. m_r \in [Masters -> Seq(RdAnswerSet)] /\ r_next \in [Masters -> Position]
  BY DEF ReadInv, ReadTypes
<1>3. PICK k \in Nat : Reading(mi, k)
  BY DEF ReadInv
<1>4. /\ Passing(Tail(m_r[mi]), rd_bursts[mi], next, RdAnswered(mi), k)
      /\ next \in Position
  <2>1. Passing(m_r[mi], rd_bursts[mi], r_next[mi], RdAnswered(mi), k)
    BY <1>3 DEF Reading
  <2> QED  BY <2>1, <1>1, PassingTake
<1> HIDE DEF next
<1>5. /\ m_r'[mi] = Tail(m_r[mi]) /\ r_next'[mi] = next
      /\ \A m \in Masters : m # mi => m_r'[m] = m_r[m] /\ r_next'[m] = r_next[m]
  BY <1>1, <1>2
<1>6. \A m \in Masters : RdAnswered(m)' = RdAnswered(m)
  BY <1>1 DEF RdAnswered
<1>7. ASSUME NEW m \in Masters PROVE (\E j \in Nat : Reading(m, j))'
  <2>1. CASE m = mi
    <3>1. Reading(mi, k)'
      BY <1>1, <1>3, <1>4, <1>5, <1>6 DEF Reading
    <3> QED  BY <3>1, <2>1
  <2>2. CASE m # mi
    <3>1. PICK j \in Nat : Reading(m, j)
      BY DEF ReadInv
    <3>2. Reading(m, j)'
      BY <3>1, <2>2, <1>1, <1>5, <1>6 DEF Reading
    <3> QED  BY <3>2
  <2> QED  BY <2>1, <2>2
<1>8. ReadTypes'
  <2>1. Tail(m_r[mi]) \in Seq(RdAnswerSet)
    BY <1>1, <1>2
  <2>2. m_r' \in [Masters -> Seq(RdAnswerSet)] /\ r_next' \in [Masters -> Position]
    BY <2>1, <1>1, <1>2, <1>4
  <2> QED  BY <2>2, <1>1 DEF ReadInv, ReadTypes
<1>9. \A s \in Slaves : Working(s_ar[s], s_r[s], rd_routed[s], RdRelieved(s),
                                v_rg_r_beat_count[s], beats_out[s])'
  BY <1>1, RdParts DEF RdRelieved
<1> QED  BY <1>1, <1>7, <1>8, <1>9 DEF ReadInv, RdBook

LEMMA SlaveSendRKeeps ==
    ASSUME ReadInv, NEW sj \in Slaves, SlaveSendR(sj)
    PROVE  ReadInv'
<1> DEFINE b == Head(s_ar[sj])
           out == beats_out[sj]
           longer == Append(s_r[sj], AnswerBeat(b, out))
<1>1. /\ s_ar[sj] # <<>>
      /\ s_r' = [s_r EXCEPT ![sj] = longer]
      /\ s_ar' = [s_ar EXCEPT ![sj] = IF out = b.len THEN Tail(@) ELSE @]
      /\ beats_out' = [beats_out EXCEPT ![sj] = IF out = b.len THEN 0 ELSE out + 1]
      /\ UNCHANGED <<rd_bursts, m_ar, v_f_rd_sjs, rd_routed, v_f_rd_mis, v_f_rd_err_info,
                     v_rg_r_beat_count, v_rg_r_err_beat_count, m_r, r_next>>
  <2>1. s_ar \in [Slaves -> Seq(BurstSet)]
    BY DEF ReadInv, ReadTypes
  <2> QED  BY <2>1 DEF SlaveSendR, Ready, Enq, Deq, NextCount, rd_book
<1>2. /\ s_ar \in [Slaves -> Seq(BurstSet)] /\ s_r \in [Slaves -> Seq(RdAnswerSet)]
      /\ beats_out \in [Slaves -> Nat]
  BY DEF ReadInv, ReadTypes
<1>3. /\ longer \in Seq(RdAnswerSet)
      /\ IF out = b.len
         THEN Working(Tail(s_ar[sj]), longer, rd_routed[sj], RdRelieved(sj), v_rg_r_beat_count[sj], 0)
         ELSE Working(s_ar[sj], longer, rd_routed[sj], RdRelieved(sj), v_rg_r_beat_count[sj], out + 1)
  <2>1. /\ Working(s_ar[sj], s_r[sj], rd_routed[sj], RdRelieved(sj), v_rg_r_beat_count[sj], out)
        /\ rd_routed[sj] \in Seq(BurstSet)
    BY RdParts
  <2> QED  BY <2>1, <1>1, WorkingSend
<1>4. /\ s_ar'[sj] = (IF out = b.len THEN Tail(s_ar[sj]) ELSE s_ar[sj])
      /\ s_r'[sj] = longer /\ beats_out'[sj] = (IF out = b.len THEN 0 ELSE out + 1)
      /\ \A s \in Slaves : s # sj => /\ s_ar'[s] = s_ar[s] /\ s_r'[s] = s_r[s]
                                     /\ beats_out'[s] = beats_out[s]
  BY <1>1, <1>2
<1>5. Tail(s_ar[sj]) \in Seq(BurstSet) /\ out \in Nat
  BY <1>1, <1>2
<1> HIDE DEF b, out, longer
<1>6. \A s \in Slaves : RdRelieved(s)' = RdRelieved(s)
  BY <1>1 DEF RdRelieved
<1>7. \A s \in Slaves : Working(s_ar[s], s_r[s], rd_routed[s], RdRelieved(s),
                                v_rg_r_beat_count[s], beats_out[s])'
  <2> TAKE s \in Slaves
  <2>1. CASE s = sj
    <3>1. CASE out = b.len
      BY <2>1, <3>1, <1>1, <1>3, <1>4, <1>6
    <3>2. CASE out # b.len
      BY <2>1, <3>2, <1>1, <1>3, <1>4, <1>6
    <3> QED  BY <3>1, <3>2
  <2>2. CASE s # sj
    BY <2>2, <1>1, <1>4, <1>6, RdParts
  <2> QED  BY <2>1, <2>2
<1>8. ReadTypes'
  <2>1. /\ s_ar' \in [Slaves -> Seq(BurstSet)] /\ s_r' \in [Slaves -> Seq(RdAnswerSet)]
        /\ beats_out' \in [Slaves -> Nat]
    BY <1>1, <1>2, <1>3, <1>5
  <2> QED  BY <2>1, <1>1 DEF ReadInv, ReadTypes
<1>9. \A m \in Masters : (\E j \in Nat : Reading(m, j))'
  <2> TAKE m \in Masters
  <2>1. PICK j \in Nat : Reading(m, j)
    BY DEF ReadInv
  <2>2. Reading(m, j)'
    BY <2>1, <1>1 DEF Reading, RdAnswered
  <2> QED  BY <2>2
<1> QED  BY <1>1, <1>7, <1>8, <1>9 DEF ReadInv, RdBook

LEMMA ReadInit == Init => ReadInv
<1> SUFFICES ASSUME Init PROVE ReadInv
  OBVIOUS
<1>1. RdWho \in [BurstSet -> RdNotes]
  BY BurstFields DEF RdWho, RdNotes
<1>2. RdBook
  BY <1>1, BookInit DEF Init, RdBook
<1>3. /\ \A mi \in Masters :
             /\ rd_bursts[mi] = <<>> /\ m_ar[mi] = <<>> /\ v_f_rd_sjs[mi] = <<>> /\ m_r[mi] = <<>>
             /\ r_next[mi] = <<1, 0>> /\ v_rg_r_err_beat_count[mi] = 0
      /\ \A sj \in Slaves :
             /\ rd_routed[sj] = <<>> /\ v_f_rd_mis[sj] = <<>> /\ s_ar[sj] = <<>> /\ s_r[sj] = <<>>
             /\ v_rg_r_beat_count[sj] = 0 /\ beats_out[sj] = 0
  BY DEF Init, EmptyFor, ZeroFor
<1>4. /\ Accepted(<<>>, <<>>) = 0 /\ Answered(<<>>, <<>>, <<>>) = 0 /\ Relieved(<<>>, <<>>) = 0
      /\ 0 + 1 = 1 /\ 0 \in Nat
  BY EmptySeq, NoneYet
<1>5. <<1, 0>> \in Position
  BY DEF Position
<1>6. Working(<<>>, <<>>, <<>>, 0, 0, 0)
  <2>1. Len(<<>>) <= Len(<<>>)
    BY EmptySeq
  <2> QED  BY <2>1, <1>4, <1>5, EmptySeq, RunNothing, CarriesNothing DEF Working
<1>7. Passing(<<>>, <<>>, <<1, 0>>, 0, 0)
  BY <1>4, <1>5, EmptySeq, CarriesNothing DEF Passing
<1>8. ReadTypes
  BY <1>4, <1>5, EmptySeq DEF Init, ReadTypes, EmptyFor, ZeroFor
<1>9. CountsHeld(v_f_rd_sjs, v_f_rd_mis, v_rg_r_beat_count)
  BY <1>3 DEF CountsHeld
<1>10. ASSUME NEW mi \in Masters PROVE \E k \in Nat : Reading(mi, k)
  <2>1. \A sj \in Slaves : ~Turn(v_f_rd_sjs, v_f_rd_mis, mi, sj)
    BY <1>3 DEF Turn
  <2>2. Progress(v_f_rd_sjs, v_f_rd_mis, v_rg_r_beat_count, v_rg_r_err_beat_count[mi], mi, 0,
                 After(rd_bursts[mi], RdAnswered(mi)).len)
    BY <2>1, <1>3, <1>4 DEF Progress
  <2>3. Passing(m_r[mi], rd_bursts[mi], r_next[mi], RdAnswered(mi), 0)
    BY <1>3, <1>4, <1>7 DEF RdAnswered
  <2> QED  BY <2>2, <2>3, <1>4 DEF Reading
<1>11. \A sj \in Slaves :
           Working(s_ar[sj], s_r[sj], rd_routed[sj], RdRelieved(sj), v_rg_r_beat_count[sj],
                   beats_out[sj])
  BY <1>3, <1>4, <1>6 DEF RdRelieved
<1> QED  BY <1>2, <1>8, <1>9, <1>10, <1>11 DEF ReadInv

LEMMA ReadUnchanged ==
    ASSUME ReadInv, UNCHANGED reads
    PROVE  ReadInv'
<1>1. UNCHANGED <<rd_bursts, m_ar, v_f_rd_sjs, rd_routed, v_f_rd_mis, v_f_rd_err_info,
                  v_rg_r_beat_count, v_rg_r_err_beat_count, m_r, r_next, s_ar, s_r, beats_out>>
  BY DEF reads, rd_path, rd_env, rd_book
<1>2. RdBook' /\ ReadTypes' /\ CountsHeld(v_f_rd_sjs, v_f_rd_mis, v_rg_r_beat_count)'
  BY <1>1 DEF ReadInv, RdBook, ReadTypes
<1>3. ASSUME NEW m \in Masters PROVE (\E j \in Nat : Reading(m, j))'
  <2>1. PICK j \in Nat : Reading(m, j)
    BY DEF ReadInv
  <2>2. Reading(m, j)'
    BY <2>1, <1>1 DEF Reading, RdAnswered
  <2> QED  BY <2>2
<1>4. \A s \in Slaves : Working(s_ar[s], s_r[s], rd_routed[s], RdRelieved(s),
                                v_rg_r_beat_count[s], beats_out[s])'
  BY <1>1, RdParts DEF RdRelieved
<1> QED  BY <1>2, <1>3, <1>4 DEF ReadInv

LEMMA ReadNext == ReadInv /\ [Next]_vars => ReadInv'
<1> SUFFICES ASSUME ReadInv, [Next]_vars PROVE ReadInv'
  OBVIOUS
<1>1. ASSUME ReadSide PROVE ReadInv'
  <2>1. ASSUME NEW mi \in Masters, NEW sj \in Slaves, RdXaction(mi, sj) \/ RdResp(mi, sj)
        PROVE  ReadInv'
    BY <2>1, RdXactionKeeps, RdRespKeeps
  <2>2. ASSUME NEW mi \in Masters, RdNoSuchSlave(mi) \/ RdRespErr(mi) \/ MasterTakeR(mi)
        PROVE  ReadInv'
    BY <2>2, RdNoSuchSlaveKeeps, RdRespErrKeeps, MasterTakeRKeeps
  <2>3. ASSUME NEW sj \in Slaves, SlaveSendR(sj)
        PROVE  ReadInv'
    BY <2>3, SlaveSendRKeeps
  <2> QED  BY <1>1, <2>1, <2>2, <2>3 DEF ReadSide
<1>2. WriteSide => UNCHANGED reads
  BY DEF WriteSide, WrXaction, WrResp, WrNoSuchSlave, WrData, WrRespErr, MasterSendW,
         MasterTakeB, SlaveTakeW
<1>3. ASSUME NEW mi \in Masters, NEW shape \in Shapes, MasterRead(mi, shape) PROVE ReadInv'
  BY <1>3, MasterReadKeeps
<1>4. ASSUME NEW mi \in Masters, NEW shape \in Shapes, MasterWrite(mi, shape) PROVE UNCHANGED reads
  BY <1>4 DEF MasterWrite
<1>5. CASE UNCHANGED vars
  BY <1>5, ReadUnchanged DEF vars
<1> QED  BY <1>1, <1>2, <1>3, <1>4, <1>5, ReadUnchanged DEF Next

-----------------------------------------------------------------------------
(* Answers *)

LEMMA AnswersKnown == WriteInv /\ ReadInv => AnswersToAsker
<1> SUFFICES ASSUME WriteInv, ReadInv, NEW mi \in Masters
             PROVE  /\ m_b[mi] # <<>> =>
                           Head(m_b[mi]) = WriteAnswer(wr_bursts[mi][b_taken[mi] + 1])
                    /\ m_r[mi] # <<>> =>
                           Head(m_r[mi]) = AnswerBeat(rd_bursts[mi][r_next[mi][1]], r_next[mi][2])
  BY DEF AnswersToAsker
<1>1. ASSUME m_b[mi] # <<>>
      PROVE  Head(m_b[mi]) = WriteAnswer(wr_bursts[mi][b_taken[mi] + 1])
  <2>1. Head(m_b[mi]) = WriteAnswer(After(wr_bursts[mi], b_taken[mi]))
    BY <1>1, WrParts, ReturnedFirst
  <2> QED  BY <2>1 DEF After
<1>2. ASSUME m_r[mi] # <<>>
      PROVE  Head(m_r[mi]) = AnswerBeat(rd_bursts[mi][r_next[mi][1]], r_next[mi][2])
  <2>1. PICK k \in Nat : Reading(mi, k)
    BY DEF ReadInv
  <2> QED  BY <2>1, <1>2, PassingTake DEF Reading
<1> QED  BY <1>1, <1>2

\* Whatever the masters, the slaves, the bursts and the depths of the FIFOs, a
\* response reaches the master that asked, in the order it asked: the pairing of
\* the heads of v_f_wr_sjs and v_f_wr_mis (v_f_rd_sjs and v_f_rd_mis) always names
\* the oldest burst of both, and no beat counter runs for two bursts.
THEOREM ResponsesToAsker == Spec => []AnswersToAsker
<1>1. Init => WriteInv /\ ReadInv
  BY WriteInit, ReadInit
<1>2. (WriteInv /\ ReadInv) /\ [Next]_vars => (WriteInv /\ ReadInv)'
  BY WriteNext, ReadNext
<1>3. WriteInv /\ ReadInv => AnswersToAsker
  BY AnswersKnown
<1> QED  BY <1>1, <1>2, <1>3, PTL DEF Spec

-----------------------------------------------------------------------------
(* Writes: data.  Only master w writes. *)

DataSet == [id : Nat \X Nat, beat : Nat, last : BOOLEAN]
DataItem(bursts) ==
    [beat \in BeatsOf(bursts) |-> {DataBeat(bursts[beat[1]], beat[2])}]
TaskSet == [sj : Dests, len : Nat]
TaskOf(bursts) ==
    [n \in 1 .. Len(bursts) |-> [sj |-> bursts[n].to, len |-> bursts[n].len]]

\* A master's tasks are its accepted bursts but those whose data have been
\* moved; of the first of them count beats have been; its FIFO holds those from
\* there to the one it sends next.
Sending(tasks, count, fifo, next, bursts, accepted, moved) ==
    /\ tasks \in Seq(TaskSet) /\ count \in Nat /\ fifo \in Seq(DataSet) /\ moved \in Nat
    /\ moved + Len(tasks) = accepted /\ accepted <= Len(bursts)
    /\ Run(tasks, TaskOf(bursts), moved)
    /\ IF tasks = <<>> THEN count = 0 ELSE count <= Head(tasks).len
    /\ next \in BeatsOf(bursts) \/ next = <<Len(bursts) + 1, 0>>
    /\ Carries(fifo, DataItem(bursts), bursts, <<moved + 1, count>>, next)

\* The beats of its first task that a slave has been sent.
Share(tasks, count, sj) == IF tasks # <<>> /\ Head(tasks).sj = sj THEN count ELSE 0

\* A slave has been sent the data of its first c bursts and k beats more, and
\* has taken those of the first served and taken beats more.
Fed(fifo, routed, served, taken, c, k) ==
    /\ fifo \in Seq(DataSet) /\ taken \in Nat /\ c \in Nat /\ c <= Len(routed)
    /\ Carries(fifo, DataItem(routed), routed, <<served + 1, taken>>, <<c + 1, k>>)

DataTypes ==
    /\ v_f_wd_tasks \in [Masters -> Seq(TaskSet)] /\ v_rg_wd_beat_count \in [Masters -> Nat]
    /\ m_w \in [Masters -> Seq(DataSet)] /\ w_next \in [Masters -> Position]
    /\ s_w \in [Slaves -> Seq(DataSet)] /\ w_taken \in [Slaves -> Nat]

WrAccepted(mi) == Accepted(wr_bursts[mi], m_aw[mi])

SendingOf(w, moved) ==
    Sending(v_f_wd_tasks[w], v_rg_wd_beat_count[w], m_w[w], w_next[w], wr_bursts[w],
            WrAccepted(w), moved)

Feeding(w, moved, sj, c) ==
    /\ Pending(wr_routed[sj], c, wr_bursts[w], w, moved, WrAccepted(w), sj)
    /\ Fed(s_w[sj], wr_routed[sj], Accepted(wr_routed[sj], s_aw[sj]), w_taken[sj], c,
           Share(v_f_wd_tasks[w], v_rg_wd_beat_count[w], sj))

Silent(mi) == wr_bursts[mi] = <<>> /\ v_f_wd_tasks[mi] = <<>> /\ w_next[mi] = <<1, 0>>

Theirs(routed, w) == \A i \in 1 .. Len(routed) : routed[i].id[1] = w

DataInv(w) ==
    /\ DataTypes
    /\ \A mi \in Masters : mi # w => Silent(mi)
    /\ \A sj \in Slaves : Theirs(wr_routed[sj], w)
    /\ \E moved \in Nat :
           /\ SendingOf(w, moved)
           /\ \A sj \in Slaves : \E c \in Nat : Feeding(w, moved, sj, c)

LEMMA DataBeatType ==
    ASSUME NEW b \in BurstSet, NEW k \in Nat
    PROVE  DataBeat(b, k) \in DataSet
<1>1. b.id \in Nat \X Nat /\ (k = b.len) \in BOOLEAN
  BY BurstFields
<1> QED  BY <1>1 DEF DataBeat, DataSet

LEMMA LastOfData == \A b, k : DataBeat(b, k).last <=> k = b.len
BY DEF DataBeat

\* The beat <<n + 1, k>> and the one after it, counted.
LEMMA DataNext ==
    ASSUME NEW bursts \in Seq(BurstSet), NEW n \in Nat, NEW k \in Nat,
           n < Len(bursts), k <= After(bursts, n).len
    PROVE  /\ <<n + 1, k>> \in BeatsOf(bursts)
           /\ DataItem(bursts)[<<n + 1, k>>] = {DataBeat(After(bursts, n), k)}
           /\ NextBeat(bursts, <<n + 1, k>>)
                  = IF k = After(bursts, n).len THEN <<(n + 1) + 1, 0>> ELSE <<n + 1, k + 1>>
           /\ DataBeat(After(bursts, n), k) \in DataSet
           /\ After(bursts, n) \in BurstSet
<1>1. n + 1 \in 1 .. Len(bursts) /\ n + 1 \in Nat
  OBVIOUS
<1>2. After(bursts, n) = bursts[n + 1] /\ After(bursts, n) \in BurstSet
  BY <1>1 DEF After
<1>3. After(bursts, n).len \in Nat
  BY <1>2, BurstFields
<1>4. <<n + 1, k>> \in Position /\ <<n + 1, k>>[1] = n + 1 /\ <<n + 1, k>>[2] = k
  BY <1>1 DEF Position
<1>5. <<n + 1, k>> \in BeatsOf(bursts)
  BY <1>1, <1>2, <1>4 DEF BeatsOf
<1>6. DataItem(bursts)[<<n + 1, k>>] = {DataBeat(After(bursts, n), k)}
  BY <1>2, <1>4, <1>5 DEF DataItem
<1>7. NextBeat(bursts, <<n + 1, k>>)
          = IF k = After(bursts, n).len THEN <<(n + 1) + 1, 0>> ELSE <<n + 1, k + 1>>
  BY <1>1, <1>2, <1>3, CountedBeat
<1> QED  BY <1>2, <1>5, <1>6, <1>7, DataBeatType

LEMMA DataMore ==
    ASSUME NEW bursts \in Seq(BurstSet), NEW b \in BurstSet, NEW fifo \in Seq(DataSet),
           NEW from, NEW to, Carries(fifo, DataItem(bursts), bursts, from, to)
    PROVE  Carries(fifo, DataItem(Append(bursts, b)), Append(bursts, b), from, to)
<1> DEFINE more == Append(bursts, b)
<1>0. /\ Len(bursts) \in Nat /\ Len(more) \in Nat /\ Len(bursts) <= Len(more)
      /\ \A n \in 1 .. Len(bursts) : more[n] = bursts[n]
  OBVIOUS
<1> HIDE DEF more
<1>1. ASSUME NEW beat \in BeatsOf(bursts)
      PROVE  /\ beat \in BeatsOf(more)
             /\ NextBeat(more, beat) = NextBeat(bursts, beat)
             /\ DataItem(bursts)[beat] \subseteq DataItem(more)[beat]
  <2>1. /\ beat \in BeatsOf(more) /\ NextBeat(more, beat) = NextBeat(bursts, beat)
        /\ more[beat[1]] = bursts[beat[1]]
    BY <1>0, BeatsOfMore
  <2> QED  BY <2>1 DEF DataItem
<1> QED  BY <1>1, CarriesMono DEF more

LEMMA TasksGrow ==
    ASSUME NEW bursts \in Seq(BurstSet), NEW b \in BurstSet
    PROVE  \A n \in 1 .. Len(bursts) : TaskOf(Append(bursts, b))[n] = TaskOf(bursts)[n]
<1> DEFINE more == Append(bursts, b)
<1>1. /\ Len(more) = Len(bursts) + 1 /\ Len(bursts) \in Nat
      /\ \A n \in 1 .. Len(bursts) : more[n] = bursts[n]
  OBVIOUS
<1> HIDE DEF more
<1>2. \A n \in 1 .. Len(bursts) : TaskOf(more)[n] = TaskOf(bursts)[n]
  BY <1>1 DEF TaskOf
<1> QED  BY <1>2 DEF more

\* The master issues a burst.
LEMMA SendingNew ==
    ASSUME NEW tasks, NEW count, NEW fifo, NEW next, NEW bursts \in Seq(BurstSet), NEW accepted,
           NEW moved, Sending(tasks, count, fifo, next, bursts, accepted, moved),
           NEW b \in BurstSet
    PROVE  Sending(tasks, count, fifo, next, Append(bursts, b), accepted, moved)
<1> DEFINE more == Append(bursts, b)
<1>1. /\ tasks \in Seq(TaskSet) /\ count \in Nat /\ fifo \in Seq(DataSet) /\ moved \in Nat
      /\ moved + Len(tasks) = accepted /\ accepted <= Len(bursts)
      /\ Run(tasks, TaskOf(bursts), moved)
      /\ next \in BeatsOf(bursts) \/ next = <<Len(bursts) + 1, 0>>
      /\ Carries(fifo, DataItem(bursts), bursts, <<moved + 1, count>>, next)
  BY DEF Sending
<1>2. /\ Len(more) = Len(bursts) + 1 /\ Len(bursts) \in Nat /\ more[Len(bursts) + 1] = b
      /\ \A n \in 1 .. Len(bursts) : more[n] = bursts[n]
  OBVIOUS
<1>3. Carries(fifo, DataItem(more), more, <<moved + 1, count>>, next)
  BY <1>1, DataMore
<1>4. \A n \in 1 .. Len(bursts) : TaskOf(more)[n] = TaskOf(bursts)[n]
  BY TasksGrow
<1> HIDE DEF more
<1>5. moved + Len(tasks) <= Len(bursts) /\ accepted <= Len(more)
  BY <1>1, <1>2
<1>6. Run(tasks, TaskOf(more), moved)
  BY <1>1, <1>2, <1>4, <1>5, RunGrow
<1>7. next \in BeatsOf(more)
  <2>1. CASE next \in BeatsOf(bursts)
    <3>1. Len(more) \in Nat /\ Len(bursts) <= Len(more)
      BY <1>2
    <3> QED  BY <2>1, <3>1, <1>2, BeatsOfMore
  <2>2. CASE next = <<Len(bursts) + 1, 0>>
    <3>1. b.len \in Nat
      BY BurstFields
    <3>2. next[1] = Len(bursts) + 1 /\ next[2] = 0 /\ next \in Position
      BY <2>2, <1>2 DEF Position
    <3> QED  BY <3>1, <3>2, <1>2 DEF BeatsOf
  <2> QED  BY <2>1, <2>2, <1>1
<1>8. IF tasks = <<>> THEN count = 0 ELSE count <= Head(tasks).len
  BY DEF Sending
<1>9. Sending(tasks, count, fifo, next, more, accepted, moved)
  BY <1>1, <1>3, <1>5, <1>6, <1>7, <1>8 DEF Sending
<1> QED  BY <1>9 DEF more

LEMMA FirstOfAppend ==
    ASSUME NEW S, NEW fifo \in Seq(S), NEW x \in S
    PROVE  /\ Append(fifo, x) \in Seq(S) /\ Len(fifo) \in Nat
           /\ Len(Append(fifo, x)) = Len(fifo) + 1 /\ Append(fifo, x) # <<>>
           /\ Head(Append(fifo, x)) = IF fifo = <<>> THEN x ELSE Head(fifo)
OBVIOUS

\* The task of the burst after the first n.
NextTask(task, bursts, n) ==
    task = [sj |-> After(bursts, n).to, len |-> After(bursts, n).len]

\* The fabric accepts a burst.
LEMMA SendingTask ==
    ASSUME NEW tasks, NEW count, NEW fifo, NEW next, NEW bursts \in Seq(BurstSet),
           NEW accepted \in Nat, NEW moved,
           Sending(tasks, count, fifo, next, bursts, accepted, moved), accepted < Len(bursts),
           NEW task, NextTask(task, bursts, accepted)
    PROVE  /\ Sending(Append(tasks, task), count, fifo, next, bursts, accepted + 1, moved)
           /\ \A sj : Share(Append(tasks, task), count, sj) = Share(tasks, count, sj)
           /\ task \in TaskSet
<1> USE DEF NextTask
<1> DEFINE longer == Append(tasks, task)
<1>1. /\ tasks \in Seq(TaskSet) /\ count \in Nat /\ fifo \in Seq(DataSet) /\ moved \in Nat
      /\ moved + Len(tasks) = accepted /\ accepted <= Len(bursts)
      /\ Run(tasks, TaskOf(bursts), moved)
      /\ next \in BeatsOf(bursts) \/ next = <<Len(bursts) + 1, 0>>
      /\ Carries(fifo, DataItem(bursts), bursts, <<moved + 1, count>>, next)
      /\ (tasks = <<>> => count = 0) /\ (tasks # <<>> => count <= Head(tasks).len)
  BY DEF Sending
<1>2. /\ accepted + 1 \in 1 .. Len(bursts) /\ (accepted + 1) <= Len(bursts)
      /\ After(bursts, accepted) \in BurstSet /\ After(bursts, accepted).len \in Nat
      /\ After(bursts, accepted).to \in Dests
  <2>1. After(bursts, accepted) \in BurstSet
    BY AfterIsBurst
  <2> QED  BY <2>1, BurstFields
<1>3. task \in TaskSet /\ task.len \in Nat
  BY <1>2 DEF TaskSet
<1>4. task = TaskOf(bursts)[(moved + Len(tasks)) + 1]
  BY <1>1, <1>2 DEF TaskOf, After
<1>5. Run(longer, TaskOf(bursts), moved)
  BY <1>1, <1>3, <1>4, RunAppend
<1>6. /\ longer \in Seq(TaskSet) /\ Len(longer) = Len(tasks) + 1 /\ Len(tasks) \in Nat
      /\ longer # <<>> /\ Head(longer) = IF tasks = <<>> THEN task ELSE Head(tasks)
  BY <1>1, <1>3, FirstOfAppend
<1> HIDE DEF longer
<1>7. moved + Len(longer) = accepted + 1
  BY <1>1, <1>6
<1>8. count <= Head(longer).len
  BY <1>1, <1>3, <1>6
<1>9. Sending(longer, count, fifo, next, bursts, accepted + 1, moved)
  BY <1>1, <1>2, <1>5, <1>6, <1>7, <1>8 DEF Sending
<1>10. \A sj : Share(longer, count, sj) = Share(tasks, count, sj)
  BY <1>1, <1>6 DEF Share
<1> QED  BY <1>3, <1>9, <1>10 DEF longer

\* The master sends a datum.
LEMMA SendingSend ==
    ASSUME NEW tasks, NEW count, NEW fifo, NEW next, NEW bursts \in Seq(BurstSet), NEW accepted,
           NEW moved, Sending(tasks, count, fifo, next, bursts, accepted, moved),
           next[1] <= Len(bursts)
    PROVE  LET x == DataBeat(bursts[next[1]], next[2])
           IN  /\ Sending(tasks, count, Append(fifo, x), NextBeat(bursts, next), bursts, accepted, moved)
               /\ x \in DataSet /\ NextBeat(bursts, next) \in Position
<1> DEFINE x == DataBeat(bursts[next[1]], next[2])
           longer == Append(fifo, x)
           then == NextBeat(bursts, next)
<1>1. /\ fifo \in Seq(DataSet)
      /\ next \in BeatsOf(bursts) \/ next = <<Len(bursts) + 1, 0>>
      /\ Carries(fifo, DataItem(bursts), bursts, <<moved + 1, count>>, next)
  BY DEF Sending
<1>2. next \in BeatsOf(bursts)
  <2>1. next # <<Len(bursts) + 1, 0>>
    <3>1. Len(bursts) \in Nat
      OBVIOUS
    <3> QED  BY <3>1
  <2> QED  BY <2>1, <1>1
<1>3. /\ next[1] \in 1 .. Len(bursts) /\ next[2] \in Nat /\ next[2] <= bursts[next[1]].len
      /\ next[1] \in Nat /\ next = <<next[1], next[2]>>
  BY <1>2 DEF BeatsOf, Position
<1>4. bursts[next[1]] \in BurstSet
  BY <1>3
<1>5. x \in DataSet
  BY <1>3, <1>4, DataBeatType
<1>6. x \in DataItem(bursts)[next]
  BY <1>2 DEF DataItem
<1> HIDE DEF x
<1>7. longer \in Seq(DataSet) /\ Carries(longer, DataItem(bursts), bursts, <<moved + 1, count>>, then)
  BY <1>1, <1>2, <1>5, <1>6, CarriesAppend
<1>8. then \in BeatsOf(bursts) \/ then = <<Len(bursts) + 1, 0>>
  <2> DEFINE n == next[1]
             k == next[2]
  <2>1. n \in 1 .. Len(bursts) /\ n \in Nat /\ k \in Nat /\ k <= bursts[n].len /\ next = <<n, k>>
    BY <1>3
  <2>2. bursts[n] \in BurstSet /\ bursts[n].len \in Nat
    BY <1>4, BurstFields
  <2> HIDE DEF n, k
  <2>3. then = IF k = bursts[n].len THEN <<n + 1, 0>> ELSE <<n, k + 1>>
    BY <2>1, <2>2, CountedBeat
  <2>4. Len(bursts) \in Nat
    OBVIOUS
  <2> HIDE DEF then
  <2>5. CASE k = bursts[n].len
    <3>1. then = <<n + 1, 0>> /\ then[1] = n + 1 /\ then[2] = 0 /\ then \in Position
      BY <2>1, <2>3, <2>5 DEF Position
    <3>2. CASE n = Len(bursts)
      BY <3>1, <3>2
    <3>3. CASE n # Len(bursts)
      <4>1. n + 1 \in 1 .. Len(bursts)
        BY <3>3, <2>1, <2>4
      <4>2. bursts[n + 1] \in BurstSet
        BY <4>1
      <4>3. 0 <= bursts[n + 1].len
        BY <4>2, BurstFields
      <4> QED  BY <3>1, <4>1, <4>3 DEF BeatsOf
    <3> QED  BY <3>2, <3>3
  <2>6. CASE k # bursts[n].len
    <3>1. then = <<n, k + 1>> /\ then[1] = n /\ then[2] = k + 1 /\ then \in Position
      BY <2>1, <2>3, <2>6 DEF Position
    <3>2. k + 1 <= bursts[n].len
      BY <2>1, <2>2, <2>6
    <3> QED  BY <3>1, <3>2, <2>1 DEF BeatsOf
  <2> QED  BY <2>5, <2>6
<1>9. then \in Position
  BY <1>2, NextIsPosition
<1> HIDE DEF longer, then
<1>10. Sending(tasks, count, longer, then, bursts, accepted, moved)
  BY <1>7, <1>8 DEF Sending
<1> QED  BY <1>5, <1>9, <1>10 DEF longer, then, x

\* The fabric moves a datum: of what burst, and which.
LEMMA SendingFirst ==
    ASSUME NEW tasks, NEW count, NEW fifo, NEW next, NEW bursts \in Seq(BurstSet), NEW accepted,
           NEW moved, Sending(tasks, count, fifo, next, bursts, accepted, moved),
           tasks # <<>>, fifo # <<>>
    PROVE  /\ moved < accepted /\ moved < Len(bursts) /\ moved \in Nat
           /\ Head(tasks).sj = After(bursts, moved).to /\ Head(tasks).len = After(bursts, moved).len
           /\ count \in Nat /\ count <= After(bursts, moved).len
           /\ Head(fifo) = DataBeat(After(bursts, moved), count) /\ Head(fifo) \in DataSet
<1> DEFINE from == <<moved + 1, count>>
<1>1. /\ tasks \in Seq(TaskSet) /\ count \in Nat /\ fifo \in Seq(DataSet) /\ moved \in Nat
      /\ moved + Len(tasks) = accepted /\ accepted <= Len(bursts)
      /\ Run(tasks, TaskOf(bursts), moved)
      /\ Carries(fifo, DataItem(bursts), bursts, from, next)
      /\ count <= Head(tasks).len
  BY DEF Sending
<1>2. Len(tasks) \in Nat /\ Len(tasks) >= 1 /\ Len(bursts) \in Nat
  BY <1>1
<1>3. moved < accepted /\ moved < Len(bursts) /\ moved + 1 \in 1 .. Len(bursts)
  BY <1>1, <1>2
<1>4. Head(tasks) = TaskOf(bursts)[moved + 1]
  BY <1>1, RunTail
<1>5. Head(tasks).sj = After(bursts, moved).to /\ Head(tasks).len = After(bursts, moved).len
  BY <1>3, <1>4 DEF TaskOf, After
<1>6. Head(fifo) \in DataItem(bursts)[from]
  <2> HIDE DEF from
  <2> QED  BY <1>1, CarriesTail
<1>7. count <= After(bursts, moved).len
  BY <1>1, <1>5
<1>8. /\ from \in BeatsOf(bursts)
      /\ DataItem(bursts)[from] = {DataBeat(After(bursts, moved), count)}
      /\ NextBeat(bursts, from) = IF count = After(bursts, moved).len
                                  THEN <<(moved + 1) + 1, 0>> ELSE <<moved + 1, count + 1>>
      /\ DataBeat(After(bursts, moved), count) \in DataSet
  BY <1>1, <1>3, <1>7, DataNext
<1> QED  BY <1>1, <1>3, <1>5, <1>6, <1>7, <1>8

LEMMA SendingMove ==
    ASSUME NEW tasks, NEW count, NEW fifo, NEW next, NEW bursts \in Seq(BurstSet), NEW accepted,
           NEW moved, Sending(tasks, count, fifo, next, bursts, accepted, moved),
           tasks # <<>>, fifo # <<>>
    PROVE  /\ count = After(bursts, moved).len =>
                  Sending(Tail(tasks), 0, Tail(fifo), next, bursts, accepted, moved + 1)
           /\ count # After(bursts, moved).len =>
                  Sending(tasks, count + 1, Tail(fifo), next, bursts, accepted, moved)
<1> DEFINE from == <<moved + 1, count>>
           rest == Tail(fifo)
           fewer == Tail(tasks)
           len == After(bursts, moved).len
<1>1. /\ tasks \in Seq(TaskSet) /\ count \in Nat /\ fifo \in Seq(DataSet) /\ moved \in Nat
      /\ moved + Len(tasks) = accepted /\ accepted <= Len(bursts)
      /\ Run(tasks, TaskOf(bursts), moved)
      /\ next \in BeatsOf(bursts) \/ next = <<Len(bursts) + 1, 0>>
      /\ Carries(fifo, DataItem(bursts), bursts, from, next)
  BY DEF Sending
<1>2. /\ Len(tasks) \in Nat /\ Len(tasks) >= 1 /\ Len(fewer) = Len(tasks) - 1
      /\ fewer \in Seq(TaskSet) /\ rest \in Seq(DataSet)
      /\ (fewer # <<>> => Head(fewer) \in TaskSet)
  BY <1>1
<1>3. /\ moved < Len(bursts) /\ count <= len /\ Head(tasks).len = len
  BY SendingFirst
<1>4. len \in Nat
  BY <1>1, <1>3, AfterIsBurst
<1>5. NextBeat(bursts, from) = IF count = len THEN <<(moved + 1) + 1, 0>> ELSE <<moved + 1, count + 1>>
  BY <1>1, <1>3, DataNext
<1>6. Carries(rest, DataItem(bursts), bursts, NextBeat(bursts, from), next)
  <2> HIDE DEF from
  <2> QED  BY <1>1, CarriesTail
<1>7. Run(fewer, TaskOf(bursts), moved + 1)
  BY <1>1, RunTail
<1> HIDE DEF from, rest, fewer, len
<1>8. CASE count = len
  <2>1. Carries(rest, DataItem(bursts), bursts, <<(moved + 1) + 1, 0>>, next)
    BY <1>5, <1>6, <1>8
  <2>2. (moved + 1) + Len(fewer) = accepted /\ moved + 1 \in Nat /\ 0 \in Nat
    BY <1>1, <1>2
  <2>3. fewer # <<>> => 0 <= Head(fewer).len
    BY <1>2 DEF TaskSet
  <2>4. Sending(fewer, 0, rest, next, bursts, accepted, moved + 1)
    BY <2>1, <2>2, <2>3, <1>1, <1>2, <1>7 DEF Sending
  <2> QED  BY <2>4, <1>8 DEF rest, fewer, len
<1>9. CASE count # len
  <2>1. Carries(rest, DataItem(bursts), bursts, <<moved + 1, count + 1>>, next)
    BY <1>5, <1>6, <1>9
  <2>2. count + 1 \in Nat /\ count + 1 <= Head(tasks).len
    BY <1>1, <1>3, <1>4, <1>9
  <2>3. Sending(tasks, count + 1, rest, next, bursts, accepted, moved)
    BY <2>1, <2>2, <1>1, <1>2 DEF Sending
  <2> QED  BY <2>3, <1>9 DEF rest, len
<1> QED  BY <1>8, <1>9

\* A slave is given a burst.
LEMMA FedNew ==
    ASSUME NEW fifo, NEW routed \in Seq(BurstSet), NEW served, NEW taken, NEW c, NEW k,
           Fed(fifo, routed, served, taken, c, k), NEW b \in BurstSet
    PROVE  Fed(fifo, Append(routed, b), served, taken, c, k)
<1> DEFINE more == Append(routed, b)
<1>1. fifo \in Seq(DataSet) /\ Carries(fifo, DataItem(routed), routed, <<served + 1, taken>>, <<c + 1, k>>)
  BY DEF Fed
<1>2. Carries(fifo, DataItem(more), more, <<served + 1, taken>>, <<c + 1, k>>)
  BY <1>1, DataMore
<1>3. taken \in Nat /\ c \in Nat /\ c <= Len(routed) /\ Len(more) = Len(routed) + 1 /\ Len(routed) \in Nat
  BY DEF Fed
<1> HIDE DEF more
<1>4. c <= Len(more)
  BY <1>3
<1> QED  BY <1>1, <1>2, <1>3, <1>4 DEF Fed, more

\* A datum is moved to it.
LEMMA FedMove ==
    ASSUME NEW fifo, NEW routed \in Seq(BurstSet), NEW served, NEW taken, NEW c, NEW k \in Nat,
           Fed(fifo, routed, served, taken, c, k), c < Len(routed), k <= After(routed, c).len
    PROVE  LET longer == Append(fifo, DataBeat(After(routed, c), k))
           IN  /\ k = After(routed, c).len => Fed(longer, routed, served, taken, c + 1, 0)
               /\ k # After(routed, c).len => Fed(longer, routed, served, taken, c, k + 1)
<1> DEFINE x == DataBeat(After(routed, c), k)
           from == <<served + 1, taken>>
           to == <<c + 1, k>>
           longer == Append(fifo, x)
<1>1. /\ fifo \in Seq(DataSet) /\ taken \in Nat /\ c \in Nat /\ c <= Len(routed) /\ Len(routed) \in Nat
      /\ Carries(fifo, DataItem(routed), routed, from, to)
  BY DEF Fed
<1>2. /\ to \in BeatsOf(routed) /\ x \in DataItem(routed)[to] /\ x \in DataSet
      /\ NextBeat(routed, to) = IF k = After(routed, c).len THEN <<(c + 1) + 1, 0>> ELSE <<c + 1, k + 1>>
  BY <1>1, DataNext
<1> HIDE DEF x, from, to
<1>3. /\ longer \in Seq(DataSet)
      /\ Carries(longer, DataItem(routed), routed, from, NextBeat(routed, to))
  <2>1. fifo \in Seq(DataSet) /\ Carries(fifo, DataItem(routed), routed, from, to)
    BY <1>1
  <2>2. to \in BeatsOf(routed) /\ x \in DataItem(routed)[to] /\ x \in DataSet
    BY <1>2
  <2>3. longer \in Seq(DataSet)
    BY <2>1, <2>2
  <2> QED  BY <2>1, <2>2, <2>3, CarriesAppend
<1>4. c + 1 \in Nat /\ c + 1 <= Len(routed)
  BY <1>1
<1> HIDE DEF longer
<1>5. k = After(routed, c).len => Fed(longer, routed, served, taken, c + 1, 0)
  BY <1>1, <1>2, <1>3, <1>4 DEF Fed, from
<1>6. k # After(routed, c).len => Fed(longer, routed, served, taken, c, k + 1)
  BY <1>1, <1>2, <1>3 DEF Fed, from
<1> QED  BY <1>5, <1>6 DEF longer, x

\* It takes one.
LEMMA FedFirst ==
    ASSUME NEW fifo, NEW routed \in Seq(BurstSet), NEW served \in Nat, NEW taken, NEW c, NEW k,
           Fed(fifo, routed, served, taken, c, k), fifo # <<>>
    PROVE  /\ served < Len(routed) /\ taken <= After(routed, served).len /\ taken \in Nat
           /\ Head(fifo) = DataBeat(After(routed, served), taken)
<1> DEFINE from == <<served + 1, taken>>
           to == <<c + 1, k>>
<1>1. fifo \in Seq(DataSet) /\ Carries(fifo, DataItem(routed), routed, from, to) /\ taken \in Nat
  BY DEF Fed
<1>2. from \in BeatsOf(routed) /\ Head(fifo) \in DataItem(routed)[from]
  <2> HIDE DEF from, to
  <2> QED  BY <1>1, CarriesTail
<1>3. served < Len(routed) /\ taken <= After(routed, served).len
  BY <1>1, <1>2, AnswerFrom
<1>4. /\ DataItem(routed)[from] = {DataBeat(After(routed, served), taken)}
      /\ NextBeat(routed, from) = IF taken = After(routed, served).len
                                  THEN <<(served + 1) + 1, 0>> ELSE <<served + 1, taken + 1>>
  BY <1>1, <1>3, DataNext
<1> QED  BY <1>1, <1>2, <1>3, <1>4

LEMMA FedTake ==
    ASSUME NEW fifo, NEW routed \in Seq(BurstSet), NEW served \in Nat, NEW taken, NEW c, NEW k,
           Fed(fifo, routed, served, taken, c, k), fifo # <<>>
    PROVE  /\ Head(fifo).last => Fed(Tail(fifo), routed, served + 1, 0, c, k)
           /\ ~Head(fifo).last => Fed(Tail(fifo), routed, served, taken + 1, c, k)
<1> DEFINE from == <<served + 1, taken>>
           to == <<c + 1, k>>
           rest == Tail(fifo)
           len == After(routed, served).len
<1>1. /\ fifo \in Seq(DataSet) /\ Carries(fifo, DataItem(routed), routed, from, to)
      /\ taken \in Nat /\ c \in Nat /\ c <= Len(routed) /\ rest \in Seq(DataSet)
  BY DEF Fed
<1>2. Carries(rest, DataItem(routed), routed, NextBeat(routed, from), to)
  <2> HIDE DEF from, to
  <2> QED  BY <1>1, CarriesTail
<1>3. served < Len(routed) /\ taken <= len /\ Head(fifo) = DataBeat(After(routed, served), taken)
  BY FedFirst
<1>4. Head(fifo).last <=> taken = len
  BY <1>3, LastOfData
<1>5. NextBeat(routed, from) = IF taken = len THEN <<(served + 1) + 1, 0>> ELSE <<served + 1, taken + 1>>
  BY <1>1, <1>3, DataNext
<1> HIDE DEF from, rest, len
<1>6. taken = len => Fed(rest, routed, served + 1, 0, c, k)
  BY <1>1, <1>2, <1>5 DEF Fed
<1>7. taken # len => Fed(rest, routed, served, taken + 1, c, k)
  BY <1>1, <1>2, <1>5 DEF Fed
<1> QED  BY <1>4, <1>6, <1>7 DEF rest

data == <<wr_bursts, m_aw, wr_routed, s_aw, v_f_wd_tasks, v_rg_wd_beat_count, m_w, w_next,
          s_w, w_taken>>

\* What a slave has served, in terms of the bursts it was given.
LEMMA ServingCounts ==
    ASSUME NEW addrs, NEW resps, NEW routed \in Seq(BurstSet), NEW relieved,
           Serving(addrs, resps, routed, relieved)
    PROVE  /\ Accepted(routed, addrs) \in Nat /\ Accepted(routed, addrs) <= Len(routed)
           /\ addrs = <<>> => Accepted(routed, addrs) = Len(routed)
           /\ addrs # <<>> => /\ Head(addrs) = After(routed, Accepted(routed, addrs))
                              /\ Accepted(routed, Tail(addrs)) = Accepted(routed, addrs) + 1
<1>1. /\ addrs \in Seq(BurstSet) /\ resps \in Seq(WrAnswerSet) /\ relieved \in Nat
      /\ (relieved + Len(resps)) + Len(addrs) = Len(routed)
      /\ Run(addrs, routed, relieved + Len(resps))
  BY DEF Serving
<1>2. /\ Len(addrs) \in Nat /\ Len(resps) \in Nat /\ Len(routed) \in Nat
      /\ (addrs = <<>> => Len(addrs) = 0) /\ (addrs # <<>> => Len(Tail(addrs)) = Len(addrs) - 1)
  BY <1>1
<1>3. Accepted(routed, addrs) = relieved + Len(resps)
  BY <1>1, <1>2 DEF Accepted
<1>4. addrs # <<>> => Head(addrs) = routed[(relieved + Len(resps)) + 1]
  BY <1>1, RunTail
<1>5. addrs # <<>> => Head(addrs) = After(routed, Accepted(routed, addrs))
  BY <1>3, <1>4 DEF After
<1>6. addrs # <<>> => Accepted(routed, Tail(addrs)) = Accepted(routed, addrs) + 1
  BY <1>2 DEF Accepted
<1> QED  BY <1>1, <1>2, <1>3, <1>5, <1>6

LEMMA AcceptedGrow ==
    ASSUME NEW addrs \in Seq(BurstSet), NEW routed \in Seq(BurstSet), NEW b \in BurstSet
    PROVE  Accepted(Append(routed, b), Append(addrs, b)) = Accepted(routed, addrs)
<1>1. /\ Len(Append(routed, b)) = Len(routed) + 1 /\ Len(routed) \in Nat
      /\ Len(Append(addrs, b)) = Len(addrs) + 1 /\ Len(addrs) \in Nat
  OBVIOUS
<1> QED  BY <1>1 DEF Accepted

LEMMA DataOrders ==
    ASSUME WriteInv, NEW w \in Masters, NEW moved \in Nat, SendingOf(w, moved),
           NEW sj \in Slaves, NEW c \in Nat, Feeding(w, moved, sj, c)
    PROVE  /\ Orders(wr_routed[sj], c, wr_bursts[w], w, moved, WrAccepted(w))
           /\ Pending(wr_routed[sj], c, wr_bursts[w], w, moved, WrAccepted(w), sj)
<1>1. wr_routed[sj] \in Seq(BurstSet) /\ Port(w, wr_bursts[w], m_aw[w], v_f_wr_sjs[w])
  BY WrParts
<1>2. Numbered(wr_bursts[w], w) /\ WrAccepted(w) \in Nat /\ WrAccepted(w) <= Len(wr_bursts[w])
  BY <1>1, PortCounts DEF Port, WrAccepted
<1>3. c <= Len(wr_routed[sj])
  BY DEF Feeding, Fed
<1>4. v_f_wd_tasks[w] \in Seq(TaskSet) /\ moved + Len(v_f_wd_tasks[w]) = WrAccepted(w)
  BY DEF SendingOf, Sending
<1>5. moved <= WrAccepted(w)
  BY <1>2, <1>4
<1> QED  BY <1>1, <1>2, <1>3, <1>5 DEF Orders, Feeding

LEMMA DataUnchanged ==
    ASSUME NEW w, DataInv(w), UNCHANGED data
    PROVE  DataInv(w)'
BY DEF DataInv, data, DataTypes, Silent, SendingOf, Feeding, WrAccepted

LEMMA MasterWriteFeeds ==
    ASSUME WriteInv, NEW w \in Masters, DataInv(w), NEW shape \in Shapes, MasterWrite(w, shape)
    PROVE  DataInv(w)'
<1> DEFINE b == Burst(wr_bursts, w, shape)
<1>1. /\ m_aw' = [m_aw EXCEPT ![w] = Append(@, b)]
      /\ wr_bursts' = [wr_bursts EXCEPT ![w] = Append(@, b)]
      /\ UNCHANGED <<wr_routed, s_aw, v_f_wd_tasks, v_rg_wd_beat_count, m_w, w_next, s_w, w_taken>>
  BY DEF MasterWrite, Enq, wr_book
<1>2. wr_bursts \in [Masters -> Seq(BurstSet)] /\ m_aw \in [Masters -> Seq(BurstSet)]
  BY DEF WriteInv, WrBook, Book, BookTypes
<1>3. b \in BurstSet /\ b.id = <<w, Len(wr_bursts[w]) + 1>>
  BY <1>2, BurstIsOne
<1> HIDE DEF b
<1>4. /\ wr_bursts'[w] = Append(wr_bursts[w], b) /\ m_aw'[w] = Append(m_aw[w], b)
      /\ \A mi \in Masters : mi # w => wr_bursts'[mi] = wr_bursts[mi]
      /\ wr_bursts[w] \in Seq(BurstSet) /\ m_aw[w] \in Seq(BurstSet)
  BY <1>1, <1>2
<1>5. WrAccepted(w)' = WrAccepted(w)
  <2>1. Accepted(Append(wr_bursts[w], b), Append(m_aw[w], b)) = Accepted(wr_bursts[w], m_aw[w])
    BY <1>3, <1>4, AcceptedGrow
  <2> QED  BY <2>1, <1>4 DEF WrAccepted
<1>6. PICK moved \in Nat :
        SendingOf(w, moved) /\ \A sj \in Slaves : \E c \in Nat : Feeding(w, moved, sj, c)
  BY DEF DataInv
<1>7. SendingOf(w, moved)'
  <2>1. Sending(v_f_wd_tasks[w], v_rg_wd_beat_count[w], m_w[w], w_next[w], wr_bursts'[w],
                WrAccepted(w), moved)
    BY <1>3, <1>4, <1>6, SendingNew DEF SendingOf
  <2> QED  BY <2>1, <1>1, <1>5 DEF SendingOf
<1>8. ASSUME NEW sj \in Slaves PROVE \E c \in Nat : Feeding(w, moved, sj, c)'
  <2>1. PICK c \in Nat : Feeding(w, moved, sj, c)
    BY <1>6
  <2>2. Pending(wr_routed[sj], c, wr_bursts'[w], w, moved, WrAccepted(w), sj)
    BY <2>1, <1>3, <1>4, <1>6, DataOrders, PendingGrow
  <2>3. Feeding(w, moved, sj, c)'
    BY <2>1, <2>2, <1>1, <1>5 DEF Feeding
  <2> QED  BY <2>3
<1>9. /\ DataTypes' /\ \A mi \in Masters : mi # w => Silent(mi)'
      /\ \A sj \in Slaves : Theirs(wr_routed[sj], w)'
  BY <1>1, <1>4 DEF DataInv, DataTypes, Silent
<1> QED  BY <1>7, <1>8, <1>9 DEF DataInv

LEMMA MasterSendWFeeds ==
    ASSUME WriteInv, NEW w \in Masters, DataInv(w), MasterSendW(w)
    PROVE  DataInv(w)'
<1> DEFINE x == DataBeat(wr_bursts[w][w_next[w][1]], w_next[w][2])
           then == NextBeat(wr_bursts[w], w_next[w])
<1>0. w_next[w][1] <= Len(wr_bursts[w])
  BY DEF MasterSendW
<1>1. /\ m_w' = [m_w EXCEPT ![w] = Append(@, x)]
      /\ w_next' = [w_next EXCEPT ![w] = then]
      /\ UNCHANGED <<wr_bursts, m_aw, wr_routed, s_aw, v_f_wd_tasks, v_rg_wd_beat_count, s_w, w_taken>>
  BY DEF MasterSendW, Enq, wr_book
<1>2. m_w \in [Masters -> Seq(DataSet)] /\ w_next \in [Masters -> Position]
  BY DEF DataInv, DataTypes
<1>3. PICK moved \in Nat :
        SendingOf(w, moved) /\ \A sj \in Slaves : \E c \in Nat : Feeding(w, moved, sj, c)
  BY DEF DataInv
<1>4. /\ Sending(v_f_wd_tasks[w], v_rg_wd_beat_count[w], Append(m_w[w], x), then, wr_bursts[w],
                 WrAccepted(w), moved)
      /\ x \in DataSet /\ then \in Position
  BY <1>0, <1>3, WrParts, SendingSend DEF SendingOf
<1> HIDE DEF x, then
<1>5. m_w'[w] = Append(m_w[w], x) /\ w_next'[w] = then
  BY <1>1, <1>2
<1>6. SendingOf(w, moved)'
  BY <1>1, <1>4, <1>5 DEF SendingOf, WrAccepted
<1>7. \A sj \in Slaves : \E c \in Nat : Feeding(w, moved, sj, c)'
  BY <1>1, <1>3 DEF Feeding, WrAccepted
<1>8. DataTypes'
  <2>1. Append(m_w[w], x) \in Seq(DataSet)
    BY <1>2, <1>4
  <2> QED  BY <2>1, <1>1, <1>2, <1>4 DEF DataInv, DataTypes
<1>9. /\ \A mi \in Masters : mi # w => Silent(mi)'
      /\ \A sj \in Slaves : Theirs(wr_routed[sj], w)'
  BY <1>1, <1>2 DEF DataInv, Silent
<1> QED  BY <1>6, <1>7, <1>8, <1>9 DEF DataInv

LEMMA TheirsMore ==
    ASSUME NEW routed \in Seq(BurstSet), NEW w, Theirs(routed, w), NEW b \in BurstSet, b.id[1] = w
    PROVE  Theirs(Append(routed, b), w)
<1> DEFINE more == Append(routed, b)
<1>1. /\ Len(more) = Len(routed) + 1 /\ Len(routed) \in Nat /\ more[Len(routed) + 1] = b
      /\ \A i \in 1 .. Len(routed) : more[i] = routed[i]
  OBVIOUS
<1> HIDE DEF more
<1>2. ASSUME NEW i \in 1 .. Len(more) PROVE more[i].id[1] = w
  <2>1. i \in 1 .. Len(routed) \/ i = Len(routed) + 1
    BY <1>1
  <2> QED  BY <2>1, <1>1 DEF Theirs
<1> QED  BY <1>2 DEF Theirs, more

LEMMA WrXactionFeeds ==
    ASSUME WriteInv, NEW w \in Masters, DataInv(w), NEW sj \in Slaves, WrXaction(w, sj)
    PROVE  DataInv(w)'
<1> DEFINE b == Head(m_aw[w])
           task == [sj |-> sj, len |-> b.len]
           accepted == WrAccepted(w)
<1>1. /\ m_aw[w] # <<>> /\ b.to = sj
      /\ m_aw' = [m_aw EXCEPT ![w] = Tail(@)]
      /\ s_aw' = [s_aw EXCEPT ![sj] = Append(@, b)]
      /\ v_f_wd_tasks' = [v_f_wd_tasks EXCEPT ![w] = Append(@, task)]
      /\ wr_routed' = [wr_routed EXCEPT ![sj] = Append(@, b)]
      /\ UNCHANGED <<wr_bursts, v_rg_wd_beat_count, m_w, w_next, s_w, w_taken>>
  BY DEF WrXaction, Ready, Enq, Deq, wr_env
<1>2. /\ m_aw \in [Masters -> Seq(BurstSet)] /\ wr_routed \in [Slaves -> Seq(BurstSet)]
      /\ s_aw \in [Slaves -> Seq(BurstSet)] /\ v_f_wd_tasks \in [Masters -> Seq(TaskSet)]
  BY DEF WriteInv, WrBook, Book, BookTypes, WriteTypes, DataInv, DataTypes
<1> HIDE DEF b
<1>3. /\ accepted < Len(wr_bursts[w]) /\ b = After(wr_bursts[w], accepted) /\ b \in BurstSet
      /\ b.id[1] = w /\ Accepted(wr_bursts[w], Tail(m_aw[w])) = accepted + 1
      /\ accepted \in Nat
  <2>1. Port(w, wr_bursts[w], m_aw[w], v_f_wr_sjs[w])
    BY WrParts
  <2>2. accepted \in Nat
    BY <2>1, PortCounts DEF WrAccepted
  <2>3. m_aw[w] # <<>>
    BY <1>1
  <2> QED  BY <2>1, <2>2, <2>3, PortRoute DEF b, WrAccepted
<1>4. NextTask(task, wr_bursts[w], accepted)
  BY <1>1, <1>3 DEF NextTask
<1> HIDE DEF task
<1>5. PICK moved \in Nat :
        SendingOf(w, moved) /\ \A s \in Slaves : \E c \in Nat : Feeding(w, moved, s, c)
  BY DEF DataInv
<1>6. /\ Sending(Append(v_f_wd_tasks[w], task), v_rg_wd_beat_count[w], m_w[w], w_next[w],
                 wr_bursts[w], accepted + 1, moved)
      /\ \A s : Share(Append(v_f_wd_tasks[w], task), v_rg_wd_beat_count[w], s)
                    = Share(v_f_wd_tasks[w], v_rg_wd_beat_count[w], s)
      /\ task \in TaskSet
  <2>1. /\ Sending(v_f_wd_tasks[w], v_rg_wd_beat_count[w], m_w[w], w_next[w], wr_bursts[w],
                   accepted, moved)
        /\ wr_bursts[w] \in Seq(BurstSet)
    BY <1>5, WrParts DEF SendingOf
  <2> HIDE DEF accepted
  <2> QED  BY <2>1, <1>3, <1>4, SendingTask
<1>7. /\ m_aw'[w] = Tail(m_aw[w]) /\ v_f_wd_tasks'[w] = Append(v_f_wd_tasks[w], task)
      /\ \A mi \in Masters : mi # w => v_f_wd_tasks'[mi] = v_f_wd_tasks[mi]
  BY <1>1, <1>2
<1>8. WrAccepted(w)' = accepted + 1
  BY <1>1, <1>3, <1>7 DEF WrAccepted
<1> HIDE DEF accepted
<1>9. SendingOf(w, moved)'
  BY <1>1, <1>6, <1>7, <1>8 DEF SendingOf
<1>10. ASSUME NEW s \in Slaves PROVE \E c \in Nat : Feeding(w, moved, s, c)'
  <2>1. PICK c \in Nat : Feeding(w, moved, s, c)
    BY <1>5
  <2>2. /\ Orders(wr_routed[s], c, wr_bursts[w], w, moved, accepted)
        /\ Pending(wr_routed[s], c, wr_bursts[w], w, moved, accepted, s)
    BY <2>1, <1>5, DataOrders DEF accepted
  <2>3. Fed(s_w[s], wr_routed[s], Accepted(wr_routed[s], s_aw[s]), w_taken[s], c,
            Share(v_f_wd_tasks[w], v_rg_wd_beat_count[w], s))
    BY <2>1 DEF Feeding
  <2>4. CASE s = sj
    <3>1. wr_routed'[s] = Append(wr_routed[s], b) /\ s_aw'[s] = Append(s_aw[s], b)
      BY <2>4, <1>1, <1>2
    <3>2. Pending(wr_routed'[s], c, wr_bursts[w], w, moved, accepted + 1, s)
      BY <2>2, <3>1, <1>3, PendingEnq
    <3>3. Accepted(wr_routed'[s], s_aw'[s]) = Accepted(wr_routed[s], s_aw[s])
      BY <3>1, <1>2, <1>3, AcceptedGrow
    <3>4. Fed(s_w[s], wr_routed'[s], Accepted(wr_routed[s], s_aw[s]), w_taken[s], c,
              Share(v_f_wd_tasks[w], v_rg_wd_beat_count[w], s))
      BY <2>3, <3>1, <1>2, <1>3, FedNew
    <3>5. Feeding(w, moved, s, c)'
      BY <3>2, <3>3, <3>4, <1>1, <1>6, <1>7, <1>8 DEF Feeding
    <3> QED  BY <3>5
  <2>5. CASE s # sj
    <3>1. wr_routed'[s] = wr_routed[s] /\ s_aw'[s] = s_aw[s]
      BY <2>5, <1>1, <1>2
    <3>2. Pending(wr_routed[s], c, wr_bursts[w], w, moved, accepted + 1, s)
      BY <2>2, <2>5, <1>1, <1>3, PendingElsewhere
    <3>3. Feeding(w, moved, s, c)'
      BY <2>3, <3>1, <3>2, <1>1, <1>6, <1>7, <1>8 DEF Feeding
    <3> QED  BY <3>3
  <2> QED  BY <2>4, <2>5
<1>11. DataTypes'
  <2>1. Append(v_f_wd_tasks[w], task) \in Seq(TaskSet)
    BY <1>2, <1>6
  <2> QED  BY <2>1, <1>1, <1>2 DEF DataInv, DataTypes
<1>12. \A mi \in Masters : mi # w => Silent(mi)'
  BY <1>1, <1>7 DEF DataInv, Silent
<1>13. ASSUME NEW s \in Slaves PROVE Theirs(wr_routed[s], w)'
  <2>0. Theirs(wr_routed[s], w) /\ wr_routed[s] \in Seq(BurstSet)
    BY <1>2 DEF DataInv
  <2>1. CASE s = sj
    <3>1. wr_routed'[s] = Append(wr_routed[s], b)
      BY <2>1, <1>1, <1>2
    <3> QED  BY <2>0, <3>1, <1>3, TheirsMore
  <2>2. CASE s # sj
    BY <2>0, <2>2, <1>1, <1>2
  <2> QED  BY <2>1, <2>2
<1> QED  BY <1>9, <1>10, <1>11, <1>12, <1>13 DEF DataInv

LEMMA WrNoSuchSlaveFeeds ==
    ASSUME WriteInv, NEW w \in Masters, DataInv(w), WrNoSuchSlave(w)
    PROVE  DataInv(w)'
<1> DEFINE b == Head(m_aw[w])
           task == [sj |-> NoSlave, len |-> b.len]
           accepted == WrAccepted(w)
<1>1. /\ m_aw[w] # <<>> /\ b.to = NoSlave
      /\ m_aw' = [m_aw EXCEPT ![w] = Tail(@)]
      /\ v_f_wd_tasks' = [v_f_wd_tasks EXCEPT ![w] = Append(@, task)]
      /\ UNCHANGED <<wr_bursts, wr_routed, s_aw, v_rg_wd_beat_count, m_w, w_next, s_w, w_taken>>
  BY DEF WrNoSuchSlave, Ready, Enq, Deq, wr_env
<1>2. m_aw \in [Masters -> Seq(BurstSet)] /\ v_f_wd_tasks \in [Masters -> Seq(TaskSet)]
  BY DEF WriteInv, WrBook, Book, BookTypes, DataInv, DataTypes
<1> HIDE DEF b
<1>3. /\ accepted < Len(wr_bursts[w]) /\ b = After(wr_bursts[w], accepted)
      /\ Accepted(wr_bursts[w], Tail(m_aw[w])) = accepted + 1 /\ accepted \in Nat
  <2>1. Port(w, wr_bursts[w], m_aw[w], v_f_wr_sjs[w])
    BY WrParts
  <2>2. accepted \in Nat
    BY <2>1, PortCounts DEF WrAccepted
  <2>3. m_aw[w] # <<>>
    BY <1>1
  <2> QED  BY <2>1, <2>2, <2>3, PortRoute DEF b, WrAccepted
<1>4. NextTask(task, wr_bursts[w], accepted)
  BY <1>1, <1>3 DEF NextTask
<1> HIDE DEF task
<1>5. PICK moved \in Nat :
        SendingOf(w, moved) /\ \A s \in Slaves : \E c \in Nat : Feeding(w, moved, s, c)
  BY DEF DataInv
<1>6. /\ Sending(Append(v_f_wd_tasks[w], task), v_rg_wd_beat_count[w], m_w[w], w_next[w],
                 wr_bursts[w], accepted + 1, moved)
      /\ \A s : Share(Append(v_f_wd_tasks[w], task), v_rg_wd_beat_count[w], s)
                    = Share(v_f_wd_tasks[w], v_rg_wd_beat_count[w], s)
      /\ task \in TaskSet
  <2>1. /\ Sending(v_f_wd_tasks[w], v_rg_wd_beat_count[w], m_w[w], w_next[w], wr_bursts[w],
                   accepted, moved)
        /\ wr_bursts[w] \in Seq(BurstSet)
    BY <1>5, WrParts DEF SendingOf
  <2> HIDE DEF accepted
  <2> QED  BY <2>1, <1>3, <1>4, SendingTask
<1>7. /\ m_aw'[w] = Tail(m_aw[w]) /\ v_f_wd_tasks'[w] = Append(v_f_wd_tasks[w], task)
      /\ \A mi \in Masters : mi # w => v_f_wd_tasks'[mi] = v_f_wd_tasks[mi]
  BY <1>1, <1>2
<1>8. WrAccepted(w)' = accepted + 1
  BY <1>1, <1>3, <1>7 DEF WrAccepted
<1> HIDE DEF accepted
<1>9. SendingOf(w, moved)'
  BY <1>1, <1>6, <1>7, <1>8 DEF SendingOf
<1>10. ASSUME NEW s \in Slaves PROVE \E c \in Nat : Feeding(w, moved, s, c)'
  <2>1. PICK c \in Nat : Feeding(w, moved, s, c)
    BY <1>5
  <2>2. /\ Orders(wr_routed[s], c, wr_bursts[w], w, moved, accepted)
        /\ Pending(wr_routed[s], c, wr_bursts[w], w, moved, accepted, s)
    BY <2>1, <1>5, DataOrders DEF accepted
  <2>3. Pending(wr_routed[s], c, wr_bursts[w], w, moved, accepted + 1, s)
    BY <2>2, <1>1, <1>3, NoSlaveIsNone, PendingElsewhere
  <2>4. Feeding(w, moved, s, c)'
    BY <2>1, <2>3, <1>1, <1>6, <1>7, <1>8 DEF Feeding
  <2> QED  BY <2>4
<1>11. DataTypes'
  <2>1. Append(v_f_wd_tasks[w], task) \in Seq(TaskSet)
    BY <1>2, <1>6
  <2> QED  BY <2>1, <1>1, <1>2 DEF DataInv, DataTypes
<1>12. /\ \A mi \in Masters : mi # w => Silent(mi)'
       /\ \A s \in Slaves : Theirs(wr_routed[s], w)'
  BY <1>1, <1>7 DEF DataInv, Silent
<1> QED  BY <1>9, <1>10, <1>11, <1>12 DEF DataInv

LEMMA Shares ==
    ASSUME NEW tasks, NEW count, NEW sj
    PROVE  /\ tasks # <<>> /\ Head(tasks).sj = sj => Share(tasks, count, sj) = count
           /\ tasks # <<>> /\ Head(tasks).sj # sj => Share(tasks, count, sj) = 0
           /\ Share(tasks, 0, sj) = 0
BY DEF Share

\* The slave that the next datum goes to,
LEMMA MoveTo ==
    ASSUME WriteInv, NEW w \in Masters, DataInv(w), NEW moved \in Nat, SendingOf(w, moved),
           v_f_wd_tasks[w] # <<>>, m_w[w] # <<>>,
           NEW s \in Slaves, Head(v_f_wd_tasks[w]).sj = s, NEW c \in Nat, Feeding(w, moved, s, c),
           NEW final, final = (v_rg_wd_beat_count[w] = Head(v_f_wd_tasks[w]).len)
    PROVE  /\ final => Pending(wr_routed[s], c + 1, wr_bursts[w], w, moved + 1, WrAccepted(w), s)
           /\ final => Fed(Append(s_w[s], Head(m_w[w])), wr_routed[s],
                           Accepted(wr_routed[s], s_aw[s]), w_taken[s], c + 1, 0)
           /\ ~final => Fed(Append(s_w[s], Head(m_w[w])), wr_routed[s],
                            Accepted(wr_routed[s], s_aw[s]), w_taken[s], c,
                            v_rg_wd_beat_count[w] + 1)
<1> DEFINE b == After(wr_bursts[w], moved)
           count == v_rg_wd_beat_count[w]
           routed == wr_routed[s]
<1>1. /\ moved < WrAccepted(w) /\ Head(v_f_wd_tasks[w]).sj = b.to
      /\ Head(v_f_wd_tasks[w]).len = b.len /\ count \in Nat /\ count <= b.len
      /\ Head(m_w[w]) = DataBeat(b, count)
  BY WrParts, SendingFirst DEF SendingOf
<1>2. /\ Orders(routed, c, wr_bursts[w], w, moved, WrAccepted(w))
      /\ Pending(routed, c, wr_bursts[w], w, moved, WrAccepted(w), s)
  BY DataOrders
<1>3. c < Len(routed) => After(routed, c).id[1] = w
  <2>1. Theirs(routed, w) /\ Len(routed) \in Nat
    BY WrParts DEF DataInv
  <2>2. c < Len(routed) => c + 1 \in 1 .. Len(routed)
    BY <2>1
  <2> QED  BY <2>1, <2>2 DEF Theirs, After
<1>4. c < Len(routed) /\ After(routed, c) = b
  <2>1. b.to = s
    BY <1>1
  <2> QED  BY <2>1, <1>1, <1>2, <1>3, PendingHead
<1>5. Pending(routed, c + 1, wr_bursts[w], w, moved + 1, WrAccepted(w), s)
  BY <1>1, <1>2, <1>4, PendingDeq
<1>6. Fed(s_w[s], routed, Accepted(routed, s_aw[s]), w_taken[s], c, count)
  BY Shares DEF Feeding
<1>7. /\ count = b.len => Fed(Append(s_w[s], DataBeat(b, count)), routed,
                              Accepted(routed, s_aw[s]), w_taken[s], c + 1, 0)
      /\ count # b.len => Fed(Append(s_w[s], DataBeat(b, count)), routed,
                              Accepted(routed, s_aw[s]), w_taken[s], c, count + 1)
  BY <1>1, <1>4, <1>6, WrParts, FedMove
<1> QED  BY <1>1, <1>5, <1>7

\* and the others.
LEMMA MoveElsewhere ==
    ASSUME WriteInv, NEW w \in Masters, NEW moved \in Nat, SendingOf(w, moved),
           v_f_wd_tasks[w] # <<>>, m_w[w] # <<>>,
           NEW s \in Slaves, Head(v_f_wd_tasks[w]).sj # s, NEW c \in Nat, Feeding(w, moved, s, c)
    PROVE  /\ Pending(wr_routed[s], c, wr_bursts[w], w, moved, WrAccepted(w), s)
           /\ Pending(wr_routed[s], c, wr_bursts[w], w, moved + 1, WrAccepted(w), s)
           /\ Fed(s_w[s], wr_routed[s], Accepted(wr_routed[s], s_aw[s]), w_taken[s], c, 0)
<1>1. /\ moved < WrAccepted(w) /\ After(wr_bursts[w], moved).to # s
  BY WrParts, SendingFirst DEF SendingOf
<1>2. /\ Orders(wr_routed[s], c, wr_bursts[w], w, moved, WrAccepted(w))
      /\ Pending(wr_routed[s], c, wr_bursts[w], w, moved, WrAccepted(w), s)
  BY DataOrders
<1>3. \A i \in 1 .. Len(wr_routed[s]) : wr_routed[s][i].to = s
  BY WrParts DEF Route
<1>4. Pending(wr_routed[s], c, wr_bursts[w], w, moved + 1, WrAccepted(w), s)
  BY <1>1, <1>2, <1>3, PendingDeqElsewhere
<1>5. Fed(s_w[s], wr_routed[s], Accepted(wr_routed[s], s_aw[s]), w_taken[s], c, 0)
  BY Shares DEF Feeding
<1> QED  BY <1>2, <1>4, <1>5

LEMMA WrDataFeeds ==
    ASSUME WriteInv, NEW w \in Masters, DataInv(w), WrData(w)
    PROVE  DataInv(w)'
<1> DEFINE task == Head(v_f_wd_tasks[w])
           x == Head(m_w[w])
           count == v_rg_wd_beat_count[w]
           final == (count = task.len)
<1>0. v_f_wd_tasks[w] # <<>> /\ m_w[w] # <<>>
  BY DEF WrData, Ready
<1>1. /\ IF task.sj = NoSlave THEN UNCHANGED s_w ELSE s_w' = [s_w EXCEPT ![task.sj] = Append(@, x)]
      /\ v_f_wd_tasks' = IF final THEN [v_f_wd_tasks EXCEPT ![w] = Tail(@)] ELSE v_f_wd_tasks
      /\ v_rg_wd_beat_count' = [v_rg_wd_beat_count EXCEPT ![w] = IF final THEN 0 ELSE @ + 1]
      /\ m_w' = [m_w EXCEPT ![w] = Tail(@)]
      /\ UNCHANGED <<wr_bursts, m_aw, wr_routed, s_aw, w_next, w_taken>>
  BY DEF WrData, Enq, Deq, NextCount, wr_env
<1>2. /\ v_f_wd_tasks \in [Masters -> Seq(TaskSet)] /\ v_rg_wd_beat_count \in [Masters -> Nat]
      /\ m_w \in [Masters -> Seq(DataSet)] /\ s_w \in [Slaves -> Seq(DataSet)]
  BY DEF DataInv, DataTypes
<1>3. task \in TaskSet /\ Tail(v_f_wd_tasks[w]) \in Seq(TaskSet) /\ task.sj \in Dests
      /\ x \in DataSet /\ Tail(m_w[w]) \in Seq(DataSet) /\ count \in Nat
  <2>1. v_f_wd_tasks[w] \in Seq(TaskSet) /\ m_w[w] \in Seq(DataSet) /\ count \in Nat
    BY <1>2
  <2>2. task \in TaskSet /\ Tail(v_f_wd_tasks[w]) \in Seq(TaskSet)
    BY <2>1, <1>0
  <2>3. x \in DataSet /\ Tail(m_w[w]) \in Seq(DataSet)
    BY <2>1, <1>0
  <2> HIDE DEF task
  <2>4. task.sj \in Dests
    BY <2>2 DEF TaskSet
  <2> QED  BY <2>1, <2>2, <2>3, <2>4 DEF task
<1>4. PICK moved \in Nat :
        SendingOf(w, moved) /\ \A s \in Slaves : \E c \in Nat : Feeding(w, moved, s, c)
  BY DEF DataInv
<1>5. /\ task.len = After(wr_bursts[w], moved).len
      /\ final => Sending(Tail(v_f_wd_tasks[w]), 0, Tail(m_w[w]), w_next[w], wr_bursts[w],
                          WrAccepted(w), moved + 1)
      /\ ~final => Sending(v_f_wd_tasks[w], count + 1, Tail(m_w[w]), w_next[w], wr_bursts[w],
                           WrAccepted(w), moved)
  <2>1. /\ wr_bursts[w] \in Seq(BurstSet)
        /\ Sending(v_f_wd_tasks[w], count, m_w[w], w_next[w], wr_bursts[w], WrAccepted(w), moved)
    BY <1>4, WrParts DEF SendingOf
  <2>2. task.len = After(wr_bursts[w], moved).len
    BY <2>1, <1>0, SendingFirst
  <2> QED  BY <2>1, <2>2, <1>0, SendingMove
<1>6. /\ m_w'[w] = Tail(m_w[w])
      /\ v_f_wd_tasks'[w] = IF final THEN Tail(v_f_wd_tasks[w]) ELSE v_f_wd_tasks[w]
      /\ v_rg_wd_beat_count'[w] = IF final THEN 0 ELSE count + 1
      /\ \A mi \in Masters : mi # w => v_f_wd_tasks'[mi] = v_f_wd_tasks[mi]
  <2> HIDE DEF final
  <2> QED  BY <1>1, <1>2
<1>7. ASSUME NEW s \in Slaves
      PROVE  /\ task.sj = s => s_w'[s] = Append(s_w[s], x)
             /\ task.sj # s => s_w'[s] = s_w[s]
  <2> HIDE DEF task
  <2>1. CASE task.sj = NoSlave
    BY <2>1, <1>1, NoSlaveIsNone
  <2>2. CASE task.sj # NoSlave
    BY <2>2, <1>1, <1>2
  <2> QED  BY <2>1, <2>2
<1>8. WrAccepted(w)' = WrAccepted(w)
  BY <1>1 DEF WrAccepted
<1>9. ASSUME final
      PROVE  \E m \in Nat : SendingOf(w, m)' /\ \A s \in Slaves : \E c \in Nat : Feeding(w, m, s, c)'
  <2>1. SendingOf(w, moved + 1)'
    BY <1>1, <1>5, <1>6, <1>8, <1>9 DEF SendingOf
  <2>2. ASSUME NEW s \in Slaves PROVE \E c \in Nat : Feeding(w, moved + 1, s, c)'
    <3>1. PICK c \in Nat : Feeding(w, moved, s, c)
      BY <1>4
    <3>2. Share(v_f_wd_tasks'[w], v_rg_wd_beat_count'[w], s) = 0
      BY <1>6, <1>9, Shares
    <3>3. CASE task.sj = s
      <4>1. /\ Pending(wr_routed[s], c + 1, wr_bursts[w], w, moved + 1, WrAccepted(w), s)
            /\ Fed(s_w'[s], wr_routed[s], Accepted(wr_routed[s], s_aw[s]), w_taken[s], c + 1, 0)
        BY <3>1, <3>3, <1>0, <1>4, <1>7, <1>9, MoveTo
      <4>2. Feeding(w, moved + 1, s, c + 1)'
        BY <4>1, <3>2, <1>1, <1>8 DEF Feeding
      <4> QED  BY <4>2
    <3>4. CASE task.sj # s
      <4>1. /\ Pending(wr_routed[s], c, wr_bursts[w], w, moved + 1, WrAccepted(w), s)
            /\ Fed(s_w'[s], wr_routed[s], Accepted(wr_routed[s], s_aw[s]), w_taken[s], c, 0)
        BY <3>1, <3>4, <1>0, <1>4, <1>7, MoveElsewhere
      <4>2. Feeding(w, moved + 1, s, c)'
        BY <4>1, <3>2, <1>1, <1>8 DEF Feeding
      <4> QED  BY <4>2
    <3> QED  BY <3>3, <3>4
  <2>3. moved + 1 \in Nat
    OBVIOUS
  <2> QED  BY <2>1, <2>2, <2>3
<1>10. ASSUME ~final
       PROVE  \E m \in Nat : SendingOf(w, m)' /\ \A s \in Slaves : \E c \in Nat : Feeding(w, m, s, c)'
  <2>1. SendingOf(w, moved)'
    BY <1>1, <1>5, <1>6, <1>8, <1>10 DEF SendingOf
  <2>2. ASSUME NEW s \in Slaves PROVE \E c \in Nat : Feeding(w, moved, s, c)'
    <3>1. PICK c \in Nat : Feeding(w, moved, s, c)
      BY <1>4
    <3>2. v_f_wd_tasks'[w] = v_f_wd_tasks[w] /\ v_rg_wd_beat_count'[w] = count + 1
      BY <1>6, <1>10
    <3>3. CASE task.sj = s
      <4>1. /\ Pending(wr_routed[s], c, wr_bursts[w], w, moved, WrAccepted(w), s)
            /\ Fed(s_w'[s], wr_routed[s], Accepted(wr_routed[s], s_aw[s]), w_taken[s], c, count + 1)
        BY <3>1, <3>3, <1>0, <1>4, <1>7, <1>10, MoveTo DEF Feeding
      <4>2. Share(v_f_wd_tasks'[w], v_rg_wd_beat_count'[w], s) = count + 1
        BY <3>2, <3>3, <1>0, Shares
      <4>3. Feeding(w, moved, s, c)'
        BY <4>1, <4>2, <1>1, <1>8 DEF Feeding
      <4> QED  BY <4>3
    <3>4. CASE task.sj # s
      <4>1. /\ Pending(wr_routed[s], c, wr_bursts[w], w, moved, WrAccepted(w), s)
            /\ Fed(s_w'[s], wr_routed[s], Accepted(wr_routed[s], s_aw[s]), w_taken[s], c, 0)
        BY <3>1, <3>4, <1>0, <1>4, <1>7, MoveElsewhere
      <4>2. Share(v_f_wd_tasks'[w], v_rg_wd_beat_count'[w], s) = 0
        BY <3>2, <3>4, <1>0, Shares
      <4>3. Feeding(w, moved, s, c)'
        BY <4>1, <4>2, <1>1, <1>8 DEF Feeding
      <4> QED  BY <4>3
    <3> QED  BY <3>3, <3>4
  <2> QED  BY <2>1, <2>2
<1>11. DataTypes'
  <2> HIDE DEF final, task
  <2>1. /\ v_f_wd_tasks' \in [Masters -> Seq(TaskSet)] /\ v_rg_wd_beat_count' \in [Masters -> Nat]
        /\ m_w' \in [Masters -> Seq(DataSet)]
    BY <1>1, <1>2, <1>3
  <2>2. s_w' \in [Slaves -> Seq(DataSet)]
    <3>1. CASE task.sj = NoSlave
      BY <3>1, <1>1, <1>2
    <3>2. CASE task.sj # NoSlave
      <4>1. task.sj \in Slaves /\ s_w' = [s_w EXCEPT ![task.sj] = Append(@, x)]
        BY <3>2, <1>1, <1>3 DEF Dests
      <4>2. s_w[task.sj] \in Seq(DataSet)
        BY <4>1, <1>2
      <4>3. Append(s_w[task.sj], x) \in Seq(DataSet)
        BY <4>2, <1>3
      <4> QED  BY <4>1, <4>3, <1>2
    <3> QED  BY <3>1, <3>2
  <2> QED  BY <2>1, <2>2, <1>1 DEF DataInv, DataTypes
<1>12. /\ \A mi \in Masters : mi # w => Silent(mi)'
       /\ \A s \in Slaves : Theirs(wr_routed[s], w)'
  BY <1>1, <1>6 DEF DataInv, Silent
<1> QED  BY <1>9, <1>10, <1>11, <1>12 DEF DataInv

LEMMA SlaveTakeWFeeds ==
    ASSUME WriteInv, NEW w \in Masters, DataInv(w), NEW sj \in Slaves, SlaveTakeW(sj)
    PROVE  DataInv(w)'
<1> DEFINE last == Head(s_w[sj]).last
           served == Accepted(wr_routed[sj], s_aw[sj])
<1>0. s_aw[sj] # <<>> /\ s_w[sj] # <<>>
  BY DEF SlaveTakeW, Ready
<1>1. /\ s_w' = [s_w EXCEPT ![sj] = Tail(@)]
      /\ s_aw' = IF last THEN [s_aw EXCEPT ![sj] = Tail(@)] ELSE s_aw
      /\ w_taken' = [w_taken EXCEPT ![sj] = IF last THEN 0 ELSE @ + 1]
      /\ UNCHANGED <<wr_bursts, m_aw, wr_routed, v_f_wd_tasks, v_rg_wd_beat_count, m_w, w_next>>
  BY DEF SlaveTakeW, Deq, wr_book
<1> HIDE DEF last
<1>2. /\ s_w \in [Slaves -> Seq(DataSet)] /\ w_taken \in [Slaves -> Nat]
      /\ s_aw \in [Slaves -> Seq(BurstSet)]
  BY DEF DataInv, DataTypes, WriteInv, WriteTypes
<1>3. /\ s_w'[sj] = Tail(s_w[sj]) /\ s_aw'[sj] = IF last THEN Tail(s_aw[sj]) ELSE s_aw[sj]
      /\ w_taken'[sj] = IF last THEN 0 ELSE w_taken[sj] + 1
      /\ \A s \in Slaves : s # sj => s_w'[s] = s_w[s] /\ s_aw'[s] = s_aw[s] /\ w_taken'[s] = w_taken[s]
  BY <1>1, <1>2
<1>4. wr_routed[sj] \in Seq(BurstSet) /\ served \in Nat /\ Accepted(wr_routed[sj], Tail(s_aw[sj])) = served + 1
  BY <1>0, WrParts, ServingCounts
<1>5. PICK moved \in Nat :
        SendingOf(w, moved) /\ \A s \in Slaves : \E c \in Nat : Feeding(w, moved, s, c)
  BY DEF DataInv
<1>6. SendingOf(w, moved)'
  BY <1>1, <1>5 DEF SendingOf, WrAccepted
<1>7. ASSUME NEW s \in Slaves PROVE \E c \in Nat : Feeding(w, moved, s, c)'
  <2>1. PICK c \in Nat : Feeding(w, moved, s, c)
    BY <1>5
  <2>2. CASE s = sj
    <3> DEFINE k == Share(v_f_wd_tasks[w], v_rg_wd_beat_count[w], sj)
    <3>1. Fed(s_w[sj], wr_routed[sj], served, w_taken[sj], c, k)
      BY <2>1, <2>2 DEF Feeding
    <3> HIDE DEF k
    <3>2. /\ last => Fed(Tail(s_w[sj]), wr_routed[sj], served + 1, 0, c, k)
          /\ ~last => Fed(Tail(s_w[sj]), wr_routed[sj], served, w_taken[sj] + 1, c, k)
      BY <3>1, <1>0, <1>4, FedTake DEF last
    <3>3. Fed(s_w'[sj], wr_routed[sj], Accepted(wr_routed[sj], s_aw'[sj]), w_taken'[sj], c, k)
      BY <3>2, <1>3, <1>4
    <3>4. Feeding(w, moved, s, c)'
      BY <2>1, <2>2, <3>3, <1>1 DEF Feeding, WrAccepted, k
    <3> QED  BY <3>4
  <2>3. CASE s # sj
    <3>1. s_w'[s] = s_w[s] /\ s_aw'[s] = s_aw[s] /\ w_taken'[s] = w_taken[s]
      BY <2>3, <1>3
    <3>2. Feeding(w, moved, s, c)'
      BY <2>1, <3>1, <1>1 DEF Feeding, WrAccepted
    <3> QED  BY <3>2
  <2> QED  BY <2>2, <2>3
<1>8. DataTypes'
  <2>1. s_w[sj] \in Seq(DataSet)
    BY <1>2
  <2>2. Tail(s_w[sj]) \in Seq(DataSet)
    BY <2>1, <1>0
  <2> QED  BY <2>2, <1>1, <1>2 DEF DataInv, DataTypes
<1>9. /\ \A mi \in Masters : mi # w => Silent(mi)'
      /\ \A s \in Slaves : Theirs(wr_routed[s], w)'
  BY <1>1 DEF DataInv, Silent
<1> QED  BY <1>6, <1>7, <1>8, <1>9 DEF DataInv

\* The other masters have nothing to send and nothing to be routed.
LEMMA OthersAreSilent ==
    ASSUME WriteInv, NEW w \in Masters, DataInv(w), Writers \subseteq {w}, NEW mi \in Masters,
           \/ \E sj \in Slaves : WrXaction(mi, sj)
           \/ WrNoSuchSlave(mi) \/ WrData(mi) \/ MasterSendW(mi)
           \/ \E shape \in Shapes : MasterWrite(mi, shape)
    PROVE  mi = w
<1> SUFFICES ASSUME mi # w PROVE FALSE
  OBVIOUS
<1>1. wr_bursts[mi] = <<>> /\ v_f_wd_tasks[mi] = <<>> /\ w_next[mi] = <<1, 0>>
  BY DEF DataInv, Silent
<1>2. m_aw[mi] = <<>>
  <2>1. Port(mi, wr_bursts[mi], m_aw[mi], v_f_wr_sjs[mi])
    BY WrParts
  <2>2. m_aw[mi] \in Seq(BurstSet)
    BY <2>1 DEF Port
  <2>3. Len(wr_bursts[mi]) = 0
    BY <1>1, EmptySeq
  <2>4. PICK accepted \in Nat, waiting \in Nat :
          waiting = Len(m_aw[mi]) /\ accepted + waiting = Len(wr_bursts[mi])
    BY <2>1, PortCounts
  <2>5. waiting = 0
    <3>1. accepted + waiting = 0
      BY <2>3, <2>4
    <3> QED  BY <3>1
  <2>6. Len(m_aw[mi]) = 0
    BY <2>4, <2>5
  <2> QED  BY <2>2, <2>6
<1>3. ~WrNoSuchSlave(mi) /\ \A sj \in Slaves : ~WrXaction(mi, sj)
  BY <1>2 DEF WrNoSuchSlave, WrXaction, Ready
<1>4. ~WrData(mi)
  BY <1>1 DEF WrData, Ready
<1>5. ~MasterSendW(mi)
  <2>1. Len(wr_bursts[mi]) = 0 /\ w_next[mi][1] = 1
    BY <1>1, EmptySeq
  <2> QED  BY <2>1 DEF MasterSendW
<1>6. \A shape \in Shapes : ~MasterWrite(mi, shape)
  BY DEF MasterWrite
<1> QED  BY <1>3, <1>4, <1>5, <1>6

LEMMA DataStart ==
    ASSUME NEW w \in Masters, Init
    PROVE  DataInv(w)
<1>1. /\ \A mi \in Masters :
             /\ wr_bursts[mi] = <<>> /\ m_aw[mi] = <<>> /\ v_f_wd_tasks[mi] = <<>>
             /\ v_rg_wd_beat_count[mi] = 0 /\ m_w[mi] = <<>> /\ w_next[mi] = <<1, 0>>
      /\ \A sj \in Slaves :
             wr_routed[sj] = <<>> /\ s_aw[sj] = <<>> /\ s_w[sj] = <<>> /\ w_taken[sj] = 0
  BY DEF Init, EmptyFor, ZeroFor
<1>2. <<1, 0>> \in Position
  BY DEF Position
<1>3. DataTypes
  BY <1>2, EmptySeq DEF Init, DataTypes, EmptyFor, ZeroFor
<1>4. Accepted(<<>>, <<>>) = 0
  BY EmptySeq, NoneYet
<1>5. \A item : Carries(<<>>, item, <<>>, <<1, 0>>, <<1, 0>>)
  BY <1>2, CarriesNothing
<1>6. 0 + 1 = 1 /\ 0 + Len(<<>>) = 0 /\ 0 <= Len(<<>>) /\ Len(<<>>) + 1 = 1 /\ 0 \in Nat
  BY EmptySeq
<1>7. Sending(<<>>, 0, <<>>, <<1, 0>>, <<>>, 0, 0)
  BY <1>5, <1>6, EmptySeq, RunNothing DEF Sending
<1>8. Fed(<<>>, <<>>, 0, 0, 0, 0)
  BY <1>5, <1>6, EmptySeq DEF Fed
<1>9. ASSUME NEW sj PROVE Pending(<<>>, 0, <<>>, w, 0, 0, sj)
  BY EmptySeq DEF Pending
<1>10. SendingOf(w, 0)
  BY <1>1, <1>4, <1>7 DEF SendingOf, WrAccepted
<1>11. ASSUME NEW sj \in Slaves PROVE Feeding(w, 0, sj, 0)
  <2>1. Share(<<>>, 0, sj) = 0
    BY Shares
  <2> QED  BY <2>1, <1>1, <1>4, <1>8, <1>9 DEF Feeding, WrAccepted
<1>12. \A sj \in Slaves : Theirs(wr_routed[sj], w)
  BY <1>1, EmptySeq DEF Theirs
<1> QED  BY <1>1, <1>3, <1>6, <1>10, <1>11, <1>12 DEF DataInv, Silent

LEMMA DataStep ==
    ASSUME WriteInv, NEW w \in Masters, Writers \subseteq {w}, DataInv(w), [Next]_vars
    PROVE  DataInv(w)'
<1>1. ASSUME WriteSide PROVE DataInv(w)'
  <2>1. ASSUME NEW mi \in Masters, NEW sj \in Slaves, WrXaction(mi, sj) PROVE DataInv(w)'
    BY <2>1, OthersAreSilent, WrXactionFeeds
  <2>2. ASSUME NEW mi \in Masters, WrNoSuchSlave(mi) PROVE DataInv(w)'
    BY <2>2, OthersAreSilent, WrNoSuchSlaveFeeds
  <2>3. ASSUME NEW mi \in Masters, WrData(mi) PROVE DataInv(w)'
    BY <2>3, OthersAreSilent, WrDataFeeds
  <2>4. ASSUME NEW mi \in Masters, MasterSendW(mi) PROVE DataInv(w)'
    BY <2>4, OthersAreSilent, MasterSendWFeeds
  <2>5. ASSUME NEW mi \in Masters, NEW sj \in Slaves, WrResp(mi, sj) PROVE DataInv(w)'
    <3>1. UNCHANGED data
      BY <2>5 DEF WrResp, data, wr_env
    <3> QED  BY <3>1, DataUnchanged
  <2>6. ASSUME NEW mi \in Masters, WrRespErr(mi) \/ MasterTakeB(mi) PROVE DataInv(w)'
    <3>1. UNCHANGED data
      BY <2>6 DEF WrRespErr, MasterTakeB, data, wr_env, wr_book
    <3> QED  BY <3>1, DataUnchanged
  <2>7. ASSUME NEW sj \in Slaves, SlaveTakeW(sj) PROVE DataInv(w)'
    BY <2>7, SlaveTakeWFeeds
  <2> QED  BY <1>1, <2>1, <2>2, <2>3, <2>4, <2>5, <2>6, <2>7 DEF WriteSide
<1>2. ASSUME UNCHANGED writes PROVE DataInv(w)'
  <2>1. UNCHANGED data
    BY <1>2 DEF writes, wr_path, wr_env, wr_book, data
  <2> QED  BY <2>1, DataUnchanged
<1>3. ReadSide => UNCHANGED writes
  BY DEF ReadSide, RdXaction, RdResp, RdNoSuchSlave, RdRespErr, MasterTakeR, SlaveSendR
<1>4. ASSUME NEW mi \in Masters, NEW shape \in Shapes, MasterWrite(mi, shape) PROVE DataInv(w)'
  BY <1>4, OthersAreSilent, MasterWriteFeeds
<1>5. ASSUME NEW mi \in Masters, NEW shape \in Shapes, MasterRead(mi, shape) PROVE UNCHANGED writes
  BY <1>5 DEF MasterRead
<1>6. CASE UNCHANGED vars
  <2>1. UNCHANGED writes
    BY <1>6 DEF vars
  <2> QED  BY <2>1, <1>2
<1> QED  BY <1>1, <1>2, <1>3, <1>4, <1>5, <1>6 DEF Next

LEMMA DataKnown ==
    ASSUME WriteInv, NEW w \in Masters, DataInv(w)
    PROVE  DataFollowsAddress
<1> SUFFICES ASSUME NEW sj \in Slaves, s_w[sj] # <<>>
             PROVE  s_aw[sj] # <<>> /\ Head(s_w[sj]) = DataBeat(Head(s_aw[sj]), w_taken[sj])
  BY DEF DataFollowsAddress
<1> DEFINE served == Accepted(wr_routed[sj], s_aw[sj])
<1>1. PICK c \in Nat : \E k : Fed(s_w[sj], wr_routed[sj], served, w_taken[sj], c, k)
  BY DEF DataInv, Feeding
<1>2. /\ wr_routed[sj] \in Seq(BurstSet) /\ served \in Nat
      /\ s_aw[sj] = <<>> => served = Len(wr_routed[sj])
      /\ s_aw[sj] # <<>> => Head(s_aw[sj]) = After(wr_routed[sj], served)
  BY WrParts, ServingCounts
<1> HIDE DEF served
<1>3. /\ served < Len(wr_routed[sj])
      /\ Head(s_w[sj]) = DataBeat(After(wr_routed[sj], served), w_taken[sj])
  BY <1>1, <1>2, FedFirst
<1>4. served # Len(wr_routed[sj])
  BY <1>2, <1>3
<1> QED  BY <1>2, <1>3, <1>4

\* If at most one master ever writes, whatever the slaves, the bursts and the
\* depths of the FIFOs, a write's data follow its address: the next datum at a
\* slave is the next one of the oldest burst the slave has been given.
\* v_f_wd_tasks and v_rg_wd_beat_count cut the master's data into bursts exactly
\* as it announced them.
THEOREM DataInOrder ==
    ASSUME NEW w \in Masters, Writers \subseteq {w}
    PROVE  Spec => []DataFollowsAddress
<1>1. Init => WriteInv /\ DataInv(w)
  BY WriteInit, DataStart
<1>2. (WriteInv /\ DataInv(w)) /\ [Next]_vars => (WriteInv /\ DataInv(w))'
  BY WriteNext, DataStep
<1>3. WriteInv /\ DataInv(w) => DataFollowsAddress
  BY DataKnown
<1> QED  BY <1>1, <1>2, <1>3, PTL DEF Spec
=============================================================================
