---------------------------- MODULE BurstProofs ----------------------------
(***************************************************************************)
(* Facts about FIFOs that a rule fills and another empties, in the terms   *)
(* of what has gone through them, for the proofs about the fabric and the  *)
(* burst splitter.                                                         *)
(*                                                                         *)
(* Carries: a FIFO of beats holds those from one position of the bursts to *)
(* another.  Run: a FIFO of anything holds a stretch of a sequence.        *)
(***************************************************************************)
EXTENDS Bursts, TLAPS

-----------------------------------------------------------------------------
(* Beats in flow: a FIFO carries consecutive beats *)

Position == Nat \X Nat

BeatsOf(bursts) ==
    {beat \in Position : beat[1] \in 1 .. Len(bursts) /\ beat[2] <= bursts[beat[1]].len}

\* The items of fifo stand for the beats from the position from, to the position
\* to, exclusive; item[beat] is the set of items that can stand for a beat.
Carries(fifo, item, bursts, from, to) ==
    \E trail \in [0 .. Len(fifo) -> Position] :
        /\ trail[0] = from /\ trail[Len(fifo)] = to
        /\ \A i \in 1 .. Len(fifo) :
               /\ trail[i - 1] \in BeatsOf(bursts)
               /\ trail[i] = NextBeat(bursts, trail[i - 1])
               /\ fifo[i] \in item[trail[i - 1]]

LEMMA NextIsPosition ==
    ASSUME NEW bursts, NEW beat \in BeatsOf(bursts)
    PROVE  NextBeat(bursts, beat) \in Position
<1>1. PICK n \in Nat, k \in Nat : beat = <<n, k>>
  BY DEF BeatsOf, Position
<1>2. beat[1] = n /\ beat[2] = k
  BY <1>1
<1>3. <<n, k + 1>> \in Position /\ <<n + 1, 0>> \in Position
  BY DEF Position
<1> QED  BY <1>2, <1>3 DEF NextBeat

LEMMA CarriesNothing ==
    ASSUME NEW item, NEW bursts, NEW from \in Position
    PROVE  Carries(<<>>, item, bursts, from, from)
<1> DEFINE trail == [i \in 0 .. 0 |-> from]
<1>1. Len(<<>>) = 0
  OBVIOUS
<1>2. trail \in [0 .. 0 -> Position] /\ trail[0] = from
  OBVIOUS
<1>3. \A i \in 1 .. 0 : FALSE
  OBVIOUS
<1> HIDE DEF trail
<1> QED  BY <1>1, <1>2, <1>3 DEF Carries

LEMMA CarriesPositions ==
    ASSUME NEW S, NEW fifo \in Seq(S), NEW item, NEW bursts, NEW from, NEW to,
           Carries(fifo, item, bursts, from, to)
    PROVE  from \in Position /\ to \in Position
<1>1. PICK trail \in [0 .. Len(fifo) -> Position] : trail[0] = from /\ trail[Len(fifo)] = to
  BY DEF Carries
<1>2. Len(fifo) \in Nat
  OBVIOUS
<1>3. 0 \in 0 .. Len(fifo) /\ Len(fifo) \in 0 .. Len(fifo)
  BY <1>2
<1> QED  BY <1>1, <1>3

LEMMA CarriesAppend ==
    ASSUME NEW S, NEW fifo \in Seq(S), NEW item, NEW bursts, NEW from, NEW to,
           Carries(fifo, item, bursts, from, to), to \in BeatsOf(bursts),
           NEW x \in S, x \in item[to]
    PROVE  Carries(Append(fifo, x), item, bursts, from, NextBeat(bursts, to))
<1> DEFINE n == Len(fifo)
           new == NextBeat(bursts, to)
           longer == Append(fifo, x)
<1>1. PICK trail \in [0 .. n -> Position] :
        /\ trail[0] = from /\ trail[n] = to
        /\ \A i \in 1 .. n :
               /\ trail[i - 1] \in BeatsOf(bursts)
               /\ trail[i] = NextBeat(bursts, trail[i - 1])
               /\ fifo[i] \in item[trail[i - 1]]
  BY DEF Carries
<1>2. /\ n \in Nat /\ Len(longer) = n + 1
      /\ \A i \in 1 .. n : longer[i] = fifo[i]
      /\ longer[n + 1] = x
  OBVIOUS
<1>3. new \in Position
  BY NextIsPosition
<1> DEFINE next == [i \in 0 .. n + 1 |-> IF i <= n THEN trail[i] ELSE new]
<1> HIDE DEF n, new, longer
<1>4. next \in [0 .. n + 1 -> Position]
  BY <1>2, <1>3
<1>5. next[n + 1] = new /\ \A i \in 0 .. n : next[i] = trail[i]
  BY <1>2
<1>6. next[0] = from
  BY <1>1, <1>2, <1>5
<1>7. ASSUME NEW i \in 1 .. n + 1
      PROVE  /\ next[i - 1] \in BeatsOf(bursts)
             /\ next[i] = NextBeat(bursts, next[i - 1])
             /\ longer[i] \in item[next[i - 1]]
  <2> HIDE DEF next
  <2>1. CASE i = n + 1
    <3>1. i - 1 = n /\ n \in 0 .. n
      BY <2>1, <1>2
    <3>2. next[i - 1] = to
      BY <3>1, <1>1, <1>5
    <3> QED  BY <2>1, <3>2, <1>2, <1>5 DEF new
  <2>2. CASE i # n + 1
    <3>1. i \in 1 .. n /\ i - 1 \in 0 .. n /\ i \in 0 .. n
      BY <2>2, <1>2
    <3>2. next[i] = trail[i] /\ next[i - 1] = trail[i - 1] /\ longer[i] = fifo[i]
      BY <3>1, <1>2, <1>5
    <3> QED  BY <3>1, <3>2, <1>1
  <2> QED  BY <2>1, <2>2
<1> HIDE DEF next
<1> QED  BY <1>2, <1>4, <1>5, <1>6, <1>7 DEF Carries, longer, new

LEMMA CarriesTail ==
    ASSUME NEW S, NEW fifo \in Seq(S), NEW item, NEW bursts, NEW from, NEW to,
           Carries(fifo, item, bursts, from, to), fifo # <<>>
    PROVE  /\ from \in BeatsOf(bursts) /\ Head(fifo) \in item[from]
           /\ Carries(Tail(fifo), item, bursts, NextBeat(bursts, from), to)
<1> DEFINE n == Len(fifo)
           rest == Tail(fifo)
<1>1. PICK trail \in [0 .. n -> Position] :
        /\ trail[0] = from /\ trail[n] = to
        /\ \A i \in 1 .. n :
               /\ trail[i - 1] \in BeatsOf(bursts)
               /\ trail[i] = NextBeat(bursts, trail[i - 1])
               /\ fifo[i] \in item[trail[i - 1]]
  BY DEF Carries
<1>2. /\ n \in Nat /\ n >= 1 /\ Len(rest) = n - 1
      /\ \A i \in 1 .. n - 1 : rest[i] = fifo[i + 1]
      /\ Head(fifo) = fifo[1]
  OBVIOUS
<1> DEFINE next == [i \in 0 .. n - 1 |-> trail[i + 1]]
<1> HIDE DEF n, rest
<1>3. 1 \in 1 .. n /\ 1 - 1 = 0 /\ 0 + 1 = 1 /\ 0 \in 0 .. n - 1 /\ n - 1 \in 0 .. n - 1 /\ (n - 1) + 1 = n
  BY <1>2
<1>4. next \in [0 .. n - 1 -> Position]
  BY <1>2
<1>5. \A i \in 0 .. n - 1 : next[i] = trail[i + 1]
  OBVIOUS
<1> HIDE DEF next
<1>6. from \in BeatsOf(bursts) /\ Head(fifo) \in item[from] /\ trail[1] = NextBeat(bursts, from)
  BY <1>1, <1>2, <1>3
<1>7. next[0] = NextBeat(bursts, from) /\ next[n - 1] = to
  BY <1>1, <1>3, <1>5, <1>6
<1>8. ASSUME NEW i \in 1 .. n - 1
      PROVE  /\ next[i - 1] \in BeatsOf(bursts)
             /\ next[i] = NextBeat(bursts, next[i - 1])
             /\ rest[i] \in item[next[i - 1]]
  <2>1. i + 1 \in 1 .. n /\ (i + 1) - 1 = i /\ i - 1 \in 0 .. n - 1 /\ (i - 1) + 1 = i /\ i \in 0 .. n - 1
    BY <1>2
  <2>2. next[i] = trail[i + 1] /\ next[i - 1] = trail[i] /\ rest[i] = fifo[i + 1]
    BY <2>1, <1>2, <1>5
  <2> QED  BY <2>1, <2>2, <1>1
<1> QED  BY <1>2, <1>4, <1>6, <1>7, <1>8 DEF Carries, rest

\* More bursts and more items that can stand for a beat change nothing.
LEMMA CarriesMono ==
    ASSUME NEW S, NEW fifo \in Seq(S), NEW item, NEW bursts, NEW from, NEW to,
           Carries(fifo, item, bursts, from, to),
           NEW item2, NEW bursts2,
           \A beat \in BeatsOf(bursts) :
               /\ beat \in BeatsOf(bursts2)
               /\ NextBeat(bursts2, beat) = NextBeat(bursts, beat)
               /\ item[beat] \subseteq item2[beat]
    PROVE  Carries(fifo, item2, bursts2, from, to)
<1>1. PICK trail \in [0 .. Len(fifo) -> Position] :
        /\ trail[0] = from /\ trail[Len(fifo)] = to
        /\ \A i \in 1 .. Len(fifo) :
               /\ trail[i - 1] \in BeatsOf(bursts)
               /\ trail[i] = NextBeat(bursts, trail[i - 1])
               /\ fifo[i] \in item[trail[i - 1]]
  BY DEF Carries
<1>2. ASSUME NEW i \in 1 .. Len(fifo)
      PROVE  /\ trail[i - 1] \in BeatsOf(bursts2)
             /\ trail[i] = NextBeat(bursts2, trail[i - 1])
             /\ fifo[i] \in item2[trail[i - 1]]
  BY <1>1
<1> QED  BY <1>1, <1>2 DEF Carries

\* With more bursts the beats there were are beats still, in the same order.
LEMMA BeatsOfMore ==
    ASSUME NEW bursts, NEW more, Len(bursts) \in Nat, Len(more) \in Nat,
           Len(bursts) <= Len(more), \A n \in 1 .. Len(bursts) : more[n] = bursts[n],
           NEW beat \in BeatsOf(bursts)
    PROVE  /\ beat \in BeatsOf(more)
           /\ NextBeat(more, beat) = NextBeat(bursts, beat)
           /\ more[beat[1]] = bursts[beat[1]]
<1>1. beat \in Position /\ beat[1] \in 1 .. Len(bursts) /\ beat[2] <= bursts[beat[1]].len
  BY DEF BeatsOf
<1>2. more[beat[1]] = bursts[beat[1]] /\ beat[1] \in 1 .. Len(more)
  BY <1>1
<1> QED  BY <1>1, <1>2 DEF BeatsOf, NextBeat

\* The beat after <<n, k>>, counted as a beat counter does.
LEMMA CountedBeat ==
    ASSUME NEW bursts, NEW n \in Nat, NEW k \in Nat, NEW len \in Nat,
           bursts[n].len = len, k <= len
    PROVE  NextBeat(bursts, <<n, k>>) = IF k = len THEN <<n + 1, 0>> ELSE <<n, k + 1>>
<1>1. k < len <=> k # len
  OBVIOUS
<1>2. <<n, k>>[1] = n /\ <<n, k>>[2] = k
  OBVIOUS
<1> QED  BY <1>1, <1>2 DEF NextBeat

-----------------------------------------------------------------------------
(* Runs: a FIFO holds consecutive items of a sequence *)

Run(fifo, items, before) ==
    /\ before \in Nat
    /\ \A i \in 1 .. Len(fifo) : fifo[i] = items[before + i]

LEMMA RunNothing ==
    ASSUME NEW items, NEW before \in Nat
    PROVE  Run(<<>>, items, before)
BY DEF Run

LEMMA RunAppend ==
    ASSUME NEW S, NEW fifo \in Seq(S), NEW items, NEW before, Run(fifo, items, before),
           NEW x \in S, x = items[(before + Len(fifo)) + 1]
    PROVE  Run(Append(fifo, x), items, before)
<1> DEFINE longer == Append(fifo, x)
<1>1. /\ Len(fifo) \in Nat /\ Len(longer) = Len(fifo) + 1 /\ longer[Len(fifo) + 1] = x
      /\ \A i \in 1 .. Len(fifo) : longer[i] = fifo[i]
  OBVIOUS
<1>2. before \in Nat /\ \A i \in 1 .. Len(fifo) : fifo[i] = items[before + i]
  BY DEF Run
<1> HIDE DEF longer
<1>3. ASSUME NEW i \in 1 .. Len(longer)
      PROVE  longer[i] = items[before + i]
  <2>1. CASE i = Len(fifo) + 1
    <3>1. before + i = (before + Len(fifo)) + 1
      BY <2>1, <1>1, <1>2
    <3> QED  BY <2>1, <3>1, <1>1
  <2>2. CASE i # Len(fifo) + 1
    <3>1. i \in 1 .. Len(fifo)
      BY <2>2, <1>1
    <3> QED  BY <3>1, <1>1, <1>2
  <2> QED  BY <2>1, <2>2
<1> QED  BY <1>2, <1>3 DEF Run, longer

LEMMA RunTail ==
    ASSUME NEW S, NEW fifo \in Seq(S), NEW items, NEW before, Run(fifo, items, before),
           fifo # <<>>
    PROVE  Head(fifo) = items[before + 1] /\ Run(Tail(fifo), items, before + 1)
<1> DEFINE rest == Tail(fifo)
<1>1. /\ Len(fifo) \in Nat \ {0} /\ Len(rest) = Len(fifo) - 1 /\ Head(fifo) = fifo[1]
      /\ \A i \in 1 .. Len(fifo) - 1 : rest[i] = fifo[i + 1]
  OBVIOUS
<1>2. before \in Nat /\ \A i \in 1 .. Len(fifo) : fifo[i] = items[before + i]
  BY DEF Run
<1> HIDE DEF rest
<1>3. ASSUME NEW i \in 1 .. Len(rest)
      PROVE  rest[i] = items[(before + 1) + i]
  <2>1. i \in 1 .. Len(fifo) - 1 /\ i + 1 \in 1 .. Len(fifo) /\ before + (i + 1) = (before + 1) + i
    BY <1>1, <1>2
  <2> QED  BY <2>1, <1>1, <1>2
<1>4. Head(fifo) = items[before + 1]
  BY <1>1, <1>2
<1> QED  BY <1>2, <1>3, <1>4 DEF Run, rest

LEMMA RunGrow ==
    ASSUME NEW S, NEW fifo \in Seq(S), NEW items, NEW before, Run(fifo, items, before),
           NEW more, NEW last \in Nat, before + Len(fifo) <= last,
           \A n \in 1 .. last : more[n] = items[n]
    PROVE  Run(fifo, more, before)
<1>1. Len(fifo) \in Nat /\ before \in Nat /\ \A i \in 1 .. Len(fifo) : fifo[i] = items[before + i]
  BY DEF Run
<1>2. \A i \in 1 .. Len(fifo) : before + i \in 1 .. last
  BY <1>1
<1> QED  BY <1>1, <1>2 DEF Run
=============================================================================
