---------------------------- MODULE IpFragments ----------------------------
(***************************************************************************)
(* IP fragments of slirp (src/src/tinyemu/slirp/ip_input.c, ip_output.c):  *)
(* the reassembly of what the guest cut, and the cutting of what is too    *)
(* large for the guest's link.  Operators only; SlirpIp has the state.     *)
(*                                                                         *)
(* Lengths and offsets are in units of 8 bytes, of which every fragment    *)
(* but the last is made.  A fragment is its place in the datagram, its     *)
(* contents and the flag IP_MF, which the code keeps in ip_tos & 1.        *)
(* Freed buffers, options and the header's checksum are left out; malloc   *)
(* is assumed to succeed.                                                  *)
(***************************************************************************)
EXTENDS Integers, Sequences, SequencesExt

CONSTANTS
    FragTtl, \* IPFRAGTTL, slow timeouts that an incomplete datagram is kept
    FragLen  \* units in the largest fragment, (IF_MTU - 20) & ~7 bytes

ASSUME FragAssumption == FragTtl \in Nat \ {0} /\ FragLen \in Nat \ {0}

Frag(off, data, mf) == [off |-> off, data |-> data, mf |-> mf]

End(f) == f.off + Len(f.data)

\* m_adj with a positive length: f without its first i units.
m_adj(f, i) == [f EXCEPT !.off = @ + i, !.data = SubSeq(@, i + 1, Len(@))]

(* The fragments of a struct ipq are a sequence, sorted and without overlap. *)

\* How many fragments of the list begin at or before f: where the loop of
\* ip_reass that looks for the first one behind f stops.
Before(frags, f) == Len(SelectSeq(frags, LAMBDA q : q.off <= f.off))

\* What the fragment ahead of f already provides.
Known(frags, f) ==
    IF Before(frags, f) = 0 THEN 0
    ELSE LET i == End(frags[Before(frags, f)]) - f.off IN IF i > 0 THEN i ELSE 0

\* What is left of a fragment behind f: nothing when f covers it, its end when
\* f overlaps it.
TrimBehind(q, f) ==
    IF q.off >= End(f) THEN <<q>>
    ELSE IF End(q) <= End(f) THEN <<>>
    ELSE <<m_adj(q, End(f) - q.off)>>

\* ip_reass without its last part: f, less what is known of it, takes its place.
\* A fragment that is known altogether is dropped.
Insert(frags, f) ==
    LET n == Before(frags, f)
        k == Known(frags, f)
        g == m_adj(f, k)
        behind == [i \in 1 .. Len(frags) - n |-> TrimBehind(frags[n + i], g)]
    IN  IF k > 0 /\ k >= Len(f.data) THEN frags
        ELSE SubSeq(frags, 1, n) \o <<g>> \o FlattenSeq(behind)

\* Defective: holes in the middle are not looked for.
EndsThere(frags) == frags[1].off = 0 /\ ~frags[Len(frags)].mf

\* No hole from the first unit on, and the last fragment is the datagram's.
Complete(frags) ==
    /\ frags[1].off = 0
    /\ \A i \in 2 .. Len(frags) : frags[i].off = End(frags[i - 1])
    /\ ~frags[Len(frags)].mf

\* The concatenated fragments.
Joined(frags) == FlattenSeq([i \in 1 .. Len(frags) |-> frags[i].data])

\* ip_output: data as it goes over the link, cut where it must be.
Cut(data) ==
    LET n == (Len(data) + FragLen - 1) \div FragLen
        last(i) == IF i = n THEN Len(data) ELSE i * FragLen
    IN  [i \in 1 .. n |->
            Frag((i - 1) * FragLen, SubSeq(data, (i - 1) * FragLen + 1, last(i)), i < n)]
=============================================================================
