------------------------------ MODULE DescChain ------------------------------
(***************************************************************************)
(* Descriptor chains of src/src/tinyemu/virtio.c.                          *)
(*                                                                         *)
(* A chain is the sequence of the descriptors that VRING_DESC_F_NEXT links, *)
(* from the head on: each has a length and says whether the device may      *)
(* write it.  Its buffer is the sequence of the cells (bytes, or groups of   *)
(* bytes never told apart) that the descriptors name, one after the other.   *)
(***************************************************************************)
EXTENDS Naturals, Sequences, SequencesExt

\* The first descriptor the device may write, or one past the end.
FirstWrite(chain) ==
    Min({k \in DOMAIN chain : chain[k].write} \cup {Len(chain) + 1})

Total(segments) == FoldLeft(LAMBDA n, seg : n + seg.len, 0, segments)

\* get_desc_rw_size, for a chain whose readable descriptors come first.
ReadSize(chain) == Total(SubSeq(chain, 1, FirstWrite(chain) - 1))
WriteSize(chain) == Total(SubSeq(chain, FirstWrite(chain), Len(chain)))

\* A variant that starts at the head of the chain in either direction.
StartAtHead(chain, to_queue) == 1

\* Where memcpy_to_from_queue starts.
Start(chain, to_queue) == IF to_queue THEN FirstWrite(chain) ELSE 1

\* The cells of the buffer in front of that descriptor, and the cells from there
\* to the end of the chain or the first descriptor of the other direction.
Base(chain, to_queue) == Total(SubSeq(chain, 1, Start(chain, to_queue) - 1))
Extent(chain, to_queue) ==
    LET first == Start(chain, to_queue)
        other == {k \in first .. Len(chain) : chain[k].write # to_queue}
    IN  Total(SubSeq(chain, first, Min(other \cup {Len(chain) + 1}) - 1))

\* The cells that memcpy_to_from_queue copies; when they are fewer than count, it
\* returns -1 after it has copied them.
Reached(chain, to_queue, offset, count) ==
    Base(chain, to_queue) + offset + 1
        .. Base(chain, to_queue) + Min({offset + count, Extent(chain, to_queue)})

\* memcpy_from_queue: the cells it delivers.
FromQueue(buffer, chain, offset, count) ==
    SubSeq(buffer, Base(chain, FALSE) + offset + 1,
           Base(chain, FALSE) + Min({offset + count, Extent(chain, FALSE)}))

\* memcpy_to_queue: what the buffer holds after it.
ToQueue(buffer, chain, offset, cells) ==
    LET reached == Reached(chain, TRUE, offset, Len(cells))
        before == Base(chain, TRUE) + offset
    IN  [i \in DOMAIN buffer |-> IF i \in reached THEN cells[i - before] ELSE buffer[i]]
=============================================================================
