---------------------------- MODULE VirtioBackends ----------------------------
(***************************************************************************)
(* What the devices of src/src/tinyemu/virtio.c do with the buffers of a    *)
(* virtqueue.  Served by the worker: block requests (virtio_block_*, with    *)
(* the image file of src/src/tinyemu/temu.c behind them), entropy, the       *)
(* console's output and the network's packets to send.  Served by the I/O    *)
(* thread (process_io of src/src/virtiodevices.cpp): the console's input and *)
(* the packets received from the TUN device.                                *)
(*                                                                         *)
(* Every action is one of VirtioQueue together with what it does to guest   *)
(* memory, the disk, the output and the input.  A block request header is   *)
(* two cells, its type and its sector; a status and a packet's header are   *)
(* one cell each; a sector is SectorSize cells.  The image file is opened   *)
(* BF_MODE_RW, so that reads and writes are answered at once and never fail. *)
(***************************************************************************)
EXTENDS VirtioQueue, DescChain

CONSTANTS
    Roles,          \* what the queue may be for
    SectorSize,     \* cells of a sector: SECTOR_SIZE bytes in the code
    NbSectors,      \* the size of the image file
    Requests,       \* the block requests the driver makes
    InputLen,       \* cells of an input or output buffer
    PacketLens,     \* the lengths of the packets received
    EntropyBlock,   \* cells asked of getrandom at once: 256
    BufSize,        \* process_io reads at most so much at once: buf[128]
    CharMod         \* bound: characters are numbered modulo CharMod

ASSUME BackendAssumption ==
    /\ Roles \subseteq {"block", "entropy", "print", "transmit", "console", "receive"}
    /\ {SectorSize, NbSectors, InputLen, BufSize, EntropyBlock} \subseteq Nat \ {0}
    /\ InputLen > 1 /\ PacketLens \subseteq Nat \ {0}
    /\ Requests \subseteq [op : {"in", "out", "flush"}, sector : Nat, n : Nat]
    /\ \A r \in Requests : r.sector + r.n <= NbSectors
    /\ CharMod \in Nat /\ CharMod > Num * InputLen

VARIABLES
    role,       \* what the queue is for
    \* the driver's memory
    chain,      \* chain[d]: the descriptors linked from d on
    mem,        \* mem[d]: the cells they name
    used_len,   \* the lengths in the used ring
    \* the device
    disk,       \* the image file
    desc_len,   \* desc_len[t]: the length t passes to virtio_consume_desc
    hand,       \* what the I/O thread has read and not written to the guest
    next_char,  \* the next character or packet of the input
    output,     \* what was printed or sent for buffers not yet collected
    \* history
    expect,     \* expect[d]: the answer or the output due to the request in d
    shadow,     \* the disk as the driver's requests leave it
    seen_char,  \* the next character the driver should find
    due_packets \* the packets the driver should find, the next one first

buffers == <<chain, mem, used_len>>
device == <<disk, desc_len, hand, next_char, output>>
history == <<expect, shadow, seen_char, due_packets>>
ioVars == <<vars, role, buffers, device, history>>

\* Cells are triples, so that any two can be compared.
Blank == <<"blank", 0, 0>>
TypeCell(op) == <<"type", op, 0>>
SectorCell(s) == <<"sector", s, 0>>
DataCell(d, i) == <<"data", d, i>>
DiskCell(i) == <<"disk", i, 0>>
CharCell(c) == <<"char", c % CharMod, 0>>
PacketCell(c, i) == <<"packet", c, i>>
NetHeader == <<"header", 0, 0>>
RandomCell == <<"random", 0, 0>>
OK == <<"status", 0, 0>>
UNSUPP == <<"status", 2, 0>>

DiskCells == 0 .. NbSectors * SectorSize - 1
HeaderSize == 2
ManualRoles == {"console", "receive"}   \* virtio_net_init, virtio_console_init

BackendInit ==
    /\ Init
    /\ role \in Roles
    /\ manual_recv = (role \in ManualRoles)
    /\ chain = [d \in Desc |-> <<>>]
    /\ mem = [d \in Desc |-> <<>>]
    /\ used_len = [s \in Slots |-> 0]
    /\ disk = [i \in DiskCells |-> DiskCell(i)]
    /\ desc_len = [t \in Threads |-> 0]
    /\ hand = <<>>
    /\ next_char = 0
    /\ output = <<>>
    /\ expect = [d \in Desc |-> <<>>]
    /\ shadow = disk
    /\ seen_char = 0
    /\ due_packets = <<>>

-----------------------------------------------------------------------------
(* The driver's buffers *)

R(n) == [len |-> n, write |-> FALSE]
W(n) == [len |-> n, write |-> TRUE]

\* Drivers lay a request out as they like: even descriptors keep header, data and
\* status apart, odd ones cut across them.
BlockChain(d, r) ==
    LET data == r.n * SectorSize IN
    CASE r.op = "in" /\ d % 2 = 0 -> <<R(HeaderSize), W(data), W(1)>>
      [] r.op = "in" /\ d % 2 = 1 -> <<R(1), R(1), W(data + 1)>>
      [] r.op = "out" /\ d % 2 = 0 -> <<R(HeaderSize), R(data), W(1)>>
      [] r.op = "out" /\ d % 2 = 1 -> <<R(HeaderSize + data), W(1)>>
      [] OTHER -> <<R(HeaderSize), W(1)>>

\* A buffer in one or in two descriptors.
Pieces(whole, d) ==
    IF d % 2 = 0 THEN <<whole>>
    ELSE <<[whole EXCEPT !.len = 1], [whole EXCEPT !.len = @ - 1]>>

BufferChain(d) ==
    CASE role \in ManualRoles -> Pieces(W(InputLen), d)
      [] role = "entropy" -> Pieces(W(EntropyBlock + 1), d)
      [] role = "print" -> Pieces(R(InputLen), d)
      [] role = "transmit" -> Pieces(R(1 + InputLen), d)

\* What the driver writes into the readable descriptors.
Content(d, r) ==
    <<TypeCell(r.op), SectorCell(r.sector)>>
        \o [i \in 1 .. (IF r.op = "out" THEN r.n * SectorSize ELSE 0) |-> DataCell(d, i)]

Filled(ch, cells) == cells \o [i \in 1 .. WriteSize(ch) |-> Blank]

CellsOf(r) == r.sector * SectorSize .. (r.sector + r.n) * SectorSize - 1

\* The data and the status the driver is to find, when requests are performed in
\* the order they are made.
Due(r) ==
    CASE r.op = "in" -> Append([i \in 1 .. r.n * SectorSize |->
                                   shadow[r.sector * SectorSize + i - 1]], OK)
      [] r.op = "out" -> <<OK>>
      [] OTHER -> <<UNSUPP>>

FillRequest(d, r) ==
    /\ role = "block"
    /\ DriverFill(d)
    /\ chain' = [chain EXCEPT ![d] = BlockChain(d, r)]
    /\ mem' = [mem EXCEPT ![d] = Filled(BlockChain(d, r), Content(d, r))]
    /\ expect' = [expect EXCEPT ![d] = Due(r)]
    /\ shadow' = [i \in DiskCells |->
                      IF r.op = "out" /\ i \in CellsOf(r)
                      THEN DataCell(d, i - r.sector * SectorSize + 1)
                      ELSE shadow[i]]
    /\ UNCHANGED <<role, used_len, device, seen_char, due_packets>>

Text(d) == [i \in 1 .. InputLen |-> DataCell(d, i)]

\* A buffer for input, for random cells, or with what is to be put out.
FillBuffer(d) ==
    /\ role # "block"
    /\ DriverFill(d)
    /\ chain' = [chain EXCEPT ![d] = BufferChain(d)]
    /\ mem' = [mem EXCEPT ![d] = Filled(BufferChain(d),
                                        CASE role = "print" -> Text(d)
                                          [] role = "transmit" -> <<NetHeader>> \o Text(d)
                                          [] OTHER -> <<>>)]
    /\ expect' = [expect EXCEPT ![d] =
                     CASE role \in {"print", "transmit"} -> Text(d)
                       [] role = "entropy" -> [i \in 1 .. EntropyBlock + 1 |-> RandomCell]
                       [] OTHER -> <<>>]
    /\ UNCHANGED <<role, used_len, device, shadow, seen_char, due_packets>>

\* The driver takes what the used element says was written.  What nobody looks at
\* again is cleared, here and when desc_len has been used.
Collect ==
    LET d == used_ring[Slot(used_seen)] IN
    /\ DriverCollect
    /\ chain' = [chain EXCEPT ![d] = <<>>]
    /\ mem' = [mem EXCEPT ![d] = <<>>]
    /\ used_len' = [used_len EXCEPT ![Slot(used_seen)] = 0]
    /\ expect' = [expect EXCEPT ![d] = <<>>]
    /\ seen_char' = IF role = "console"
                    THEN (seen_char + used_len[Slot(used_seen)]) % CharMod
                    ELSE seen_char
    /\ due_packets' = IF role = "receive" THEN Tail(due_packets) ELSE due_packets
    /\ output' = IF role \in {"print", "transmit"} THEN Tail(output) ELSE output
    /\ UNCHANGED <<role, disk, desc_len, hand, next_char, shadow>>

\* Requests and input that the driver drops with its rings are not answered.
Reset ==
    /\ DriverReset
    /\ shadow' = disk
    /\ seen_char' = next_char
    /\ due_packets' = <<>>
    /\ output' = <<>>
    /\ expect' = [d \in Desc |-> <<>>]
    /\ UNCHANGED <<role, buffers, disk, desc_len, hand, next_char>>

-----------------------------------------------------------------------------
(* The block device: virtio_block_recv_request, with virtio_block_req_end *)

\* The data of a VIRTIO_BLK_T_OUT: what is readable behind the header.
WritePayload(d) ==
    FromQueue(mem[d], chain[d], HeaderSize, ReadSize(chain[d]) - HeaderSize)

\* bf_read_async
ReadSectors(sector, n) ==
    [i \in 1 .. n * SectorSize |-> disk[sector * SectorSize + i - 1]]

\* bf_write_async
WriteSectors(sector, n, cells) ==
    disk' = [i \in DiskCells |->
                IF i \in sector * SectorSize .. (sector + n) * SectorSize - 1
                THEN cells[i - sector * SectorSize + 1]
                ELSE disk[i]]

\* memcpy_to_queue at offset 0, and the length for virtio_consume_desc.
Answer(t, d, cells) ==
    /\ mem' = [mem EXCEPT ![d] = ToQueue(mem[d], chain[d], 0, cells)]
    /\ desc_len' = [desc_len EXCEPT ![t] = Len(cells)]

BlockRecv ==
    LET d == desc_idx["worker"]
        h == FromQueue(mem[d], chain[d], 0, HeaderSize)
        sector == h[2][2]
    IN  /\ role = "block"
        /\ DeviceRecv
        /\ \/ /\ h[1] = TypeCell("in")
              /\ Answer("worker", d,
                        Append(ReadSectors(sector, (WriteSize(chain[d]) - 1) \div SectorSize),
                               OK))
              /\ UNCHANGED disk
           \/ /\ h[1] = TypeCell("out")
              /\ WriteSectors(sector, Len(WritePayload(d)) \div SectorSize, WritePayload(d))
              /\ Answer("worker", d, <<OK>>)
           \/ /\ h[1] \notin {TypeCell("in"), TypeCell("out")}
              /\ Answer("worker", d, <<UNSUPP>>)
              /\ UNCHANGED disk
        /\ UNCHANGED <<role, chain, used_len, hand, next_char, output, history>>

-----------------------------------------------------------------------------
(* The other devices the worker serves *)

\* virtio_entropy_recv_request: block by block, the last one shorter.
EntropyRecv ==
    LET d == desc_idx["worker"]
        size == WriteSize(chain[d])
        Block(buffer, k) ==
            ToQueue(buffer, chain[d], k * EntropyBlock,
                    [i \in 1 .. Min({EntropyBlock, size - k * EntropyBlock}) |-> RandomCell])
    IN  /\ role = "entropy"
        /\ DeviceRecv
        /\ mem' = [mem EXCEPT ![d] =
                     FoldLeft(Block, mem[d], [k \in 1 .. (size + EntropyBlock - 1) \div EntropyBlock
                                                |-> k - 1])]
        /\ desc_len' = [desc_len EXCEPT !["worker"] = size]
        /\ UNCHANGED <<role, chain, used_len, disk, hand, next_char, output, history>>

\* A variant that takes the packet to start with its header.
PayloadFromStart(d) == FromQueue(mem[d], chain[d], 0, ReadSize(chain[d]))

\* What is put out: a packet without its header, the console's output as it is.
Payload(d) ==
    LET skipped == IF role = "transmit" THEN 1 ELSE 0
    IN  FromQueue(mem[d], chain[d], skipped, ReadSize(chain[d]) - skipped)

\* virtio_console_recv_request and virtio_net_recv_request, for their queue 1.
OutputRecv ==
    /\ role \in {"print", "transmit"}
    /\ DeviceRecv
    /\ output' = Append(output, Payload(desc_idx["worker"]))
    /\ desc_len' = [desc_len EXCEPT !["worker"] = 0]
    /\ UNCHANGED <<role, chain, mem, used_len, disk, hand, next_char, history>>

-----------------------------------------------------------------------------
(* The console's input: process_io *)

\* select() finds input, virtio_console_get_write_len the room for it, and
\* console_read_data takes as much as is there, at most buf.
ReadInput ==
    /\ role = "console"
    /\ InputArrives
    /\ \E n \in 1 .. Min({WriteSize(chain[AvailRing(last_avail_idx)]), BufSize}) :
        /\ hand' = [i \in 1 .. n |-> CharCell(next_char + i - 1)]
        /\ next_char' = (next_char + n) % CharMod
    /\ UNCHANGED <<role, buffers, disk, desc_len, output, history>>

\* A variant that reports the buffer's size in place of what was written to it.
WriteInputFullLength ==
    /\ role = "console"
    /\ InputWrite
    /\ hand' = <<>>
    /\ IF CanWrite
       THEN LET d == AvailRing(last_avail_idx)
            IN  /\ mem' = [mem EXCEPT ![d] = ToQueue(mem[d], chain[d], 0, hand)]
                /\ desc_len' = [desc_len EXCEPT !["io"] = WriteSize(chain[d])]
       ELSE UNCHANGED <<mem, desc_len>>
    /\ UNCHANGED <<role, chain, used_len, disk, next_char, output, history>>

\* virtio_console_write_data; without a buffer the input is lost.
WriteInput ==
    /\ role = "console"
    /\ InputWrite
    /\ hand' = <<>>
    /\ IF CanWrite
       THEN Answer("io", AvailRing(last_avail_idx), hand)
       ELSE UNCHANGED <<mem, desc_len>>
    /\ UNCHANGED <<role, chain, used_len, disk, next_char, output, history>>

-----------------------------------------------------------------------------
(* Packets from the TUN device: tun_select_fill, tun_select_poll *)

Packet(c, n) == [i \in 1 .. n |-> PacketCell(c, i)]
Fits(n, d) == 1 + n <= WriteSize(chain[d])

ReadPacket ==
    /\ role = "receive"
    /\ InputArrives
    /\ \E n \in PacketLens :
        /\ hand' = Packet(next_char, n)
        /\ due_packets' = IF Fits(n, AvailRing(last_avail_idx))
                          THEN Append(due_packets, Packet(next_char, n))
                          ELSE due_packets
    /\ next_char' = (next_char + 1) % CharMod
    /\ UNCHANGED <<role, buffers, disk, desc_len, output, expect, shadow, seen_char>>

\* virtio_net_write_packet, for a packet the buffer at the head has room for.
WritePacket ==
    LET d == AvailRing(last_avail_idx) IN
    /\ role = "receive"
    /\ CanWrite => Fits(Len(hand), d)
    /\ InputWrite
    /\ hand' = <<>>
    /\ IF CanWrite
       THEN Answer("io", d, <<NetHeader>> \o hand)
       ELSE UNCHANGED <<mem, desc_len>>
    /\ UNCHANGED <<role, chain, used_len, disk, next_char, output, history>>

\* It returns early from one that does not fit: the packet is lost, and the
\* buffer stays at the head of the ring.
DropPacket ==
    /\ role = "receive"
    /\ pc["io"] = "serve"
    /\ CanWrite
    /\ ~Fits(Len(hand), AvailRing(last_avail_idx))
    /\ Goto("io", "idle")
    /\ hand' = <<>>
    /\ UNCHANGED <<memory, driver, queue, notified, locals, role, buffers, disk, desc_len,
                   next_char, output, history>>

-----------------------------------------------------------------------------
\* virtio_consume_desc: the used element carries the length.
ConsumeElem(t) ==
    /\ ConsumeWriteElem(t)
    /\ used_len' = IF attached
                   THEN [used_len EXCEPT ![Slot(used_mem)] = desc_len[t]]
                   ELSE used_len
    /\ desc_len' = [desc_len EXCEPT ![t] = 0]
    /\ UNCHANGED <<role, chain, mem, disk, hand, next_char, output, history>>

Aside == UNCHANGED <<role, buffers, device, history>>

Worker ==
    \/ BlockRecv \/ EntropyRecv \/ OutputRecv
    \/ ConsumeElem("worker")
    \/ (WorkerTake \/ NotifyRead \/ NotifyLoop) /\ Aside
    \/ (ConsumePublish("worker") \/ Advance("worker")) /\ Aside

BackendNext ==
    \/ DriverSetup /\ Aside
    \/ \E d \in Desc, r \in Requests : FillRequest(d, r)
    \/ \E d \in Desc : FillBuffer(d)
    \/ (DriverPublish \/ DriverKick) /\ Aside
    \/ Collect
    \/ Reset
    \/ Worker
    \/ ReadInput \/ WriteInput
    \/ ReadPacket \/ WritePacket \/ DropPacket
    \/ ConsumeElem("io")
    \/ (ConsumePublish("io") \/ Advance("io")) /\ Aside

\* A step of the worker is one of Device and something on the side, so that
\* the fairness of VirtioQueue is that of the worker here.
BackendSpec == BackendInit /\ [][BackendNext]_ioVars /\ Fairness

-----------------------------------------------------------------------------
(* Properties *)

\* The part of a buffer behind the descriptors the device may only read.
Writable(d) == SubSeq(mem[d], ReadSize(chain[d]) + 1, Len(mem[d]))

\* The used elements the driver has yet to collect, oldest first.
Returned == [k \in 1 .. Distance(used_seen, used_mem) |-> Slot(used_seen + k - 1)]

\* What is in a used element's buffer, as far as its length tells.
Found(slot) == SubSeq(Writable(used_ring[slot]), 1, used_len[slot])

\* The block device is a disk that performs requests one at a time in the order
\* the driver made them, and the entropy device fills a buffer to its last cell
\* (virtio_block_recv_request, virtio_entropy_recv_request, memcpy_to_from_queue):
\* when a request is handed back, whatever the layout of its chain, it holds and
\* its length covers what is due - the data the writes before it left, and the
\* status - and when all are handed back the image file is what the driver made
\* of it.
DeviceAnswers ==
    role \in {"block", "entropy"} =>
        /\ \A k \in DOMAIN Returned :
               LET d == used_ring[Returned[k]]
               IN  Writable(d) = expect[d] /\ Found(Returned[k]) = expect[d]
        /\ gpc = "run" /\ used_mem = avail_mem => disk = shadow

\* What the guest prints or sends is put out once, in order and whole, without
\* the packet's header, before the driver gets the buffer back
\* (virtio_console_recv_request, virtio_net_recv_request).
OutputInOrder ==
    role \in {"print", "transmit"} =>
        LET returned == [k \in DOMAIN Returned |-> expect[used_ring[Returned[k]]]]
            serving == IF pc["worker"] \in {"consume", "publish"}
                       THEN <<expect[desc_idx["worker"]]>>
                       ELSE <<>>
        IN  output = returned \o serving

\* What the I/O thread has in hand or is about to hand back.
Writing ==
    LET length == IF pc["io"] = "consume" THEN desc_len["io"]
                  ELSE used_len[Slot(used_idx["io"])]
    IN  IF pc["io"] \in {"consume", "publish"}
        THEN SubSeq(Writable(desc_idx["io"]), 1, length)
        ELSE hand

ConsoleInOrder ==
    role = "console" =>
        LET due == ((next_char + CharMod) - seen_char) % CharMod
        IN  FlattenSeq([k \in DOMAIN Returned |-> Found(Returned[k])]) \o Writing
                = [i \in 1 .. due |-> CharCell(seen_char + i - 1)]

PacketsInOrder ==
    role = "receive" =>
        LET whole == [k \in DOMAIN due_packets |-> <<NetHeader>> \o due_packets[k]]
            writing == CASE pc["io"] = "serve" /\ Fits(Len(hand), AvailRing(last_avail_idx))
                              -> << <<NetHeader>> \o hand >>
                         [] pc["io"] \in {"consume", "publish"} -> <<Writing>>
                         [] OTHER -> <<>>
        IN  [k \in DOMAIN Returned |-> Found(Returned[k])] \o writing = whole

\* No character and no packet of the input is lost, repeated, cut or moved between
\* the two looks at the ring of process_io (virtio_console_get_write_len and
\* virtio_console_write_data; tun_select_fill and virtio_net_write_packet) and the
\* driver: what the driver has yet to take, as the used lengths tell it, then what
\* the I/O thread is about to hand back, is what was read and not yet seen, but
\* for packets that are longer than the buffer at the head of the ring.
InputInOrder == ConsoleInOrder /\ PacketsInOrder
=============================================================================
