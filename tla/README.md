# A TLA+ model of the SSITH AWS FPGA host and its hardware shell

The repository runs a RISC-V processor on an FPGA (or in simulation). It has two
halves:

* a **host program** (`src/src`): loads the guest over the debug module, serves
  the guest's I/O window, and emulates virtio devices (net, block, console,
  entropy) taken from TinyEMU;
* a **hardware shell** in Bluespec (`src/hw/src_BSV`): AXI fabrics, adapters, a
  memory controller, a UART, and the bridge between the processor's I/O window
  and the host program.

They talk through connectal portals: ordered streams of messages, one per
direction, delivered on the host by one *poller* thread.

The modules here model the parts whose correctness depends on order: threads of
the host that share state without, or with little, locking, and hardware rules
that handle many requests in flight. All paths below are relative to the
repository's root.

## Components

| component | state it keeps | operations | hard because |
|---|---|---|---|
| virtio queue notification (`src/tinyemu/virtio.c` 2780-2860) | `pending_queue_notify` per device, `pending_notify`, `pending_notify_stop` | notify, worker pass, start, stop, join | lock-free bits, condition variable, flag that survives a session |
| virtio queues (`virtio.c` 117-634) | `avail_idx`, `last_avail_idx`, `ready`, rings in guest memory | `queue_notify`, `virtio_consume_desc`, `memcpy_to_from_queue`, reset | three threads and the guest, 16-bit indices, cached index, buffers cut over descriptors |
| virtio back ends (`virtio.c` 1080-1480, `temu.c` 227-414, `virtiodevices.cpp` 147-205) | the image file, `req`, what the I/O thread holds between `read` and write | block, entropy, console and net requests, console and net input | two looks at the ring around a blocking `read`, layout of header, data and status |
| virtio interrupt (`virtio.c` 541-566, 861-882) | `int_status`, the level in hardware | complete, acknowledge, reset | unlocked read-modify-write on three threads |
| host sessions (`main.cpp`, `fpga.cpp` 638-833, `virtiodevices.cpp` 147-252) | pipes, three threads, `exit_code` | start, stop, join, reboot | descriptors handed between threads, stop from two places |
| host requests (`fpga.cpp` 355-400, 604-625) | two mutexes, two semaphores, one answer word each | DMI access, IRQ levels, status | a lock held while waiting for the poller |
| host I/O bridge (`fpga.cpp` 190-319, `AWSP2.bsv` 280-323, 464-470) | `io_write_queue`, AXI FIFOs | read and write bursts of the I/O window | address and data by separate rules, 8-bit length |
| burst splitter (`AWS_AXI4_Deburster.bsv`) | beat counters, length FIFOs, first error | split a burst, re-make its response | several bursts in flight |
| memory controller (`AXI_Mem_Controller.bsv`) | a cached word, clean or dirty | read, write, evict, write back, refuse | write-back without waiting for an acknowledgement |
| user-mode network, TCP (`src/tinyemu/slirp`) | socket, `tcpcb`, two buffers, reassembly queue, timers | `tcp_input`, `tcp_output`, timers, the host's socket | loss, repetition, closed windows, half-closes from both sides |
| user-mode network, datagrams (`slirp`: `ip_input.c`, `udp.c`, `ip_icmp.c`, `if.c`) | sockets by port, incomplete datagrams, two output queues | `ip_input`, `sorecvfrom`, `if_output`, `if_start`, slow timeout | fragments in any order and with a used identification, sessions that change queue, sockets freed with packets queued |
| fabric (`AWS_AXI4_Fabric.bsv`), `Id_Reflector`, `Downsizer` | order FIFOs | route requests and responses | crossing masters, bursts |
| UART (`UART_Model.bsv`) | 16550 registers | register reads and writes, receive | interrupt and received character race |

The guest, the kernel, the portal library, the debug module and the DRAM are the
environment. `PROJECT.json` lists every component, with those left out and why
(PCI and 9p transports never instantiated, vendored emulator, generated stubs,
kernel drivers, processors that are submodules or generated Verilog).

How they interact: the guest writes `QUEUE_NOTIFY`; the bridge passes the write
to the host, where the poller runs `virtio_mmio_write`, which sets a bit and wakes
the worker (VirtioNotify); the worker runs `queue_notify` (VirtioQueue), which
completes requests (VirtioBackends) with `virtio_consume_desc` and raises the interrupt
(VirtioIrq); the guest acknowledges it by another write, again on the poller.
The I/O thread completes console and net input the same way. A write to `tohost`
or to the test finisher, or C-a x, ends or restarts the session (HostSession). main's
requests to the debug module, and the poller that answers both them and the guest's
bursts, are HostBridge. Without a TUN device, the packets of the net device go to slirp
(SlirpTcp, SlirpIp).
The processor's memory accesses go through the fabric, the Deburster and the
MemController to the DRAM.

## Modules

Each component module has its variables, one action per step of the code that
others can interleave with, and the defective forms of some actions (commented
as such), which are used nowhere in `Next`: they are what the properties are
tried against.

**Doorbell / VirtioNotify.** `Doorbell` is what a notification promises: a bell
rung is answered by a look that comes after, unless the service is stopped.
`VirtioNotify` is the code: `NotifySetBit` (the atomic or) and `NotifySignal` (the
critical section) are two steps of the notifying thread; the worker waits, tests
the stop flag, clears `pending_notify`, exchanges the bits of each device and
serves them one at a time. `wpc` is the worker's place, `widx` the `i` of its loop,
`notify` its local. History variables count requests made available, rung, and
seen. The lock is not a variable: a critical section is one action, `WakeWorker`
moves a waiter to `check`, where it tests the flag again.

**RequestFifo / VirtioQueue.** `RequestFifo` is a queue of requests completed
once each and in order. `VirtioQueue` is one ring of `Num` entries: the driver
fills, publishes, kicks and collects; the worker takes the bit, reads the index,
and consumes; the I/O thread puts input into a `manual_recv` queue.
`virtio_consume_desc` is two steps, element and index. Ring indices are modulo
`IdxMod` in place of 2^16. `attached` says whether the ring's addresses are set:
an access to address 0 reads 0, as `virtio_read16` does without RAM there.

**DescChain / VirtioBackends.** `DescChain` is what `get_desc_rw_size` and
`memcpy_to_from_queue` do with a chain: an offset counts from the head when reading and
from the first writable descriptor when writing, and a copy ends with the descriptors of
its direction. `VirtioBackends` adds to each action of VirtioQueue what it does to
guest memory, the image file, the output and the input. `role` says what the queue is
for. The worker's `DeviceRecv` becomes `BlockRecv` (`virtio_block_recv_request` with
`virtio_block_req_end`: the image file answers at once), `EntropyRecv` (block by block)
or `OutputRecv` (console and net, queue 1); the I/O thread's two actions become
`ReadInput`, `WriteInput` for the console and `ReadPacket`, `WritePacket`, `DropPacket`
for the TUN device. `hand` is the thread's buffer between `read` and the second look at
the ring. Data is cells: a byte, or a group never told apart. The driver lays chains
out in two ways, one of which cuts across header, data and status. `shadow` is the disk
as the driver's requests, performed in order, would leave it.

**VirtioIrq.** The three stores of a completion, the four of an
acknowledgement (`&= ~val` is a load and a store), the two of a reset by the guest, and
`Reboot`: `VirtioDevices::reset` by main, which leaves the level as it is.

**HostSession.** Descriptors are numbers; `pipe` takes the two lowest free, and
`close` frees a number for the next `pipe`. The variables `pipe_fds` are the C++
object's `int[2]` arrays, which hold arbitrary values until the first `pipe`.
`spc` is the place of each thread that is inside `stop_io`.

**IoBridge / HostBridge.** `IoBridge` is the guest's I/O window: a rule of `AWSP2.bsv`
is an action (`master1_aw`, `master1_wdata`, `master1_ar`), and so is a handler of
`AWSP2_Response` on the poller (`OnAwaddr`, `OnAraddr`; `OnWdata` and `EndWdata` are the
two ends of `io_wdata`, between which a device handles the word). `io_write_queue`
with its 16-bit counts is the host's, the three indication queues are the portal's.
`HostBridge` puts beside it main's way from `memory_ready` to `join_io` and back to `boot`,
as the sequence of DMI calls of each operation (`Calls`), the mutexes, the semaphores and
the single answer word, gdb's session, which holds `dmi_request_mutex` from `start_gdb` to
`join_io`, and `stop_io` from the poller or the console. Debug module and hart are
external: an abstract command does nothing to a hart that is not halted.

**Deburster.** Four rules, one of them in two actions (not the last beat, the
last beat). The AXI master and the slave are the environment; the slave answers
each single access with "okay" or an error. Bursts are incrementing, wrapping or fixed.
`BeatAddr` counts an address from the burst's own to its k-th beat, which the code never
does: it goes from beat to beat. Of a fixed burst, which the code gives no case of its
own, `BeatAddr` is that of an incrementing one, as the code's is; AXI4 asks for another (see
below).

**Fabric.** One action per rule of `mkAXI4_Fabric`, for any number of masters and
slaves. Masters and slaves are the environment. A burst is a name (`<<mi, n>>`, the n-th
of master `mi`), the slave its address decodes to (`NoSlave` for a decode error) and its
length; every data beat and answer carries the name and the beat's number, so that one can
say what it should be. `wr_bursts` and `rd_bursts` are what each master has asked for,
`wr_routed` and `rd_routed` what each slave was given: histories, which no rule reads.
`Bursts` has the order of beats (`NextBeat`), which the Deburster and the fabric share.
The decoders of `mkIOFabric` and `mkMemFabric` call every address legal,
so in this SoC the four rules for `NoSlave` never fire; the module is generic and they
are modelled. Each slave serves its bursts in order.

**AtomicMemory / MemController.** `AtomicMemory` performs each request at once on
an array of bytes. `MemController` is one action per rule; `ImplementsMemory` maps
the contents of a word to the newest of: the cache, the latest write-back on its
way, the raw memory.

**SlirpTcp.** slirp's functions are sequential and end in `tcp_output`; each operator
named after a function, or after a stage of `tcp_input`, maps the socket's record to the
record after it, and an action is one entry from outside: a segment, the socket being
readable or writable, a timer. What slirp sent stays in `wire` and may arrive late, twice,
in any order, or never; what the guest sends may be lost and is sent again. A segment has
the FIN twice, as the code has: in `flags`, which stands for the local `tiflags` and loses
it when the segment is cut (`tcp_input.c` 740, 804), and in `fin`, which stands for
`ti->ti_flags`, is never cleared, and is what `TCP_REASS` and `tcp_reass` give back (89, 195). Timers may
expire at any time while set. The host's application may refuse, end or reset.

**IpFragments / IfQueue / SlirpIp.** The first two are operators: reassembly
(`ip_reass`) and cutting (`ip_output`), and the output queues of `if.c`, where each
operator maps the queues before to the queues after. `SlirpIp` has the state. The virtio
worker's `slirp_input` is `InputWhole` or `InputFragment` with all that it causes, down to
`if_start`; the I/O thread's round is `SelectFill`, `SelectPoll`, one `PollRead` for each
readable socket, `PollEnd`. A socket is a place in memory (`Slot`) that a freed one leaves
to the next; packets point to it. `key` is what `ip_input` compares, so that two datagrams
may share it. `order` and `passed` are history.

`MC*.tla` give constants that a `.cfg` cannot express. `*Proofs.tla` are below.

## Runs

| run | what it checks | bounds, and why they are enough |
|---|---|---|
| MCVirtioNotify | NotifyTypeOK, NoLostNotify, NoSleepOnWork, StopHonoured, ImplementsDoorbell | 2 devices, 2 queues: both loops of the worker have something behind them; 2 posts per queue: a second request while the first is served; 2 stops: a session after a session |
| MCVirtioQueue | PositionInRing, DeviceAnswers, OutputInOrder, InputInOrder, ImplementsFifo | ring of 2, indices modulo 4: full, empty and wrapped rings all occur; one reset of an automatic queue; six roles, buffers of 2 or 3 cells in one or two descriptors; a write, a read that meets it in its second sector, and a request the device does not know; packets that fit and that do not; characters modulo 5, more than two buffers hold |
| MCVirtioIrq | NoLostInterrupt, CompletionsSeen, InterruptsSettle | 5 completions by 2 threads, 2 resets or reboots: two completions in the middle of one acknowledgement |
| MCVirtioIrqLost | NoLostInterrupt, violated | 3 completions, a guest that trusts the status register |
| MCDeburster | WritesWhereAsked, OneHonestResponse, ReadsInStep, BurstsAnswered | 3 bursts fill FIFOs of depth 2; incrementing, wrapping, and fixed ones, which are counted as incrementing ones; a 16-byte address space in which they wrap |
| MCFabric | AnswersToAsker, DataFollowsAddress, AllAnswered | 2 masters of which one writes, 2 slaves and none, bursts of 1 and 2 beats; 3 bursts of either direction: bursts cross in opposite orders, two bursts queue at a slave, order FIFOs of depth 2 (8 in the code) fill; or 4 reads: two of each master, to two slaves in opposite orders, the least from which four order FIFOs could wait for each other in a circle |
| MCMemController | CleanIsSafe, DirtyDrains, ImplementsMemory | 2 words of 4 bytes, 4 requests: write, evict, read back, refused access |
| MCHostSession | SessionWhole, DescriptorsOwned, StopEndsSession | 3 sessions, so that a descriptor is reused twice; 2 characters |
| MCHostBridge | WritesOwnBurst, AnsweredWhenWritten, OwnAnswer, ReadsWhole, BootsAtEntry, MainGoesOn | 2 bursts under way of 1 or 2 beats, to a device, to `tohost` and reads; lengths modulo 4, which none of them reaches; gdb; any number of reboots |
| MCSlirpTcp | StreamsIntact, RcvFits, EndOfStreamIsTrue, TimersRun | 3 bytes of the guest and 2 of the host (but not both to the end: `FewBytes`), segments of up to 2, a `so_rcv` of 2: it fills, the promised window closes, and segments are cut at its end; a guest window of 1, which closes after each byte and makes `snd_wnd` wrap; one socket |
| MCSlirpTcpCutFin | FinAfterBytes, violated | the same without data of the host, and with `FinOnProbe` |
| MCSlirpIp | Reassembled, SessionOrder, AnswersFromAsked, NothingStays | a datagram of 3 units, whose fragments may overlap in part, and a ping of 2 with the same identification; a second datagram of the first's port; answers of 2 packets; 2 sockets; a session is greedy after 3 packets of which 1 was sent (6 and 3 in the code), and waits in 1 buffer of the guest; `IPFRAGTTL` 1; each datagram gets through once. Low-delay sessions on either queue, two sessions in `if_batchq`, and a freed socket with packets queued all occur |

Runs with `CHECK_DEADLOCK FALSE` end: the guest has used its bounds, or the
program has exited.

### What the violation runs show

* **MCVirtioIrqLost.** `int_status |= 1` and `int_status &= ~val` run on different
  threads. A guest that returns from its handler when the status reads 0 can
  miss a completion. With a guest that always looks at its rings the line alone is
  enough, which MCVirtioIrq checks and `NoInterruptLost` proves.
* **MCSlirpTcpCutFin.** "If segment ends after window, drop trailing data (and PUSH and
  FIN)" (`tcp_input.c` 769-771). Line 804 clears the FIN of the local `tiflags`, but
  `TCP_REASS` (89) and `tcp_reass` (195) take it from `ti->ti_flags`. When the guest sends
  its last bytes with a FIN and the window has room for all but one, slirp takes the bytes
  it has room for and the FIN with them: `rcv_nxt` counts the FIN where the last byte should
  be (1178), the guest's last byte is acknowledged by that and never asked for again, and the
  host is told of an end before it.

### Assumptions that are named in the constants

* `RacingResets = FALSE` (VirtioQueue): the driver resets a queue only when no
  thread is in the device. TRUE breaks `PositionInRing`: nothing in the code
  keeps the worker out of a queue that is reset under it.
* `MaxResets[TRUE] = 0` (VirtioQueue, `OrdinaryResets`): a `manual_recv` queue is not reset.
  With 1, `PositionInRing` and `InputInOrder` break, even if no thread is in the device:
  `virtio_reset` (`virtio.c` 186-203) clears `last_avail_idx` and leaves `avail_idx`, which
  is then no longer the "cached copy of *(avail_addr + 2)" that its declaration (120)
  says. After a reset, or a reboot, and until the first kick of the new driver, input for
  the console or the net may be written through ring entries it has not made available.
* `RawOrdered = TRUE` (MemController): the memory behind the controller serves a
  read of a word after the writes to it that were sent before. The controller does
  not wait for the write's response (`rl_wr_done` drops it), and FALSE breaks
  `ImplementsMemory`.
* `Writers = {1}` (Fabric): one master writes, as in the SoC, where master 0 is the
  instruction port. The fabric keeps the order of data per master only
  (`v_f_wd_tasks`); with `{0, 1}` the data of two bursts for one slave can arrive
  in the other order than their addresses, and `DataFollowsAddress` breaks.
* `Overlap = FALSE` (HostSession): in one session only the guest or the user stops.
  TRUE breaks `DescriptorsOwned` (the write ends are closed twice). `EarlyInput =
  FALSE`: nothing is typed before the pipes exist. With TRUE a C-a x that is handled
  before `virtio_devices.start()` has made `stop_pipe` (`fpga.cpp` 777) writes its stop
  byte to an old number, and `join_io` waits for ever.
* `AddressFirst = TRUE` (IoBridge): the portal delivers an address before data that
  follows it. They come by different queues, and the encoder that chooses a queue is in
  a submodule; FALSE breaks `WritesOwnBurst`.
* `BridgeAssumption` (IoBridge): no burst has `LenMod` beats (32 of 8 bytes, whose
  length is 0 in the 8 bits of `burstLen`).
* `InTime = TRUE` (HostBridge): the hart obeys within the 100 polls of `halt`, `resume`
  and `reset_halt`. They give up without telling main; FALSE breaks `BootsAtEntry` and
  `MainGoesOn`.
* `EarlyStop = FALSE` (HostBridge): with gdb, a session is not stopped before `start_gdb`
  has returned. TRUE breaks `MainGoesOn`: `gdb_port` is still -1 when `stop_io` looks
  (`fpga.cpp` 816), the stub is not told, and `join_io` waits until gdb leaves.
* The boot ROM writes to no device, so that `dmi_status`, which waits with
  `misc_request_mutex` held, meets no poller that wants the mutex; and the hart halts
  only when its accesses have been answered (`main.cpp` 319).
* `FinOnProbe = FALSE` (SlirpTcp): the guest may send one byte more than the window it was
  promised, as a window probe does, but not with its FIN, unless the segment is nothing but
  the FIN. TRUE breaks `FinAfterBytes`, `StreamsIntact` and `EndOfStreamIsTrue`, for the reason
  that MCSlirpTcpCutFin shows. Data without a FIN that is beyond the window is sent and cut in
  all runs.
* `DedicatedPorts` (MCSlirpIp): the guest uses one port for one destination. `udp_input`
  overwrites `so_faddr` with each datagram (`udp.c` 196, "XXX"); with two destinations
  of which the later is in the guest's network, `AnswersFromAsked` breaks.
* `MayCome` (SlirpIp): the guest uses an identification again only when no part of the
  older datagram can come any more and those that came are older than `IPFRAGTTL`.
* `MaxTyped <= PipeSize` in the run: beyond it the console thread may block in
  `write` and `join_io` wait, when the guest takes no input.

What `RacingResets`, `MaxResets`, `AddressFirst`, `BridgeAssumption`, `EarlyStop`, `DedicatedPorts` and
`MaxTyped` keep out is not caught by any property: in `PROJECT.json` these hazards have no
property, but a note.

### What else was met while modelling

These are properties of the code that no run shows as a violation, because no document of
the repository denies them or because they are behind a named assumption. Each can be
seen by changing the constant or the property named.

* `SlirpTcp.TimersRun` needs `snd_wnd > 0`. When `tcp_output` sends a window update it
  returns without reaching the test that starts the persist timer (`tcp_output.c` 197,
  241), so that data may wait for a closed window with no timer set.
* A fixed burst is split into accesses to successive addresses, where AXI4 repeats the
  first: `fv_addr_for_beat` (`AWS_AXI4_Deburster.bsv` 135-162) tells only wrapping bursts
  from the others, although `AWS_AXI4_Types.bsv` has `axburst_fixed` (72). Behind the
  Deburster is memory; whether the processor, a submodule, sends it fixed bursts the
  repository does not say. With `b.addr` for a fixed burst in `BeatAddr`,
  `WritesWhereAsked` and `ReadsInStep` fail.
* `snd_wnd` is unsigned and goes below 0 by the ack of a window probe (`tcp_input.c`
  1026). The streams survive it.
* `SlirpTcp.EndOfStreamIsTrue` needs `~host.early`: a host that closes its direction
  first and reads slowly loses what `so_rcv` holds when the guest's last ack, or the end
  of TIME_WAIT, closes the socket (`tcp_input.c` 1078).
* `slirp_select_fill` means to "limit the number of packets queued by this session to 4"
  (`slirp.c` 343) and reads a socket that has 4 (`so_queued <= 4`).
* `udp_input` asks `udp_tos` for the type of service before it has set `so_fport`
  (`udp.c` 187, 197), so that DNS never is of low delay by its port; only the type of
  service of the guest's packet counts.
* The packets of an expired socket stay queued and point to freed memory (`if.c` 197);
  the next socket at that place begins with a count that goes below 0.
* A read of the image file past its end is answered OK with data nobody wrote
  (`temu.c` 227-281); the model's driver stays within the file.
* The status of a block request of unknown type goes to the first writable byte
  (`virtio.c` 1205), which is the status byte only when there is no data to return.
* All words of a write burst to a device go to the burst's first address, while a read
  burst goes on by 4 for each beat of 8 bytes (`fpga.cpp` 258-270, 213-222); and a read
  of `fromhost` is answered with one beat whatever its length (230-241). The guest's
  drivers access devices with single words; the model's read bursts go elsewhere.
* A packet that is longer than the guest's buffer is dropped and the buffer kept
  (`virtio.c` 1301); `PacketsInOrder` says so.

### Fairness

* Threads of the host are scheduled by the operating system: weak fairness of each
  thread's steps (the worker and the notifier; the completing threads, the
  poller; main, the stopping threads, the exits). No fairness of the user, nor of a
  guest that need not ask for anything; the guest's interrupt handler is fair,
  because an interrupt line that stays up is taken.
* HostBridge: the poller is one thread with several queues, so each of its handlers is
  enabled again and again while others run: strong fairness of each. It is justified by
  the order in which the portal looks at its queues and by a guest that cannot fill one
  while it waits for the answer of another. A hart asked to halt may issue an access
  whenever none is under way, and is enabled to halt in between: strong fairness.
* Bluespec rules fire when they can: weak fairness of each direction of the
  Deburster and of the Fabric, and of the controller. Masters take their responses and slaves
  answer (AXI obliges them).
* VirtioBackends has that of VirtioQueue: the worker goes on.
* SlirpIp: `process_io` goes round for ever (`Rounds`: `select` waits 10 ms at most), a
  half second passes again and again (strong fairness of `SelectPoll(TRUE)`, enabled once
  a round), and the guest's driver gives back buffers.
* SlirpTcp states none: that a connection comes to its end is not claimed, only that a
  timer is set where the code relies on one (`TimersRun`).

## Proofs

`tlapm` checks the eight proof modules from nothing.

**VirtioProofs** is about a device's queues and both of their signals, the worker's wake-up and
the interrupt line; the three models share no variable. Of VirtioNotify, for any number of
devices and queues (`SizesAssumption`: positive naturals):

* `TypeCorrect`: `NotifySpec => []NotifyTypeOK`.
* `Inductive`: `NotifySpec => []NotifyInv`. `NoLostNotify` alone is not inductive:
  a request may be rung whose bit an earlier ring has set already, and it then
  relies on that bit, which until then had nothing behind it. `NotifyInv` says that any set
  bit has somebody who will look for it, namely `pending_notify`, a notifier between
  its two steps, or a worker that has not passed that device (`BitsAnnounced`); a rung
  request that is not seen has its bit in the device or among those being served
  (`RequestsHaveBits`); rung requests were posted (`RungPosted`); a stop carries the
  flag (`StopFlagged`); a waiting worker has none (`SleepsUnflagged`).
* `NoRequestForgotten` and `NeverSleepsOnWork` follow, and `DoorbellSafety`: initial
  states and steps are those of `Doorbell`.

Of VirtioIrq, for any set of completing threads: `IrqTypeCorrect` and, under
`~TrustsStatus`, `NoInterruptLost`. The strengthening is `WriteInProgress`: the guest
is waiting for its MMIO write whenever the poller is inside one.

Of VirtioQueue, for a ring of any size and indices of any modulus it divides, under
`~RacingResets`: `QueueTypes` (`[]TypeOK`) and `PositionKept` (`[]InStep`:
`last_avail_idx` is the used index but for a completion under way). The invariant adds that
one thread serves a queue, which its kind decides (`OneServer`); that a queue that is not
set up is at its start with nobody in it (`AtRest`), which is where the assumption on resets
is used; and that the used index a thread has read is still the ring's (`FreshUsed`).

`PositionStaysInRing` (`[]PositionInRing`) goes further, assuming also that no
`manual_recv` queue is reset (`MaxResets[TRUE] = 0`: the one reset the code does not guard,
see the assumptions above). It needs a count: every descriptor is free, being added by the
driver, available, or waiting for the driver to take it back (`Accounts`), so that the two
indices of the ring are never more than a ring apart although they wrap; that an index a
thread has in a local is never ahead of the ring's own (`Snapshots`); and that a thread at
work on a request works before that index (`Owed`).

Under the same assumptions `FifoSafety`: the initial states and
steps of the queue are those of `RequestFifo`. A descriptor is in one place at a time
(`Distinct`), a thread holds the oldest request due (`Oldest`), and two entries of a ring
that are less than a ring apart have slots of their own (`SlotsApart`, `SlotWraps`), so that
writing one leaves the others as they were.

**MemControllerProofs**, for any number and sizes of words and any requests, under
`RawOrdered`: `CacheInvariant` (`[]IInv`), `DroppedIsSafe` (`[]CleanIsSafe`) and
`MemorySafety`: every step is a step of `AtomicMemory` or none. `CleanIsSafe` is not
inductive: a reload must bring what the raw memory will hold once the writes sent before it
are done, so that `IInv` has `OneReload`, which says that there is one and what it brings,
and `Ordered`, that the writes of a word on their way have a newest. Beside the invariant
the proof needs division: that the bytes of an access lie in one word and which (`Split`,
`BeatPlace`, `PlaceIsOwn`).

**HostProofs** is about the host program: its window and its calls to the debug module
(`HostBridge`), and its sessions (`HostSession`, a specification with names of its own,
`SessionSpec`, which shares no variable with the other).

For any bursts and whatever gdb and the hart do: `AnswersAreOwn` (`[]OwnAnswer`). It needs none of `AddressFirst`, `InTime`, `EarlyStop`. The invariant says
that main and gdb are never in a call together, because gdb is on only while main is in
`join_io` (`CallersApart`), and that the one request of a caller is in exactly one of: the
hardware, the portal's queue, the answer word with its semaphore posted (`OneRequest`).

Under `InTime`, with gdb or without and over any number of reboots (the hart obeys before
`halt`, `resume` and `reset_halt` give up polling, which they do without telling main):
`AlwaysBootsAtEntry` (`BootsAtEntry`). `BootInv` builds on the
invariant above, which says whose answer is read, and follows main's order of calls: no
request to resume is left in dmcontrol once haltreq is written, and an answer "halted" that
main has yet to read is still true when it does (`Halting`); the hart comes out of its reset
halted because the write that ends ndmreset keeps haltreq (`Resetting`); data0 and data1 hold
both halves of the value when a register is written from them, and the registers stay until
the resume (`Preparing`); nothing halts a hart that has resumed again (`Resuming`).

Under `AddressFirst`, for any bursts the guest asks for, of any length below `LenMod`, and
any number of them under way: `WritesAreCounted` (`[]WritesOwnBurst`), `WritesAreAnswered`
(`[]AnsweredWhenWritten`) and `ReadsAreWhole` (`ReadsWhole`). The invariant is `IoInv`,
with one lemma for each step of the window. None of the three is
inductive, because the host has only the order of its queues to go by. `WriteOrder` says
that the answers on their way, `io_write_queue`, the addresses in the portal and those in
the fabric are, one after the other, the writes under way, oldest first; `ReadOrder` the
same of the reads. `WriteData` says that all data on its way (the beat being handled, the
portal's, the fabric's) falls into groups, one for each write that is not answered, in their
order and each as long as what is left of the write (`Laid`, `Owned`); `ReadData` says it of
`rdata`, and that the last beat of each group is marked and no other (`Marked`). `Behind`
keeps data in the portal from passing an address in the fabric: this is where
`AddressFirst` is used, and again when `io_wdata` is called. The groups are given by where
they end, so that no sum over a sequence is needed: a group is added at the end, and the
first one loses an item or goes (`Extend-`, `Shorten-` and `DropLaid`).

For any number of sessions and descriptors, under `~Overlap` and `~EarlyInput`:
`SessionInvariant`, `NothingStray` (`[]DescriptorsOwned`) and `SessionsStartWhole`
(`[]SessionWhole`). The invariant, `SessionInv`, says which end of which pipe of this
session each thread owns and until when (`EndsOwned`), that a thread lives until it is told
to stop (`ThreadsToJoin`), that a stop signal is there exactly when its thread was told
(`Signals`) and that a session is stopped once (`StopOnce`).

**DebursterProofs**, for any incrementing, wrapping or fixed bursts of AXI4's sizes and
lengths, any number of them under way, FIFOs of any depth and whatever the slave answers: `ReadsStayInStep` (`[]ReadsInStep`),
`WritesGoWhereAsked` (`[]WritesWhereAsked`) and `ResponsesAreHonest`
(`[]OneHonestResponse`). `BurstAssumption` asks of a burst what AXI4 asks (a wrapping one is
aligned and of 2, 4, 8 or 16 beats, a fixed one is of 16 at most), and that the address space is a multiple of a beat and
of a wrapping burst's window, which are powers of two below it. The beats of all bursts are one sequence of positions, and each FIFO
carries a stretch of it: what leaves one FIFO is what the next has room for (`Carries`,
`ReadFlow`, `WriteFlow`). The bursts not finished are those of the address FIFO, with the
beat counter in the oldest (`Requests`), and the length FIFO has the lengths of those not
answered, one more than the finished ones while a burst is under way (`OpenLengths`).
That `fv_addr_for_beat`, which knows only the beat before, gives the address that is counted
from the burst's own, AXI4's for an incrementing or wrapping burst (`AddrFollows`), is division: an unaligned first beat, an address that
passes the end of the address space, and a window in which it passes the end at any beat.
A response is honest because the slave performs the beats in order (`InOrder`) and
`rg_b_resp` is what the first failing one of those answered so far was answered (`Sums`);
that there are as many accesses as beats is a bijection of their places and positions.

**BurstProofs** has what the proofs about the Deburster and the fabric share: a FIFO that
one rule fills and another empties holds a stretch of the beats of all bursts (`Carries`)
or of any sequence (`Run`).

**FabricProofs**, for any number of masters and slaves, any bursts, bursts to no slave among
them, and FIFOs of any depth.

* `ResponsesToAsker` (`[]AnswersToAsker`). No response says whose it is, and the property
  says nothing of the FIFOs that decide: the invariants are `WriteInv` and `ReadInv`.
  `Book` compares two orders of the same bursts, the master's (`wr_bursts`) and the one each
  slave was given them in (`wr_routed`). `v_f_wr_sjs` is the end of the first and
  `v_f_wr_mis` the end of the second, and of the bursts of one master for one slave both
  hold the same, in the same order (`Pending`; `FailedAt` for the errors). So the two heads
  a rule compares, when they name each other, stand for one burst, the oldest of both
  (`TurnIsOne`). Reads have counters besides: the oldest read of a master has been
  answered as many beats as the counter says of the slave whose turn it is, and a counter
  that is not 0 belongs to a slave whose turn it is (`Progress`, `CountsHeld`): two masters
  that read from one slave, or one from two, never share a count.
* `DataInOrder` (`[]DataFollowsAddress`), if at most one master ever writes, as in the SoC
  and in MCFabric (with two the property is false, see the assumptions above). `DataInv`
  says that `v_f_wd_tasks` and `v_rg_wd_beat_count` stand for the bursts accepted and not
  yet moved, cut as the master announced them (`Sending`), and that each slave has been fed
  the beats of the bursts moved and its share of the one under way (`Feeding`): data for a
  burst without a slave is dropped by the same count.

**SlirpTcpProofs** and **SlirpTimerProofs**, for any sizes of streams, buffers, segments and
windows, any number of connections one after the other, and whatever the network and the
host do, for a guest that sends no FIN with data beyond the window (`~FinOnProbe`; for one
that does, `BytesIntact` and `EndIsTrue` are false, as MCSlirpTcpCutFin shows): `PromiseFits` (`[]RcvFits`), `BytesIntact` (`[]StreamsIntact`), with its half
`GuestBytesIntact` about the guest's bytes, `EndIsTrue` (`[]EndOfStreamIsTrue`) and, in
`SlirpTimerProofs`, `TimersNeverStop` (`[]TimersRun`). None is inductive: each direction has
an invariant of its own, and so have the end of the guest's stream and the timers.

* `RecvInv`, for the guest's bytes, says that what the host was given, what waits in
  `so_rcv` and what `rcv_nxt` acknowledges are one stretch of the guest's stream (`Flow`);
  that the segments that came early are pieces of that stream which do not overlap, lie
  after `rcv_nxt` and end within the window, so that whatever `Present` takes has room
  (`Ahead`); that `rcv_adv` is at most the end of the socket buffer, which no step moves
  back but a write to the host, and that by as much as it moves `rcv_nxt` on; and which
  flags of `so_state` each state of the connection has (`Phase`), since a FIN must be
  counted once and after the last byte.
* `StreamInv`, for the host's bytes, adds that `so_snd` is the end of what was read from
  the host and begins at `snd_una` (`Sequence`), which acks, retransmission and a window
  that shrinks move in different ways; how far the connection can be in each state, so that
  a FIN has the number after the last byte and nothing is read after it (`Stage`); and that
  all that ever was sent to the guest carries each byte under its own number (`Said`). What
  an old socket of the same ports left in the network may arrive in a later connection:
  `SendInv` therefore keeps, by an existential function, how much each socket has read, and
  `NumberOnce` shows that two sockets share no number. It needs the assumption
  `HostBytes + 2 < IssIncr`: the initial numbers are further apart than a stream is long.
  That the guest's FIN is true follows from it: `FinTold` says that the number it carries
  is the one after the last byte read, and that the host has closed.
* `EndInv`, for what the host is told, follows the FIN of the guest from the segment that
  completes the stream (`AllCame`, which `Step6` needs to call `OnFin`) to `shutdown`, at
  once or, with `FWDRAIN` set, by the write that empties `so_rcv`: `FWDRAIN` means that the
  FIN is counted, a host that was told has been given all, and a connection that has gone
  on to FIN_WAIT_1 or later was closed by a host that knew, that gave up its own direction
  early, or that reset it (`Excused`). That is why the two ways to close that report the
  end (LAST_ACK, and TIME_WAIT's timer) are safe.
* `TimerInv`, for the timers (`SlirpTimerProofs`), says what `tcp_output` relies on (`Armed`:
  the retransmission timer runs for all that was sent, and `snd_wl1` and `snd_wl2` are of
  something received) and what it leaves behind (`Watched`: what waits for an open window has a
  timer). It needs the tests of `tcp_output` in full (`ToSendWhen`): a short segment is kept
  back only while something is outstanding. An ack may stop the timer in the middle of
  `tcp_input`, and then what follows must call `tcp_output` (`NewAckTimed`). The hard case is
  fast retransmission, which clears the timer, sends from `snd_una` and puts `snd_nxt` back: if
  the window were closed over data in flight, nothing would be sent and nothing would run
  (`FastRexmtTimed`). Acks can use up a window in this way (`Shrunk`), but such an ack sets the
  count of duplicates to 0, and the next segment that is not a duplicate, being the guest's
  newest or carrying something (`Newest`), brings a window of its own (`Used`). That is where
  the assumption `RexmtThresh > 1` is used.

The steps of the model are chains of operators that stand for slirp's nested calls: there
is one lemma for each of them and for each direction, in the order of the calls
(`RecvOutput`, `ReassRecv`, `OnFinRecv`, `Step6Recv`, ... `InputRecv`, and their like for
the send side), and the two trims of a segment are shown to leave a segment of the guest
(`TrimLeftIs`, `TrimRightIs`). The assumption `~FinOnProbe` is used once for each direction:
a segment that has data and a FIN ends within the window (`Within`, `Polite`,
`SegmentWithin`), so that one that is cut on the right had no FIN in its header, and what
`tcp_reass` queues is a piece of the guest's stream.

Model-checked only: all liveness (`StopHonoured`, `CompletionsSeen`,
`InterruptsSettle`, `BurstsAnswered`, `AllAnswered`, `DirtyDrains`, `StopEndsSession`,
`MainGoesOn`, `NothingStays` and the liveness parts of the refinements), which the prover
cannot do under fairness; what rests on folds over sequences (`DescChain`, so `DeviceAnswers`,
`OutputInOrder`, `InputInOrder`, and `Reassembled`, `SessionOrder` and `AnswersFromAsked` of
SlirpIp), which needs induction over data.

## Not modelled

* **UART** (`UART_Model.bsv`): a register file with a one-character receiver. What is hard
  about it is a guest that takes no input, so that `uart_fromhost` blocks the console
  thread (`fpga.cpp` 688), which is the blocked writer of HostSession's console pipe.
* **Downsizer, Id_Reflector, Crossing, Connection**: on the path from the host through the
  core's DMA port, which this program does not use, or moving items between FIFOs.
* **TinyEMU's processor, network file system, PCI transport, 9p, input devices, user
  interfaces**: compiled or vendored but never instantiated by this program.
* **slirp's DHCP and ARP, IP options, TTL and checksums**: answers to one packet at a
  time, or a packet dropped. That slirp is entered by two threads without a lock (the
  worker sends a packet while the I/O thread polls; both then write to the net device's
  queue 0) is not modelled: interleavings inside its functions are undefined behaviour,
  and each call is one step.
* **Asynchronous block requests** (`req_in_progress`): the file back end answers at once.
* **ddr_read, ddr_write, read_irq_status, sbcs_wait**: no caller in this build.
* **Levels of the other interrupt sources, clocks, synchronisers**: below the model.
* **Host access to DRAM around the cache** (`AXI_Mem_Controller.bsv` 266): no module joins
  the controller's cache with the host's direct reads and writes.
* **Branches that the modelled environment does not take**: the exits of `queue_notify` for a
  malformed chain and for a device that is busy (`virtio.c` 621, 628-630); `start_halted`
  (`main.cpp` 282), which leaves the resume to gdb; the answer to a read of `fromhost`
  (`fpga.cpp` 230-241); an answer from the network's broadcast address (`udp.c` 291-292).
* **Generated stubs, portal library, kernel drivers**: used as ordered delivery.

## Plan

What is left, in order of importance:

1. The controller's cache joined with the host's direct access to guest memory.
2. Liveness of a slirp connection under a fair network.
3. The 16550 registers of the UART.
