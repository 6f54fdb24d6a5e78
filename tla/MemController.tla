---------------------------- MODULE MemController ----------------------------
(***************************************************************************)
(* mkAXI_Mem_Controller (src/hw/src_BSV/AXI_Mem_Controller.bsv): single-   *)
(* beat reads and writes from the deburster, answered from a cache of one  *)
(* wide word, which is written back to the raw memory when another word is *)
(* wanted or when there is nothing else to do.                             *)
(*                                                                         *)
(* A rule is an action; it is enabled when its condition holds, the FIFOs  *)
(* it reads are not empty and those it writes are not full.  An address    *)
(* and its datum are always enqueued together, and are one element here.   *)
(* The raw memory (the memory fabric and the DDR behind it) and the        *)
(* deburster are the environment.  The n-th request has id n, and a write  *)
(* writes n into the bytes its strobe selects.                             *)
(*                                                                         *)
(* server_reset is connected to nothing, so that rl_external_reset never   *)
(* fires; no host program sends set_watch_tohost, so that rg_status keeps   *)
(* its 0; and the first request comes after rl_set_addr_map.               *)
(***************************************************************************)
EXTENDS Naturals, Sequences

CONSTANTS
    AddrBase, AddrLim,  \* the arguments of set_addr_map
    WordBytes,          \* bytes_per_raw_mem_word: 64
    Beat,               \* Bytes_per_Fabric_Data: 8
    Accesses,           \* the accesses considered: [op, addr, size, wstrb]
    FifoDepth,          \* a transactor's FIFO: 2
    RawOrdered,         \* does the raw memory keep a read behind the writes
                        \* to the same word that were sent before it?
    MaxRequests         \* bound: requests

ASSUME MemAssumption ==
    /\ {WordBytes, Beat, FifoDepth} \subseteq Nat \ {0}
    /\ WordBytes % Beat = 0
    /\ {AddrBase, AddrLim} \subseteq Nat /\ AddrBase < AddrLim
    /\ AddrBase % WordBytes = 0 /\ AddrLim % WordBytes = 0
    /\ \A r \in Accesses :
           /\ r.op \in {"rd", "wr"} /\ r.addr \in Nat /\ r.size \in 1 .. Beat
           /\ r.wstrb \subseteq 0 .. Beat - 1
    /\ RawOrdered \in BOOLEAN
    /\ MaxRequests \in Nat

RawAddrs == 0 .. ((AddrLim - AddrBase) \div WordBytes) - 1
WordOf(value) == [k \in 0 .. WordBytes - 1 |-> value]

VARIABLES
    issued,                 \* requests sent by the deburster so far
    s_ar, s_aw, s_r, s_b,   \* slave_xactor
    f_reqs,                 \* the merged requests: one at a time
    rg_state, rg_addr_map_set,
    rg_cached_clean, rg_cached_raw_mem_addr, rg_cached_raw_mem_word,
    m_aw, m_b, m_ar, m_r,   \* master_xactor
    raw                     \* the raw memory

fabric == <<issued, s_ar, s_aw, s_r, s_b>>
cache == <<rg_cached_clean, rg_cached_raw_mem_addr, rg_cached_raw_mem_word>>
raw_side == <<m_aw, m_b, m_ar, m_r, raw>>
vars == <<fabric, f_reqs, rg_state, cache, rg_addr_map_set, raw_side>>

\* After rl_power_on_reset.  The cache's registers have no reset value.
Init ==
    /\ issued = 0
    /\ s_ar = <<>> /\ s_aw = <<>> /\ s_r = <<>> /\ s_b = <<>>
    /\ f_reqs = <<>>
    /\ rg_state = "reset_reload_cache"
    /\ rg_addr_map_set = FALSE
    /\ rg_cached_clean \in BOOLEAN
    /\ rg_cached_raw_mem_addr \in RawAddrs
    /\ rg_cached_raw_mem_word = WordOf(0)
    /\ m_aw = <<>> /\ m_b = <<>> /\ m_ar = <<>> /\ m_r = <<>>
    /\ raw = [w \in RawAddrs |-> WordOf(0)]

Room(fifo) == Len(fifo) < FifoDepth

-----------------------------------------------------------------------------
(* Start-up *)

ResetReloadCache ==
    /\ rg_state = "reset_reload_cache"
    /\ Room(m_ar)
    /\ m_ar' = Append(m_ar, 0)
    /\ rg_cached_raw_mem_addr' = 0
    /\ rg_state' = "reloading"
    /\ UNCHANGED <<fabric, f_reqs, rg_cached_clean, rg_cached_raw_mem_word, rg_addr_map_set,
                   m_aw, m_b, m_r, raw>>

\* rl_set_addr_map of AWSP2.
SetAddrMap ==
    /\ ~rg_addr_map_set
    /\ rg_state = "ready"
    /\ rg_addr_map_set' = TRUE
    /\ UNCHANGED <<fabric, f_reqs, rg_state, cache, raw_side>>

-----------------------------------------------------------------------------
(* Merging reads and writes; a read that waits goes first *)

MergeRd ==
    /\ s_ar # <<>>
    /\ f_reqs = <<>>
    /\ f_reqs' = <<Head(s_ar)>>
    /\ s_ar' = Tail(s_ar)
    /\ UNCHANGED <<issued, s_aw, s_r, s_b, rg_state, cache, rg_addr_map_set, raw_side>>

MergeWr ==
    /\ s_ar = <<>>
    /\ s_aw # <<>>
    /\ f_reqs = <<>>
    /\ f_reqs' = <<Head(s_aw)>>
    /\ s_aw' = Tail(s_aw)
    /\ UNCHANGED <<issued, s_ar, s_r, s_b, rg_state, cache, rg_addr_map_set, raw_side>>

-----------------------------------------------------------------------------
(* The request at hand *)

req == Head(f_reqs)
fn_addr_is_ok ==
    /\ req.addr % req.size = 0
    /\ AddrBase <= req.addr /\ req.addr < AddrLim
req_raw_mem_addr == (req.addr - AddrBase) \div WordBytes
Hit == rg_cached_raw_mem_addr = req_raw_mem_addr

\* A request that the address map covers, of the given kind.
Wanted == rg_state = "ready" /\ f_reqs # <<>> /\ fn_addr_is_ok

\* The bytes of the cached word that make up the beat the address falls into.
LaneByte(addr, k) == ((addr % WordBytes) \div Beat) * Beat + k

Writeback ==
    /\ Room(m_aw)
    /\ m_aw' = Append(m_aw, [addr |-> rg_cached_raw_mem_addr,
                             data |-> rg_cached_raw_mem_word])
    /\ rg_cached_clean' = TRUE
    /\ UNCHANGED <<fabric, f_reqs, rg_state, rg_cached_raw_mem_addr,
                   rg_cached_raw_mem_word, rg_addr_map_set, m_b, m_ar, m_r, raw>>

\* A defective form: it waits for the next request instead of the lack of one.
WritebackDirtyBusy ==
    /\ rg_state = "ready"
    /\ f_reqs # <<>>
    /\ ~rg_cached_clean
    /\ Writeback

WritebackDirtyIdle ==
    /\ rg_state = "ready"
    /\ f_reqs = <<>>
    /\ ~rg_cached_clean
    /\ Writeback

WritebackDirty ==
    /\ Wanted /\ ~Hit
    /\ ~rg_cached_clean
    /\ Writeback

WrDone ==
    /\ m_b # <<>>
    /\ m_b' = Tail(m_b)
    /\ UNCHANGED <<fabric, f_reqs, rg_state, cache, rg_addr_map_set, m_aw, m_ar, m_r, raw>>

Miss ==
    /\ Room(m_ar)
    /\ m_ar' = Append(m_ar, req_raw_mem_addr)
    /\ rg_cached_raw_mem_addr' = req_raw_mem_addr
    /\ rg_state' = "reloading"
    /\ UNCHANGED <<fabric, f_reqs, rg_cached_clean, rg_cached_raw_mem_word, rg_addr_map_set,
                   m_aw, m_b, m_r, raw>>

\* A defective form: a dirty word is replaced too.
MissAnyReq == Wanted /\ ~Hit /\ Miss

MissCleanReq == Wanted /\ ~Hit /\ rg_cached_clean /\ Miss

Reload ==
    /\ rg_state = "reloading"
    /\ m_r # <<>>
    /\ m_r' = Tail(m_r)
    /\ rg_cached_raw_mem_word' = Head(m_r)
    /\ rg_cached_clean' = TRUE
    /\ rg_state' = "ready"
    /\ UNCHANGED <<fabric, f_reqs, rg_cached_raw_mem_addr, rg_addr_map_set, m_aw, m_b, m_ar, raw>>

ProcessRd ==
    /\ Wanted /\ Hit
    /\ req.op = "rd"
    /\ Room(s_r)
    /\ s_r' = Append(s_r, [id |-> req.id, resp |-> "okay",
                           data |-> [k \in 0 .. Beat - 1 |->
                                        rg_cached_raw_mem_word[LaneByte(req.addr, k)]]])
    /\ f_reqs' = <<>>
    /\ UNCHANGED <<issued, s_ar, s_aw, s_b, rg_state, cache, rg_addr_map_set, raw_side>>

\* A defective form: a word that was clean before the write stays clean.
ProcessWrClean ==
    /\ Wanted /\ Hit
    /\ req.op = "wr"
    /\ Room(s_b)
    /\ LET written == { LaneByte(req.addr, k) : k \in req.wstrb }
       IN  rg_cached_raw_mem_word' =
               [b \in 0 .. WordBytes - 1 |->
                   IF b \in written THEN req.data ELSE rg_cached_raw_mem_word[b]]
    /\ s_b' = Append(s_b, [id |-> req.id, resp |-> "okay"])
    /\ f_reqs' = <<>>
    /\ UNCHANGED <<issued, s_ar, s_aw, s_r, rg_state, rg_cached_clean,
                   rg_cached_raw_mem_addr, rg_addr_map_set, raw_side>>

ProcessWr ==
    /\ Wanted /\ Hit
    /\ req.op = "wr"
    /\ Room(s_b)
    /\ LET written == { LaneByte(req.addr, k) : k \in req.wstrb }
       IN  rg_cached_raw_mem_word' =
               [b \in 0 .. WordBytes - 1 |->
                   IF b \in written THEN req.data ELSE rg_cached_raw_mem_word[b]]
    /\ rg_cached_clean' = FALSE
    /\ s_b' = Append(s_b, [id |-> req.id, resp |-> "okay"])
    /\ f_reqs' = <<>>
    /\ UNCHANGED <<issued, s_ar, s_aw, s_r, rg_state, rg_cached_raw_mem_addr,
                   rg_addr_map_set, raw_side>>

Unwanted == rg_state = "ready" /\ f_reqs # <<>> /\ ~fn_addr_is_ok

InvalidRdAddress ==
    /\ Unwanted
    /\ req.op = "rd"
    /\ Room(s_r)
    /\ s_r' = Append(s_r, [id |-> req.id, resp |-> "slverr", data |-> <<>>])
    /\ f_reqs' = <<>>
    /\ UNCHANGED <<issued, s_ar, s_aw, s_b, rg_state, cache, rg_addr_map_set, raw_side>>

InvalidWrAddress ==
    /\ Unwanted
    /\ req.op = "wr"
    /\ Room(s_b)
    /\ s_b' = Append(s_b, [id |-> req.id, resp |-> "slverr"])
    /\ f_reqs' = <<>>
    /\ UNCHANGED <<issued, s_ar, s_aw, s_r, rg_state, cache, rg_addr_map_set, raw_side>>

-----------------------------------------------------------------------------
(* The deburster *)

Numbered(access, n) == [id |-> n, op |-> access.op, addr |-> access.addr,
                        size |-> access.size, wstrb |-> access.wstrb, data |-> n]

MasterIssue(access) ==
    /\ rg_addr_map_set
    /\ issued < MaxRequests
    /\ issued' = issued + 1
    /\ \/ /\ access.op = "rd" /\ Room(s_ar)
          /\ s_ar' = Append(s_ar, Numbered(access, issued'))
          /\ UNCHANGED s_aw
       \/ /\ access.op = "wr" /\ Room(s_aw)
          /\ s_aw' = Append(s_aw, Numbered(access, issued'))
          /\ UNCHANGED s_ar
    /\ UNCHANGED <<s_r, s_b, f_reqs, rg_state, cache, rg_addr_map_set, raw_side>>

MasterTakeR ==
    /\ s_r # <<>>
    /\ s_r' = Tail(s_r)
    /\ UNCHANGED <<issued, s_ar, s_aw, s_b, f_reqs, rg_state, cache, rg_addr_map_set, raw_side>>

MasterTakeB ==
    /\ s_b # <<>>
    /\ s_b' = Tail(s_b)
    /\ UNCHANGED <<issued, s_ar, s_aw, s_r, f_reqs, rg_state, cache, rg_addr_map_set, raw_side>>

-----------------------------------------------------------------------------
(* The raw memory: writes in order, a read at any time but as RawOrdered says *)

\* Where the writes to w are among those the raw memory has not performed.
Pending(w) == { i \in DOMAIN m_aw : m_aw[i].addr = w }

RawWrite ==
    /\ m_aw # <<>>
    /\ Room(m_b)
    /\ raw' = [raw EXCEPT ![Head(m_aw).addr] = Head(m_aw).data]
    /\ m_aw' = Tail(m_aw)
    /\ m_b' = Append(m_b, "okay")
    /\ UNCHANGED <<fabric, f_reqs, rg_state, cache, rg_addr_map_set, m_ar, m_r>>

RawRead ==
    /\ m_ar # <<>>
    /\ Room(m_r)
    /\ RawOrdered => Pending(Head(m_ar)) = {}
    /\ m_r' = Append(m_r, raw[Head(m_ar)])
    /\ m_ar' = Tail(m_ar)
    /\ UNCHANGED <<fabric, f_reqs, rg_state, cache, rg_addr_map_set, m_aw, m_b, raw>>

-----------------------------------------------------------------------------
Controller ==
    \/ ResetReloadCache \/ SetAddrMap
    \/ MergeRd \/ MergeWr
    \/ WritebackDirtyIdle \/ WritebackDirty \/ MissCleanReq \/ Reload
    \/ ProcessRd \/ ProcessWr
    \/ InvalidRdAddress \/ InvalidWrAddress

Answers == MasterTakeR \/ MasterTakeB

Next ==
    \/ Controller
    \/ WrDone
    \/ \E access \in Accesses : MasterIssue(access)
    \/ Answers
    \/ RawWrite
    \/ RawRead

\* Rules fire when they can, the deburster takes its responses, and the raw
\* memory serves both of its channels.
Fairness ==
    /\ WF_vars(Controller)
    /\ WF_vars(WrDone)
    /\ WF_vars(MasterTakeR)
    /\ WF_vars(MasterTakeB)
    /\ WF_vars(RawWrite)
    /\ WF_vars(RawRead)

Spec == Init /\ [][Next]_vars /\ Fairness

-----------------------------------------------------------------------------
(* Properties *)

\* What the raw memory will hold at w once the writes in flight are done.
Settled(w) ==
    IF Pending(w) = {} THEN raw[w]
    ELSE m_aw[CHOOSE i \in Pending(w) : \A j \in Pending(w) : j <= i].data

\* A word that rl_miss_clean_req may drop is safe in the raw memory: while the
\* cache is clean, it agrees with what the raw memory holds or is about to hold.
CleanIsSafe ==
    rg_state = "ready" /\ rg_cached_clean =>
        rg_cached_raw_mem_word = Settled(rg_cached_raw_mem_addr)

\* A dirty word does not stay in the cache (rl_writeback_dirty_idle): the host
\* reads the raw memory itself, and when the core has stopped accessing memory
\* it finds there everything that was written.
DirtyDrains ==
    <>[](\A w \in RawAddrs :
            rg_cached_raw_mem_addr = w => raw[w] = rg_cached_raw_mem_word)

\* The memory as the deburster knows it.
Contents(w) ==
    IF rg_state = "ready" /\ rg_cached_raw_mem_addr = w
    THEN rg_cached_raw_mem_word ELSE Settled(w)

Merged(op) == IF f_reqs # <<>> /\ req.op = op THEN f_reqs ELSE <<>>

A == INSTANCE AtomicMemory WITH
        Mem <- AddrBase .. AddrLim - 1,
        InitialByte <- 0,
        Requests <- { Numbered(access, n) : access \in Accesses, n \in 1 .. MaxRequests },
        mem <- [a \in AddrBase .. AddrLim - 1 |->
                   Contents((a - AddrBase) \div WordBytes)[(a - AddrBase) % WordBytes]],
        rd_reqs <- Merged("rd") \o s_ar,
        wr_reqs <- Merged("wr") \o s_aw,
        rd_rsps <- s_r,
        wr_rsps <- s_b

\* The cache, its writebacks and its reloads implement a memory in which every
\* access is performed at one moment: a read returns what the writes performed
\* before it left, whatever has been evicted, written back and reloaded since.
ImplementsMemory == A!Spec
=============================================================================
