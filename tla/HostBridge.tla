----------------------------- MODULE HostBridge -----------------------------
(***************************************************************************)
(* The host program's requests to the hardware, beside the I/O window of   *)
(* IoBridge: main's way through src/src/main.cpp (memory_ready, halt,      *)
(* dmi_status, the registers, resume, gdb, join, reset), the debug module  *)
(* interface of src/src/fpga.cpp and src/hw/src_BSV/AWSP2.bsv, and the     *)
(* portal poller, the one thread that handles every indication.            *)
(*                                                                         *)
(* A request is answered by an indication: the poller stores the answer in *)
(* a variable of AWSP2 and posts a semaphore, for which the caller waits   *)
(* with dmi_request_mutex or misc_request_mutex held.  The poller may wait *)
(* for misc_request_mutex too: a store of the guest to a virtio device may *)
(* lower an interrupt (irq_clear_levels).                                  *)
(*                                                                         *)
(* External: the debug module and the hart (processor submodules), gdbstub *)
(* (submodule).  The hart halts when its loads and stores are answered, as *)
(* main.cpp:319 expects.  The threads' start is in HostSession; loading    *)
(* the ELF file, which goes around the portal, is not modelled.            *)
(***************************************************************************)
EXTENDS IoBridge

CONSTANTS
    UseGdb,         \* was a gdb port asked for?
    InTime,         \* does the hart obey within the 100 polls of halt and resume?
    EarlyStop       \* may a session be stopped before start_gdb has returned?

ASSUME HostAssumption ==
    {UseGdb, InTime, EarlyStop} \subseteq BOOLEAN

Threads == {"main", "gdb"}

VARIABLES
    op, step,       \* main: the operation under way, and its step (0: not begun)
    rebooting,      \* has a session ended with EXIT_CODE_RESET?
    dmi_request_mutex, misc_request_mutex,  \* held by main?
    call,           \* call[t]: where thread t is in dmi_read or dmi_write, and which
    dmi,            \* requests in the hardware's FIFOs
    dmi_read_data,  \* answers in the portal's queue
    sem_dmi_response, dmi_rsp_data,
    dmi_status_data, sem_misc_response,     \* an answer in its queue; the semaphore
    dm,             \* the debug module: haltreq, resumereq, ndmreset, data0 and data1
    hart,           \* [st, pc, a1]
    gdb_port,       \* is gdb_port >= 0?
    gdb,            \* the stub's thread
    stop, gdb_stop  \* has stop_io been called in this session?  Has gdbstub_stop?

mainVars == <<op, step, rebooting, dmi_request_mutex, misc_request_mutex>>
dmiVars == <<call, dmi, dmi_read_data, sem_dmi_response, dmi_rsp_data>>
miscVars == <<dmi_status_data, sem_misc_response>>
target == <<dm, hart>>
ending == <<gdb_port, gdb, stop, gdb_stop>>
vars == <<ioVars, mainVars, dmiVars, miscVars, target, ending>>

NoCall == [at |-> "none", what |-> "none"]
NoAnswer == [by |-> "none", what |-> "none", val |-> "none"]

Init ==
    /\ IoInit
    /\ op = "memory_ready" /\ step = 0 /\ rebooting = FALSE
    /\ dmi_request_mutex = FALSE /\ misc_request_mutex = FALSE
    /\ call = [t \in Threads |-> NoCall]
    /\ dmi = {} /\ dmi_read_data = {}
    /\ sem_dmi_response = 0 /\ dmi_rsp_data = NoAnswer
    /\ dmi_status_data = FALSE /\ sem_misc_response = 0
    /\ dm = [halt |-> FALSE, resume |-> FALSE, ack |-> FALSE, reset |-> FALSE, data |-> <<"-", "-">>]
    /\ hart = [st |-> "running", pc |-> "reset", a1 |-> "-"]
    /\ gdb_port = FALSE /\ gdb = "off" /\ stop = FALSE /\ gdb_stop = FALSE

-----------------------------------------------------------------------------
(* dmi_read and dmi_write, for thread t; r is what is read or written *)

Call(t, r) ==
    /\ call[t].at = "none"
    /\ call' = [call EXCEPT ![t] = [at |-> "waiting", what |-> r]]
    /\ dmi' = dmi \cup {[by |-> t, what |-> r]}
    /\ UNCHANGED <<dmi_read_data, sem_dmi_response, dmi_rsp_data>>

\* sem_wait returns.
Wake(t) ==
    /\ call[t].at = "waiting" /\ sem_dmi_response > 0
    /\ sem_dmi_response' = sem_dmi_response - 1
    /\ call' = [call EXCEPT ![t].at = "woken"]
    /\ UNCHANGED <<ioVars, mainVars, dmi, dmi_read_data, dmi_rsp_data, miscVars, target, ending>>

\* dmi_rsp_data is read, and the call is over.
Return(t) ==
    /\ call[t].at = "woken"
    /\ call' = [call EXCEPT ![t] = NoCall]
    /\ UNCHANGED <<dmi, dmi_read_data, sem_dmi_response, dmi_rsp_data>>

-----------------------------------------------------------------------------
(* main *)

\* The calls of the operations that use the debug module.  A register access is
\* data1 and data0 and then the command, or the other way round to read it.
Calls ==
    [halt |-> <<"control", "haltreq", "poll_halted", "control", "no_haltreq">>,
     write_csr |-> <<"data1_entry", "data0_entry", "set_dpc">>,
     read_csr |-> <<"get_dpc", "data1", "data0">>,
     write_gpr |-> <<"data1_dtb", "data0_dtb", "set_a1">>,
     resume |-> <<"control", "resumereq", "poll_resumed", "control", "no_resumereq">>,
     reset_halt |-> <<"ndmreset", "no_ndmreset", "poll_available">>]

\* main.cpp, with "boot" at write_csr; join_io returns the exit code.
Following(o) ==
    CASE o = "memory_ready" -> {"halt"}
      [] o = "halt" -> {IF rebooting THEN "reset_halt" ELSE "dmi_status"}
      [] o \in {"dmi_status", "reset_halt"} -> {"write_csr"}
      [] o = "write_csr" -> {"read_csr"}
      [] o = "read_csr" -> {"write_gpr"}
      [] o = "write_gpr" -> {"resume"}
      [] o = "resume" -> {IF UseGdb THEN "start_gdb" ELSE "join_io"}
      [] o = "start_gdb" -> {"join_io"}
      [] o = "join_io" -> {"done", "halt"}

Go(o) == op' = o /\ step' = 0

memory_ready ==
    /\ op = "memory_ready" /\ ~misc_request_mutex
    /\ rg_ready' = TRUE
    /\ \E o \in Following(op) : Go(o)
    /\ UNCHANGED <<guest, aw, w, ar, indications, io_write_queue, handling, answers,
                   rebooting, dmi_request_mutex, misc_request_mutex, dmiVars, miscVars, target, ending>>

\* dmi_status holds misc_request_mutex until its answer is there.
DmiStatus ==
    /\ op = "dmi_status" /\ step = 0 /\ ~misc_request_mutex
    /\ misc_request_mutex' = TRUE
    /\ step' = 1
    /\ dmi_status_data' = TRUE
    /\ UNCHANGED <<ioVars, op, rebooting, dmi_request_mutex, dmiVars, sem_misc_response, target, ending>>

DmiStatusReturns ==
    /\ op = "dmi_status" /\ step = 1 /\ sem_misc_response > 0
    /\ sem_misc_response' = sem_misc_response - 1
    /\ misc_request_mutex' = FALSE
    /\ \E o \in Following(op) : Go(o)
    /\ UNCHANGED <<ioVars, rebooting, dmi_request_mutex, dmiVars, dmi_status_data, target, ending>>

\* halt, write_csr and so on.
Begin ==
    /\ op \in DOMAIN Calls /\ step = 0 /\ ~dmi_request_mutex
    /\ dmi_request_mutex' = TRUE
    /\ step' = 1
    /\ UNCHANGED <<ioVars, op, rebooting, misc_request_mutex, dmiVars, miscVars, target, ending>>

MainCalls ==
    /\ op \in DOMAIN Calls /\ step > 0
    /\ Call("main", Calls[op][step])
    /\ UNCHANGED <<ioVars, mainVars, miscVars, target, ending>>

\* Defective: the status is read once.
PollOnce(what, val) == FALSE

\* The loops of halt, resume and reset_halt; without InTime they may give up.
PollAgain(what, val) ==
    \/ what = "poll_halted" /\ val # "halted"
    \/ what = "poll_resumed" /\ val # "resumed"
    \/ what = "poll_available" /\ val = "unavailable"

MainReturns ==
    /\ op \in DOMAIN Calls
    /\ Return("main")
    /\ LET again == PollAgain(Calls[op][step], dmi_rsp_data.val)
       IN  \/ again /\ UNCHANGED <<op, step, dmi_request_mutex>>
           \/ /\ again => ~InTime
              /\ IF step < Len(Calls[op])
                 THEN step' = step + 1 /\ UNCHANGED <<op, dmi_request_mutex>>
                 ELSE /\ dmi_request_mutex' = FALSE
                      /\ \E o \in Following(op) : Go(o)
    /\ UNCHANGED <<ioVars, rebooting, misc_request_mutex, miscVars, target, ending>>

-----------------------------------------------------------------------------
(* gdb *)

\* gdb_port is set, then the mutex taken for as long as the stub runs.
SetGdbPort ==
    /\ op = "start_gdb" /\ step = 0
    /\ gdb_port' = TRUE
    /\ step' = 1
    /\ UNCHANGED <<ioVars, op, rebooting, dmi_request_mutex, misc_request_mutex, dmiVars, miscVars,
                   target, gdb, stop, gdb_stop>>

StartGdb ==
    /\ op = "start_gdb" /\ step = 1 /\ ~dmi_request_mutex
    /\ dmi_request_mutex' = TRUE
    /\ gdb' = "on" /\ gdb_stop' = FALSE
    /\ \E o \in Following(op) : Go(o)
    /\ UNCHANGED <<ioVars, rebooting, misc_request_mutex, dmiVars, miscVars, target, gdb_port, stop>>

GdbCalls ==
    /\ gdb = "on" /\ ~gdb_stop
    /\ \E r \in {"haltreq", "resumereq"} : Call("gdb", r)
    /\ UNCHANGED <<ioVars, mainVars, miscVars, target, ending>>

GdbReturns ==
    /\ Return("gdb")
    /\ UNCHANGED <<ioVars, mainVars, miscVars, target, ending>>

GdbEnds ==
    /\ gdb = "on" /\ gdb_stop /\ call["gdb"].at = "none"
    /\ gdb' = "off"
    /\ UNCHANGED <<ioVars, mainVars, dmiVars, miscVars, target, gdb_port, stop, gdb_stop>>

\* stop_io: on the poller's thread or the console's.
StopIo ==
    /\ stop' = TRUE
    /\ gdb_stop' = (gdb_stop \/ gdb_port)
    /\ UNCHANGED <<gdb_port, gdb>>

\* From start_io on, a session may be stopped.
MayStop ==
    IF EarlyStop \/ ~UseGdb THEN op \in {"resume", "start_gdb", "join_io"} ELSE op = "join_io"

ConsoleStops ==
    /\ MayStop /\ ~stop
    /\ StopIo
    /\ UNCHANGED <<ioVars, mainVars, dmiVars, miscVars, target>>

\* Defective: join_io does not wait for the stub.
JoinStdinOnly == stop

\* The threads that stop_io told have ended.
Joined == stop /\ (gdb_port => gdb = "off")

\* join_io, which gives the mutex back, and main's "goto boot".
JoinIo ==
    /\ op = "join_io" /\ Joined
    /\ dmi_request_mutex' = (dmi_request_mutex /\ ~gdb_port)
    /\ \E o \in Following(op) : Go(o)
    /\ rebooting' = TRUE
    /\ stop' = FALSE
    /\ UNCHANGED <<ioVars, misc_request_mutex, dmiVars, miscVars, target, gdb_port, gdb, gdb_stop>>

-----------------------------------------------------------------------------
(* The poller *)

OnDmiReadData ==
    /\ PollerIdle
    /\ \E a \in dmi_read_data :
        /\ dmi_rsp_data' = a
        /\ dmi_read_data' = dmi_read_data \ {a}
    /\ sem_dmi_response' = sem_dmi_response + 1
    /\ UNCHANGED <<ioVars, mainVars, call, dmi, miscVars, target, ending>>

OnDmiStatusData ==
    /\ PollerIdle /\ dmi_status_data
    /\ dmi_status_data' = FALSE
    /\ sem_misc_response' = sem_misc_response + 1
    /\ UNCHANGED <<ioVars, mainVars, dmiVars, target, ending>>

others == <<mainVars, dmiVars, miscVars, target>>

\* Defective: one mutex for all requests.
OneMutex == ~misc_request_mutex /\ ~dmi_request_mutex

\* irq_clear_levels goes on.
MayClearLevels == ~misc_request_mutex

\* Within io_wdata: a device may lower its interrupt; the word tohost may stop the
\* session.
WriteIsHandled ==
    /\ EndWdata
    /\ burst[handling].target = "device" => MayClearLevels
    /\ IF burst[handling].target = "tohost" /\ MayStop THEN StopIo ELSE UNCHANGED ending
    /\ UNCHANGED others

Window(A) == A /\ UNCHANGED <<others, ending>>

Poller == OnDmiReadData \/ OnDmiStatusData \/ Window(OnAwaddr) \/ Window(OnAraddr)
            \/ Window(OnWdata) \/ WriteIsHandled

-----------------------------------------------------------------------------
(* The debug module and the hart *)

\* What a request does to the debug module and the hart, and its answer.
Control(r) ==
    [dm EXCEPT !.halt = CASE r \in {"haltreq", "ndmreset", "no_ndmreset"} -> TRUE
                          [] r \in {"no_haltreq", "resumereq", "no_resumereq"} -> FALSE
                          [] OTHER -> @,
               !.resume = CASE r = "resumereq" -> TRUE
                            [] r \in {"no_resumereq", "haltreq", "no_haltreq", "ndmreset", "no_ndmreset"} -> FALSE
                            [] OTHER -> @,
               !.ack = IF r = "resumereq" THEN FALSE ELSE @,
               !.reset = r = "ndmreset",
               !.data = CASE r = "data1_entry" -> <<"entry", @[2]>>
                          [] r = "data0_entry" -> <<@[1], "entry">>
                          [] r = "data1_dtb" -> <<"dtb", @[2]>>
                          [] r = "data0_dtb" -> <<@[1], "dtb">>
                          [] r = "get_dpc" /\ hart.st = "halted" -> <<hart.pc, hart.pc>>
                          [] OTHER -> @]

\* The value of the two halves of a register.
Whole(data) == IF data[1] = data[2] THEN data[1] ELSE "mixed"

\* An abstract command does nothing to a hart that is not halted; the falling edge
\* of ndmreset resets the hart.
Obeyed(r) ==
    CASE r = "set_dpc" /\ hart.st = "halted" -> [hart EXCEPT !.pc = Whole(dm.data)]
      [] r = "set_a1" /\ hart.st = "halted" -> [hart EXCEPT !.a1 = Whole(dm.data)]
      [] r = "no_ndmreset" /\ dm.reset -> [st |-> "unavailable", pc |-> "reset", a1 |-> "-"]
      [] OTHER -> hart

Value(r) ==
    CASE r \in {"poll_halted", "poll_available"} -> hart.st
      [] r = "poll_resumed" -> IF dm.ack THEN "resumed" ELSE "waiting"
      [] OTHER -> "none"

DmiAnswers ==
    /\ \E r \in dmi :
        /\ dmi' = dmi \ {r}
        /\ dmi_read_data' = dmi_read_data \cup {[by |-> r.by, what |-> r.what, val |-> Value(r.what)]}
        /\ dm' = Control(r.what)
        /\ hart' = Obeyed(r.what)
    /\ UNCHANGED <<ioVars, mainVars, call, sem_dmi_response, dmi_rsp_data, miscVars, ending>>

HartHalts ==
    /\ hart.st = "running" /\ dm.halt
    /\ UnderWay = {}
    /\ hart' = [hart EXCEPT !.st = "halted"]
    /\ UNCHANGED <<ioVars, mainVars, dmiVars, miscVars, dm, ending>>

HartResumes ==
    /\ hart.st = "halted" /\ dm.resume
    /\ hart' = [hart EXCEPT !.st = "running", !.pc = IF @ = "reset" THEN @ ELSE "program"]
    /\ dm' = [dm EXCEPT !.ack = TRUE]
    /\ UNCHANGED <<ioVars, mainVars, dmiVars, miscVars, ending>>

HartIsReset ==
    /\ hart.st = "unavailable"
    /\ hart' = [hart EXCEPT !.st = IF dm.halt THEN "halted" ELSE "running"]
    /\ UNCHANGED <<ioVars, mainVars, dmiVars, miscVars, dm, ending>>

\* The boot ROM only reads the window; the program it does not know may do all.
\* A hart that is asked to halt begins no access beside another.
GuestIssues ==
    /\ hart.st = "running" /\ (dm.halt => UnderWay = {})
    /\ \E k \in Kinds : (k.dir = "write" => hart.pc = "program") /\ Issue(k)
    /\ UNCHANGED <<others, ending>>

Bridge == Window(master1_aw) \/ Window(master1_wdata) \/ Window(master1_ar)
Guest == Window(TakeResponse) \/ Window(TakeData)

Main == memory_ready \/ DmiStatus \/ DmiStatusReturns \/ Begin \/ MainCalls \/ Wake("main")
          \/ MainReturns \/ SetGdbPort \/ StartGdb \/ JoinIo
GdbStub == Wake("gdb") \/ GdbReturns \/ GdbEnds
Machine == DmiAnswers \/ HartHalts \/ HartResumes \/ HartIsReset

Next == Main \/ GdbStub \/ GdbCalls \/ ConsoleStops \/ Poller \/ Bridge \/ Guest \/ Machine
          \/ GuestIssues

\* Threads are scheduled, rules fire, and the hart and its debug module go on.
\* No indication is put off for ever: the lowest queue is taken first, and the
\* guest cannot fill one while it waits for the answer of another.  Neither the
\* guest, nor gdb, nor the user has to do anything.
Fairness ==
    /\ WF_vars(Main) /\ WF_vars(GdbStub)
    /\ SF_vars(OnDmiReadData) /\ SF_vars(OnDmiStatusData)
    /\ SF_vars(Window(OnAwaddr)) /\ SF_vars(Window(OnAraddr))
    /\ SF_vars(Window(OnWdata)) /\ WF_vars(WriteIsHandled)
    /\ WF_vars(Window(master1_aw)) /\ WF_vars(Window(master1_wdata)) /\ WF_vars(Window(master1_ar))
    /\ WF_vars(Window(TakeResponse)) /\ WF_vars(Window(TakeData))
    /\ WF_vars(DmiAnswers) /\ SF_vars(HartHalts) /\ WF_vars(HartResumes) /\ WF_vars(HartIsReset)

Spec == Init /\ [][Next]_vars /\ Fairness

-----------------------------------------------------------------------------
(* Properties *)

\* A caller of dmi_read or dmi_write finds in dmi_rsp_data the answer to its own
\* request, though there is one variable and one semaphore for all: the mutex, or
\* the session of gdb that holds it, keeps the others out.
OwnAnswer ==
    \A t \in Threads :
        call[t].at = "woken" => dmi_rsp_data.by = t /\ dmi_rsp_data.what = call[t].what

\* When main resumes the hart it starts at the entry point, with the address of the
\* device tree in a1: the registers were written while it was halted (halt,
\* reset_halt, write_csr, write_gpr, resume).
BootsAtEntry ==
    [][op = "resume" /\ hart.st = "halted" /\ hart'.st = "running"
        => hart.pc = "entry" /\ hart.a1 = "dtb"]_vars

\* main comes to the end of every operation; it stays only in join_io, and there
\* only until the session is stopped.  Nobody waits for the answer of a request
\* whose handler waits for the mutex of the caller.
MainGoesOn ==
    []<>(op = "done" \/ (op = "join_io" /\ ~stop))

=============================================================================
