----------------------------- MODULE HostSession -----------------------------
(***************************************************************************)
(* The sessions of the host program: main (src/src/main.cpp), the start,   *)
(* stop and join of its input and output in src/src/fpga.cpp and           *)
(* src/src/virtiodevices.cpp, and their threads.                           *)
(*                                                                         *)
(* start_io creates the "Console input" thread, then the "VirtIO queues"   *)
(* worker, then the "VirtIO I/O" thread.  stop_io, called by the portal    *)
(* poller (the guest wrote to tohost or to the test finisher) or by the    *)
(* console thread (C-a x, C-a r), tells the three to stop by two pipes and *)
(* a flag; main joins them and starts again when the code is               *)
(* EXIT_CODE_RESET.                                                        *)
(*                                                                         *)
(* File descriptors are numbers that the system hands out lowest first and *)
(* that close makes free for the next pipe.  A virtio console is enabled,  *)
(* a gdb port is not.  What the worker does is in VirtioNotify.            *)
(***************************************************************************)
EXTENDS Integers

CONSTANTS
    Fds,            \* descriptor numbers, 0 .. some bound
    EarlyInput,     \* may input come in before start_io has returned?
    Overlap,        \* may the guest and the user both stop the same session?
    MaxSessions,    \* bound: sessions started
    MaxTyped,       \* bound: characters typed for the guest in a session
    PipeSize        \* characters a pipe holds (64 KiB)

ASSUME SessionAssumption ==
    /\ Fds \subseteq Nat /\ 0 \in Fds
    /\ EarlyInput \in BOOLEAN /\ Overlap \in BOOLEAN
    /\ {MaxSessions, MaxTyped} \subseteq Nat /\ PipeSize \in Nat \ {0}

Pipes == {"stop_stdin", "virtio_stdio", "stop"}
Free == <<"free", "free", 0>>
Tty == <<"tty", "r", 0>>
End(pipe, end, s) == <<pipe, end, s>>       \* an end of the pipe of session s

Codes == {"exit", "reset"}
Callers == {"poller", "stdin"}

VARIABLES
    session,        \* sessions started so far
    mainpc,         \* the main thread
    fdtab,          \* fdtab[n]: what descriptor n refers to
    pipe_fds,       \* pipe_fds[p]: the numbers stored in the int[2] for p
    stop_bytes,     \* <<p, s>>: an 'X' was written to pipe p of session s
    fill,           \* characters in this session's virtio_stdio pipe
    typed,          \* characters typed in this session
    thread,         \* thread[t], t the console input, worker or I/O thread
    stdin_stop_fd, io_stop_fd,  \* the threads' local stop_fd
    pending_notify_stop,        \* virtio.c's flag
    spc, code,      \* stop_io on each of its callers: where, and its argument
    exit_code,
    asked,          \* history: who has called stop_io in this session
    stray           \* history: a write or close met a descriptor it did not own

fds == <<fdtab, pipe_fds>>
local_fds == <<stdin_stop_fd, io_stop_fd>>
input == <<stop_bytes, fill, typed>>
stopping == <<spc, code, exit_code, asked>>
session_vars == <<session, mainpc, fds, local_fds, input, thread, pending_notify_stop,
          stopping, stray>>

\* AWSP2 is not zeroed by new: its int[2]s hold anything.
SessionInit ==
    /\ session = 1
    /\ mainpc = "start_stdin"
    /\ fdtab = [n \in Fds |-> IF n = 0 THEN Tty ELSE Free]
    /\ \E junk \in Fds \cup {-1} :
           pipe_fds = [p \in Pipes |-> [r |-> junk, w |-> junk]]
    /\ stop_bytes = {} /\ fill = 0 /\ typed = 0
    /\ thread = [t \in {"stdin", "worker", "io"} |-> "none"]
    /\ stdin_stop_fd = -1 /\ io_stop_fd = -1
    /\ pending_notify_stop = FALSE
    /\ spc = [c \in Callers |-> "idle"]
    /\ code = [c \in Callers |-> "exit"]
    /\ exit_code = "exit"
    /\ asked = {}
    /\ stray = FALSE

Alive == mainpc # "aborted"
Runs(t) == Alive /\ thread[t] = "running"
InStop(c, where) == Alive /\ spc[c] = where

-----------------------------------------------------------------------------
(* Descriptors *)

Refers(n) == IF n \in Fds THEN fdtab[n] ELSE Free

\* pipe(): the two lowest free numbers.
OpenPipe(p) ==
    \E r, w \in Fds :
        /\ fdtab[r] = Free /\ fdtab[w] = Free /\ r < w
        /\ \A n \in Fds : fdtab[n] = Free => n = r \/ w <= n
        /\ fdtab' = [fdtab EXCEPT ![r] = End(p, "r", session), ![w] = End(p, "w", session)]
        /\ pipe_fds' = [pipe_fds EXCEPT ![p] = [r |-> r, w |-> w]]

Closing(numbers) == [n \in Fds |-> IF n \in numbers THEN Free ELSE fdtab[n]]

\* A descriptor is ready for select when something was written to its pipe or
\* no write end is left; a number that is not open makes select fail, which
\* leaves every bit of its sets as it was: set.
Ready(n) ==
    LET e == Refers(n)
    IN  \/ e = Free
        \/ e[2] = "r" /\ e # Tty /\
               \/ <<e[1], e[3]>> \in stop_bytes
               \/ ~ \E m \in Fds : fdtab[m] = End(e[1], "w", e[3])

\* write an 'X' to the write end of p, and close it.
SignalAndClose(p) ==
    LET n == pipe_fds[p].w
        e == Refers(n)
    IN  /\ stop_bytes' = IF e[2] = "w" THEN stop_bytes \cup {<<e[1], e[3]>>} ELSE stop_bytes
        /\ fdtab' = Closing({n})
        /\ stray' = (stray \/ e # End(p, "w", session))

-----------------------------------------------------------------------------
(* start_io, on main *)

Create(t) == thread' = [thread EXCEPT ![t] = "running"]

StartStdin ==
    /\ mainpc = "start_stdin"
    /\ mainpc' = "start_stdio"
    /\ OpenPipe("stop_stdin")
    /\ stdin_stop_fd' = pipe_fds'["stop_stdin"].r
    /\ Create("stdin")
    /\ UNCHANGED <<session, io_stop_fd, input, pending_notify_stop, stopping, stray>>

StartStdio ==
    /\ mainpc = "start_stdio"
    /\ mainpc' = "start_worker"
    /\ OpenPipe("virtio_stdio")
    /\ UNCHANGED <<session, local_fds, input, thread, pending_notify_stop, stopping, stray>>

StartWorker ==
    /\ mainpc = "start_worker"
    /\ mainpc' = "start_io"
    /\ Create("worker")
    /\ UNCHANGED <<session, fds, local_fds, input, pending_notify_stop, stopping, stray>>

\* The I/O thread is created, start_io returns, and the guest is resumed.
StartIo ==
    /\ mainpc = "start_io"
    /\ mainpc' = "join_stdin"
    /\ OpenPipe("stop")
    /\ io_stop_fd' = pipe_fds'["stop"].r
    /\ Create("io")
    /\ UNCHANGED <<session, stdin_stop_fd, input, pending_notify_stop, stopping, stray>>

-----------------------------------------------------------------------------
(* join_io and the reboot, on main *)

Join(t, from, to) ==
    /\ mainpc = from
    /\ thread[t] = "exited"
    /\ mainpc' = to
    /\ UNCHANGED <<session, fds, local_fds, input, thread, pending_notify_stop,
                   stopping, stray>>

JoinStdinThread == Join("stdin", "join_stdin", "join_worker")
JoinWorkerThread == Join("worker", "join_worker", "join_io")
JoinIoThread == Join("io", "join_io", "joined")

Exit ==
    /\ mainpc = "joined"
    /\ exit_code # "reset"
    /\ mainpc' = "exited"
    /\ UNCHANGED <<session, fds, local_fds, input, thread, pending_notify_stop,
                   stopping, stray>>

\* The guest is halted and reset, and so are the devices.
Reboot ==
    /\ mainpc = "joined"
    /\ exit_code = "reset"
    /\ session < MaxSessions
    /\ session' = session + 1
    /\ mainpc' = "start_stdin"
    /\ fill' = 0 /\ typed' = 0
    /\ asked' = {}
    /\ UNCHANGED <<fds, local_fds, stop_bytes, thread, pending_notify_stop,
                   spc, code, exit_code, stray>>

-----------------------------------------------------------------------------
(* stop_io *)

CallStop(c, who, why) ==
    /\ Overlap \/ asked = {}
    /\ spc[c] = "idle"
    /\ spc' = [spc EXCEPT ![c] = "code"]
    /\ code' = [code EXCEPT ![c] = why]
    /\ asked' = asked \cup {who}

StopCode(c) ==
    /\ InStop(c, "code")
    /\ exit_code' = code[c]
    /\ spc' = [spc EXCEPT ![c] = "stdin"]
    /\ UNCHANGED <<session, mainpc, fds, local_fds, input, thread, pending_notify_stop,
                   code, asked, stray>>

StopStdinThread(c) ==
    /\ InStop(c, "stdin")
    /\ SignalAndClose("stop_stdin")
    /\ spc' = [spc EXCEPT ![c] = "worker"]
    /\ UNCHANGED <<session, mainpc, pipe_fds, local_fds, fill, typed, thread,
                   pending_notify_stop, code, exit_code, asked>>

\* virtio_stop_pending_notify_thread
StopWorkerThread(c) ==
    /\ InStop(c, "worker")
    /\ pending_notify_stop' = TRUE
    /\ spc' = [spc EXCEPT ![c] = "io"]
    /\ UNCHANGED <<session, mainpc, fds, local_fds, input, thread, code, exit_code,
                   asked, stray>>

\* A defective form: it uses the console thread's pipe.
StopIoWrongPipe(c) ==
    /\ InStop(c, "io")
    /\ SignalAndClose("stop_stdin")
    /\ spc' = [spc EXCEPT ![c] = "idle"]
    /\ UNCHANGED <<session, mainpc, pipe_fds, local_fds, fill, typed, thread,
                   pending_notify_stop, code, exit_code, asked>>

StopIoThread(c) ==
    /\ InStop(c, "io")
    /\ SignalAndClose("stop")
    /\ spc' = [spc EXCEPT ![c] = "idle"]
    /\ UNCHANGED <<session, mainpc, pipe_fds, local_fds, fill, typed, thread,
                   pending_notify_stop, code, exit_code, asked>>

Stop(c) == StopCode(c) \/ StopStdinThread(c) \/ StopWorkerThread(c) \/ StopIoThread(c)

-----------------------------------------------------------------------------
(* The three threads *)

Exits(t) == thread' = [thread EXCEPT ![t] = "exited"]

\* process_stdin, once select reports its stop_fd: both descriptors are closed.
StdinExit ==
    /\ Runs("stdin")
    /\ spc["stdin"] = "idle"
    /\ Ready(stdin_stop_fd)
    /\ fdtab' = Closing({stdin_stop_fd, pipe_fds["virtio_stdio"].w})
    /\ stray' = (stray \/ Refers(stdin_stop_fd) # End("stop_stdin", "r", session)
                       \/ Refers(pipe_fds["virtio_stdio"].w) # End("virtio_stdio", "w", session))
    /\ Exits("stdin")
    /\ UNCHANGED <<session, mainpc, pipe_fds, local_fds, input, pending_notify_stop, stopping>>

\* select reports the terminal, and nothing on stop_fd.
StdinReads ==
    /\ Runs("stdin")
    /\ spc["stdin"] = "idle"
    /\ fdtab[0] = Tty
    /\ ~Ready(stdin_stop_fd)
    /\ EarlyInput \/ mainpc = "join_stdin"

\* C-a x and C-a r.
UserStop(why) ==
    /\ StdinReads
    /\ CallStop("stdin", "user", why)
    /\ UNCHANGED <<session, mainpc, fds, local_fds, input, thread, pending_notify_stop,
                   exit_code, stray>>

\* A character for the guest has been read; it is still to be written.
UserTypes ==
    /\ StdinReads
    /\ typed < MaxTyped
    /\ typed' = typed + 1
    /\ thread' = [thread EXCEPT !["stdin"] = "write"]
    /\ UNCHANGED <<session, mainpc, fds, local_fds, stop_bytes, fill, pending_notify_stop,
                   stopping, stray>>

\* enqueue_stdin writes it to the pipe, waiting for room, and aborts on an error.
EnqueueStdin ==
    /\ Alive /\ thread["stdin"] = "write"
    /\ LET e == Refers(pipe_fds["virtio_stdio"].w)
       IN  IF e[2] # "w"
           THEN /\ mainpc' = "aborted"
                /\ UNCHANGED <<fill, thread>>
           ELSE /\ fill < PipeSize
                /\ fill' = fill + 1
                /\ thread' = [thread EXCEPT !["stdin"] = "running"]
                /\ UNCHANGED mainpc
    /\ UNCHANGED <<session, fds, local_fds, stop_bytes, typed, pending_notify_stop,
                   stopping, stray>>

\* pending_notify_worker; the defective form leaves the flag set.
WorkerExitKeepsFlag ==
    /\ Runs("worker")
    /\ pending_notify_stop
    /\ Exits("worker")
    /\ UNCHANGED <<session, mainpc, fds, local_fds, input, pending_notify_stop, stopping, stray>>

WorkerExit ==
    /\ Runs("worker")
    /\ pending_notify_stop
    /\ pending_notify_stop' = FALSE
    /\ Exits("worker")
    /\ UNCHANGED <<session, mainpc, fds, local_fds, input, stopping, stray>>

\* process_io, once select reports its stop_fd; the defective form closes the
\* write end too, which belongs to stop_io.
IoExitClosesBoth ==
    /\ Runs("io")
    /\ Ready(io_stop_fd)
    /\ fdtab' = Closing({io_stop_fd, pipe_fds["stop"].w})
    /\ stray' = (stray \/ Refers(io_stop_fd) # End("stop", "r", session)
                       \/ Refers(pipe_fds["stop"].w) # End("stop", "w", session))
    /\ Exits("io")
    /\ UNCHANGED <<session, mainpc, pipe_fds, local_fds, input, pending_notify_stop, stopping>>

IoExit ==
    /\ Runs("io")
    /\ Ready(io_stop_fd)
    /\ fdtab' = Closing({io_stop_fd})
    /\ stray' = (stray \/ Refers(io_stop_fd) # End("stop", "r", session))
    /\ Exits("io")
    /\ UNCHANGED <<session, mainpc, pipe_fds, local_fds, input, pending_notify_stop, stopping>>

\* The guest has a buffer for a character, and the I/O thread reads it.
IoReads ==
    /\ Runs("io")
    /\ ~Ready(io_stop_fd)
    /\ fill > 0
    /\ fill' = fill - 1
    /\ UNCHANGED <<session, mainpc, fds, local_fds, stop_bytes, typed, thread,
                   pending_notify_stop, stopping, stray>>

\* The running guest writes to tohost or to the test finisher, and loops.
GuestStop(why) ==
    /\ "guest" \notin asked
    /\ mainpc \in {"join_stdin", "join_worker", "join_io"}
    /\ CallStop("poller", "guest", why)
    /\ UNCHANGED <<session, mainpc, fds, local_fds, input, thread, pending_notify_stop,
                   exit_code, stray>>

-----------------------------------------------------------------------------
MainThread ==
    \/ StartStdin \/ StartStdio \/ StartWorker \/ StartIo
    \/ JoinStdinThread \/ JoinWorkerThread \/ JoinIoThread
    \/ Exit \/ Reboot

StdinThread == StdinExit \/ EnqueueStdin \/ Stop("stdin")

SessionNext ==
    \/ MainThread
    \/ StdinThread
    \/ Stop("poller")
    \/ WorkerExit
    \/ IoExit
    \/ IoReads
    \/ UserTypes
    \/ \E why \in Codes : UserStop(why) \/ GuestStop(why)

\* Every thread keeps running; nobody has to type, and the guest need not take
\* what was typed.
SessionFairness ==
    /\ WF_session_vars(MainThread)
    /\ WF_session_vars(StdinThread)
    /\ WF_session_vars(Stop("poller"))
    /\ WF_session_vars(WorkerExit)
    /\ WF_session_vars(IoExit)

SessionSpec == SessionInit /\ [][SessionNext]_session_vars /\ SessionFairness

-----------------------------------------------------------------------------
(* Properties *)

\* A session starts whole (start_io after an earlier stop_io and join_io): once
\* the guest runs and until somebody asks to stop, all three threads are there
\* and nothing left over from the session before will make one of them exit.
SessionWhole ==
    mainpc = "join_stdin" /\ asked = {} =>
        /\ \A t \in DOMAIN thread : thread[t] \in {"running", "write"}
        /\ ~pending_notify_stop
        /\ ~Ready(stdin_stop_fd) /\ ~Ready(io_stop_fd)

\* Descriptors are closed, and written to, by those who own them (stop_io,
\* process_stdin, process_io): no number is closed twice or used after another
\* pipe may have got it.
DescriptorsOwned == ~stray

\* stop_io ends the session: main joins all three threads, whatever they were
\* doing, and exits or starts again.
StopEndsSession ==
    \A s \in 1 .. MaxSessions : session = s /\ asked # {} ~> session # s \/ mainpc \in {"joined", "exited"}
=============================================================================
