\* Each of three sessions is stopped once, by the guest or by the user, when it
\* runs; what is typed fits the pipe.
CONSTANTS
    Fds <- MCFds
    EarlyInput = FALSE
    Overlap = FALSE
    MaxSessions = 3
    MaxTyped = 2
    PipeSize = 2
SPECIFICATION SessionSpec
INVARIANTS
    SessionWhole
    DescriptorsOwned
PROPERTIES
    StopEndsSession
CHECK_DEADLOCK FALSE
