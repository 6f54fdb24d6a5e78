SPECIFICATION Spec
CONSTANTS
    Mss = 2
    SndSpace = 3
    RcvSpace = 2
    RexmtThresh = 2
    IssIncr = 10
    WndMod = 64
    GuestBytes = 3
    HostBytes = 2
    GuestWindow = 1
    MaxSockets = 1
    FinOnProbe = FALSE
CONSTRAINT FewBytes
INVARIANTS
    StreamsIntact
    RcvFits
    EndOfStreamIsTrue
    TimersRun
CHECK_DEADLOCK FALSE
