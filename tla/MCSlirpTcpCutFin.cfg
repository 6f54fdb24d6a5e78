SPECIFICATION Spec
CONSTANTS
    Mss = 2
    SndSpace = 1
    RcvSpace = 2
    RexmtThresh = 2
    IssIncr = 10
    WndMod = 64
    GuestBytes = 3
    HostBytes = 0
    GuestWindow = 1
    MaxSockets = 1
    FinOnProbe = TRUE
INVARIANTS
    FinAfterBytes
CHECK_DEADLOCK FALSE
