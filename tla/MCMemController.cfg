\* Four requests: write, evict, write back late, read again.
CONSTANTS
    AddrBase = 4
    AddrLim = 12
    WordBytes = 4
    Beat = 2
    Accesses <- MCAccesses
    FifoDepth = 2
    RawOrdered = TRUE
    MaxRequests = 4
SPECIFICATION Spec
INVARIANTS
    CleanIsSafe
PROPERTIES
    DirtyDrains
    ImplementsMemory
CHECK_DEADLOCK FALSE
