\* Indices wrap after two rounds of the ring, so every run meets the wrap.
CONSTANTS
    Num = 2
    IdxMod = 4
    ManualKinds = {TRUE, FALSE}
    MaxResets <- OrdinaryResets
    RacingResets = FALSE
    Roles = {"block", "entropy", "print", "transmit", "console", "receive"}
    SectorSize = 2
    NbSectors = 2
    Requests <- SomeRequests
    InputLen = 2
    PacketLens = {1, 2}
    EntropyBlock = 2
    BufSize = 2
    CharMod = 5
SPECIFICATION BackendSpec
INVARIANTS
    PositionInRing
    DeviceAnswers
    OutputInOrder
    InputInOrder
PROPERTIES
    ImplementsFifo
