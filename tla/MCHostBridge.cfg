SPECIFICATION Spec
CONSTANTS
    Kinds <- MCKinds
    LenMod = 4
    CountMod = 8
    MaxBursts = 2
    AddressFirst = TRUE
    UseGdb = TRUE
    InTime = TRUE
    EarlyStop = FALSE
INVARIANTS
    WritesOwnBurst
    AnsweredWhenWritten
    OwnAnswer
PROPERTIES
    ReadsWhole
    BootsAtEntry
    MainGoesOn
CHECK_DEADLOCK FALSE
