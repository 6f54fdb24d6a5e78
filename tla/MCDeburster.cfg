\* Three bursts fill the length FIFOs, made two deep here (four in the code).
CONSTANTS
    AddrMod = 16
    Shapes <- MCShapes
    RespsAt <- MCRespsAt
    FifoDepth = 2
    LenDepth = 2
    MaxBursts = 3
SPECIFICATION Spec
INVARIANTS
    WritesWhereAsked
    OneHonestResponse
    ReadsInStep
PROPERTIES
    BurstsAnswered
