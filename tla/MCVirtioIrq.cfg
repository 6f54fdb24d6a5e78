\* The guest stops when its bounds are used up: no deadlock check.
CONSTANTS
    Completers = {"worker", "io"}
    MaxUsed = 5
    MaxIrqResets = 2
    TrustsStatus = FALSE
SPECIFICATION IrqSpec
INVARIANTS
    NoLostInterrupt
PROPERTIES
    CompletionsSeen
    InterruptsSettle
CHECK_DEADLOCK FALSE
