\* The guest believes an INTERRUPT_STATUS of 0 and leaves its rings alone.
CONSTANTS
    Completers = {"worker", "io"}
    MaxUsed = 3
    MaxIrqResets = 0
    TrustsStatus = TRUE
SPECIFICATION IrqSpec
INVARIANTS
    NoLostInterrupt
CHECK_DEADLOCK FALSE
