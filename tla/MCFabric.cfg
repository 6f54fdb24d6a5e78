\* Bursts of 2 beats queue up at a slave (FIFOs two deep, as in the code); the order
\* FIFOs, eight deep in the code, are two deep so that three bursts fill them.  Two
\* reads of each master, to both slaves in either order, are the four bursts of a
\* cyclic wait, had the rules not taken both orders in one step.
SPECIFICATION Spec
CONSTANTS
    NumMasters = 2
    NumSlaves = 2
    Writers = {1}
    Shapes <- TwoSlavesAndNone
    FifoDepth = 2
    OrderDepth = 2
    MaxBursts = 3
    MaxReads = 4
INVARIANTS
    AnswersToAsker
    DataFollowsAddress
PROPERTY AllAnswered
CHECK_DEADLOCK FALSE
