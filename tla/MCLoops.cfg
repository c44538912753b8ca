SPECIFICATION LoopSpec
CONSTANTS
    CTypes <- MCTypes
    Loops <- OtherLoops
    INT_BITS = 5
    LONGEST = 64
INVARIANT VisitsAll
PROPERTY LoopEnds
CHECK_DEADLOCK FALSE
