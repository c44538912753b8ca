SPECIFICATION LoopSpec
CONSTANTS
    CTypes <- MCTypes
    Loops <- TopLoops
    INT_BITS = 5
    LONGEST = 64
PROPERTY LoopEnds
CHECK_DEADLOCK FALSE
