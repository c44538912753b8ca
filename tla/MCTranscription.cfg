SPECIFICATION Spec
CONSTANTS
    Sources <- MCSources
    Requests <- MCRequests
INVARIANTS
    LexedAlike
    SameConditions
    NothingElseLost
    Semicoloned
    InOwnElement
CHECK_DEADLOCK FALSE
