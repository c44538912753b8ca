SPECIFICATION Spec
CONSTANTS
    Sources <- BreakingSources
    Requests <- MCRequests
INVARIANT SameConditions
CHECK_DEADLOCK FALSE
