SPECIFICATION WalkSpec
CONSTANTS
    Sources <- MCSources
    Plans <- MCPlans
INVARIANTS
    Lexical
    NamesMean
    RejectedFirst
    KnownToSolver
    Translated
CHECK_DEADLOCK FALSE
