SPECIFICATION WalkSpec
CONSTANTS
    Sources <- MCDescending
    Plans <- MCSimplify
INVARIANTS Satisfiable
CHECK_DEADLOCK FALSE
