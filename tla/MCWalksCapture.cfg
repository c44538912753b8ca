SPECIFICATION WalkSpec
CONSTANTS
    Sources <- MCCapturing
    Plans <- MCC
INVARIANTS NamesMean
CHECK_DEADLOCK FALSE
