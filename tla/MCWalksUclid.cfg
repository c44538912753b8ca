SPECIFICATION WalkSpec
CONSTANTS
    Sources <- MCDividing
    Plans <- MCUclid
INVARIANTS RejectedFirst
CHECK_DEADLOCK FALSE
