SPECIFICATION FairSpec
CONSTANTS
    InputSize = 3
    PipeSize = 2
    Answers <- SolverAnswers
    MaxCalls = 2
    Budget = 1
    MaxTime = 1
INVARIANTS
    WholeOrFailed
    NothingLeaks
    VerdictSound
PROPERTIES
    RunReturns
