SPECIFICATION FairSpec
CONSTANTS
    st1 = st1
    st2 = st2
    st3 = st3
    st4 = st4
    NoState = NoState
    States = {st1, st2, st3, st4}
    WarmUp = 0
    Rules = 2
    Models <- SmallModels
INVARIANTS
    SearchComplete
    VerdictRight
    ReportsTrue
    LivenessSound
    ShortestTraces
PROPERTIES
    Terminates
