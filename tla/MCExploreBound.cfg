SPECIFICATION Spec
CONSTANTS
    st1 = st1
    st2 = st2
    st3 = st3
    st4 = st4
    NoState = NoState
    States = {st1, st2, st3, st4}
    WarmUp = 0
    Rules = 2
    Models <- ShortcutModels
INVARIANTS
    BoundCovered
