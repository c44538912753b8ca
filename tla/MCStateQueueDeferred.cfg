SPECIFICATION Spec
CONSTANTS
    THREADS = 2
    Nodes = {n1, n2, n3, n4}
    NodeSlots = 2
    a = a
    States = {a, b, c}
    Null = Null
    InitialState <- OneStartState
    MayEnqueue <- OwnQueue
INVARIANTS
    DeferredListSuffices
SYMMETRY Symmetry
