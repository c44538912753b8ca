SPECIFICATION Spec
CONSTANTS
    THREADS = 2
    Nodes = {n1, n2, n3, n4, n5}
    NodeSlots = 2
    a = a
    States = {a, b, c, d}
    Null = Null
    InitialState <- OneStartState
    MayEnqueue <- OwnQueue
INVARIANTS
    NodesSafe
    QueuesAccounted
PROPERTIES
    ImplementsQueues
SYMMETRY Symmetry
