SPECIFICATION FairSpec
CONSTANTS
    THREADS = 2
    Nodes = {n1, n2, n3}
    NodeSlots = 2
    a = a
    States = {a, b, c}
    Null = Null
    InitialState <- OneStartState
    MayEnqueue <- SharedQueue
INVARIANTS
    UndoesOwnWrite
PROPERTIES
    CallsReturn
