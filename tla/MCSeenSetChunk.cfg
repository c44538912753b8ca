SPECIFICATION Spec
CONSTANTS
    Threads = {t0, t1}
    Main = t0
    NoThread = NoThread
    st1 = st1
    st2 = st2
    st3 = st3
    States = {st1, st2, st3}
    Hash <- CollidingHash
    Empty = Empty
    Tombstone = Tombstone
    InitialSize = 1
    ChunkSize = 2
    Threshold = 65
INVARIANTS
    MigrationInBounds
