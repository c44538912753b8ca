SPECIFICATION SpuriousSpec
CONSTANTS
    Threads = {t0, t1}
    Main = t0
    NoThread = NoThread
INVARIANTS
    NobodyStillToArrive
