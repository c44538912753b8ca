SPECIFICATION RendezvousFairSpec
CONSTANTS
    Threads = {t0, t1, t2, t3}
    Main = t0
    NoThread = NoThread
INVARIANTS
    RendezvousTypeOK
    CountersAgree
    LeaderAlone
PROPERTIES
    WaiterReleased
    ImplementsBarrier
