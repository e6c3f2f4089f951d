\* Four clients on one bus, cancelled at any await, for as long as they like.
CONSTANTS
    Tasks = {t1, t2, t3, t4}
    Nobody = Nobody
SPECIFICATION FairSpec
INVARIANTS
    IInv
    MutualExclusion
    NoLostWakeup
PROPERTIES
    ImplementsFifoLock
    NoStarvation
