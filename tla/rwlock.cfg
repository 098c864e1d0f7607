SPECIFICATION FairSpec
CONSTANTS
    NoThread = NoThread
    Threads = {t1, t2, t3, t4}
    Base = 65536
    MaxNesting = 2
INVARIANTS
    Exclusion
    NoPanic
    ReaderCountsInv
    NoLostWakeup
PROPERTIES
    EveryWaiterServed
