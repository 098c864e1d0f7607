SPECIFICATION Spec
CONSTANTS
    g = g
    o = o
    NoThread = NoThread
    NoMutex = NoMutex
    Threads = {t1, t2, t3, t4}
    Mutexes = {g}
    Guard <- NoGuards
    TimedMutexes = {g}
INVARIANTS
    TypeOK
    CountInv
    QueueInv
    MutualExclusion
PROPERTIES
    NoOvertaking
    ImplementsAbstractMutex
CHECK_DEADLOCK FALSE
