SPECIFICATION Spec
CONSTANTS
    g = g
    o = o
    x = x
    NoThread = NoThread
    NoMutex = NoMutex
    Threads = {t1, t2, t3}
    Mutexes = {g, o, x}
    Guard <- OneGuard
    TimedMutexes = {x}
    TransferMutexes = {g}
INVARIANTS
    NoPanic
    HolderInv
