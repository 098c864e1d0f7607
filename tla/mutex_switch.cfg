SPECIFICATION FairSpec
CONSTANTS
    g = g
    o = o
    NoThread = NoThread
    NoMutex = NoMutex
    Threads = {t1, t2, t3, t4}
    Mutexes = {g, o}
    Guard <- OneGuard
    TimedMutexes = {}
INVARIANTS
    NoLostMutex
    DestroyedUntouched
PROPERTIES
    EveryLockerServed
