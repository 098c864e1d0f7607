SPECIFICATION FairSpec
CONSTANTS
    Threads = {t1, t2, t3}
    Variables = {t1, t2, t3}
    NoVariable = NoVariable
    Mutexes = {m, n}
    Conditions = {c}
    Recursive = {n}
    MaxRecursion = 2
    Interrupted = {n}
    Timed = {c, n}
    Disturbed = {t1, t2}
    NoWord = NoWord
    NoCall = NoCall
    NoThread = NoThread
INVARIANTS
    MutualExclusion
    LockedIsOwned
    WaitingFlagInv
    WaitersCounted
PROPERTIES
    NoOvertaking
    MutexHandedOver
