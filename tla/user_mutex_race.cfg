SPECIFICATION Spec
CONSTANTS
    Threads = {t1, t2, t3}
    Variables = {t1, t2, t3}
    NoVariable = NoVariable
    Mutexes = {m}
    Conditions = {}
    Recursive = {}
    MaxRecursion = 2
    Interrupted = {m}
    Timed = {}
    Disturbed = {t1, t2, t3}
    NoWord = NoWord
    NoCall = NoCall
    NoThread = NoThread
INVARIANT
    OwnedAlone
