SPECIFICATION Spec
CONSTANTS
    NoSem = NoSem
    Threads = {t1, t2, t3}
    Sems = {s1, s2}
    Infos = {i1}
    InitialCounts = {2}
    AcquireCounts = {1, 3}
    ReleaseCounts = {1, 2}
    Impatient = {t1}
    MaxCount = 3
    MaxGeneration = 1
SYMMETRY Symmetry
VIEW View
INVARIANTS
    NetCountInv
    QueuesMatchWaiters
    SelectNotified
PROPERTIES
    NoOvertaking
    OnlyReleaseStrands
