SPECIFICATION FairSpec
CONSTANTS
    CPUs = {c1, c2}
    Events = {alarm, wait, sysprof}
    Periodic = {alarm}
    ThreadLocked = {wait}
    Rearming = {sysprof}
    Remote = {alarm, wait}
    Periods = {0, 2}
    MaxDelay = 1
    NoEvent = NoEvent
    NoCPU = NoCPU
INVARIANTS
    CancelledStaysOut
    ListsInv
    HardwareTimerSet
PROPERTY
    EveryTimeoutComes
