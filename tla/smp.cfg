SPECIFICATION SMPFairSpec
CONSTANTS
    c1 = c1
    c2 = c2
    c3 = c3
    CPUs = {c1, c2, c3}
    Messages = {m1, m2}
    Sends <- MCSends
    Lockers = {c1, c3}
    NoMessage = NoMessage
    NoCPU = NoCPU
INVARIANTS
    MessageInv
    SyncProcessed
PROPERTY
    EverySendReturns
