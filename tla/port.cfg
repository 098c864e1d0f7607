SPECIFICATION Spec
CONSTANTS
    Readers = {r1, r2}
    Writers = {w1, w2}
    Threads = {r1, r2, w1, w2}
    Impatient = {w1}
    NoThread = NoThread
    NoVariable = NoVariable
    Variables = {"read_condition", "write_condition"}
    Capacities = {1, 2}
    MaxId = 1
    MaxMessages = 3
INVARIANTS
    SleepersReachable
    MessagesInv
    NobodyForgotten
