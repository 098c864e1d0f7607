SPECIFICATION TableSpec
CONSTANTS
    Callers = {t1, t2}
    Teams = {A, B}
    NoTeam = NoTeam
    MaxSems = 2
    MaxId = 5
INVARIANT
    FreedSlotExists
