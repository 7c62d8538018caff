SPECIFICATION Spec
CONSTANTS
    c1 = c1
    c2 = c2
    c3 = c3
    c4 = c4
    c5 = c5
    x1 = x1
    x2 = x2
    Calls <- MCCalls
    Row <- MCRow
    Kind <- MCKind
    Exit <- StoreExit
    Seeded <- MCSeeded
    PoolSize = 2
    Nobody = Nobody
    Absent = Absent
INVARIANT AnsweredIsDurable
CHECK_DEADLOCK FALSE
