SPECIFICATION Spec
CONSTANTS
    k1 = k1
    k2 = k2
    r1 = r1
    r2 = r2
    r3 = r3
    r4 = r4
    Keys <- MCKeys
    Requests <- MCRequests
    KeyOf <- OneKeyOf
    RpmLimit = 4
    Limit = 2
    TpmLimit = 4
INVARIANT LimitHolds
CHECK_DEADLOCK FALSE
