SPECIFICATION FairSpec
CONSTANTS
    k1 = k1
    r1 = r1
    r2 = r2
    r3 = r3
    Keys <- MCKeys
    Requests <- TwoRequests
    KeyOf <- OneKey
    Estimate <- MCEstimate
    RpmLimit = 2
    Limit = 1
    TpmLimit = 1
PROPERTY NothingKeptByRefusals
