SPECIFICATION FairSpec
CONSTANTS
    k1 = k1
    r1 = r1
    r2 = r2
    r3 = r3
    r4 = r4
    Keys <- MCKeys
    Requests <- MCRequests
    KeyOf <- MCKeyOf
    Estimate <- MCEstimate
    RpmLimit = 4
    Limit = 4
    TpmLimit = 3
INVARIANT NoOvercharge
INVARIANT ExactUnlessDrifted
INVARIANT BudgetUnlessDrifted
PROPERTY PeriodsCloseUnlessDrifted
CHECK_DEADLOCK FALSE
