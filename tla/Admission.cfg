SPECIFICATION FairSpec
CONSTANTS
    k1 = k1
    r1 = r1
    r2 = r2
    r3 = r3
    Keys <- MCKeys
    Requests <- ThreeRequests
    KeyOf <- OneKey
    Estimate <- MCEstimate
    RpmLimit = 2
    Limit = 1
    TpmLimit = 1
INVARIANT WindowLimit
INVARIANT ImmortalOnlyByFault
INVARIANT NoPhantomSlots
INVARIANT ExactUnlessWiped
INVARIANT LimitUnlessWiped
PROPERTY LimitedByThisWindow
PROPERTY SlotsDrain
