SPECIFICATION Spec
CONSTANTS
    j1 = j1
    j2 = j2
    w1 = w1
    w2 = w2
    NoJob = NoJob
    Jobs <- TwoJobs
    Workers <- TwoWorkers
    Dedup = FALSE
    Gated <- OneGated
    ScanLimit = 1
    Faults = {"upstream", "refusal", "enqueue", "audit", "store", "crash"}
    MaxCrashes = 1
    Crowds <- TwoCrowds
INVARIANT TypeOK
INVARIANT RunAtMostOnce
INVARIANT StrandedOnlyByCrash
PROPERTY LifecycleImplemented
PROPERTY QueuedJobsAreTaken
PROPERTY ClaimedJobsEnd
CHECK_DEADLOCK FALSE
