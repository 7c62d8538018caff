SPECIFICATION Spec
CONSTANTS
    e1 = e1
    e2 = e2
    e3 = e3
    e4 = e4
    usage_events = usage_events
    inference_events = inference_events
    Events <- MCEvents
    Critical <- SomeCritical
    TableOf <- TwoTables
    MaxQueue = 2
    BatchSize = 2
    MaxRetries = 2
    MaxFailures = 2
INVARIANT TypeOK
INVARIANT LossesAreSeen
INVARIANT NeverTwice
INVARIANT DuplicatesByFailure
 
CHECK_DEADLOCK FALSE
