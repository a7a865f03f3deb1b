SPECIFICATION FairSpec
CONSTANTS
    Events = {e1}
    Workers = {w1, w2}
    QueueCap = 1
    MaxRetries = 4
    GlobalURL = TRUE
    NoJob = NoJob
INVARIANTS TypeOK JobsAccounted LogIsTruth
PROPERTIES KeepsPromise JobSettles StopCompletes NothingAfterStop
