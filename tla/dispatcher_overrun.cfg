SPECIFICATION Spec
CONSTANTS
    Events = {e1}
    Workers = {w1}
    QueueCap = 1
    MaxRetries = 4
    GlobalURL = FALSE
    NoJob = NoJob
INVARIANT NeverPanics
