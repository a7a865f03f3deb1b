SPECIFICATION DeliveryFairSpec
CONSTANTS
    Events = {e1}
    Workers = {w1}
    QueueCap = 1
    MaxRetries = 1
    GlobalURL = FALSE
    NoJob = NoJob
    URLs = {u1, u2}
    Handlers = {h1, h2}
    NoURL = NoURL
    Unlisted = Unlisted
    AnyURL = AnyURL
INVARIANTS DeliveryTypeOK GoesWhereAgreed
PROPERTY ShutdownEnds
