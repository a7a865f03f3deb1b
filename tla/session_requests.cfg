SPECIFICATION FairSpec
CONSTANTS
    Handlers = {h1, h2}
    Channels = {}
    MaxEvents = 1
    Faults = {"dial", "sql"}
    Nobody = Nobody
    NoChannel = NoChannel
    NoCode = NoCode
INVARIANTS LocksInOrder DeletedIsSilent
PROPERTIES RequestsEnd UpIsReported
