SPECIFICATION Spec
CONSTANTS
    Handlers = {h1}
    Channels = {c1, c2}
    MaxEvents = 1
    Faults = {"dial", "logout", "sql"}
    Nobody = Nobody
    NoChannel = NoChannel
    NoCode = NoCode
SYMMETRY Symmetry
VIEW WithoutStatus
INVARIANTS TypeOK UpIsSeen DownIsSeen NoCodeOncePaired
