SPECIFICATION Spec
CONSTANTS
    Handlers = {h1}
    Channels = {c1, c2}
    MaxEvents = 2
    Faults = {}
    Nobody = Nobody
    NoChannel = NoChannel
    NoCode = NoCode
SYMMETRY Symmetry
INVARIANT AnswerIsCurrent
