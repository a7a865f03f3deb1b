SPECIFICATION Spec
CONSTANTS
    BrightData = {p1}
    IPRoyal = {}
    PrimaryProvider = "brightdata"
    Gateway = Gateway
    Ids = {i1, i2}
    Handlers = {h1, h2}
    Faults = {"seed", "sql", "session"}
    MaxScore = 5
    Penalty = 2
    Reward = 5
    NoProxy = NoProxy
    NoOwner = NoOwner
    NoRow = NoRow
    NoClient = NoClient
SYMMETRY Symmetry
INVARIANTS TypeOK ExclusiveUse ThreeStrikes
PROPERTY DeletionLeavesNone
