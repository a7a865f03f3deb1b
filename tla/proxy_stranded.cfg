SPECIFICATION Spec
CONSTANTS
    BrightData = {p1}
    IPRoyal = {}
    PrimaryProvider = "brightdata"
    Gateway = Gateway
    Ids = {i1}
    Handlers = {h1}
    Faults = {}
    MaxScore = 1
    Penalty = 1
    Reward = 1
    NoProxy = NoProxy
    NoOwner = NoOwner
    NoRow = NoRow
    NoClient = NoClient
SYMMETRY Symmetry
INVARIANT WithoutMeansNone
