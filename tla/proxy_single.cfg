SPECIFICATION Spec
CONSTANTS
    BrightData = {}
    IPRoyal = {p1, p2}
    PrimaryProvider = "brightdata"
    Gateway = Gateway
    Ids = {i1, i2}
    Handlers = {h1, h2}
    Faults = {"session", "restart"}
    MaxScore = 0
    Penalty = 0
    Reward = 0
    NoProxy = NoProxy
    NoOwner = NoOwner
    NoRow = NoRow
    NoClient = NoClient
SYMMETRY Symmetry
VIEW HoldingsView
INVARIANT OneProxyEach
PROPERTY DeletionLeavesNone
