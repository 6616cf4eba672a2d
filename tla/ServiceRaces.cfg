SPECIFICATION Spec
CONSTANTS
    NoOwner = NoOwner
    NoKey = NoKey
    NoClient = NoClient
    Unsettled = Unsettled
    c1 = c1
    c2 = c2
    w1 = w1
    w2 = w2
    Clients <- MCClients
    Workers <- MCWorkers
    Menu <- OneConsults
    MaxConns <- TwiceOnce
    Mishaps <- Nothing
    MaxNode = 2
    MaxRestarts = 1
    MaxFaults = 1
    MaxEdits = 0
SYMMETRY WorkerSym
CHECK_DEADLOCK FALSE
INVARIANTS TypeOK SettledKeyKept BothSidesAgree SoloNumbersUnique
PROPERTIES CheckDecidesRight
