SPECIFICATION Spec
CONSTANTS
    NoOwner = NoOwner
    NoKey = NoKey
    NoClient = NoClient
    Unsettled = Unsettled
    c1 = c1
    c2 = c2
    w1 = w1
    w2 = w2
    Clients <- MCClients
    Workers <- OneWorker
    Menu <- OneConsults
    MaxConns <- TwiceOnce
    Mishaps <- AllMishaps
    MaxNode = 1
    MaxRestarts = 0
    MaxFaults = 1
    MaxEdits = 1
CHECK_DEADLOCK FALSE
INVARIANTS SettledKeyKept BothSidesAgree
