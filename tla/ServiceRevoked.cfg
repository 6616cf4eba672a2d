SPECIFICATION Spec
CONSTANTS
    NoOwner = NoOwner
    NoKey = NoKey
    NoClient = NoClient
    Unsettled = Unsettled
    c1 = c1
    c2 = c2
    w1 = w1
    w2 = w2
    Clients <- MCClients
    Workers <- MCWorkers
    Menu <- OneConsults
    MaxConns <- Thrice
    Mishaps <- Nothing
    MaxNode = 1
    MaxRestarts = 0
    MaxFaults = 0
    MaxEdits = 0
CHECK_DEADLOCK FALSE
PROPERTIES RevokedKeyRefused
