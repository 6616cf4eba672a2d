SPECIFICATION Spec
CONSTANTS
    NoConn = NoConn
    Reactor = Reactor
    c1 = c1
    c2 = c2
    c3 = c3
    w1 = w1
    w2 = w2
    Conns <- MCConns
    Workers <- MCWorkers
    FDs <- MCFDs
    EMFILE = 24
    Outcomes <- AllOutcomes
    Mishaps <- AllMishaps
    MaxErrnos = 1
SYMMETRY Sym
CHECK_DEADLOCK FALSE
INVARIANTS TypeOK AnswersReachTheirClient OnlyOwnConnectionCut HandledOnce
