SPECIFICATION Spec
CONSTANTS
    NoConn = NoConn
    Reactor = Reactor
    c1 = c1
    c2 = c2
    c3 = c3
    w1 = w1
    w2 = w2
    Conns <- MCConns
    Workers <- MCWorkers
    FDs <- MCFDs
    EMFILE = 24
    Outcomes <- AnswerOrRefuse
    Mishaps <- NoMishaps
    MaxErrnos = 0
CHECK_DEADLOCK FALSE
PROPERTIES OneThreadPerSocket
