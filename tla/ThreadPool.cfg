SPECIFICATION FairSpec
CONSTANTS
    Reactor = Reactor
    NoOne = NoOne
    w1 = w1
    w2 = w2
    w3 = w3
    Workers <- MCWorkers
    Requests <- MCRequests
    MaxQueue <- MCMaxQueue
INVARIANTS TypeOK ListLockedBelowCapacity NoLostWakeup
PROPERTIES EveryRequestServed
