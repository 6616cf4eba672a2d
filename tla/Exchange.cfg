SPECIFICATION Spec
CONSTANTS
    NoMsg = NoMsg
    Requests <- MCRequests
    ServerId <- MCServerId
    R2s <- MCR2s
    Numbers <- MCNumbers
    Cuts <- MCCuts
CHECK_DEADLOCK FALSE
INVARIANTS TypeOK DecodersStayOnChain CodecFaithful
PROPERTIES ImplementsDelivery ClientReturns
