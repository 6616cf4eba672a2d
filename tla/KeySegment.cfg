SPECIFICATION Spec
CONSTANTS
    NoOwner = NoOwner
    NoKey = NoKey
    p1 = p1
    p2 = p2
    a = a
    b = b
    c = c
    k1 = k1
    k2 = k2
    Procs <- MCProcs
    Owners <- MCOwners
    SecKeys <- MCSecKeys
    KeyIDs <- MCKeyIDs
    MaxNode <- MCMaxNode
SYMMETRY Sym
INVARIANTS TypeOK OneSlotPerOwner NoHoles
PROPERTIES KeysSurvive ImplementsKeyMap
