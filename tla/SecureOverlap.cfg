SPECIFICATION Spec
CONSTANTS
    c1 = c1
    c2 = c2
    w1 = w1
    w2 = w2
    Clients = {c1, c2}
    Server = server
    Workers = {w1, w2}
    NoOwner = noOwner
    NoKey <- ZeroKey
    Slots = {1, 2}
    TextsOf <- Sayings
    NewKeys <- Keys3
    Junk <- JunkKey
    Sealed <- AllSealed
    Opened <- AllOpened
    MaxSent = 1
    Mishaps = {"count"}
    Nothing = nothing
SYMMETRY Sym
INVARIANTS OrderedIsUnderstood SealedUnderItsNumber
