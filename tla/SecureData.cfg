SPECIFICATION Spec
CONSTANTS
    c1 = c1
    c2 = c2
    w1 = w1
    w2 = w2
    Clients = {c1, c2}
    Server = server
    Workers = {w1, w2}
    NoOwner = noOwner
    NoKey <- ZeroKey
    Slots = {1, 2}
    TextsOf <- Sayings
    NewKeys <- Keys2
    Junk <- JunkKey
    Sealed <- AllSealed
    Opened <- AllOpened
    MaxSent = 2
    Mishaps = {"number", "answer", "kill"}
    Nothing = nothing
SYMMETRY Sym
INVARIANTS TypeOK SameKeyGivesText OrderedIsUnderstood SealedUnderItsNumber
