SPECIFICATION Spec
CONSTANTS
    Admins = {a1, a2}
    Numbers = {n1, n2}
    Names = {x, y}
    Nil = nil
    MaxRows = 2
    MaxWrites = 3
SYMMETRY Symmetry
INVARIANTS TypeOK SyncedListIsRight ReportedUpdateIsStored
PROPERTIES CrashIsFromStaleRow
