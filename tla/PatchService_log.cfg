SPECIFICATION Spec
CONSTANTS
    qa = qa
    qb = qb
    Quads = {qa, qb}
    Calls = {c1, c2, c3, c4}
    Update <- MCUpdate
    None = None
    MaxTime = 2
    MaxFailures = 1
SYMMETRY Symmetry
INVARIANTS
    TypeOK
    LogFoldsToStore
    RevertsAreLinked
CHECK_DEADLOCK FALSE
