SPECIFICATION Spec
CONSTANTS
    Ids = {e1}
    Ops = {w1, w2, w3}
    Refreshes = {r1}
    Absent = Absent
    Preloads = {TRUE, FALSE}
    MaxClock = 1
    MaxFailures = 0
    MaxWrites = 0
SYMMETRY Symmetry
INVARIANTS
    TypeOK
    RevisionNamesContent
PROPERTY
    CreatesLandOnNothing
CHECK_DEADLOCK FALSE
