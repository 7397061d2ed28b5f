SPECIFICATION FairSpec
CONSTANTS
    Ids = {e1}
    Ops = {w1, w2}
    Refreshes = {r1, r2}
    Absent = Absent
    Preloads = {TRUE, FALSE}
    MaxClock = 0
    MaxFailures = 1
    MaxWrites = 1
INVARIANTS
    OwnWritesVisible
    EphemeralSurvives
    Coherent
PROPERTIES
    SavedUpdatesAreStored
    Converges
CHECK_DEADLOCK FALSE
