SPECIFICATION Spec
CONSTANTS
    MaxSaves = 2
    Prunes = {p1}
    Moves = {}
    Drops = {}
    Shape <- MCShape
    Preloads = {TRUE}
    MaxFailures = 0
    MaxRestarts = 0
    MaxEvents = 1
INVARIANT VersionsAreWhole
CHECK_DEADLOCK FALSE
