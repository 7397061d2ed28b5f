SPECIFICATION Spec
CONSTANTS
    N = 5
    MaxRuns = 1
    sa = sa
    sb = sb
    StoreIds = {sa, sb}
    Backend = Backend
    Graphs <- MCGraphs
    HasDeadline = TRUE
    MaxFailures = 0
INVARIANTS
    SentGraphsArrive
CHECK_DEADLOCK FALSE
