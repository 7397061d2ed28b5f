SPECIFICATION FairSpec
CONSTANTS
    N = 5
    MaxRuns = 2
    sa = sa
    sb = sb
    StoreIds = {sa, sb}
    Backend = Backend
    Graphs <- MCGraphs
    HasDeadline = TRUE
    MaxFailures = 1
INVARIANTS
    TypeOK
    AnswersAreWhole
    RunsAreSeparate
    StoresAreGone
PROPERTIES
    EveryRunEnds
CHECK_DEADLOCK FALSE
