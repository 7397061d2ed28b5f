SPECIFICATION FairSpec
CONSTANTS
    w1 = w1
    w2 = w2
    v1 = v1
    v2 = v2
    Callers <- MCCallers
    Kinds = {"persistent", "durable", "readOnly"}
    Writers = {w1, w2}
    Savers = {v1, v2}
    Ticks = {t1, t2}
    MaxSaves <- MCSaves
    MaxMoves <- MCMoves
    MaxEdits = 1
    MaxStores = 4
    MaxFailures = 1
    MaxLives = 2
    NoFile = NoFile
INVARIANTS
    TypeOK
    SkipsOnlySaved
    FollowsHead
PROPERTIES
    DiskAdvances
    EverySettledWriteIsSaved
CHECK_DEADLOCK FALSE
