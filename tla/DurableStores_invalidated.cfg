SPECIFICATION Spec
CONSTANTS
    w1 = w1
    w2 = w2
    v1 = v1
    v2 = v2
    Callers <- MCCallers
    Kinds = {"persistent", "durable", "readOnly"}
    Writers = {w1, w2}
    Savers = {v1, v2}
    Ticks = {}
    MaxSaves <- MCSaves
    MaxMoves <- MCMoves
    MaxEdits = 1
    MaxStores = 3
    MaxFailures = 0
    MaxLives = 1
    NoFile = NoFile
PROPERTIES
    NothingDroppedUnsaved
CHECK_DEADLOCK FALSE
