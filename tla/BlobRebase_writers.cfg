SPECIFICATION FairSpec
CONSTANTS
    qa = qa
    qb = qb
    qx = qx
    w1 = w1
    w2 = w2
    Quads = {qa, qb, qx}
    InGraph = {qa, qb}
    Blank = {qb}
    Absent = Absent
    Writers = {w1, w2}
    Checkpointers = {c1}
    Update <- MCUpdate
    EtagKinds = {TRUE, FALSE}
    MaxAttempts = 2
    MayOmitEtag = TRUE
    MaxFailures = 1
    MaxRemovals = 1
    MaxEdits = 1
INVARIANTS
    TypeOK
    AnswersAreTrue
    ExhaustedOnlyWhenOvertaken
PROPERTIES
    SerialUpdates
    EveryCallLands
CHECK_DEADLOCK FALSE
