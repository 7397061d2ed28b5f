SPECIFICATION FairSpec
CONSTANTS
    MaxSaves = 3
    Prunes = {p1}
    Moves = {m1}
    Drops = {d1}
    Shape <- MCShape
    Preloads = {TRUE, FALSE}
    MaxFailures = 1
    MaxRestarts = 1
    MaxEvents = 2
INVARIANTS
    TypeOK
    NumbersUnique
    NewestIsCurrent
    PointerFallsBack
    FailuresAreOwn
PROPERTY
    EverySaveIsAnswered
CHECK_DEADLOCK FALSE
