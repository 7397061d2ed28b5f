SPECIFICATION Spec
CONSTANTS
    qa = qa
    qb = qb
    qc = qc
    Quads = {qa, qb, qc}
    Blanks <- MCBlanks
    Step <- MCStep
    Programs <- MCPrograms
    MaxMoves = 1
INVARIANTS
    TypeOK
    NetEffectOfProgram
    PatchStandsForProgram
    DeletionsAreExact
    SidesWitnessed
CHECK_DEADLOCK FALSE
