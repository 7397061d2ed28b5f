SPECIFICATION Spec
CONSTANTS
    Relations <- MCRelations
    TupleRelations <- MCTuples
    Constants = {"a", "b"}
    Var = "?x"
    Blank = "_:b"
    RuleSets <- MCRuleSets
    Inputs <- MCInputs
    MaxIterations = 3
    MaxFailures = 1
INVARIANTS
    TypeOK
    ConvergedIsTheModel
    EndsForAReason
CHECK_DEADLOCK FALSE
