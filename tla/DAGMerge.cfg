CONSTANTS
    Workers = {w1, w2, w3, w4}
    NumTables = 7
SPECIFICATION FairSpec
INVARIANTS
    TotalMergesExact
PROPERTIES
    ImplementsGatherAll
    AllReachValidation
