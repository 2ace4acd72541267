CONSTANTS
    Workers = {w1, w2, w3}
    BatchCounts <- Growing
SPECIFICATION FairSpec
INVARIANTS
    WorkIsCurrent
    CallerAlone
    EndsWithAll
PROPERTIES
    ImplementsBatchOrder
    AllBlocksDone
