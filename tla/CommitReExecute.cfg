CONSTANTS
    Workers = {w1, w2, w3}
    t1 = t1
    t2 = t2
    t3 = t3
    t4 = t4
    t5 = t5
    componentsQueue <- TwoComponents
    Singles = {t5}
SPECIFICATION FairSpec
INVARIANTS
    EveryTxDecided
PROPERTIES
    ResultFrozen
    ImplementsGatherAll
    AllLeave
