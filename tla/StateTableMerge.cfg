\* The process may panic with five workers (see StateTableMergeFive.cfg), and
\* then it stops.
CONSTANTS
    Workers = {w1, w2, w3, w4, w5}
    HasNextBatch = TRUE
    AllowEarlyNextBatchExecution = TRUE
SPECIFICATION FairSpec
CHECK_DEADLOCK FALSE
INVARIANTS
    NoTableLost
    NoTableTwice
    PublishedComplete
PROPERTIES
    ImplementsGatherAll
    AllReachConstruct
