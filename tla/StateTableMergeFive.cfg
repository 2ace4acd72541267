CONSTANTS
    Workers = {w1, w2, w3, w4, w5}
    HasNextBatch = TRUE
    AllowEarlyNextBatchExecution = TRUE
SPECIFICATION Spec
CHECK_DEADLOCK FALSE
INVARIANTS
    NoEmptyTake
