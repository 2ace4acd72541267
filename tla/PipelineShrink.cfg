CONSTANTS
    Workers = {w1, w2}
    BatchCounts <- Shrinking
SPECIFICATION Spec
INVARIANTS
    IndexInRange
