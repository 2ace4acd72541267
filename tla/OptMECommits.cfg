\* The engine ends.
CONSTANTS
    AriaThreads = 1
    AriaWorkloads <- None
    HarmonyThreads = 1
    HarmonyWorkloads <- None
    OptMEWorkloads <- OptMEBlocks
SPECIFICATION Spec
CHECK_DEADLOCK FALSE
INVARIANTS
    EveryTxCommitted
