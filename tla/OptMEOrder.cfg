\* The engine ends.
CONSTANTS
    AriaThreads = 1
    AriaWorkloads <- None
    HarmonyThreads = 1
    HarmonyWorkloads <- None
    OptMEWorkloads <- ThreeTxs
SPECIFICATION Spec
CHECK_DEADLOCK FALSE
INVARIANTS
    ReadsBeforeWrites
