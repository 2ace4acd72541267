\* The engine ends.
CONSTANTS
    AriaThreads = 1
    AriaWorkloads <- None
    HarmonyThreads = 3
    HarmonyWorkloads <- Diamond
    OptMEWorkloads <- None
SPECIFICATION Spec
CHECK_DEADLOCK FALSE
INVARIANTS
    FallbackInOrder
