\* The engines end.
CONSTANTS
    AriaThreads = 3
    AriaWorkloads <- AriaBlocks
    HarmonyThreads = 2
    HarmonyWorkloads <- HarmonyBlocks
    OptMEWorkloads <- OptMEBlocks
SPECIFICATION FairSpec
CHECK_DEADLOCK FALSE
INVARIANTS
    AriaSerializable
    AriaThreadOrder
    AriaSeesColumn
    HarmonyCommitsApart
    HarmonyAppliesAll
    HarmonyNoLeftovers
    OptMECountsWriters
    OptMEEpochsApart
PROPERTIES
    EpochEnginesFinish
