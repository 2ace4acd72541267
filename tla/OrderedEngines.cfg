\* The engines end.
CONSTANTS
    MVThreads = 2
    MVWorkloads <- WithReader
    SampleSize = 5
    SChainThreads = 3
    SChainWorkloads <- Fours
    NumWorkers = 3
    PilotfishWorkloads <- Fours
    QueCCWorkloads <- Sparse
    Validators = 2
    ThunderboltWorkloads <- Played
SPECIFICATION FairSpec
CHECK_DEADLOCK FALSE
INVARIANTS
    MVTimestampOrder
    SChainAfterWriters
    SChainLocksExact
    QueCCUndoExact
PROPERTIES
    ImplementsConflictOrder
    OrderedEnginesFinish
