CONSTANTS
    CpuCores = 1
    WaterMarkAlpha = 35
    WaterMarkBeta = 55
    MaxTxs = 10
    t1 = t1
    t2 = t2
    Ahead = {w1, w2}
    Staying = {w3}
    LongTxs <- Long
    ShortTxs <- Short
    Conflicting = {t1}
    MergeWorkers = {w1, w2, w3, w4}
    a1 = a1
    a2 = a2
    a3 = a3
    TableTxs <- TableTransactions
    TableAddrs = {a1, a2}
    TableWorkers = {w1, w2, w3}
    TableWorkloads <- Touching
    GraphTxs <- GraphTransactions
    GraphAddrs = {a1, a2, a3}
    GraphWorkers = {w1, w2, w3}
    GraphWorkloads <- Triples
    ComponentTxs <- ComponentTransactions
    Costs = {1, 2, 4}
    Solvers = {"greedy", "costOnly", "exact", "relaxation"}
SPECIFICATION FairSpec
INVARIANTS
    BatchesExact
    ListsSettled
    ListsExact
    GraphExact
    Independent
    Optimal
PROPERTIES
    SetsSettle
    BatchStagesFinish
