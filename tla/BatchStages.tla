---------------------------- MODULE BatchStages ----------------------------
(***************************************************************************)
(* The stages that one batch of the Janus pipeline goes through, side by   *)
(* side: which of them is looked at is chosen at the start.  StateTableMerge *)
(* is here with an even number of workers and without early execution,     *)
(* where, unlike with an odd one, no worker ever finds the queue empty.    *)
(* The variables of the other stages are unused.                           *)
(***************************************************************************)
EXTENDS Integers, Sequences, FiniteSets

CONSTANTS
    CpuCores, WaterMarkAlpha, WaterMarkBeta, MaxTxs,
    Ahead, Staying, LongTxs, ShortTxs, Conflicting,
    MergeWorkers,
    TableTxs, TableAddrs, TableWorkers, TableWorkloads,
    GraphTxs, GraphAddrs, GraphWorkers, GraphWorkloads,
    ComponentTxs, Costs, Solvers

VARIABLES
    stage,      \* "generate", "execute", "merge", "tables", "graph" or "solve"
    \* BatchGeneration
    txs, txIdx, batches, currentBatch, longTxCount, totalTxCount,
    \* Speculation
    allowEarlyNextBatchExecution, beforeDone, finished, NextTxIndex, TxIndex,
    IsRuned, rwSet, ran, ThreadRWSets, finishedThreads, dagNodes, at, queue, tx, began,
    \* StateTableMerge
    phase, CompletionOrder, finishedTreadNum, executionDone, pairIndex, table,
    pair, stateTablesQueue, completedMergeCount, published, crashed,
    \* StateTables
    rwSets, listed, unbuilt, threadTables, gathered, stateTables, writeSet, isNil,
    \* ConflictGraph
    tables, untaken, dags, pairDag, merging, todo, links, CommittedTxs,
    componentsQueue,
    \* MWIS
    dagEdges, nodes, weights, solver, remaining, result, failed,
    \* all but Speculation
    done

B == INSTANCE BatchGeneration
S == INSTANCE Speculation WITH executionDone <- beforeDone
M == INSTANCE StateTableMerge WITH
    Workers <- MergeWorkers, HasNextBatch <- TRUE, AllowEarlyNextBatchExecution <- FALSE
T == INSTANCE StateTables WITH
    Txs <- TableTxs, Addrs <- TableAddrs, Workers <- TableWorkers,
    Workloads <- TableWorkloads, ThreadRWSets <- listed, tables <- threadTables,
    crashed <- isNil
G == INSTANCE ConflictGraph WITH
    Txs <- GraphTxs, Addrs <- GraphAddrs, Workers <- GraphWorkers,
    Workloads <- GraphWorkloads
I == INSTANCE MWIS WITH Txs <- ComponentTxs

ASSUME Assumptions ==
    /\ B!CoresAssumption /\ B!WaterMarkAssumption /\ B!MaxTxsAssumption
    /\ S!WorkersAssumption /\ S!QueuesAssumption
    /\ M!WorkersAssumption /\ Cardinality(MergeWorkers) % 2 = 0
    /\ T!TxsAssumption /\ T!WorkloadsAssumption
    /\ G!TxsAssumption /\ G!WorkersAssumption /\ G!WorkloadsAssumption
    /\ I!TxsAssumption /\ I!CostsAssumption

generateVars == <<txs, txIdx, batches, currentBatch, longTxCount, totalTxCount>>
executeVars ==
    <<allowEarlyNextBatchExecution, beforeDone, finished, NextTxIndex, TxIndex,
      IsRuned, rwSet, ran, ThreadRWSets, finishedThreads, dagNodes, at, queue, tx, began>>
mergeVars ==
    <<phase, CompletionOrder, finishedTreadNum, executionDone, pairIndex, table,
      pair, stateTablesQueue, completedMergeCount, published, crashed>>
tableVars ==
    <<rwSets, listed, unbuilt, threadTables, gathered, stateTables, writeSet, isNil>>
graphVars ==
    <<tables, untaken, dags, pairDag, merging, todo, links, CommittedTxs,
      componentsQueue>>
solveVars == <<dagEdges, nodes, weights, solver, remaining, result, failed>>
vars ==
    <<stage, generateVars, executeVars, mergeVars, tableVars, graphVars, solveVars, done>>

Unused == "unused"

NoGenerate ==
    /\ txs = Unused /\ txIdx = Unused /\ batches = Unused
    /\ currentBatch = Unused /\ longTxCount = Unused /\ totalTxCount = Unused

NoExecute ==
    /\ allowEarlyNextBatchExecution = Unused /\ beforeDone = Unused
    /\ finished = Unused /\ NextTxIndex = Unused /\ TxIndex = Unused
    /\ IsRuned = Unused /\ rwSet = Unused /\ ran = Unused
    /\ ThreadRWSets = Unused /\ finishedThreads = Unused /\ dagNodes = Unused
    /\ at = Unused /\ queue = Unused /\ tx = Unused /\ began = Unused

NoMerge ==
    /\ phase = Unused /\ CompletionOrder = Unused /\ finishedTreadNum = Unused
    /\ executionDone = Unused /\ pairIndex = Unused /\ table = Unused
    /\ pair = Unused /\ stateTablesQueue = Unused
    /\ completedMergeCount = Unused /\ published = Unused /\ crashed = Unused

NoTables ==
    /\ rwSets = Unused /\ listed = Unused /\ unbuilt = Unused
    /\ threadTables = Unused /\ gathered = Unused /\ stateTables = Unused
    /\ writeSet = Unused /\ isNil = Unused

NoGraph ==
    /\ tables = Unused /\ untaken = Unused /\ dags = Unused
    /\ pairDag = Unused /\ merging = Unused /\ todo = Unused
    /\ links = Unused /\ CommittedTxs = Unused /\ componentsQueue = Unused

NoSolve ==
    /\ dagEdges = Unused /\ nodes = Unused /\ weights = Unused
    /\ solver = Unused /\ remaining = Unused /\ result = Unused
    /\ failed = Unused

Init ==
    \/ /\ stage = "generate"
       /\ B!Init
       /\ NoExecute /\ NoMerge /\ NoTables /\ NoGraph /\ NoSolve
    \/ /\ stage = "execute"
       /\ S!Init
       /\ done = Unused
       /\ NoGenerate /\ NoMerge /\ NoTables /\ NoGraph /\ NoSolve
    \/ /\ stage = "merge"
       /\ M!Init
       /\ NoGenerate /\ NoExecute /\ NoTables /\ NoGraph /\ NoSolve
    \/ /\ stage = "tables"
       /\ T!Init
       /\ NoGenerate /\ NoExecute /\ NoMerge /\ NoGraph /\ NoSolve
    \/ /\ stage = "graph"
       /\ G!Init
       /\ NoGenerate /\ NoExecute /\ NoMerge /\ NoTables /\ NoSolve
    \/ /\ stage = "solve"
       /\ I!Init
       /\ NoGenerate /\ NoExecute /\ NoMerge /\ NoTables /\ NoGraph

Next ==
    \/ /\ stage = "generate"
       /\ B!Next
       /\ UNCHANGED <<stage, executeVars, mergeVars, tableVars, graphVars, solveVars>>
    \/ /\ stage = "execute"
       /\ S!Next
       /\ UNCHANGED <<stage, generateVars, mergeVars, tableVars, graphVars, solveVars, done>>
    \/ /\ stage = "merge"
       /\ M!Next
       /\ UNCHANGED <<stage, generateVars, executeVars, tableVars, graphVars, solveVars>>
    \/ /\ stage = "tables"
       /\ T!Next
       /\ UNCHANGED <<stage, generateVars, executeVars, mergeVars, graphVars, solveVars>>
    \/ /\ stage = "graph"
       /\ G!Next
       /\ UNCHANGED <<stage, generateVars, executeVars, mergeVars, tableVars, solveVars>>
    \/ /\ stage = "solve"
       /\ I!Next
       /\ UNCHANGED <<stage, generateVars, executeVars, mergeVars, tableVars, graphVars>>

Spec == Init /\ [][Next]_vars

\* The workers of the stages with liveness properties are threads that keep
\* running.
FairSpec ==
    /\ Spec
    /\ \A w \in S!Workers : WF_(S!vars)(stage = "execute" /\ S!Worker(w))
    /\ \A w \in MergeWorkers : WF_(M!vars)(stage = "merge" /\ M!Step(w))

----------------------------------------------------------------------------
(* The properties of the stages *)

\* GenerateBatches cuts the block into consecutive pieces, and each is as full
\* as the thresholds ask.
BatchesExact == stage = "generate" => B!WatermarksCut /\ B!BatchesFull

\* Every transaction is listed once, with a set, and one that reads what the
\* batch before wrote has been executed since.
ListsSettled ==
    stage = "execute" => S!ListedOnce /\ S!SetPresent /\ S!ConflictsRunAgain

\* An overtaken early execution replaces a listed set at most once, and none that a
\* graph has taken.
SetsSettle ==
    [][stage = "execute" => \A t \in S!Txs : S!ReplacesOvertaking(t)]_vars

\* Every table is sorted and has the operations of the transactions it was made
\* from, and the published one groups into what the conflict graph starts from.
ListsExact == stage = "tables" => T!ListsExact /\ T!WriteSetExact /\ T!GroupedOnce

\* Graphs, components and union-find forests are those of the conflicts.
GraphExact == stage = "graph" => G!ExactGraph /\ G!ExactComponents /\ G!RanksGrow

\* What is committed has no conflict and leaves nothing out without one.
Independent == stage = "solve" => I!Independent /\ I!Maximal

\* The solvers commit as much as they promise.
Optimal == stage = "solve" => I!Optimal /\ I!GreedyBound

\* Every worker gets through the execution of a batch and through the merge of
\* the tables of an even number of workers.
BatchStagesFinish ==
    <>CASE stage = "execute" -> S!AllJoined
        [] stage = "merge"   -> \A w \in MergeWorkers : phase[w] = "construct"
        [] OTHER             -> TRUE
=============================================================================
