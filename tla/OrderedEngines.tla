--------------------------- MODULE OrderedEngines ---------------------------
(***************************************************************************)
(* The baselines that decide on the order of a block before they execute   *)
(* it, side by side: which of them runs is chosen at the start.  The       *)
(* variables of the engines that do not run are unused.                    *)
(***************************************************************************)
EXTENDS Integers, Sequences, FiniteSets

CONSTANTS
    MVThreads, MVWorkloads, SampleSize,
    SChainThreads, SChainWorkloads,
    NumWorkers,         \* of Pilotfish and of QueCC
    PilotfishWorkloads, QueCCWorkloads,
    Validators,         \* the workers of Thunderbolt
    ThunderboltWorkloads

VARIABLES
    engine,             \* "mvschedo", "schain", "pilotfish", "quecc" or "thunderbolt"
    txs,
    \* MVSchedO
    hotKeys, maxReadTS, versions, status, LocalGet, dependencies, done, tx, op,
    mvAt, finished,
    \* SChain
    lockIndex, isWrite, dispatcher, inactiveTxs, newInactiveTxs, activeTxs,
    finishTxNumber, finishTxSum, activeTxsChan, signals, closed, running, joined,
    \* Pilotfish, QueCC and Thunderbolt
    order, edges, indegree, remaining, ready, completed, at, current,
    \* QueCC
    lastWriter, commitDeps, commitDependents, undoLog, visit, progressed,
    \* Thunderbolt
    jobs, playing, preplayed, failed,
    \* QueCC and Thunderbolt
    phase, committed

M == INSTANCE MVSchedO WITH at <- mvAt
S == INSTANCE SChain
P == INSTANCE Pilotfish WITH Workloads <- PilotfishWorkloads
Q == INSTANCE QueCC WITH Workloads <- QueCCWorkloads
T == INSTANCE Thunderbolt WITH Workloads <- ThunderboltWorkloads, NumWorkers <- Validators

ASSUME Assumptions ==
    /\ M!MVThreadsAssumption /\ M!MVWorkloadsAssumption
    /\ S!SChainThreadsAssumption /\ S!SChainBlocksAssumption
    /\ P!NumWorkersAssumption /\ T!NumWorkersAssumption
    /\ P!WorkloadsAssumption /\ Q!WorkloadsAssumption /\ T!WorkloadsAssumption

mvVars ==
    <<hotKeys, maxReadTS, versions, status, LocalGet, dependencies, done, tx, op,
      mvAt, finished>>
schainVars ==
    <<lockIndex, isWrite, dispatcher, inactiveTxs, newInactiveTxs, activeTxs,
      finishTxNumber, finishTxSum, activeTxsChan, signals, closed, running, joined>>
schedulerVars == <<order, edges, indegree, remaining, ready, completed, at, current>>
queccVars == <<lastWriter, commitDeps, commitDependents, undoLog, visit, progressed>>
thunderboltVars == <<jobs, playing, preplayed, failed>>
endVars == <<phase, committed>>
vars == <<engine, txs, mvVars, schainVars, schedulerVars, queccVars, thunderboltVars, endVars>>

Unused == "unused"

NoMV ==
    /\ hotKeys = Unused /\ maxReadTS = Unused /\ versions = Unused
    /\ status = Unused /\ LocalGet = Unused /\ dependencies = Unused
    /\ done = Unused /\ tx = Unused /\ op = Unused
    /\ mvAt = [w \in M!Workers |-> Unused] /\ finished = TRUE

NoSChain ==
    /\ lockIndex = Unused /\ isWrite = Unused /\ dispatcher = Unused
    /\ inactiveTxs = Unused /\ newInactiveTxs = Unused /\ activeTxs = Unused
    /\ finishTxNumber = Unused /\ finishTxSum = Unused
    /\ activeTxsChan = Unused /\ signals = Unused /\ closed = Unused
    /\ running = [w \in S!Workers |-> 0] /\ joined = S!Workers

Nowhere == [w \in P!Workers \cup T!Workers |-> Unused]

NoScheduler ==
    /\ order = <<>> /\ edges = Unused /\ indegree = Unused
    /\ remaining = Unused /\ ready = Unused /\ completed = {}
    /\ at = Nowhere /\ current = [w \in P!Workers |-> 0]

NoQueCC ==
    /\ lastWriter = Unused /\ commitDeps = Unused /\ commitDependents = Unused
    /\ undoLog = Unused /\ visit = Unused /\ progressed = Unused

NoThunderbolt ==
    /\ jobs = Unused /\ playing = [w \in T!Workers |-> 0]
    /\ preplayed = Unused /\ failed = Unused

NoEnd == phase = Unused /\ committed = Unused

Init ==
    \/ /\ engine = "mvschedo"
       /\ M!Init
       /\ NoSChain /\ NoScheduler /\ NoQueCC /\ NoThunderbolt /\ NoEnd
    \/ /\ engine = "schain"
       /\ S!Init
       /\ NoMV /\ NoScheduler /\ NoQueCC /\ NoThunderbolt /\ NoEnd
    \/ /\ engine = "pilotfish"
       /\ P!Init
       /\ NoMV /\ NoSChain /\ NoQueCC /\ NoThunderbolt /\ NoEnd
    \/ /\ engine = "quecc"
       /\ Q!Init
       /\ NoMV /\ NoSChain /\ NoThunderbolt
    \/ /\ engine = "thunderbolt"
       /\ T!Init
       /\ NoMV /\ NoSChain /\ NoQueCC

Next ==
    \/ /\ engine = "mvschedo"
       /\ M!Next
       /\ UNCHANGED <<engine, schainVars, schedulerVars, queccVars, thunderboltVars, endVars>>
    \/ /\ engine = "schain"
       /\ S!Next
       /\ UNCHANGED <<engine, mvVars, schedulerVars, queccVars, thunderboltVars, endVars>>
    \/ /\ engine = "pilotfish"
       /\ P!Next
       /\ UNCHANGED <<engine, mvVars, schainVars, queccVars, thunderboltVars, endVars>>
    \/ /\ engine = "quecc"
       /\ Q!Next
       /\ UNCHANGED <<engine, mvVars, schainVars, thunderboltVars>>
    \/ /\ engine = "thunderbolt"
       /\ T!Next
       /\ UNCHANGED <<engine, mvVars, schainVars, queccVars>>

Spec == Init /\ [][Next]_vars

\* Each engine's own fairness; its actions cannot happen in the others' states.
FairSpec ==
    /\ Spec
    /\ M!Fairness
    /\ S!Fairness
    /\ \A w \in P!Workers : WF_(P!vars)(engine = "pilotfish" /\ P!Worker(w))
    /\ \A w \in Q!Workers : WF_(Q!vars)(engine = "quecc" /\ Q!Worker(w))
    /\ WF_(Q!vars)(Q!StartCommit)
    /\ WF_(Q!vars)(Q!Visit)
    /\ WF_(T!vars)(T!Plan)
    /\ WF_(T!vars)(T!Commit)
    /\ \A w \in T!Workers : WF_(T!vars)(engine = "thunderbolt" /\ T!Worker(w))

-----------------------------------------------------------------------------
(* The properties of the engines.                                          *)

\* MVSchedO executes a block as if in the order of its timestamps.
MVTimestampOrder == engine = "mvschedo" => M!MVTimestampOrder

\* SChain runs a transaction after the earlier writers of its keys.
SChainAfterWriters == engine = "schain" => S!SChainAfterWriters

\* SChain's locks are those of the transactions that have been scheduled.
SChainLocksExact == engine = "schain" => S!SChainLocksExact

\* Undoing QueCC's writes from the end restores the state before the block.
QueCCUndoExact == engine = "quecc" => Q!QueCCUndoExact

\* What the schedulers by dependencies promise.
CO == INSTANCE ConflictOrder WITH
    block <- txs,
    running <- {current[w] : w \in DOMAIN current} \ {0}

\* Pilotfish, QueCC and Thunderbolt implement it: of two transactions that
\* conflict the later one starts only after the earlier one has completed.
ImplementsConflictOrder == CO!Spec

\* Every engine gets to the end of the block and all its workers with it.
OrderedEnginesFinish ==
    <>(\/ engine = "mvschedo" /\ M!AllCommitted
       \/ engine = "schain" /\ S!AllRun
       \/ engine = "pilotfish" /\ P!AllCompleted
       \/ engine = "quecc" /\ Q!AllCommitted
       \/ engine = "thunderbolt" /\ T!Decided)
=============================================================================
