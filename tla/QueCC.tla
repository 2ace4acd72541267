-------------------------------- MODULE QueCC --------------------------------
(***************************************************************************)
(* The QueCC baseline on one block, whose read and write sets are known    *)
(* from a first execution.  The keys are divided into ranges.  Each        *)
(* planner takes a piece of the block and queues its transactions by the   *)
(* ranges they use; within a queue a transaction depends on the one before *)
(* it, and the first of a queue on the last of the range's queues of the   *)
(* planners before.  An execution notes whose writes it has read and what  *)
(* its own replace; a transaction is committed when all it has read from   *)
(* are.  The durability log is left out: nothing reads it.                 *)
(***************************************************************************)
EXTENDS DependencyScheduler

VARIABLES
    \* batchRuntime
    lastWriter,
    \* the transactions
    commitDeps,
    commitDependents,   \* [transaction -> [dependent -> how often it is listed]]
    undoLog,            \* of all transactions, as [tx, key, before]
    \* commitPlan
    phase,              \* "execute", "commit", "end" or "panic"
    visit,              \* the next transaction of the pass
    progressed,
    committed

runtimeVars == <<lastWriter, commitDeps, commitDependents, undoLog>>
commitVars == <<phase, visit, progressed, committed>>
vars == <<txs, planVars, schedulerVars, workerVars, runtimeVars, commitVars>>

-----------------------------------------------------------------------------
(* planBlock                                                               *)

\* keyToRange: a hash, by which any range can have any key.
KeyToRange(k) == k % NumWorkers
Ranges == Workers

\* rebuildRanges: a transaction without keys has the range of its number.
RangeIDs(t) ==
    IF Used(t) = {} THEN {KeyToRange(t)} ELSE {KeyToRange(k) : k \in Used(t)}

PlannerCount == IF Len(txs) < NumWorkers THEN Len(txs) ELSE NumWorkers
Planners == 0 .. PlannerCount - 1

\* chunkBounds
ChunkStart(pg) == (pg * Len(txs)) \div PlannerCount
Chunk(pg) == ChunkStart(pg) + 1 .. ChunkStart(pg + 1)

\* A queue is in the order of the block, and so the set of its transactions
\* says all of it.
Queue(pg, r) == {t \in Chunk(pg) : r \in RangeIDs(t)}

\* Variant: a queue follows that of the planner just before, if it has one.
PredecessorNext(pg, r) == {p \in Planners : p = pg - 1 /\ Queue(p, r) # {}}

\* The nearest queue of the range before pg's that is not empty.
Predecessor(pg, r) ==
    LET full == {p \in Planners : p < pg /\ Queue(p, r) # {}}
    IN  {p \in full : \A q \in full : q <= p}

\* u follows t in a queue, or begins one that comes after that which t ends.
FollowsIn(pg, r, t, u) ==
    /\ {t, u} \subseteq Queue(pg, r)
    /\ t < u
    /\ \A v \in Queue(pg, r) : v <= t \/ u <= v

FollowsBetween(pg, r, t, u) ==
    /\ u \in Queue(pg, r)
    /\ \A v \in Queue(pg, r) : u <= v
    /\ \E p \in Predecessor(pg, r) : t \in Queue(p, r) /\ \A v \in Queue(p, r) : v <= t

\* buildDependencies, in the queues and between the queues of a range.
BuildDependencies ==
    {e \in Txs \X Txs :
        \E pg \in Planners : \E r \in Ranges :
            FollowsIn(pg, r, e[1], e[2]) \/ FollowsBetween(pg, r, e[1], e[2])}

CommonQueue(t) == 0

Init ==
    /\ InitScheduler
    /\ order = [i \in 1 .. Len(txs) |-> i]
    /\ InitPlan(BuildDependencies, CommonQueue)
    /\ at = [w \in Workers |-> "next"]
    /\ lastWriter = [k \in Keys |-> 0]
    /\ commitDeps = [t \in Txs |-> 0]
    /\ commitDependents = [t \in Txs |-> [u \in Txs |-> 0]]
    /\ undoLog = {}
    /\ phase = "execute"
    /\ visit = 1
    /\ progressed = FALSE
    /\ committed = {}

-----------------------------------------------------------------------------
(* executePlan                                                             *)

NextTx(w) ==
    /\ NextFrom(w, 0, remaining = 0)
    /\ UNCHANGED <<runtimeVars, commitVars>>

\* The reads of t in which it finds another's write, from that writer.
ReadsFrom(u, t) == IF u = t THEN 0 ELSE Cardinality({k \in txs[t].reads : lastWriter[k] = u})

\* recordAccess and the execution.
Execute(w) ==
    /\ at[w] = "run"
    /\ LET t == current[w]
       IN  /\ commitDeps' = [commitDeps EXCEPT ![t] =
                  @ + Cardinality({k \in txs[t].reads : lastWriter[k] \notin {0, t}})]
           /\ commitDependents' =
                  [u \in Txs |-> [commitDependents[u] EXCEPT ![t] = @ + ReadsFrom(u, t)]]
           /\ undoLog' = undoLog \cup {[tx |-> t, key |-> k, before |-> lastWriter[k]] : k \in txs[t].writes}
           /\ lastWriter' = [k \in Keys |-> IF k \in txs[t].writes THEN t ELSE lastWriter[k]]
    /\ at' = [at EXCEPT ![w] = "complete"]
    /\ UNCHANGED <<txs, planVars, schedulerVars, current, commitVars>>

Complete(w) ==
    /\ CompleteTx(w, CommonQueue)
    /\ UNCHANGED <<runtimeVars, commitVars>>

Worker(w) ==
    \/ NextTx(w)
    \/ Execute(w)
    \/ Complete(w)

-----------------------------------------------------------------------------
(* commitPlan: passes over the block until all of it is committed.         *)

StartCommit ==
    /\ phase = "execute"
    /\ AllEnded
    /\ phase' = "commit"
    /\ UNCHANGED <<txs, planVars, schedulerVars, workerVars, runtimeVars, visit, progressed, committed>>

CanCommit(t) == t \notin committed /\ commitDeps[t] = 0

Visit ==
    /\ phase = "commit"
    /\ LET t == visit
           commits == CanCommit(t)
           moved == progressed \/ commits
       IN  /\ committed' = IF commits THEN committed \cup {t} ELSE committed
           /\ commitDeps' = [u \in Txs |-> commitDeps[u] - (IF commits THEN commitDependents[t][u] ELSE 0)]
           /\ IF t < Len(txs)
              THEN /\ visit' = t + 1
                   /\ progressed' = moved
                   /\ UNCHANGED phase
              ELSE /\ visit' = 1
                   /\ progressed' = FALSE
                   /\ phase' = IF committed' = Txs THEN "end" ELSE IF moved THEN "commit" ELSE "panic"
    /\ UNCHANGED <<txs, planVars, schedulerVars, workerVars, lastWriter, commitDependents, undoLog>>

Next ==
    \/ \E w \in Workers : Worker(w)
    \/ StartCommit
    \/ Visit

Spec == Init /\ [][Next]_vars

\* The workers are goroutines; one that the condition wakes gets the mutex.
Fairness ==
    /\ \A w \in Workers : WF_vars(Worker(w))
    /\ WF_vars(StartCommit)
    /\ WF_vars(Visit)

-----------------------------------------------------------------------------
(* Properties.                                                             *)

\* What a write replaces is what the last transaction before it in the block
\* wrote: undoing the block from its end restores the state before it.
QueCCUndoExact ==
    \A e \in undoLog :
        LET writers == {0} \cup {u \in Txs : u < e.tx /\ e.key \in txs[u].writes}
        IN  e.before \in writers /\ \A u \in writers : u <= e.before

AllCommitted == phase = "end" /\ committed = Txs

\* The workers end, the dependencies of the commits never go round in a
\* circle, and the whole block is committed.
QueCCFinishes == <>AllCommitted
=============================================================================
