------------------------------ MODULE DAGMerge ------------------------------
(***************************************************************************)
(* The construction of the conflict graph of one batch, from the published *)
(* state tables to the one graph the validation starts from.               *)
(*                                                                         *)
(* The workers that reach the stage claim the tables two at a time from a  *)
(* word that packs the next index and a bitmap of the workers that claimed *)
(* (tryGetTaskAndActiveWorker), and add them to a graph of their own.  How *)
(* many graphs there will be is not known beforehand: the worker with the  *)
(* last tables counts the bitmap and writes the number of operations to    *)
(* come into its graph, and merging spreads it.                            *)
(*                                                                         *)
(* A graph is represented by the state tables it was built from and by its *)
(* totalMerges; ConflictGraph models the graphs themselves.                *)
(***************************************************************************)
EXTENDS Integers, Sequences, FiniteSets

CONSTANTS
    Workers,        \* the worker threads
    NumTables       \* len(stateTables): addresses the batch accessed

ASSUME WorkersAssumption == IsFiniteSet(Workers)
\* An empty merged table is nil and never gets here (see the README).
ASSUME NumTablesAssumption == NumTables \in Nat \ {0}

Tables == 0 .. NumTables - 1

Dags == [tables : SUBSET Tables, totalMerges : Int]

\* dags[w] before the worker's first table: nil, or just allocated.
NoDag == [tables |-> {}, totalMerges |-> -1]

VARIABLES
    phase,                \* where each worker is, see Phases
    stateTableIndex,      \* low half of packedState
    constructThreads,     \* high half of packedState
    idx,                  \* the index each worker claimed last
    dags,                 \* dags[w]
    pairDag,              \* the graph each worker took from the queue
    dagQueue,
    completedMergeCount,
    finalDag,             \* the tables in the graph the stage ends with
    done                  \* constructDAG.done

vars == <<phase, stateTableIndex, constructThreads, idx, dags, pairDag, dagQueue,
          completedMergeCount, finalDag, done>>

\* "claim": at the head of tryConstructDAG's loop; "build": holds a claim;
\* "merge": in mergeTwoDags; "finalize": counted the last operation; "wait":
\* spinning on done; "validate": past the spin.
Phases == {"claim", "build", "merge", "finalize", "wait", "validate"}

TypeOK ==
    /\ phase \in [Workers -> Phases]
    /\ stateTableIndex \in Nat
    /\ constructThreads \in SUBSET Workers
    /\ idx \in [Workers -> Nat]
    /\ dags \in [Workers -> Dags]
    /\ pairDag \in [Workers -> Dags]
    /\ dagQueue \in Seq(Dags)
    /\ completedMergeCount \in Nat
    /\ finalDag \in SUBSET Tables
    /\ done \in BOOLEAN

Init ==
    /\ phase = [w \in Workers |-> "claim"]
    /\ stateTableIndex = 0
    /\ constructThreads = {}
    /\ idx = [w \in Workers |-> 0]
    /\ dags = [w \in Workers |-> NoDag]
    /\ pairDag = [w \in Workers |-> NoDag]
    /\ dagQueue = <<>>
    /\ completedMergeCount = 0
    /\ finalDag = {}
    /\ done = FALSE

Goto(w, p) == phase' = [phase EXCEPT ![w] = p]

----------------------------------------------------------------------------
(* tryConstructDAG: claiming and building *)

\* Variant: the bitmap is not part of the word that is swapped, and a worker
\* sets its bit only when it comes back with a graph of its own.
ClaimUnmarked(w) ==
    /\ phase[w] = "claim"
    /\ stateTableIndex < NumTables
    /\ idx' = [idx EXCEPT ![w] = stateTableIndex]
    /\ stateTableIndex' = stateTableIndex + 2
    /\ constructThreads' = IF dags[w] = NoDag THEN constructThreads
                           ELSE constructThreads \cup {w}
    /\ Goto(w, "build")
    /\ UNCHANGED <<dags, pairDag, dagQueue, completedMergeCount, finalDag, done>>

\* Variant: the index moves on by one, as if a claim were one table.
ClaimOne(w) ==
    /\ phase[w] = "claim"
    /\ stateTableIndex < NumTables
    /\ idx' = [idx EXCEPT ![w] = stateTableIndex]
    /\ stateTableIndex' = stateTableIndex + 1
    /\ constructThreads' = constructThreads \cup {w}
    /\ Goto(w, "build")
    /\ UNCHANGED <<dags, pairDag, dagQueue, completedMergeCount, finalDag, done>>

\* The successful compare-and-swap of tryGetTaskAndActiveWorker.
Claim(w) ==
    /\ phase[w] = "claim"
    /\ stateTableIndex < NumTables
    /\ idx' = [idx EXCEPT ![w] = stateTableIndex]
    /\ stateTableIndex' = stateTableIndex + 2
    /\ constructThreads' = constructThreads \cup {w}
    /\ Goto(w, "build")
    /\ UNCHANGED <<dags, pairDag, dagQueue, completedMergeCount, finalDag, done>>

\* Variant: off by one claim.
lastButOne(w) == idx[w] + 3 >= NumTables - 1

\* The worker holds the last pair, or the last table.
LastClaim(w) == idx[w] + 1 >= NumTables - 1

\* The tables of a claim: one only at the end of an odd number of tables.
ClaimedTables(w) == {idx[w], idx[w] + 1} \cap Tables

\* Every graph is an operation, and so is every merge of two of them.
Operations == 2 * Cardinality(constructThreads) - 1

\* The bitmap is read again here, after the claim.
Build(w) ==
    /\ phase[w] = "build"
    /\ dags' = [dags EXCEPT ![w] =
            [tables      |-> @.tables \cup ClaimedTables(w),
             totalMerges |-> IF LastClaim(w) THEN Operations ELSE @.totalMerges]]
    /\ Goto(w, "claim")
    /\ UNCHANGED <<stateTableIndex, constructThreads, idx, pairDag, dagQueue,
                   completedMergeCount, finalDag, done>>

\* A worker that comes when everything is claimed goes to the next stage.
NothingToBuild(w) ==
    /\ phase[w] = "claim"
    /\ stateTableIndex >= NumTables
    /\ dags[w] = NoDag
    /\ Goto(w, "wait")
    /\ UNCHANGED <<stateTableIndex, constructThreads, idx, dags, pairDag, dagQueue,
                   completedMergeCount, finalDag, done>>

----------------------------------------------------------------------------
(* The queue of graphs: tryConstructDAG, mergeTwoDags, awakeOrWaitConstructDAG *)

\* Inside queueMu: graph dag of worker w is queued.  The worker waits, unless
\* it counted the last operation.
Queue(w, dag) ==
    /\ completedMergeCount' = completedMergeCount + 1
    /\ completedMergeCount' % 2 = 1 \/ completedMergeCount' = dag.totalMerges
    /\ dags' = [dags EXCEPT ![w] = dag]
    /\ dagQueue' = Append(dagQueue, dag)
    /\ Goto(w, IF completedMergeCount' = dag.totalMerges THEN "finalize" ELSE "wait")
    /\ UNCHANGED <<stateTableIndex, constructThreads, idx, pairDag, finalDag, done>>

\* Inside queueMu: worker w takes the head of the queue to merge it with dag.
\* dagQueue[0] of an empty slice would panic: here the worker would be stuck.
Take(w, dag) ==
    /\ completedMergeCount' = completedMergeCount + 1
    /\ ~(completedMergeCount' % 2 = 1 \/ completedMergeCount' = dag.totalMerges)
    /\ dagQueue # <<>>
    /\ dags' = [dags EXCEPT ![w] = dag]
    /\ pairDag' = [pairDag EXCEPT ![w] = Head(dagQueue)]
    /\ dagQueue' = Tail(dagQueue)
    /\ Goto(w, "merge")
    /\ UNCHANGED <<stateTableIndex, constructThreads, idx, finalDag, done>>

\* A worker's own graph is complete.
Leaf(w) ==
    /\ phase[w] = "claim"
    /\ stateTableIndex >= NumTables
    /\ dags[w] # NoDag
    /\ Queue(w, dags[w]) \/ Take(w, dags[w])

\* Variant: the number of operations is not passed on by a merge.
keepOwn(d, e) == [tables |-> d.tables \cup e.tables, totalMerges |-> d.totalMerges]

\* mergeTwoDags keeps the larger graph and merges the other into it; which of
\* them survives makes no difference to what it was built from, and at most one
\* of them knows totalMerges.
MergedDag(d, e) ==
    [tables      |-> d.tables \cup e.tables,
     totalMerges |-> IF e.totalMerges # -1 THEN e.totalMerges ELSE d.totalMerges]

Merge(w) ==
    /\ phase[w] = "merge"
    /\ LET dag == MergedDag(dags[w], pairDag[w])
       IN  Queue(w, dag) \/ Take(w, dag)

\* The last operation: the connected components are found, outside queueMu, and
\* the flag is set.
Finalize(w) ==
    /\ phase[w] = "finalize"
    /\ finalDag' = Head(dagQueue).tables
    /\ done' = TRUE
    /\ Goto(w, "wait")
    /\ UNCHANGED <<stateTableIndex, constructThreads, idx, dags, pairDag, dagQueue,
                   completedMergeCount>>

\* The busy wait before the maximum commit validation ends.
StartValidation(w) ==
    /\ phase[w] = "wait"
    /\ done
    /\ Goto(w, "validate")
    /\ UNCHANGED <<stateTableIndex, constructThreads, idx, dags, pairDag, dagQueue,
                   completedMergeCount, finalDag, done>>

Step(w) ==
    \/ Claim(w)
    \/ Build(w)
    \/ NothingToBuild(w)
    \/ Leaf(w)
    \/ Merge(w)
    \/ Finalize(w)
    \/ StartValidation(w)

Terminated ==
    /\ \A w \in Workers : phase[w] = "validate"
    /\ UNCHANGED vars

Next == Terminated \/ \E w \in Workers : Step(w)

Spec == Init /\ [][Next]_vars

\* Every worker is an OS thread that keeps running.
FairSpec == Spec /\ \A w \in Workers : WF_vars(Step(w))

----------------------------------------------------------------------------
(* Properties *)

\* Workers that claimed and have not put their graph into the game yet.
Building == {w \in constructThreads : phase[w] \in {"claim", "build"}}

Merging == {w \in Workers : phase[w] = "merge"}

\* The state tables each worker answers for: claimed, built, or being merged.
Held == [w \in Workers |->
    CASE w \in Building -> dags[w].tables \cup
                (IF phase[w] = "build" THEN ClaimedTables(w) ELSE {})
      [] w \in Merging  -> dags[w].tables \cup pairDag[w].tables
      [] OTHER          -> {}]

Queued == UNION {dagQueue[i].tables : i \in DOMAIN dagQueue}

Claimed == 0 .. (IF stateTableIndex < NumTables THEN stateTableIndex ELSE NumTables) - 1

\* Every claimed state table is in a worker's hands or in the queue.
NoTableLost == Claimed = Queued \cup UNION {Held[w] : w \in Workers}

\* No state table is in two graphs: a conflict is never found twice.
NoTableTwice ==
    /\ \A v, w \in Workers : v # w => Held[v] \cap Held[w] = {}
    /\ \A w \in Workers : Held[w] \cap Queued = {}

\* The parity rule keeps at most one graph in the queue, and there is one
\* whenever dagQueue[0] is read.
QueueShape == Len(dagQueue) = completedMergeCount % 2

\* A graph that carries a number of operations carries the final one, although
\* it was computed by one worker while others were still building: no worker
\* joins after it was computed.
TotalMergesExact ==
    \A d \in {dags[w] : w \in Workers} \cup {dagQueue[i] : i \in DOMAIN dagQueue} :
        d.totalMerges # -1 =>
            stateTableIndex >= NumTables /\ d.totalMerges = Operations

\* The graph the validation starts from is built from every state table.
FinalDagComplete == done => finalDag = Tables

\* The stage gathers the state tables.
Gather == INSTANCE GatherAll WITH
    Parts  <- Tables,
    joined <- Claimed,
    result <- finalDag,
    done   <- done

\* The construction implements GatherAll: one graph, finished once, by the
\* worker that counted the last operation, built from every table.
ImplementsGatherAll == Gather!Spec

\* Every worker reaches the validation, also those that came too late to build:
\* the worker that must end the stage always recognises that it must.
AllReachValidation == <>(\A w \in Workers : phase[w] = "validate")
=============================================================================
