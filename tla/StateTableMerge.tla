-------------------------- MODULE StateTableMerge --------------------------
(***************************************************************************)
(* One batch of the Janus pipeline, from the moment its workers run out of *)
(* transactions until the merged state table is published.                 *)
(*                                                                         *)
(* A worker that finishes enters the CompletionMu section of               *)
(* executeCurrentBatch.  The first half of the workers are recorded in     *)
(* CompletionOrder and leave for the next batch; each of the others takes  *)
(* the table of one of them and merges it with its own.  mergeStateTables  *)
(* then decides by the parity of a shared counter whether the merged table *)
(* is queued or the head of the queue is taken and merged as well.         *)
(*                                                                         *)
(* A state table is represented by its provenance, the set of workers      *)
(* whose tables were merged into it.                                       *)
(***************************************************************************)
EXTENDS Integers, Sequences, FiniteSets

CONSTANTS
    Workers,                        \* the worker threads of the engine
    HasNextBatch,                   \* state.NextBatch # nil
    AllowEarlyNextBatchExecution    \* the engine's switch of that name

ASSUME WorkersAssumption == IsFiniteSet(Workers)
ASSUME SwitchAssumption ==
    /\ HasNextBatch \in BOOLEAN
    /\ AllowEarlyNextBatchExecution \in BOOLEAN

numThreads == Cardinality(Workers)

\* Variant: only the first round of pairs is counted.
firstRoundOnly == numThreads \div 2

totalMerges == numThreads - 1

\* Variant: the parity of an odd number of threads, whatever their number.
oddFlag == 0

waitFlag == IF numThreads % 2 = 0 THEN 1 ELSE 0

\* Variant: nobody stays behind to merge.
everyone == numThreads

\* The number of workers that go ahead to the next batch.
AheadCount == (numThreads + 1) \div 2

VARIABLES
    phase,               \* where each worker is, see Phases
    CompletionOrder,     \* the workers that went ahead, first come first
    finishedTreadNum,    \* workers that finished their transactions
    executionDone,       \* all of them did
    pairIndex,           \* next position of CompletionOrder to pair with
    table,               \* mergeThreadStateTable of each worker
    pair,                \* pairStateTable of each worker
    stateTablesQueue,
    completedMergeCount,
    published,           \* constructDAG.stateTables and state.writeSet
    done,                \* MergeThreadStateTables.done
    crashed              \* a worker indexed an empty stateTablesQueue

vars == <<phase, CompletionOrder, finishedTreadNum, executionDone, pairIndex,
          table, pair, stateTablesQueue, completedMergeCount, published, done,
          crashed>>

\* "execute": running the batch; "preexecute": in executeNextBatch; "lone":
\* about to queue the table without a partner; "merge": in the merge loop;
\* "publish": counted the last merge; "wait": spinning on done;
\* "construct": past the spin.
Phases == {"execute", "preexecute", "lone", "merge", "publish", "wait",
           "construct"}

Tables == SUBSET Workers

TypeOK ==
    /\ phase \in [Workers -> Phases]
    /\ CompletionOrder \in Seq(Workers)
    /\ finishedTreadNum \in Nat
    /\ executionDone \in BOOLEAN
    /\ pairIndex \in Nat
    /\ table \in [Workers -> Tables]
    /\ pair \in [Workers -> Tables]
    /\ stateTablesQueue \in Seq(Tables)
    /\ completedMergeCount \in Nat
    /\ published \in Tables
    /\ done \in BOOLEAN
    /\ crashed \in BOOLEAN

Init ==
    /\ phase = [w \in Workers |-> "execute"]
    /\ CompletionOrder = <<>>
    /\ finishedTreadNum = 0
    /\ executionDone = FALSE
    /\ pairIndex = 0
    /\ table = [w \in Workers |-> {}]
    /\ pair = [w \in Workers |-> {}]
    /\ stateTablesQueue = <<>>
    /\ completedMergeCount = 0
    /\ published = {}
    /\ done = FALSE
    /\ crashed = FALSE

Goto(w, p) == phase' = [phase EXCEPT ![w] = p]

----------------------------------------------------------------------------
(* executeCurrentBatch, after the last transaction *)

\* What every finishing worker does, inside CompletionMu.
CountFinished(w) ==
    /\ ~crashed
    /\ phase[w] = "execute"
    /\ finishedTreadNum' = finishedTreadNum + 1
    /\ executionDone' = (executionDone \/ finishedTreadNum' = numThreads)

\* One of the first AheadCount workers: its table is left for a later one.
FinishAhead(w) ==
    /\ CountFinished(w)
    /\ Len(CompletionOrder) < AheadCount
    /\ CompletionOrder' = Append(CompletionOrder, w)
    /\ Goto(w, IF HasNextBatch THEN "preexecute" ELSE "wait")
    /\ UNCHANGED <<pairIndex, table, pair, stateTablesQueue,
                   completedMergeCount, published, done, crashed>>

\* The first pairing worker queues the table without a partner.
LoneFirst == pairIndex = 0 /\ numThreads % 2 = 1

\* One of the others: it takes its own table and the one it is paired with.
\* The table without a partner is queued after CompletionMu is released.
FinishPaired(w) ==
    /\ CountFinished(w)
    /\ Len(CompletionOrder) >= AheadCount
    /\ pairIndex' = pairIndex + 1
    /\ IF pairIndex >= numThreads \div 2
       THEN UNCHANGED <<phase, table, pair>>
       ELSE /\ Goto(w, IF LoneFirst THEN "lone" ELSE "merge")
            /\ table' = [table EXCEPT ![w] = {w}]
            /\ pair' = [pair EXCEPT ![w] = {CompletionOrder[pairIndex + 1]}]
    /\ UNCHANGED <<CompletionOrder, stateTablesQueue, completedMergeCount,
                   published, done, crashed>>

\* With an odd number of threads the first pairing worker queues the table of
\* the last worker of CompletionOrder.
QueueLone(w) ==
    /\ ~crashed
    /\ phase[w] = "lone"
    /\ stateTablesQueue' = Append(stateTablesQueue,
                                  {CompletionOrder[Len(CompletionOrder)]})
    /\ Goto(w, "merge")
    /\ UNCHANGED <<CompletionOrder, finishedTreadNum, executionDone, pairIndex,
                   table, pair, completedMergeCount, published, done, crashed>>

----------------------------------------------------------------------------
(* mergeStateTables and awakeOrWaitThreadStateTableForMerge *)

CountMerge(w) ==
    /\ ~crashed
    /\ phase[w] = "merge"
    /\ completedMergeCount' = completedMergeCount + 1

\* Variant: the operand taken from the queue is dropped.
ownOnly(w) == table[w]

\* Variant: the operand is added as one entry, not entry by entry.
asOneEntry(w) == table[w] \cup {pair[w]}

Merged(w) == table[w] \cup pair[w]

Waits(count) == count % 2 = waitFlag

\* The merged table is queued; the last merge of all goes on to publish it.
MergeAndQueue(w) ==
    /\ CountMerge(w)
    /\ Waits(completedMergeCount')
    /\ stateTablesQueue' = Append(stateTablesQueue, Merged(w))
    /\ Goto(w, IF completedMergeCount' < totalMerges THEN "wait" ELSE "publish")
    /\ UNCHANGED <<CompletionOrder, finishedTreadNum, executionDone, pairIndex,
                   table, pair, published, done, crashed>>

\* Variant: the head of the queue is read and not removed.
MergeAndPeek(w) ==
    /\ CountMerge(w)
    /\ ~Waits(completedMergeCount')
    /\ stateTablesQueue # <<>>
    /\ table' = [table EXCEPT ![w] = Merged(w)]
    /\ pair' = [pair EXCEPT ![w] = Head(stateTablesQueue)]
    /\ UNCHANGED <<phase, CompletionOrder, finishedTreadNum, executionDone,
                   pairIndex, stateTablesQueue, published, done, crashed>>

\* The head of the queue becomes the next table to merge with.
MergeAndTake(w) ==
    /\ CountMerge(w)
    /\ ~Waits(completedMergeCount')
    /\ stateTablesQueue # <<>>
    /\ table' = [table EXCEPT ![w] = Merged(w)]
    /\ pair' = [pair EXCEPT ![w] = Head(stateTablesQueue)]
    /\ stateTablesQueue' = Tail(stateTablesQueue)
    /\ UNCHANGED <<phase, CompletionOrder, finishedTreadNum, executionDone,
                   pairIndex, published, done, crashed>>

\* stateTablesQueue[0] of an empty slice: the process panics.
MergeAndCrash(w) ==
    /\ CountMerge(w)
    /\ ~Waits(completedMergeCount')
    /\ stateTablesQueue = <<>>
    /\ crashed' = TRUE
    /\ UNCHANGED <<phase, CompletionOrder, finishedTreadNum, executionDone,
                   pairIndex, table, pair, stateTablesQueue, published, done>>

\* Runs outside queueMu.
Publish(w) ==
    /\ ~crashed
    /\ phase[w] = "publish"
    /\ published' = Head(stateTablesQueue)
    /\ done' = TRUE
    /\ Goto(w, "wait")
    /\ UNCHANGED <<CompletionOrder, finishedTreadNum, executionDone, pairIndex,
                   table, pair, stateTablesQueue, completedMergeCount, crashed>>

----------------------------------------------------------------------------
(* the rest of workerThread's loop for this batch *)

\* executeNextBatch returns: at once, or when the whole batch was executed.
LeavePreExecute(w) ==
    /\ ~crashed
    /\ phase[w] = "preexecute"
    /\ AllowEarlyNextBatchExecution \/ executionDone
    /\ Goto(w, "wait")
    /\ UNCHANGED <<CompletionOrder, finishedTreadNum, executionDone, pairIndex,
                   table, pair, stateTablesQueue, completedMergeCount,
                   published, done, crashed>>

\* The busy wait before tryConstructDAG ends.
StartConstruct(w) ==
    /\ ~crashed
    /\ phase[w] = "wait"
    /\ done
    /\ Goto(w, "construct")
    /\ UNCHANGED <<CompletionOrder, finishedTreadNum, executionDone, pairIndex,
                   table, pair, stateTablesQueue, completedMergeCount,
                   published, done, crashed>>

Step(w) ==
    \/ FinishAhead(w)
    \/ FinishPaired(w)
    \/ QueueLone(w)
    \/ MergeAndQueue(w)
    \/ MergeAndTake(w)
    \/ MergeAndCrash(w)
    \/ Publish(w)
    \/ LeavePreExecute(w)
    \/ StartConstruct(w)

\* All workers are past the stage.
Terminated ==
    /\ \A w \in Workers : phase[w] = "construct"
    /\ UNCHANGED vars

Next == Terminated \/ \E w \in Workers : Step(w)

Spec == Init /\ [][Next]_vars

\* Every worker is an OS thread that keeps running.
FairSpec == Spec /\ \A w \in Workers : WF_vars(Step(w))

----------------------------------------------------------------------------
(* Properties *)

\* Is the table without a partner in the queue, or was it?
LoneQueued ==
    /\ numThreads % 2 = 1
    /\ pairIndex > 0
    /\ \A w \in Workers : phase[w] # "lone"

loneQueued == IF LoneQueued THEN 1 ELSE 0

\* The workers whose tables nobody has taken yet.
Unpaired ==
    {w \in Workers : phase[w] = "execute"}
    \cup {CompletionOrder[i] : i \in (pairIndex + 1) ..
            Len(CompletionOrder) - loneQueued}

Merging == {w \in Workers : phase[w] \in {"lone", "merge"}}

\* The tables each merging worker holds.
Held == [w \in Workers |-> IF w \in Merging THEN Merged(w) ELSE {}]

Queued == UNION {stateTablesQueue[i] : i \in DOMAIN stateTablesQueue}

\* Every worker's table is somewhere: still its own, held by a merging worker,
\* or part of a queued table (mergeStateTables drops no operand).
NoTableLost ==
    Workers = Unpaired \cup Queued \cup UNION {Held[w] : w \in Workers}

\* No table is in two places, so no transaction's operations enter the merged
\* state table twice: the pairs handed out in executeCurrentBatch, the lone
\* table and the queue never overlap.
NoTableTwice ==
    /\ \A w \in Merging : table[w] \cap pair[w] = {}
    /\ \A v, w \in Workers : v # w => Held[v] \cap Held[w] = {}
    /\ \A w \in Workers : Held[w] \cap (Unpaired \cup Queued) = {}
    /\ Unpaired \cap Queued = {}

\* The parity rule of waitFlag keeps at most one table in the queue, and its
\* length is a function of the merge counter and of whether the lone table was
\* queued: this is why stateTablesQueue[0] exists whenever it is read.
QueueShape ==
    ~crashed =>
        Len(stateTablesQueue) =
            IF numThreads % 2 = 0
            THEN completedMergeCount % 2
            ELSE loneQueued - (completedMergeCount % 2)

\* The table published to the construction of the conflict graph is made of
\* the tables of all workers, not of the first totalMerges to arrive.
PublishedComplete == done => published = Workers

\* No worker takes from an empty queue ("this way the lone node is always
\* taken and merged in the end", 4.6 of the design document).
NoEmptyTake == ~crashed

\* The stage is a gathering of one table per worker.
Gather == INSTANCE GatherAll WITH
    Parts  <- Workers,
    joined <- {w \in Workers : phase[w] # "execute"},
    result <- published,
    done   <- done

\* The merge implements GatherAll: it is published once, by the last merge,
\* and holds the table of every worker.
ImplementsGatherAll == Gather!Spec

\* Every worker reaches the construction of the conflict graph: nobody spins
\* on done for ever, unless the process has stopped at an empty queue.
AllReachConstruct ==
    <>(crashed \/ \A w \in Workers : phase[w] = "construct")
=============================================================================
