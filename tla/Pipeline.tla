------------------------------ MODULE Pipeline ------------------------------
(***************************************************************************)
(* The Janus engine around its stages: the caller that submits one block   *)
(* of batches after the other, and the workers that follow it through      *)
(* batches and blocks without any lock.                                    *)
(*                                                                         *)
(* A worker reads currentBlockID, currentBatchID, the length of            *)
(* batchStates and one of its entries one by one and works on what it read *)
(* when the block ids agree.  Inside a batch it goes from stage to stage.  *)
(* StateTableMerge, DAGMerge and CommitReExecute model the stages; here a  *)
(* stage is what they are shown to promise: the workers that find work in  *)
(* it take part, the last one that ends publishes, the others pass by.     *)
(***************************************************************************)
EXTENDS Integers, Sequences, FiniteSets

CONSTANTS
    Workers,                        \* the worker threads
    BatchCounts                     \* len(batches) of each submitted block

\* With one worker the state tables are never merged, see StateTableMerge.
ASSUME WorkersAssumption == IsFiniteSet(Workers) /\ Cardinality(Workers) > 1
ASSUME BatchCountsAssumption == BatchCounts \in Seq(Nat)

numThreads == Cardinality(Workers)

\* A block without batches gets no block id, the others are numbered.
Nonempty == {n \in DOMAIN BatchCounts : BatchCounts[n] > 0}
BlockIDAfter(n) == Cardinality(Nonempty \cap 1 .. n)
BlockIDs == {BlockIDAfter(n) : n \in Nonempty}

\* The number of batches of the block with each id.
Numbered ==
    [b \in BlockIDs |-> BatchCounts[CHOOSE n \in Nonempty : BlockIDAfter(n) = b]]

\* Block id and index of a batch.
BatchIds == UNION {{b} \X (0 .. Numbered[b] - 1) : b \in BlockIDs}

HasNextBatch(s) == s[2] + 1 < Numbered[s[1]]

\* No batch state: the nil entry of a slice that is not filled yet.
NoBlock == 0

\* The stages a batch is in, one after the other.
Rank == [merge |-> 1, construct |-> 2, commit |-> 3, reexecute |-> 4, over |-> 5]
Stages == DOMAIN Rank
After(s) == CHOOSE t \in Stages : Rank[t] = Rank[s] + 1

VARIABLES
    \* the caller
    callerAt,           \* where it is: see TypeOK
    submitted,          \* how many blocks it has submitted
    received,           \* completions of the current block it has received
    completeChan,       \* completions it has not received yet
    stopChan,           \* stopChan is closed
    \* the engine
    allowEarlyNextBatchExecution,   \* set before the first block
    currentBlockID,
    currentBatchID,
    batchStates,        \* the BlockID of each entry, or NoBlock
    crashed,            \* an index was out of range
    \* the batches
    joined,             \* the workers that have executed the batch
    stage,
    open,               \* there is work of the stage left to take
    working,            \* the workers that took some and have not finished
    noConflict,         \* totalComponents = 0
    finished,
    \* the workers
    at,                 \* where each worker is: see TypeOK
    CurrentBlockID,     \* WorkerStats.CurrentBlockID
    lastBatchID,        \* WorkerStats.currentBatchID
    Phase,              \* WorkerStats.Phase, at the head of the loop
    stateID,
    state               \* the batch state the worker read

callerVars == <<callerAt, submitted, received>>
engineVars == <<currentBlockID, currentBatchID, batchStates>>
batchVars == <<joined, stage, open, working, noConflict, finished>>
statsVars == <<CurrentBlockID, lastBatchID, Phase>>
vars == <<callerVars, completeChan, stopChan, allowEarlyNextBatchExecution, engineVars,
          crashed, batchVars, at, statsVars, stateID, state>>

TypeOK ==
    /\ callerAt \in {"clear", "allocate", "fill", "open", "wait", "join", "end"}
    /\ submitted \in 0 .. Len(BatchCounts)
    /\ received \in Nat
    /\ completeChan \in Nat
    /\ stopChan \in BOOLEAN
    /\ allowEarlyNextBatchExecution \in BOOLEAN
    /\ currentBlockID \in BlockIDs \cup {0}
    /\ currentBatchID \in Nat \cup {-1}
    /\ batchStates \in Seq(BlockIDs \cup {NoBlock})
    /\ crashed \in BOOLEAN
    /\ joined \in [BatchIds -> SUBSET Workers]
    /\ stage \in [BatchIds -> Stages]
    /\ open \in [BatchIds -> BOOLEAN]
    /\ working \in [BatchIds -> SUBSET Workers]
    /\ noConflict \in [BatchIds -> BOOLEAN]
    /\ finished \in [BatchIds -> BOOLEAN]
    /\ at \in [Workers -> {"block", "batch", "bounds", "index", "recheck", "execute",
                           "merge", "preExecute", "arrive", "take", "work", "await",
                           "end", "moveOn", "complete", "exit"}]
    /\ CurrentBlockID \in [Workers -> BlockIDs \cup {-1, 0}]
    /\ lastBatchID \in [Workers -> Int]
    /\ Phase \in [Workers -> {"waiting", "execute", "construct", "commit", "reexecute"}]
    /\ stateID \in [Workers -> Int]
    /\ state \in [Workers -> BatchIds \cup {<<>>}]

Init ==
    /\ callerAt = "clear"
    /\ submitted = 0
    /\ received = 0
    /\ completeChan = 0
    /\ stopChan = FALSE
    /\ allowEarlyNextBatchExecution \in BOOLEAN
    /\ currentBlockID = 0
    /\ currentBatchID = -1
    /\ batchStates = <<>>
    /\ crashed = FALSE
    /\ joined = [s \in BatchIds |-> {}]
    /\ stage = [s \in BatchIds |-> "merge"]
    /\ open = [s \in BatchIds |-> TRUE]
    /\ working = [s \in BatchIds |-> {}]
    /\ noConflict = [s \in BatchIds |-> FALSE]
    /\ finished = [s \in BatchIds |-> FALSE]
    /\ at = [w \in Workers |-> "block"]
    /\ CurrentBlockID = [w \in Workers |-> -1]
    /\ lastBatchID = [w \in Workers |-> -1]
    /\ Phase = [w \in Workers |-> "waiting"]
    /\ stateID = [w \in Workers |-> -1]
    /\ state = [w \in Workers |-> <<>>]

----------------------------------------------------------------------------
(* The caller: runWithSolver, SubmitBlockBatches, WaitForBlockCompletion, Stop *)

\* len(batches) of the block that is being submitted.
BatchCount == BatchCounts[submitted + 1]

ClearBatchID ==
    /\ callerAt = "clear"
    /\ submitted < Len(BatchCounts)
    /\ currentBatchID' = -1
    /\ callerAt' = "allocate"
    /\ UNCHANGED <<submitted, received, currentBlockID, batchStates>>

AllocateBatchStates ==
    /\ callerAt = "allocate"
    /\ batchStates' = [i \in 1 .. BatchCount |-> NoBlock]
    /\ callerAt' = "fill"
    /\ UNCHANGED <<submitted, received, currentBlockID, currentBatchID>>

FillBatchState ==
    /\ callerAt = "fill"
    /\ \E i \in DOMAIN batchStates :
        /\ batchStates[i] = NoBlock
        /\ \A j \in 1 .. i - 1 : batchStates[j] # NoBlock
        /\ batchStates' = [batchStates EXCEPT ![i] = currentBlockID + 1]
    /\ UNCHANGED <<callerAt, submitted, received, currentBlockID, currentBatchID>>

\* Nothing is published for a block without batches, and nothing awaited.
SkipEmptyBlock ==
    /\ callerAt = "fill"
    /\ batchStates = <<>>
    /\ callerAt' = "clear"
    /\ submitted' = submitted + 1
    /\ UNCHANGED <<received, engineVars>>

PublishBlock ==
    /\ callerAt = "fill"
    /\ batchStates # <<>>
    /\ \A i \in DOMAIN batchStates : batchStates[i] # NoBlock
    /\ currentBlockID' = currentBlockID + 1
    /\ callerAt' = "open"
    /\ UNCHANGED <<submitted, received, currentBatchID, batchStates>>

PublishFirstBatch ==
    /\ callerAt = "open"
    /\ currentBatchID' = 0
    /\ callerAt' = "wait"
    /\ UNCHANGED <<submitted, received, currentBlockID, batchStates>>

\* Variant: the caller counts one completion too few.
ReceiveAllButOne ==
    /\ callerAt = "wait"
    /\ completeChan > 0
    /\ completeChan' = completeChan - 1
    /\ IF received + 2 < BatchCount
       THEN received' = received + 1 /\ UNCHANGED <<callerAt, submitted>>
       ELSE received' = 0 /\ callerAt' = "clear" /\ submitted' = submitted + 1
    /\ UNCHANGED engineVars

ReceiveCompletion ==
    /\ callerAt = "wait"
    /\ completeChan > 0
    /\ completeChan' = completeChan - 1
    /\ IF received + 1 < BatchCount
       THEN received' = received + 1 /\ UNCHANGED <<callerAt, submitted>>
       ELSE received' = 0 /\ callerAt' = "clear" /\ submitted' = submitted + 1
    /\ UNCHANGED engineVars

CloseStopChan ==
    /\ callerAt = "clear"
    /\ submitted = Len(BatchCounts)
    /\ stopChan' = TRUE
    /\ callerAt' = "join"
    /\ UNCHANGED <<submitted, received, engineVars>>

JoinWorkers ==
    /\ callerAt = "join"
    /\ \A w \in Workers : at[w] = "exit"
    /\ callerAt' = "end"
    /\ UNCHANGED <<submitted, received, engineVars>>

Submit ==
    \/ ClearBatchID
    \/ AllocateBatchStates
    \/ FillBatchState
    \/ SkipEmptyBlock
    \/ PublishBlock
    \/ PublishFirstBatch
    \/ JoinWorkers

Caller ==
    /\ ~crashed
    /\ \/ Submit /\ UNCHANGED <<completeChan, stopChan>>
       \/ ReceiveCompletion /\ UNCHANGED stopChan
       \/ CloseStopChan /\ UNCHANGED completeChan
    /\ UNCHANGED <<allowEarlyNextBatchExecution, crashed, batchVars, at, statsVars,
                   stateID, state>>

----------------------------------------------------------------------------
(* The head of workerThread's loop: which batch to work on *)

Goto(w, a) == at' = [at EXCEPT ![w] = a]

\* Back to the head of the loop: what was read is forgotten.
Again(w) ==
    /\ Goto(w, "block")
    /\ stateID' = [stateID EXCEPT ![w] = -1]
    /\ state' = [state EXCEPT ![w] = <<>>]

\* The worker turns to block b and waits for a batch of it.
TurnToBlock(w, b) ==
    /\ CurrentBlockID' = [CurrentBlockID EXCEPT ![w] = b]
    /\ lastBatchID' = [lastBatchID EXCEPT ![w] = -1]
    /\ Phase' = [Phase EXCEPT ![w] = "waiting"]

Exit(w) ==
    /\ at[w] = "block"
    /\ stopChan
    /\ Goto(w, "exit")
    /\ UNCHANGED <<statsVars, stateID, state, crashed>>

\* The comparison with -1 that follows the load is always false.
ReadBlockID(w) ==
    /\ at[w] = "block"
    /\ ~stopChan
    /\ IF currentBlockID # CurrentBlockID[w]
       THEN TurnToBlock(w, currentBlockID) /\ UNCHANGED at
       ELSE Goto(w, "batch") /\ UNCHANGED statsVars
    /\ UNCHANGED <<stateID, state, crashed>>

ReadBatchID(w) ==
    /\ at[w] = "batch"
    /\ stateID' = [stateID EXCEPT ![w] = currentBatchID]
    /\ Goto(w, "bounds")
    /\ UNCHANGED <<statsVars, state, crashed>>

\* Variant: off by one.
CheckBoundsLoosely(w) ==
    /\ at[w] = "bounds"
    /\ IF stateID[w] > Len(batchStates) \/ stateID[w] = -1
       THEN Again(w) /\ UNCHANGED statsVars
       ELSE /\ Goto(w, "index")
            /\ IF stateID[w] > lastBatchID[w]
               THEN /\ lastBatchID' = [lastBatchID EXCEPT ![w] = stateID[w]]
                    /\ Phase' = [Phase EXCEPT ![w] = "execute"]
                    /\ UNCHANGED CurrentBlockID
               ELSE UNCHANGED statsVars
            /\ UNCHANGED <<stateID, state>>
    /\ UNCHANGED crashed

\* A batch id that the worker has not seen starts the execution of that batch.
CheckBounds(w) ==
    /\ at[w] = "bounds"
    /\ IF stateID[w] >= Len(batchStates) \/ stateID[w] = -1
       THEN Again(w) /\ UNCHANGED statsVars
       ELSE /\ Goto(w, "index")
            /\ IF stateID[w] > lastBatchID[w]
               THEN /\ lastBatchID' = [lastBatchID EXCEPT ![w] = stateID[w]]
                    /\ Phase' = [Phase EXCEPT ![w] = "execute"]
                    /\ UNCHANGED CurrentBlockID
               ELSE UNCHANGED statsVars
            /\ UNCHANGED <<stateID, state>>
    /\ UNCHANGED crashed

\* batchStates may be another slice than the one whose length was compared.
ReadBatchState(w) ==
    /\ at[w] = "index"
    /\ IF stateID[w] >= Len(batchStates)
       THEN crashed' = TRUE /\ UNCHANGED <<at, stateID, state>>
       ELSE /\ IF batchStates[stateID[w] + 1] = NoBlock
               THEN Again(w)
               ELSE /\ state' = [state EXCEPT ![w] =
                           <<batchStates[stateID[w] + 1], stateID[w]>>]
                    /\ Goto(w, "recheck")
                    /\ UNCHANGED stateID
            /\ UNCHANGED crashed
    /\ UNCHANGED statsVars

\* The worker goes where its phase says.
Dispatch(w) ==
    \/ /\ Phase[w] = "execute"
       /\ Goto(w, "execute")
       /\ UNCHANGED <<stateID, state>>
    \/ /\ Phase[w] = "construct"
       /\ Goto(w, "arrive")
       /\ UNCHANGED <<stateID, state>>
    \/ /\ Phase[w] \notin {"execute", "construct"}
       /\ Again(w)

\* Variant: the entry is taken for one of the block the worker is in.
TrustBatchState(w) ==
    /\ at[w] = "recheck"
    /\ Dispatch(w)
    /\ UNCHANGED <<statsVars, crashed>>

\* The worker works on the entry only if it, the worker and the engine are in
\* the same block.
RecheckBlockID(w) ==
    /\ at[w] = "recheck"
    /\ IF state[w][1] # currentBlockID \/ currentBlockID # CurrentBlockID[w]
       THEN /\ IF currentBlockID # CurrentBlockID[w]
               THEN TurnToBlock(w, currentBlockID)
               ELSE UNCHANGED statsVars
            /\ Again(w)
       ELSE Dispatch(w) /\ UNCHANGED statsVars
    /\ UNCHANGED crashed

Synchronize(w) ==
    /\ \/ Exit(w)
       \/ ReadBlockID(w)
       \/ ReadBatchID(w)
       \/ CheckBounds(w)
       \/ ReadBatchState(w)
       \/ RecheckBlockID(w)
    /\ UNCHANGED <<callerVars, completeChan, stopChan, engineVars, batchVars>>

----------------------------------------------------------------------------
(* Inside a batch: the stages *)

\* The worker enters phase p of the batch and waits there.
Enter(w, p) ==
    /\ Phase' = [Phase EXCEPT ![w] = p]
    /\ Goto(w, "arrive")
    /\ UNCHANGED <<CurrentBlockID, lastBatchID, stateID, state>>

\* The worker leaves the batch.
Leave(w) ==
    /\ Phase' = [Phase EXCEPT ![w] = "waiting"]
    /\ Again(w)
    /\ UNCHANGED <<CurrentBlockID, lastBatchID>>

Stay(w, a) == Goto(w, a) /\ UNCHANGED <<statsVars, stateID, state>>

\* executeCurrentBatch: half of the workers go ahead, the others merge.
Execute(w) ==
    /\ at[w] = "execute"
    /\ joined' = [joined EXCEPT ![state[w]] = @ \cup {w}]
    /\ IF Cardinality(joined[state[w]]) >= (numThreads + 1) \div 2
       THEN /\ working' = [working EXCEPT ![state[w]] = @ \cup {w}]
            /\ Stay(w, "merge")
       ELSE /\ UNCHANGED working
            /\ IF HasNextBatch(state[w]) THEN Stay(w, "preExecute")
                                         ELSE Enter(w, "construct")
    /\ UNCHANGED <<stage, open, noConflict, finished>>

\* mergeStateTables: the last merging worker publishes the tables.
FinishMerge(w) ==
    /\ at[w] = "merge"
    /\ working' = [working EXCEPT ![state[w]] = @ \ {w}]
    /\ stage' = [stage EXCEPT ![state[w]] =
            IF joined[state[w]] = Workers /\ working'[state[w]] = {} THEN After(@) ELSE @]
    /\ Enter(w, "construct")
    /\ UNCHANGED <<joined, open, noConflict, finished>>

\* Variant: the worker does not only execute transactions ahead, it joins the
\* next batch.
JoinNextBatch(w) ==
    /\ at[w] = "preExecute"
    /\ state' = [state EXCEPT ![w] = <<@[1], @[2] + 1>>]
    /\ Goto(w, "execute")
    /\ UNCHANGED <<batchVars, statsVars, stateID>>

\* executeNextBatch: there is nothing left to execute ahead, or the batch was
\* seen finished.  Either way the worker reads anew which batch is current.
FinishPreExecute(w) ==
    /\ at[w] = "preExecute"
    /\ \/ allowEarlyNextBatchExecution
       \/ joined[state[w]] = Workers
       \/ finished[state[w]]
    /\ \/ finished[state[w]] /\ Leave(w)
       \/ /\ allowEarlyNextBatchExecution \/ joined[state[w]] = Workers
          /\ Phase' = [Phase EXCEPT ![w] = "construct"]
          /\ Again(w)
          /\ UNCHANGED <<CurrentBlockID, lastBatchID>>
    /\ UNCHANGED batchVars

\* The busy wait for a stage ends, and changeToNextBatch looks whether the
\* batch is over.
Arrive(w) ==
    /\ at[w] = "arrive"
    /\ Rank[stage[state[w]]] >= Rank[Phase[w]]
    /\ IF finished[state[w]]
       THEN Leave(w)
       ELSE IF Phase[w] = "commit" /\ noConflict[state[w]]
            THEN Stay(w, "end")
            ELSE Stay(w, "take")
    /\ UNCHANGED batchVars

\* After its part in a stage the worker waits for the next one; the wait for the
\* end of the re-execution is inside reExecute.
GoOn(w) ==
    \/ Phase[w] = "construct" /\ Enter(w, "commit")
    \/ Phase[w] = "commit" /\ Enter(w, "reexecute")
    \/ Phase[w] = "reexecute" /\ Stay(w, "await")

TakeWork(w) ==
    /\ at[w] = "take"
    /\ stage[state[w]] = Phase[w]
    /\ open[state[w]]
    /\ working' = [working EXCEPT ![state[w]] = @ \cup {w}]
    /\ Stay(w, "work")
    /\ UNCHANGED <<joined, stage, open, noConflict, finished>>

PassBy(w) ==
    /\ at[w] = "take"
    /\ ~(stage[state[w]] = Phase[w] /\ open[state[w]])
    /\ GoOn(w)
    /\ UNCHANGED batchVars

\* Variant: the first worker that ends publishes.
FinishFirst(w) ==
    /\ at[w] = "work"
    /\ working' = [working EXCEPT ![state[w]] = @ \ {w}]
    /\ open' = [open EXCEPT ![state[w]] = stage[state[w]] = Phase[w]]
    /\ stage' = [stage EXCEPT ![state[w]] = IF @ = Phase[w] THEN After(@) ELSE @]
    /\ GoOn(w)
    /\ UNCHANGED <<joined, noConflict, finished>>

\* A worker ends when it finds nothing more to take; the last of them publishes
\* the result of the stage.  The graph may turn out to have no conflict.
FinishWork(w) ==
    /\ at[w] = "work"
    /\ working' = [working EXCEPT ![state[w]] = @ \ {w}]
    /\ IF working'[state[w]] = {}
       THEN /\ stage' = [stage EXCEPT ![state[w]] = After(@)]
            /\ open' = [open EXCEPT ![state[w]] = TRUE]
            /\ \E none \in BOOLEAN :
                /\ none => Phase[w] = "construct"
                /\ noConflict' = [noConflict EXCEPT ![state[w]] = @ \/ none]
       ELSE open' = [open EXCEPT ![state[w]] = FALSE] /\ UNCHANGED <<stage, noConflict>>
    /\ GoOn(w)
    /\ UNCHANGED <<joined, finished>>

Await(w) ==
    /\ at[w] = "await"
    /\ stage[state[w]] = "over"
    /\ Stay(w, "end")
    /\ UNCHANGED batchVars

Inside(w) ==
    /\ \/ Execute(w)
       \/ FinishMerge(w)
       \/ FinishPreExecute(w)
       \/ Arrive(w)
       \/ TakeWork(w)
       \/ PassBy(w)
       \/ FinishWork(w)
       \/ Await(w)
    /\ UNCHANGED <<callerVars, completeChan, stopChan, engineVars, crashed>>

----------------------------------------------------------------------------
(* tryEntryNextBatch *)

\* Variant: finished is stored, not compared and swapped.
EndAlways(w) ==
    /\ at[w] = "end"
    /\ finished' = [finished EXCEPT ![state[w]] = TRUE]
    /\ Stay(w, "moveOn")
    /\ UNCHANGED <<joined, stage, open, working, noConflict, currentBatchID, completeChan>>

\* Variant: the batch id stays.
EndWithoutMove(w) ==
    /\ at[w] = "end"
    /\ finished' = [finished EXCEPT ![state[w]] = TRUE]
    /\ IF finished[state[w]] THEN Leave(w) ELSE Stay(w, "complete")
    /\ UNCHANGED <<joined, stage, open, working, noConflict, currentBatchID, completeChan>>

\* The first caller ends the batch.  CommitReExecute models that some workers
\* call twice; the second call only sets the phase again.
EndBatch(w) ==
    /\ at[w] = "end"
    /\ finished' = [finished EXCEPT ![state[w]] = TRUE]
    /\ IF finished[state[w]] THEN Leave(w) ELSE Stay(w, "moveOn")
    /\ UNCHANGED <<joined, stage, open, working, noConflict, currentBatchID, completeChan>>

\* The batch id moves on after finished was set and before the caller hears of it.
MoveOn(w) ==
    /\ at[w] = "moveOn"
    /\ currentBatchID' = currentBatchID + 1
    /\ Stay(w, "complete")
    /\ UNCHANGED <<batchVars, completeChan>>

\* completeBatch: completeChan holds 100 completions and is read all the time.
Complete(w) ==
    /\ at[w] = "complete"
    /\ completeChan' = completeChan + 1
    /\ Leave(w)
    /\ UNCHANGED <<batchVars, currentBatchID>>

TryEntryNextBatch(w) ==
    /\ EndBatch(w) \/ MoveOn(w) \/ Complete(w)
    /\ UNCHANGED <<callerVars, stopChan, currentBlockID, batchStates, crashed>>

Worker(w) ==
    /\ ~crashed
    /\ Synchronize(w) \/ Inside(w) \/ TryEntryNextBatch(w)
    /\ UNCHANGED allowEarlyNextBatchExecution

Terminated ==
    /\ callerAt = "end"
    /\ UNCHANGED vars

Next == Terminated \/ Caller \/ \E w \in Workers : Worker(w)

Spec == Init /\ [][Next]_vars

\* The caller and every worker are threads that keep running.
FairSpec == Spec /\ WF_vars(Caller) /\ \A w \in Workers : WF_vars(Worker(w))

----------------------------------------------------------------------------
(* Properties *)

Current == <<currentBlockID, currentBatchID>>

\* A worker executes, merges or does the work of a stage only in the current
\* batch and while that is not finished, although the block, the batch id and
\* the entry were read at different times.  It executes the batch once, however
\* often it comes back to the head of the loop while the batch is current.
WorkIsCurrent ==
    \A w \in Workers :
        /\ at[w] \in {"execute", "merge", "work", "moveOn"} =>
            state[w] = Current /\ (finished[state[w]] <=> at[w] = "moveOn")
        /\ at[w] = "execute" => w \notin joined[state[w]]

\* When the caller touches the shared slices, every batch of the block before is
\* finished, its completions are received and no worker is about to add one.
CallerAlone ==
    callerAt \in {"clear", "allocate", "fill", "join", "end"} =>
        /\ completeChan = 0
        /\ \A w \in Workers : at[w] \notin {"moveOn", "complete"}
        /\ \A s \in BatchIds : s[1] <= currentBlockID => finished[s]

\* A batch ends only with the results of all workers in it.
EndsWithAll ==
    \A s \in BatchIds : finished[s] => joined[s] = Workers /\ working[s] = {}

\* The index that was compared with the length of batchStates is one of its
\* indices when it is used.
IndexInRange == ~crashed

Ended == {s \in BatchIds : s[1] = currentBlockID /\ finished[s]}
Begun == {s \in BatchIds : s[1] = currentBlockID /\ joined[s] # {}}

\* The batches of a block one after the other.
Order == INSTANCE BatchOrder WITH
    Blocks    <- Numbered,
    block     <- currentBlockID,
    started   <- Cardinality(Begun),
    completed <- Cardinality(Ended)

\* The pipeline implements BatchOrder: although workers execute transactions of
\* the next batch early, no batch is begun before the one before it is over.
ImplementsBatchOrder == Order!Spec

\* The caller gets through all blocks and every worker stops.
AllBlocksDone == <>(callerAt = "end")
=============================================================================
