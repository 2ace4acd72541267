---------------------------- MODULE Speculation ----------------------------
(***************************************************************************)
(* The transactions of one batch, executed twice over: early, by workers   *)
(* that went ahead while the batch before it was still being committed,    *)
(* and formally, by all workers once that batch is finished.  A formal     *)
(* worker keeps the early result of a transaction unless the transaction   *)
(* reads a key that the batch before wrote.                                *)
(*                                                                         *)
(* Early and formal workers claim from counters of their own and tell each *)
(* other about a transaction only through the plain fields IsRuned and     *)
(* rwSet, which carry no lock.  Their loads and stores take effect one at  *)
(* a time and in program order here.                                       *)
(*                                                                         *)
(* An early worker that is overtaken stores its set behind the formal one. *)
(* The set is read twice: when the transaction is listed, for the state    *)
(* tables, and again when the conflict graph gets its node.                *)
(***************************************************************************)
EXTENDS Integers, Sequences, FiniteSets

CONSTANTS
    Ahead,          \* the workers that went ahead
    Staying,        \* the workers still executing the batch before
    LongTxs,        \* the queues of the batch
    ShortTxs,
    Conflicting     \* the transactions that read what the batch before writes

Workers == Ahead \cup Staying
Queue == [long |-> LongTxs, short |-> ShortTxs]
Queues == DOMAIN Queue
Txs == {(LongTxs \o ShortTxs)[i] : i \in DOMAIN (LongTxs \o ShortTxs)}

\* What is assumed of the constants, by BatchStages: the queues do not share a
\* transaction.
WorkersAssumption == Staying # {} /\ Ahead \cap Staying = {}
QueuesAssumption ==
    /\ LongTxs \in Seq(Txs)
    /\ ShortTxs \in Seq(Txs)
    /\ \A i, j \in DOMAIN (LongTxs \o ShortTxs) :
           (LongTxs \o ShortTxs)[i] = (LongTxs \o ShortTxs)[j] => i = j

\* Whether an execution began before or after the batch before was finished.
Times == {"early", "late"}

VARIABLES
    allowEarlyNextBatchExecution,   \* the engine's switch of that name
    \* the batch before
    executionDone,
    finished,
    \* the batch
    NextTxIndex,        \* NextLongTxIndex and NextShortTxIndex
    TxIndex,            \* LongTxIndex and ShortTxIndex
    IsRuned,
    rwSet,              \* when the execution that wrote it began, or "nil"
    ran,                \* the times of the executions that have ended
    ThreadRWSets,
    finishedThreads,
    dagNodes,           \* the sets that graphs have taken of a transaction
    \* the workers
    at,                 \* where each worker is: see TypeOK
    queue,              \* the queue it claims from
    tx,                 \* the transaction it holds
    began               \* when its execution began

batchVars == <<executionDone, finished>>
claimVars == <<NextTxIndex, TxIndex>>
txVars == <<IsRuned, rwSet, ran>>
workerVars == <<at, queue, tx, began>>
vars == <<allowEarlyNextBatchExecution, batchVars, claimVars, txVars, ThreadRWSets,
          finishedThreads, dagNodes, workerVars>>

TypeOK ==
    /\ allowEarlyNextBatchExecution \in BOOLEAN
    /\ executionDone \in BOOLEAN
    /\ finished \in BOOLEAN
    /\ NextTxIndex \in [Queues -> Nat]
    /\ TxIndex \in [Queues -> Nat]
    /\ IsRuned \in [Txs -> BOOLEAN]
    /\ rwSet \in [Txs -> Times \cup {"nil"}]
    /\ ran \in [Txs -> SUBSET Times]
    /\ ThreadRWSets \in [Workers -> Seq(Txs)]
    /\ finishedThreads \in SUBSET Workers
    /\ dagNodes \in [Txs -> SUBSET (Times \cup {"nil"})]
    /\ at \in [Workers -> {"before", "ahead", "claimEarly", "runEarly", "mark", "stages",
                           "claim", "decide", "start", "run", "append", "joined"}]
    /\ queue \in [Workers -> Queues]
    /\ tx \in [Workers -> Txs \cup {"none"}]
    /\ began \in [Workers -> Times]

Init ==
    /\ allowEarlyNextBatchExecution \in BOOLEAN
    /\ executionDone = FALSE
    /\ finished = FALSE
    /\ NextTxIndex = [q \in Queues |-> 0]
    /\ TxIndex = [q \in Queues |-> 0]
    /\ IsRuned = [t \in Txs |-> FALSE]
    /\ rwSet = [t \in Txs |-> "nil"]
    /\ ran = [t \in Txs |-> {}]
    /\ ThreadRWSets = [w \in Workers |-> <<>>]
    /\ finishedThreads = {}
    /\ dagNodes = [t \in Txs |-> {}]
    /\ at = [w \in Workers |-> IF w \in Ahead THEN "ahead" ELSE "before"]
    /\ queue = [w \in Workers |-> "long"]
    /\ tx = [w \in Workers |-> "none"]
    /\ began = [w \in Workers |-> "early"]

Now == IF finished THEN "late" ELSE "early"

Goto(w, a) == at' = [at EXCEPT ![w] = a]

----------------------------------------------------------------------------
(* The batch before: only what the early workers can see of it *)

\* Variant: the counter is compared before it is incremented.
EndBeforeCountingLate(w) ==
    /\ at[w] = "before"
    /\ Goto(w, "stages")
    /\ executionDone' = (\A v \in Workers : at[v] # "before")
    /\ UNCHANGED <<finished, claimVars, txVars, ThreadRWSets, finishedThreads, queue, tx, began>>

\* A staying worker ends its part of the execution.
EndBefore(w) ==
    /\ at[w] = "before"
    /\ Goto(w, "stages")
    /\ executionDone' = (\A v \in Workers \ {w} : at[v] # "before")
    /\ UNCHANGED <<finished, claimVars, txVars, ThreadRWSets, finishedThreads, queue, tx, began>>

\* Any worker that is in the stages of the batch may be the one to end it.
FinishBefore(w) ==
    /\ at[w] = "stages"
    /\ executionDone
    /\ ~finished
    /\ finished' = TRUE
    /\ UNCHANGED <<executionDone, claimVars, txVars, ThreadRWSets, finishedThreads, workerVars>>

Before(w) == EndBefore(w) \/ FinishBefore(w)

----------------------------------------------------------------------------
(* executeNextBatch *)

\* Without early execution the worker first waits for all others.
GoAhead(w) ==
    /\ at[w] = "ahead"
    /\ allowEarlyNextBatchExecution \/ executionDone
    /\ Goto(w, "claimEarly")
    /\ UNCHANGED <<queue, tx, began>>

\* The look at finished at the head of the loop, and the one at its end.
StopAhead(w) ==
    /\ at[w] \in {"ahead", "claimEarly"}
    /\ finished
    /\ Goto(w, "stages")
    /\ UNCHANGED <<queue, tx, began>>

\* The worker saw the batch before unfinished; it may be finished when the
\* transaction starts.
ClaimEarly(w) ==
    /\ at[w] = "claimEarly"
    /\ ~finished
    /\ NextTxIndex' = [NextTxIndex EXCEPT ![queue[w]] = @ + 1]
    /\ LET txs == Queue[queue[w]]
           idx == NextTxIndex[queue[w]]
       IN  IF idx < Len(txs)
           THEN /\ tx' = [tx EXCEPT ![w] = txs[idx + 1]]
                /\ began' = [began EXCEPT ![w] = Now]
                /\ Goto(w, "runEarly")
                /\ UNCHANGED queue
           ELSE /\ IF queue[w] = "long"
                   THEN queue' = [queue EXCEPT ![w] = "short"] /\ UNCHANGED at
                   ELSE Goto(w, "stages") /\ UNCHANGED queue
                /\ UNCHANGED <<tx, began>>

\* executeTransaction: it runs for a while and then stores a new read-write set.
Store(w) ==
    /\ rwSet' = [rwSet EXCEPT ![tx[w]] = began[w]]
    /\ ran' = [ran EXCEPT ![tx[w]] = @ \cup {began[w]}]

EndRunEarly(w) ==
    /\ at[w] = "runEarly"
    /\ Store(w)
    /\ Goto(w, "mark")
    /\ UNCHANGED <<IsRuned, queue, tx, began>>

\* Marked only after the set is there.
Mark(w) ==
    /\ at[w] = "mark"
    /\ IsRuned' = [IsRuned EXCEPT ![tx[w]] = TRUE]
    /\ Goto(w, "claimEarly")
    /\ UNCHANGED <<rwSet, ran, queue, tx, began>>

\* Variant: the transaction is marked when it is claimed.
ClaimEarlyAndMark(w) ==
    /\ ClaimEarly(w)
    /\ IsRuned' = [t \in Txs |-> IsRuned[t] \/ (at'[w] = "runEarly" /\ t = tx'[w])]

\* Variant: as above, with the mark set at the claim.
ExecuteNextBatchMarkingFirst(w) ==
    /\ \/ (GoAhead(w) \/ StopAhead(w)) /\ UNCHANGED <<claimVars, txVars>>
       \/ ClaimEarlyAndMark(w) /\ UNCHANGED <<TxIndex, rwSet, ran>>
       \/ (EndRunEarly(w) \/ Mark(w)) /\ UNCHANGED claimVars
    /\ UNCHANGED <<batchVars, ThreadRWSets, finishedThreads>>

ExecuteNextBatch(w) ==
    /\ \/ (GoAhead(w) \/ StopAhead(w)) /\ UNCHANGED <<claimVars, txVars>>
       \/ ClaimEarly(w) /\ UNCHANGED <<TxIndex, txVars>>
       \/ (EndRunEarly(w) \/ Mark(w)) /\ UNCHANGED claimVars
    /\ UNCHANGED <<batchVars, ThreadRWSets, finishedThreads>>

----------------------------------------------------------------------------
(* executeNextTransaction and executeCurrentBatch *)

\* The worker sees the batch before finished and turns to this one.
EnterBatch(w) ==
    /\ at[w] = "stages"
    /\ finished
    /\ Goto(w, "claim")
    /\ queue' = [queue EXCEPT ![w] = "long"]
    /\ UNCHANGED <<tx, began, claimVars, txVars, ThreadRWSets, finishedThreads>>

\* Variant: the early counter is used a second time.
ClaimFromEarlyCounter(w) ==
    /\ at[w] = "claim"
    /\ NextTxIndex' = [NextTxIndex EXCEPT ![queue[w]] = @ + 1]
    /\ LET txs == Queue[queue[w]]
           idx == NextTxIndex[queue[w]]
       IN  \/ /\ idx < Len(txs)
              /\ tx' = [tx EXCEPT ![w] = txs[idx + 1]]
              /\ Goto(w, "decide")
              /\ UNCHANGED <<queue, finishedThreads>>
           \/ /\ idx >= Len(txs) /\ queue[w] = "long"
              /\ queue' = [queue EXCEPT ![w] = "short"]
              /\ UNCHANGED <<at, tx, finishedThreads>>
           \/ /\ idx >= Len(txs) /\ queue[w] = "short"
              /\ finishedThreads' = finishedThreads \cup {w}
              /\ Goto(w, "joined")
              /\ UNCHANGED <<queue, tx>>
    /\ UNCHANGED <<began, TxIndex, txVars, ThreadRWSets>>

Claim(w) ==
    /\ at[w] = "claim"
    /\ TxIndex' = [TxIndex EXCEPT ![queue[w]] = @ + 1]
    /\ LET txs == Queue[queue[w]]
           idx == TxIndex[queue[w]]
       IN  \/ /\ idx < Len(txs)
              /\ tx' = [tx EXCEPT ![w] = txs[idx + 1]]
              /\ Goto(w, "decide")
              /\ UNCHANGED <<queue, finishedThreads>>
           \/ /\ idx >= Len(txs) /\ queue[w] = "long"
              /\ queue' = [queue EXCEPT ![w] = "short"]
              /\ UNCHANGED <<at, tx, finishedThreads>>
           \/ /\ idx >= Len(txs) /\ queue[w] = "short"
              /\ finishedThreads' = finishedThreads \cup {w}
              /\ Goto(w, "joined")
              /\ UNCHANGED <<queue, tx>>
    /\ UNCHANGED <<began, NextTxIndex, txVars, ThreadRWSets>>

\* Variant: an early result is kept whatever it read.
NeverAgain(t) == ~IsRuned[t]

\* The early result is kept if it is there and free of conflicts.
NeedRun(t) == ~IsRuned[t] \/ t \in Conflicting

Decide(w) ==
    /\ at[w] = "decide"
    /\ Goto(w, IF NeedRun(tx[w]) THEN "start" ELSE "append")
    /\ UNCHANGED <<queue, tx, began, claimVars, txVars, ThreadRWSets, finishedThreads>>

\* Here the transaction is marked before it runs.
Start(w) ==
    /\ at[w] = "start"
    /\ IsRuned' = [IsRuned EXCEPT ![tx[w]] = TRUE]
    /\ began' = [began EXCEPT ![w] = Now]
    /\ Goto(w, "run")
    /\ UNCHANGED <<rwSet, ran, queue, tx, claimVars, ThreadRWSets, finishedThreads>>

EndRun(w) ==
    /\ at[w] = "run"
    /\ Store(w)
    /\ Goto(w, "append")
    /\ UNCHANGED <<IsRuned, queue, tx, began, claimVars, ThreadRWSets, finishedThreads>>

\* The list takes jtx.rwSet, which an early worker that was overtaken may have
\* replaced by now: what is listed need not be from the execution just ended.
AppendThreadRWSets(w) ==
    /\ at[w] = "append"
    /\ ThreadRWSets' = [ThreadRWSets EXCEPT ![w] = Append(@, tx[w])]
    /\ Goto(w, "claim")
    /\ UNCHANGED <<queue, tx, began, claimVars, txVars, finishedThreads>>

ExecuteCurrentBatch(w) ==
    /\ \/ EnterBatch(w)
       \/ Claim(w)
       \/ Decide(w)
       \/ Start(w)
       \/ EndRun(w)
       \/ AppendThreadRWSets(w)
    /\ UNCHANGED batchVars

Execute(w) ==
    /\ Before(w) \/ ExecuteNextBatch(w) \/ ExecuteCurrentBatch(w)
    /\ UNCHANGED <<allowEarlyNextBatchExecution, dagNodes>>

----------------------------------------------------------------------------
(* constructDAGForAddress *)

\* executionDone of the batch.  The table that the graph is built from is made of
\* the tables of all workers (PublishedComplete), and each builds its own before
\* it joins: the wait for that table is one until all have joined.
AllJoined == finishedThreads = Workers

\* The places of t in the lists of the workers.
Listed(t) ==
    UNION {{<<w, i>> : i \in {j \in DOMAIN ThreadRWSets[w] : ThreadRWSets[w][j] = t}} :
           w \in Workers}

\* Variant: the worker builds its graph from the tables there are, without the wait.
AddNodeAtOnce(w, t) ==
    /\ at[w] = "joined"
    /\ Listed(t) # {}
    /\ dagNodes' = [dagNodes EXCEPT ![t] = @ \cup {rwSet[t]}]
    /\ UNCHANGED <<allowEarlyNextBatchExecution, batchVars, claimVars, txVars, ThreadRWSets,
                   finishedThreads, workerVars>>

\* A graph gets a node with the set that the transaction has by now, not the one
\* that was listed.  Several workers build graphs, and each may take the set.
AddNode(w, t) ==
    /\ at[w] = "joined"
    /\ AllJoined
    /\ Listed(t) # {}
    /\ dagNodes' = [dagNodes EXCEPT ![t] = @ \cup {rwSet[t]}]
    /\ UNCHANGED <<allowEarlyNextBatchExecution, batchVars, claimVars, txVars, ThreadRWSets,
                   finishedThreads, workerVars>>

Worker(w) == Execute(w) \/ \E t \in Txs : AddNode(w, t)

\* Nothing is left to do.
Terminated ==
    /\ AllJoined
    /\ \A t \in Txs : dagNodes[t] # {}
    /\ UNCHANGED vars

Next == Terminated \/ \E w \in Workers : Worker(w)

Spec == Init /\ [][Next]_vars

\* Every worker is a thread that keeps running.
FairSpec == Spec /\ \A w \in Workers : WF_vars(Worker(w))

----------------------------------------------------------------------------
(* Properties *)

\* No transaction is listed twice, and when all workers have joined every one is
\* listed and has a set for the conflict graph, although two executions of it
\* may have been under way at once.
ListedOnce ==
    \A t \in Txs :
        /\ Cardinality(Listed(t)) <= 1
        /\ AllJoined => Listed(t) # {} /\ rwSet[t] # "nil"

\* A formal worker that sees IsRuned finds a read-write set to look into: the two
\* fields are written by another thread and in opposite orders in two places.
SetPresent ==
    \A w \in Workers : at[w] = "decide" /\ IsRuned[tx[w]] => rwSet[tx[w]] # "nil"

\* A transaction that reads what the batch before wrote is listed only after an
\* execution of it that began when that batch was finished.
ConflictsRunAgain ==
    \A t \in Conflicting : Listed(t) # {} => "late" \in ran[t]

\* An early execution that was overtaken may replace the set of a transaction that
\* is listed already.  That is all: it happens once, no formal execution does it,
\* and it is over when a graph takes the set of the transaction.
ReplacesOvertaking(t) ==
    Listed(t) # {} /\ rwSet'[t] # rwSet[t] =>
        /\ rwSet[t] = "late" /\ rwSet'[t] = "early"
        /\ dagNodes[t] = {}

SetsSettle == [][\A t \in Txs : ReplacesOvertaking(t)]_vars

\* Every worker gets through the batch.
AllWorkersJoin == <>AllJoined
=============================================================================
