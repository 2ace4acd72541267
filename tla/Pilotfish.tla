------------------------------ MODULE Pilotfish ------------------------------
(***************************************************************************)
(* The Pilotfish baseline on one block, whose read and write sets are      *)
(* known from a first execution.  Every key has a queue of the             *)
(* transactions that use it, in which neighbouring readers share an entry; *)
(* each transaction of an entry depends on all those of the entry before.  *)
(* A transaction is executed by the owner of one of its keys, and so every *)
(* worker has a queue of ready transactions of its own.                    *)
(***************************************************************************)
EXTENDS DependencyScheduler

vars == <<txs, planVars, schedulerVars, workerVars>>

LowestKey(S) == CHOOSE k \in S : \A j \in S : k <= j

\* ownerForKey: a hash, by which any worker can own any key.
OwnerForKey(k) == k % NumWorkers

\* chooseExecutionWorker
SelectedWorker(t) ==
    IF txs[t].writes # {} THEN OwnerForKey(LowestKey(txs[t].writes))
    ELSE IF txs[t].reads # {} THEN OwnerForKey(LowestKey(txs[t].reads))
    ELSE t % NumWorkers

AppendWrite(q, t) == Append(q, [op |-> "write", txs |-> {t}])

\* Variant: a reader joins the last entry of readers, whatever is behind it.
AppendReadToReaders(q, t) ==
    IF \E i \in DOMAIN q : q[i].op = "read"
    THEN LET i == CHOOSE j \in DOMAIN q : q[j].op = "read" /\ \A h \in j + 1 .. Len(q) : q[h].op # "read"
         IN  [q EXCEPT ![i].txs = @ \cup {t}]
    ELSE Append(q, [op |-> "read", txs |-> {t}])

AppendRead(q, t) ==
    IF q # <<>> /\ Last(q).op = "read"
    THEN [q EXCEPT ![Len(q)].txs = @ \cup {t}]
    ELSE Append(q, [op |-> "read", txs |-> {t}])

\* The queue of a key; a transaction that writes it is not entered as a reader.
QueueOf(k) ==
    LET queue[i \in 0 .. Len(txs)] ==
            IF i = 0 THEN <<>>
            ELSE IF k \in txs[i].writes THEN AppendWrite(queue[i - 1], i)
            ELSE IF k \in txs[i].reads THEN AppendRead(queue[i - 1], i)
            ELSE queue[i - 1]
    IN  queue[Len(txs)]

\* buildDependencies
BuildDependencies ==
    {e \in Txs \X Txs :
        \E k \in Keys : \E i \in 1 .. Len(QueueOf(k)) - 1 :
            e[1] \in QueueOf(k)[i].txs /\ e[2] \in QueueOf(k)[i + 1].txs}

Init ==
    /\ InitScheduler
    /\ order = [i \in 1 .. Len(txs) |-> i]
    /\ InitPlan(BuildDependencies, SelectedWorker)
    /\ at = [w \in Workers |-> "next"]

\* scheduler.next(id)
NextTx(w) == NextFrom(w, w, remaining = 0)

\* executePilotfishEthTransaction, on the worker's own copy of the state.
Execute(w) ==
    /\ at[w] = "run"
    /\ at' = [at EXCEPT ![w] = "complete"]
    /\ UNCHANGED <<txs, planVars, schedulerVars, current>>

\* scheduler.complete(tx)
Complete(w) == CompleteTx(w, SelectedWorker)

Worker(w) ==
    \/ NextTx(w)
    \/ Execute(w)
    \/ Complete(w)

Next == \E w \in Workers : Worker(w)

Spec == Init /\ [][Next]_vars

\* The workers are goroutines; one that the condition wakes gets the mutex.
Fairness == \A w \in Workers : WF_vars(Worker(w))

AllCompleted == AllEnded /\ completed = Txs

\* Every worker learns that the block is done.
PilotfishFinishes == <>AllCompleted
=============================================================================
