-------------------------------- MODULE Aria --------------------------------
(***************************************************************************)
(* The Aria baseline on one block.  The controller deals the transactions  *)
(* out over the workers and takes the first transaction of every worker as *)
(* a column.  The workers execute the column and reserve what it reads and *)
(* writes, meet at a barrier, and each then commits its transaction or     *)
(* returns it.  A returned transaction goes back to the head of its        *)
(* worker's list, so that the next column begins with it.                  *)
(*                                                                         *)
(* Every block starts with new workers, an empty reservation table and     *)
(* column number 0.  Reservations keep the smallest transaction of a       *)
(* column, whatever the order they are made in, and nothing reads them     *)
(* before the barrier: executing and reserving a transaction is one step.  *)
(***************************************************************************)
EXTENDS Integers, Sequences, FiniteSets, SequencesExt

CONSTANTS
    AriaThreads,        \* numThreads, the controller not counted
    AriaWorkloads       \* the blocks: sequences of [reads, writes]

\* What is assumed of the constants, by EpochEngines.
AriaThreadsAssumption == AriaThreads \in Nat \ {0}
AriaBlocksAssumption ==
    \A b \in AriaWorkloads : Len(b) \in Nat /\ DOMAIN b = 1 .. Len(b)

VARIABLES
    txs,                \* the block
    \* the controller
    perThreadBatch,
    controller,         \* "send", "collect" or "end"
    thread,             \* the worker it sends to or hears from
    nilNumber,
    batchID,
    \* the transactions, named by their place in the block
    BatchID,
    Committed,
    \* the reservation table: the column and the transaction of an entry
    ReservedGet,
    ReservedPut,
    \* the barrier
    count,
    gen,
    \* the workers
    at,                 \* "receive", "arrive", "wait", "verify", "result" or "end"
    tx,                 \* the transaction of the column, 0 for nil
    seen                \* the generation of the barrier that a worker waits for

controllerVars == <<perThreadBatch, controller, thread, nilNumber, batchID>>
table == <<ReservedGet, ReservedPut>>
barrier == <<count, gen>>
workerVars == <<at, tx, seen>>
vars == <<txs, controllerVars, BatchID, Committed, table, barrier, workerVars>>

Workers == 0 .. AriaThreads - 1
Txs == DOMAIN txs
Keys == UNION {txs[t].reads \cup txs[t].writes : t \in Txs}

NoEntry == [column |-> 0, tx |-> 0]

\* Round robin, as in Start: those whose place, counted from 0, leaves w.
Dealt(block, w) ==
    [j \in 1 .. (Len(block) + AriaThreads - 1 - w) \div AriaThreads |->
        (j - 1) * AriaThreads + w + 1]

Init ==
    /\ txs \in AriaWorkloads
    /\ perThreadBatch = [w \in Workers |-> Dealt(txs, w)]
    /\ controller = "send"
    /\ thread = 0
    /\ nilNumber = 0
    /\ batchID = 0
    /\ BatchID = [t \in Txs |-> 0]
    /\ Committed = [t \in Txs |-> FALSE]
    /\ ReservedGet = [k \in Keys |-> NoEntry]
    /\ ReservedPut = [k \in Keys |-> NoEntry]
    /\ count = AriaThreads
    /\ gen = 0
    /\ at = [w \in Workers |-> "receive"]
    /\ tx = [w \in Workers |-> 0]
    /\ seen = [w \in Workers |-> 0]

-----------------------------------------------------------------------------
(* The controller: processBlock.  Its channels hold nothing, so sending and *)
(* receiving are one step of both sides.                                   *)

LastThread == thread = AriaThreads - 1
NextThread == (thread + 1) % AriaThreads

Send ==
    /\ controller = "send"
    /\ at[thread] = "receive"
    /\ LET mine == perThreadBatch[thread]
       IN  IF mine = <<>>
           THEN /\ tx' = [tx EXCEPT ![thread] = 0]
                /\ nilNumber' = nilNumber + 1
                /\ UNCHANGED <<BatchID, perThreadBatch>>
           ELSE /\ tx' = [tx EXCEPT ![thread] = Head(mine)]
                /\ BatchID' = [BatchID EXCEPT ![Head(mine)] = batchID]
                /\ perThreadBatch' = [perThreadBatch EXCEPT ![thread] = Tail(mine)]
                /\ UNCHANGED nilNumber
    /\ at' = [at EXCEPT ![thread] = "arrive"]
    /\ thread' = NextThread
    /\ controller' = IF LastThread THEN "collect" ELSE "send"
    /\ batchID' = IF LastThread THEN batchID + 1 ELSE batchID
    /\ UNCHANGED <<txs, Committed, table, barrier, seen>>

\* Variant: a returned transaction goes to the end of the list.
PutBackLast(t, list) == Append(list, t)

\* What is left of a worker's list when it returns a transaction.
PutBack(t, list) == <<t>> \o list

Collect ==
    /\ controller = "collect"
    /\ at[thread] = "result"
    /\ perThreadBatch' =
           IF tx[thread] # 0 /\ ~Committed[tx[thread]]
           THEN [perThreadBatch EXCEPT ![thread] = PutBack(tx[thread], @)]
           ELSE perThreadBatch
    /\ thread' = NextThread
    /\ LET last == LastThread /\ nilNumber = AriaThreads
       IN  /\ controller' = IF last THEN "end" ELSE IF LastThread THEN "send" ELSE "collect"
           \* The channels are closed together.
           /\ at' = IF last THEN [w \in Workers |-> "end"] ELSE [at EXCEPT ![thread] = "receive"]
    /\ nilNumber' = IF LastThread THEN 0 ELSE nilNumber
    /\ UNCHANGED <<txs, batchID, BatchID, Committed, table, barrier, tx, seen>>

-----------------------------------------------------------------------------
(* A worker: ProcessOneTx.                                                 *)

\* The entry after t's reservation.
Reserved(entry, t) ==
    IF entry.column # BatchID[t] \/ entry.tx = 0 \/ entry.tx > t
    THEN [column |-> BatchID[t], tx |-> t]
    ELSE entry

ReserveAll(entries, keys, t) ==
    [k \in Keys |-> IF k \in keys THEN Reserved(entries[k], t) ELSE entries[k]]

Reserve(w) ==
    IF tx[w] = 0
    THEN UNCHANGED table
    ELSE /\ ReservedGet' = ReserveAll(ReservedGet, txs[tx[w]].reads, tx[w])
         /\ ReservedPut' = ReserveAll(ReservedPut, txs[tx[w]].writes, tx[w])

\* Variant: the barrier opens for the last but one.
LastButOne == count = 2

LastToArrive == count = 1

\* Execute and Reserve, then the first half of Wait.
ReserveAndArrive(w) ==
    /\ at[w] = "arrive"
    /\ Reserve(w)
    /\ IF LastToArrive
       THEN /\ gen' = gen + 1
            /\ count' = AriaThreads
            /\ at' = [at EXCEPT ![w] = "verify"]
            /\ UNCHANGED seen
       ELSE /\ count' = count - 1
            /\ seen' = [seen EXCEPT ![w] = gen]
            /\ at' = [at EXCEPT ![w] = "wait"]
            /\ UNCHANGED gen
    /\ UNCHANGED <<txs, controllerVars, BatchID, Committed, tx>>

Wake(w) ==
    /\ at[w] = "wait"
    /\ gen # seen[w]
    /\ at' = [at EXCEPT ![w] = "verify"]
    /\ UNCHANGED <<txs, controllerVars, BatchID, Committed, table, barrier, tx, seen>>

\* Variant: a transaction's own reservation stands in its way.
BeforeOrSelf(entry, t) == entry.column = BatchID[t] /\ entry.tx # 0 /\ entry.tx <= t

\* CompareReservedGet and CompareReservedPut, negated: a smaller transaction
\* of t's column holds the entry.
Before(entry, t) == entry.column = BatchID[t] /\ entry.tx # 0 /\ entry.tx < t

Raw(t) == \E k \in txs[t].reads : Before(ReservedPut[k], t)
Waw(t) == \E k \in txs[t].writes : Before(ReservedPut[k], t)
War(t) == \E k \in txs[t].writes : Before(ReservedGet[k], t)

\* Variant: only writes on writes are a conflict.
ConflictWaw(t) == Waw(t)

\* With enableReorder, as run.go starts it.
Conflict(t) == Waw(t) \/ (Raw(t) /\ War(t))

Verify(w) ==
    /\ at[w] = "verify"
    /\ Committed' =
           IF tx[w] # 0 /\ ~Conflict(tx[w])
           THEN [Committed EXCEPT ![tx[w]] = TRUE]
           ELSE Committed
    /\ at' = [at EXCEPT ![w] = "result"]
    /\ UNCHANGED <<txs, controllerVars, BatchID, table, barrier, tx, seen>>

Worker(w) == ReserveAndArrive(w) \/ Wake(w) \/ Verify(w)

Next ==
    \/ Send
    \/ Collect
    \/ \E w \in Workers : Worker(w)

Spec == Init /\ [][Next]_vars

\* Goroutines that can go on are scheduled.
Fairness ==
    /\ WF_vars(Send)
    /\ WF_vars(Collect)
    /\ \A w \in Workers : WF_vars(Worker(w))

-----------------------------------------------------------------------------
(* Properties.                                                             *)

\* t must come before u when both are committed in one column, where every
\* transaction reads what was there before the column.
Precedes(t, u) == t # u /\ txs[t].reads \cap txs[u].writes # {}

\* What one column commits can be put in a serial order: no two of its
\* transactions write the same key, and among any of them there is one that
\* reads nothing the others write, which can come last.
AriaSerializable ==
    \A b \in 0 .. batchID :
        LET column == {t \in Txs : Committed[t] /\ BatchID[t] = b}
        IN  /\ \A t, u \in column : t # u => txs[t].writes \cap txs[u].writes = {}
            /\ \A S \in (SUBSET column) \ {{}} :
                   \E t \in S : \A u \in S : ~Precedes(t, u)

\* A returned transaction holds up the transactions behind it: those of one
\* worker commit one per column in the order of the block.
AriaThreadOrder ==
    \A t, u \in Txs :
        (t < u /\ (u - t) % AriaThreads = 0 /\ Committed[u])
            => Committed[t] /\ BatchID[t] < BatchID[u]

\* A worker judges its transaction only when all transactions of the column
\* have made their reservations, and those stay until the last one is judged:
\* each entry names the smallest transaction of the column that uses the key.
AriaSeesColumn ==
    LET column == {tx[w] : w \in Workers} \ {0}
        Smallest(k, keysOf(_), entry) ==
            LET users == {t \in column : k \in keysOf(t)}
            IN  users # {} => /\ entry.tx \in users
                              /\ \A t \in users : entry.tx <= t /\ entry.column = BatchID[t]
    IN  (\E w \in Workers : at[w] = "verify") =>
            \A k \in Keys :
                /\ Smallest(k, LAMBDA t : txs[t].reads, ReservedGet[k])
                /\ Smallest(k, LAMBDA t : txs[t].writes, ReservedPut[k])

AllCommitted ==
    /\ controller = "end"
    /\ \A w \in Workers : at[w] = "end"
    /\ \A t \in Txs : Committed[t]

\* Every transaction of the block commits, however often it is returned, and
\* the controller and the workers end.
AriaFinishes == <>AllCommitted
=============================================================================
