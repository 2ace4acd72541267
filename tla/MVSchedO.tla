------------------------------ MODULE MVSchedO ------------------------------
(***************************************************************************)
(* The MVSchedO baseline on one block.  The scheduler (SMF) orders the     *)
(* block so that the schedule stays short; the place in the schedule is a  *)
(* transaction's timestamp.  The workers take the schedule round robin and *)
(* go through the operations of a transaction, reads before writes, on a   *)
(* multi-version table: on a hot key an operation waits until the          *)
(* conflicting operations of smaller timestamps are done.  A transaction   *)
(* that read a version not yet committed waits for its writer.             *)
(*                                                                         *)
(* Nothing is ever undone in the queues, so waiting for the turn and the   *)
(* operation after it are one step; so are the end of a transaction and    *)
(* the marking of its versions, which other transactions see through the   *)
(* status of their writer.                                                 *)
(***************************************************************************)
EXTENDS Integers, Sequences, FiniteSets, SequencesExt

CONSTANTS
    MVThreads,          \* numThreads
    MVWorkloads,        \* sequences of blocks, a block a sequence of [reads, writes];
                        \* the keys are numbers, in the order of their addresses
    SampleSize          \* defaultSMFSampleSize

\* What is assumed of the constants, by OrderedEngines.
MVThreadsAssumption == MVThreads \in Nat \ {0}
MVWorkloadsAssumption ==
    \A blocks \in MVWorkloads :
        /\ Len(blocks) \in Nat /\ DOMAIN blocks = 1 .. Len(blocks)
        /\ \A b \in DOMAIN blocks :
               /\ Len(blocks[b]) \in Nat /\ DOMAIN blocks[b] = 1 .. Len(blocks[b])
               /\ \A t \in DOMAIN blocks[b] :
                      /\ blocks[b][t].reads \cup blocks[b][t].writes \subseteq Nat
                      /\ IsFiniteSet(blocks[b][t].reads) /\ IsFiniteSet(blocks[b][t].writes)

VARIABLES
    txs,                \* the block in the order of the schedule: the timestamps are its indices
    hotKeys,
    \* the table
    maxReadTS,          \* by key
    versions,           \* by key: the timestamps of the versions, 0 the initial one
    status,             \* of each transaction: "pending", "committed" or "aborted"
    \* the transactions
    LocalGet,           \* [key -> timestamp of the version read], -1 before it is read
    dependencies,
    \* the queues
    done,               \* the operations done, as <<timestamp, place>>
    \* the workers
    tx,                 \* the transaction of a worker, beyond the block at the end
    op,                 \* the place of its next operation
    at,                 \* "access", "mark" or "failed"
    finished            \* serialFallback has returned

table == <<maxReadTS, versions, status>>
vars == <<txs, hotKeys, table, LocalGet, dependencies, done, tx, op, at, finished>>

Workers == 1 .. MVThreads
Txs == DOMAIN txs

ReadOperation == "read"
WriteOperation == "write"

\* sortedKeys: the i-th of a set of keys.
SortedKey(S, i) == CHOOSE k \in S : Cardinality({j \in S : j <= k}) = i

\* RebuildOperations
OpsOf(t) ==
    LET r == Cardinality(t.reads)
    IN  [i \in 1 .. r + Cardinality(t.writes) |->
            IF i <= r THEN [Key |-> SortedKey(t.reads, i), Type |-> ReadOperation]
            ELSE [Key |-> SortedKey(t.writes, i - r), Type |-> WriteOperation]]

Ops(t) == OpsOf(txs[t])
Keys == UNION {txs[t].reads \cup txs[t].writes : t \in Txs}

\* Variant: reads wait for nothing, writes for writes only.
ConflictWritesOnly(o, p) == o.Type = WriteOperation /\ p.Type = WriteOperation

conflictsWith(o, p) == o.Type = WriteOperation \/ p.Type = WriteOperation

\* Variant: a key is hot when more than two transactions use it.
ContendedByThree(users) == Cardinality(users) > 2

\* hotKeyTransactionCount
Contended(users) == Cardinality(users) > 1

\* identifyHotKeys, over the transactions of all blocks: keys that somebody
\* writes and more than one transaction uses.
HotKeys(blocks) ==
    LET all == UNION {{<<b, i>> : i \in DOMAIN blocks[b]} : b \in DOMAIN blocks}
        Users(k) == {p \in all : k \in blocks[p[1]][p[2]].reads \cup blocks[p[1]][p[2]].writes}
        written == UNION {blocks[p[1]][p[2]].writes : p \in all}
    IN  {k \in written : Contended(Users(k))}

-----------------------------------------------------------------------------
(* The scheduler.                                                          *)

Longer(a, b) == IF a > b THEN a ELSE b

\* simulateAppend: every operation on a hot key takes one unit of time.
SimulateAppend(t, s, hot) ==
    FoldLeft(
                LAMBDA a, o :
                    IF o.Key \notin hot THEN a
                    ELSE IF o.Type = ReadOperation
                    THEN LET finish == Longer(a.time, a.write[o.Key]) + 1
                         IN  [a EXCEPT !.read[o.Key] = Longer(@, finish), !.time = finish,
                                       !.makespan = Longer(@, finish)]
                    ELSE LET finish == Longer(a.time, Longer(a.read[o.Key], a.write[o.Key])) + 1
                         IN  [a EXCEPT !.write[o.Key] = finish, !.time = finish,
                                       !.makespan = Longer(@, finish)],
                [s EXCEPT !.time = 0], OpsOf(t))

\* What the simulation has come to after the first transactions of a schedule.
Simulated(block, schedule, hot) ==
    LET after[n \in 0 .. Len(block)] ==
            IF n = 0
            THEN [read |-> [k \in hot |-> 0], write |-> [k \in hot |-> 0], time |-> 0, makespan |-> 0]
            ELSE SimulateAppend(block[schedule[n]], after[n - 1], hot)
    IN  after

\* Of a sample of the transactions that are left the n-th of the schedule adds
\* least to the makespan, and of those that do it arrived first.
BestOfSample(block, schedule, hot, n) ==
    LET left == {schedule[m] : m \in n .. Len(block)}
        Makespan(i) == SimulateAppend(block[i], Simulated(block, schedule, hot)[n - 1], hot).makespan
        best == schedule[n]
    IN  \E sample \in SUBSET left :
            /\ Cardinality(sample) = IF Cardinality(left) <= SampleSize THEN Cardinality(left) ELSE SampleSize
            /\ best \in sample
            /\ \A i \in sample : \/ Makespan(best) < Makespan(i)
                                 \/ Makespan(best) = Makespan(i) /\ best <= i

\* Schedule: the first transaction is a random one.
Schedules(block, hot) ==
    IF Len(block) <= 1 \/ hot = {}
    THEN {[i \in DOMAIN block |-> i]}
    ELSE {schedule \in [DOMAIN block -> DOMAIN block] :
              /\ \A m, n \in DOMAIN block : schedule[m] = schedule[n] => m = n
              /\ \A n \in 2 .. Len(block) : BestOfSample(block, schedule, hot, n)}

Init ==
    /\ \E blocks \in MVWorkloads : \E b \in DOMAIN blocks :
           /\ hotKeys = HotKeys(blocks)
           /\ \E order \in Schedules(blocks[b], HotKeys(blocks)) :
                  txs = [i \in DOMAIN order |-> blocks[b][order[i]]]
    /\ maxReadTS = [k \in Keys |-> 0]
    /\ versions = [k \in Keys |-> {0}]
    /\ status = [t \in Txs |-> "pending"]
    /\ LocalGet = [t \in Txs |-> [k \in txs[t].reads |-> -1]]
    /\ dependencies = [t \in Txs |-> {}]
    /\ done = {}
    /\ tx = [w \in Workers |-> w]
    /\ op = [w \in Workers |-> 1]
    /\ at = [w \in Workers |-> "access"]
    /\ finished = FALSE

-----------------------------------------------------------------------------
(* A worker: processTransaction.                                           *)

\* Variant: an operation waits for the later transactions.
SmallerReversed(u, t) == u > t

\* The operations before o that it waits for.
Smaller(u, t) == u < t

MyTurn(t, o) ==
    \A u \in Txs : Smaller(u, t) =>
        \A j \in DOMAIN Ops(u) :
            (Ops(u)[j].Key = o.Key /\ conflictsWith(Ops(u)[j], o)) => <<u, j>> \in done

\* WaitTurn
WaitTurn(t, o) == o.Key \in hotKeys => MyTurn(t, o)

Latest(S) == CHOOSE i \in S : \A j \in S : j <= i

Read(t, k) ==
    LET version == Latest({v \in versions[k] : /\ v <= t
                                               /\ v # 0 => status[v] # "aborted"})
    IN  /\ maxReadTS' = [maxReadTS EXCEPT ![k] = Longer(@, t)]
        /\ LocalGet' = [LocalGet EXCEPT ![t][k] = version]
        /\ dependencies' =
               IF version # 0 /\ status[version] # "committed" /\ version # t
               THEN [dependencies EXCEPT ![t] = @ \cup {version}]
               ELSE dependencies
        /\ UNCHANGED versions

TooLate(t, k) == t < maxReadTS[k]

Write(t, k) ==
    /\ versions' = IF TooLate(t, k) THEN versions ELSE [versions EXCEPT ![k] = @ \cup {t}]
    /\ UNCHANGED <<maxReadTS, LocalGet, dependencies>>

Access(w) ==
    /\ at[w] = "access"
    /\ tx[w] \in Txs
    /\ op[w] \in DOMAIN Ops(tx[w])
    /\ LET t == tx[w]
           o == Ops(t)[op[w]]
       IN  /\ WaitTurn(t, o)
           /\ IF o.Type = ReadOperation THEN Read(t, o.Key) ELSE Write(t, o.Key)
           /\ at' = [at EXCEPT ![w] = IF o.Type = WriteOperation /\ TooLate(t, o.Key)
                                      THEN "failed" ELSE "mark"]
    /\ UNCHANGED <<txs, hotKeys, status, done, tx, op, finished>>

NextTx(w) ==
    /\ tx' = [tx EXCEPT ![w] = @ + MVThreads]
    /\ op' = [op EXCEPT ![w] = 1]

\* MarkDone, and after a failed write FreeTransaction and Abort.
Mark(w) ==
    /\ at[w] \in {"mark", "failed"}
    /\ IF at[w] = "mark"
       THEN /\ done' = done \cup {<<tx[w], op[w]>>}
            /\ op' = [op EXCEPT ![w] = @ + 1]
            /\ UNCHANGED <<status, tx>>
       ELSE /\ done' = done \cup {<<tx[w], j>> : j \in DOMAIN Ops(tx[w])}
            /\ status' = [status EXCEPT ![tx[w]] = "aborted"]
            /\ NextTx(w)
    /\ at' = [at EXCEPT ![w] = "access"]
    /\ UNCHANGED <<txs, hotKeys, maxReadTS, versions, LocalGet, dependencies, finished>>

\* WaitDependencies, which looks at them in any order and gives up at an
\* aborted one, and what follows.
Finish(w) ==
    /\ at[w] = "access"
    /\ tx[w] \in Txs
    /\ op[w] > Len(Ops(tx[w]))
    /\ LET deps == dependencies[tx[w]]
           failed == \E d \in deps : status[d] = "aborted"
       IN  /\ failed \/ \A d \in deps : status[d] = "committed"
           /\ status' = [status EXCEPT ![tx[w]] = IF failed THEN "aborted" ELSE "committed"]
    /\ NextTx(w)
    /\ UNCHANGED <<txs, hotKeys, maxReadTS, versions, LocalGet, dependencies, done, at, finished>>

Worker(w) ==
    \/ Access(w)
    \/ Mark(w)
    \/ Finish(w)

\* The workers have been joined: serialFallback.
SerialFallback ==
    /\ ~finished
    /\ \A w \in Workers : tx[w] \notin Txs
    /\ status' = [t \in Txs |-> "committed"]
    /\ finished' = TRUE
    /\ UNCHANGED <<txs, hotKeys, maxReadTS, versions, LocalGet, dependencies, done, tx, op, at>>

Next ==
    \/ \E w \in Workers : Worker(w)
    \/ SerialFallback

Spec == Init /\ [][Next]_vars

\* The workers are goroutines and every mark wakes those that wait for their
\* turn.
Fairness ==
    /\ \A w \in Workers : WF_vars(Worker(w))
    /\ WF_vars(SerialFallback)

-----------------------------------------------------------------------------
(* Properties.                                                             *)

\* A read finds the version of the last transaction before it that writes the
\* key.
ReadsLatest ==
    \A t \in Txs : \A k \in txs[t].reads :
        LocalGet[t][k] # -1 =>
            LocalGet[t][k] = Latest({0} \cup {u \in Txs : u < t /\ k \in txs[u].writes})

\* No write comes after the read of a later transaction.
NeverAborts == \A t \in Txs : status[t] # "aborted"

\* The block is executed as if in the order of the timestamps, whatever the
\* workers' order, and the queues leave nothing for the abort path and for the
\* fallback.
MVTimestampOrder == ReadsLatest /\ NeverAborts

AllCommitted == finished /\ \A t \in Txs : status[t] = "committed"

\* Waiting for turns and for writers never goes round in a circle.
MVFinishes == <>AllCommitted
=============================================================================
