---------------------------- MODULE StateTables ----------------------------
(***************************************************************************)
(* What is in the state tables that StateTableMerge passes around: for     *)
(* every address the operations on it, sorted by transaction with reads    *)
(* before writes, and the set of addresses written.  Workers build tables  *)
(* from the read-write sets of the transactions they listed, tables are    *)
(* merged two by two, and the last one is what the conflict graph is built *)
(* from.                                                                   *)
(***************************************************************************)
EXTENDS Integers, Sequences, FiniteSets, SequencesExt

CONSTANTS
    Txs,            \* transaction ids
    Addrs,
    Workers,
    Workloads       \* the read-write sets to look at

\* What is assumed of the constants, by BatchStages.
TxsAssumption == IsFiniteSet(Txs) /\ Txs \subseteq Nat

\* A batch in which no transaction touches an address has no table to publish.
WorkloadsAssumption ==
    /\ Workloads \subseteq [Txs -> [ReadSet : SUBSET Addrs, WriteSet : SUBSET Addrs]]
    /\ \A sets \in Workloads : \E t \in Txs : sets[t].ReadSet \cup sets[t].WriteSet # {}

VARIABLES
    rwSets,         \* the read-write set of every transaction
    ThreadRWSets,   \* the transactions each worker has listed
    unbuilt,        \* the workers that have not built their table
    tables,         \* the table of each worker, Nil, or None when it has none
    gathered,       \* the transactions that went into it
    stateTables,    \* what is published
    writeSet,
    crashed,        \* nil was dereferenced
    done

published == <<stateTables, writeSet, crashed, done>>
vars == <<rwSets, ThreadRWSets, unbuilt, tables, gathered, published>>

\* Type 0 is a read and type 1 a write.
Operation == [TxID : Txs, Type : {0, 1}]

\* The addresses of a table are the domain of its lists.
EmptyMap == [a \in {} |-> <<>>]
Table(lists, written) == [stateTables |-> lists, writeSet |-> written]

IsTable(table) ==
    /\ table = Table(table.stateTables, table.writeSet)
    /\ DOMAIN table.stateTables \subseteq Addrs
    /\ \A a \in DOMAIN table.stateTables : table.stateTables[a] \in Seq(Operation)
    /\ table.writeSet \subseteq DOMAIN table.stateTables

Nil == Table(EmptyMap, {"nil"})
None == Table(EmptyMap, {"none"})

TypeOK ==
    /\ rwSets \in Workloads
    /\ ThreadRWSets \in [Workers -> SUBSET Txs]
    /\ unbuilt \subseteq Workers
    /\ \A w \in Workers : tables[w] \in {Nil, None} \/ IsTable(tables[w])
    /\ gathered \in [Workers -> SUBSET Txs]
    /\ IsTable(Table(stateTables, writeSet))
    /\ crashed \in BOOLEAN
    /\ done \in BOOLEAN

Init ==
    /\ rwSets \in Workloads
    /\ ThreadRWSets \in [Workers -> SUBSET Txs]
    /\ UNION {ThreadRWSets[w] : w \in Workers} = Txs
    /\ \A v, w \in Workers : v # w => ThreadRWSets[v] \cap ThreadRWSets[w] = {}
    /\ unbuilt = Workers
    /\ tables = [w \in Workers |-> None]
    /\ gathered = [w \in Workers |-> {}]
    /\ stateTables = EmptyMap
    /\ writeSet = {}
    /\ crashed = FALSE
    /\ done = FALSE

----------------------------------------------------------------------------
(* buildStateTable *)

\* Variant: operations are ordered by type first.
CompareByType(op1, op2) ==
    IF op1.Type # op2.Type THEN op1.Type - op2.Type ELSE op1.TxID - op2.TxID

\* Negative when op1 comes first: by transaction, and a read before a write.
CompareOperations(op1, op2) ==
    IF op1.TxID # op2.TxID THEN op1.TxID - op2.TxID ELSE op1.Type - op2.Type

\* The operations of the transactions txs on address a.
OperationsOn(a, txs) ==
    {[TxID |-> t, Type |-> 0] : t \in {u \in txs : a \in rwSets[u].ReadSet}}
    \cup {[TxID |-> t, Type |-> 1] : t \in {u \in txs : a \in rwSets[u].WriteSet}}

\* The k-th of the operations is the one that k of them do not come after.
Sorted(ops) ==
    [k \in 1 .. Cardinality(ops) |->
        CHOOSE p \in ops : Cardinality({q \in ops : CompareOperations(q, p) <= 0}) = k]

\* A worker that listed no transaction has a nil table.
BuildStateTable(w) ==
    /\ w \in unbuilt
    /\ unbuilt' = unbuilt \ {w}
    /\ LET txs == ThreadRWSets[w]
           touched == UNION {rwSets[t].ReadSet \cup rwSets[t].WriteSet : t \in txs}
       IN  tables' = [tables EXCEPT ![w] =
                IF txs = {} THEN Nil
                ELSE Table([a \in touched |-> Sorted(OperationsOn(a, txs))],
                           UNION {rwSets[t].WriteSet : t \in txs})]
    /\ gathered' = [gathered EXCEPT ![w] = ThreadRWSets[w]]
    /\ UNCHANGED <<rwSets, ThreadRWSets, published>>

----------------------------------------------------------------------------
(* mergeStateTables *)

\* Variant: what is left of the second list is forgotten.
MergeShort(list1, list2) ==
    LET merge[at \in (1 .. Len(list1) + 1) \X (1 .. Len(list2) + 1)] ==
            LET i == at[1]
                j == at[2]
            IN  CASE i > Len(list1) -> <<>>
                  [] i <= Len(list1) /\ j > Len(list2) -> SubSeq(list1, i, Len(list1))
                  [] OTHER -> IF CompareOperations(list1[i], list2[j]) <= 0
                              THEN <<list1[i]>> \o merge[<<i + 1, j>>]
                              ELSE <<list2[j]>> \o merge[<<i, j + 1>>]
    IN  merge[<<1, 1>>]

MergeTwoLists(list1, list2) ==
    LET merge[at \in (1 .. Len(list1) + 1) \X (1 .. Len(list2) + 1)] ==
            LET i == at[1]
                j == at[2]
            IN  CASE i > Len(list1) -> SubSeq(list2, j, Len(list2))
                  [] i <= Len(list1) /\ j > Len(list2) -> SubSeq(list1, i, Len(list1))
                  [] OTHER -> IF CompareOperations(list1[i], list2[j]) <= 0
                              THEN <<list1[i]>> \o merge[<<i + 1, j>>]
                              ELSE <<list2[j]>> \o merge[<<i, j + 1>>]
    IN  merge[<<1, 1>>]

\* An address of one table keeps its list, one of both gets a merged list.
MergedTables(lists1, lists2) ==
    [a \in DOMAIN lists1 \cup DOMAIN lists2 |->
        CASE a \notin DOMAIN lists2 -> lists1[a]
          [] a \notin DOMAIN lists1 -> lists2[a]
          [] OTHER -> MergeTwoLists(lists1[a], lists2[a])]

ListsOf(table) == table.stateTables
WritesOf(table) == IF table = Nil THEN {} ELSE table.writeSet

\* Variant: the write set of the table that is passed on is not added.
MergeKeepingWrites(table1, table2) ==
    LET lists == MergedTables(ListsOf(table1), ListsOf(table2))
    IN  IF lists = EmptyMap THEN Nil ELSE Table(lists, WritesOf(table1))

\* Two tables without any address make a nil table.
Merge(table1, table2) ==
    LET lists == MergedTables(ListsOf(table1), ListsOf(table2))
    IN  IF lists = EmptyMap THEN Nil
        ELSE Table(lists, WritesOf(table1) \cup WritesOf(table2))

\* StateTableMerge models whose table is merged with whose; here any two are.
MergeStateTables(w, v) ==
    /\ w # v
    /\ tables[w] # None
    /\ tables[v] # None
    /\ tables' = [tables EXCEPT ![w] = Merge(tables[w], tables[v]), ![v] = None]
    /\ gathered' = [gathered EXCEPT ![w] = @ \cup gathered[v], ![v] = {}]
    /\ UNCHANGED <<rwSets, ThreadRWSets, unbuilt, published>>

\* After the last merge its result is dereferenced, nil or not.
Publish(w) ==
    /\ ~done
    /\ unbuilt = {}
    /\ tables[w] # None
    /\ \A v \in Workers \ {w} : tables[v] = None
    /\ done' = TRUE
    /\ IF tables[w] = Nil
       THEN crashed' = TRUE /\ UNCHANGED <<stateTables, writeSet>>
       ELSE /\ stateTables' = tables[w].stateTables
            /\ writeSet' = tables[w].writeSet
            /\ UNCHANGED crashed
    /\ UNCHANGED <<rwSets, ThreadRWSets, unbuilt, tables, gathered>>

Terminated ==
    /\ done
    /\ UNCHANGED vars

Next ==
    \/ \E w \in Workers : BuildStateTable(w)
    \/ \E w, v \in Workers : MergeStateTables(w, v)
    \/ \E w \in Workers : Publish(w)
    \/ Terminated

Spec == Init /\ [][Next]_vars

----------------------------------------------------------------------------
(* groupOperationsByTx: one entry for each run of operations of a transaction *)

GroupOperationsByTx(ops) ==
    LET add(groups, op) ==
            LET isNew == groups = <<>> \/ Last(groups).TxID # op.TxID
                txOp == IF isNew THEN [HasRead |-> FALSE, HasWrite |-> FALSE] ELSE Last(groups)
                seen == [TxID     |-> op.TxID,
                         HasRead  |-> txOp.HasRead \/ op.Type = 0,
                         HasWrite |-> txOp.HasWrite \/ op.Type = 1]
            IN  Append(IF isNew THEN groups ELSE Front(groups), seen)
    IN  FoldLeft(add, <<>>, ops)

----------------------------------------------------------------------------
(* Properties *)

\* Every table has exactly the operations of the transactions it was made from,
\* each once, and every list is sorted, so merging may rely on it.  A nil table
\* never stands for transactions that touch an address.
ListsExact ==
    \A w \in Workers : tables[w] # None =>
        \A a \in Addrs :
            LET lists == ListsOf(tables[w])
                ops == IF a \in DOMAIN lists THEN lists[a] ELSE <<>>
            IN  /\ ToSet(ops) = OperationsOn(a, gathered[w])
                /\ \A i, j \in DOMAIN ops :
                    i < j => \/ ops[i].TxID < ops[j].TxID
                             \/ ops[i].TxID = ops[j].TxID /\ ops[i].Type < ops[j].Type

\* The published write set, with which the next batch decides what it must
\* execute again, is the union of the write sets of all transactions; there is a
\* table to take it from.
WriteSetExact ==
    done => ~crashed /\ writeSet = UNION {rwSets[t].WriteSet : t \in Txs}

\* Each published list groups into one entry for each transaction, which tells
\* whether it reads and whether it writes the address: what ConflictGraph starts
\* from.
GroupedOnce ==
    done => \A a \in DOMAIN stateTables :
        LET groups == GroupOperationsByTx(stateTables[a])
        IN  /\ Len(groups) = Cardinality({groups[i].TxID : i \in DOMAIN groups})
            /\ ToSet(groups) =
                {[TxID     |-> t,
                  HasRead  |-> a \in rwSets[t].ReadSet,
                  HasWrite |-> a \in rwSets[t].WriteSet] :
                 t \in {u \in Txs : a \in rwSets[u].ReadSet \cup rwSets[u].WriteSet}}

=============================================================================
