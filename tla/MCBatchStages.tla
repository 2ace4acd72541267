--------------------------- MODULE MCBatchStages ---------------------------
(* The instance of BatchStages for TLC.                                      *)
EXTENDS BatchStages, TLC

CONSTANTS t1, t2, a1, a2, a3

\* A long transaction and a short one.
Long == <<t1>>
Short == <<t2>>

GraphTransactions == 1 .. 5

Table(readers, writers) == [hasRead |-> readers, hasWrite |-> writers]

\* A transaction alone, readers that do not conflict, single conflicts of each
\* kind that chain up, a writer among readers and one reading and writing.
TableShapes == <<
    Table({4}, {}),
    Table({1, 2}, {}),
    Table({}, {1, 2}),
    Table({3}, {2}),
    Table({3}, {4}),
    Table({1, 3, 4}, {3}),
    Table({1, 2}, {4}),
    Table({3, 5}, {2, 5}),
    Table({}, {1, 5})>>

Indices ==
    LET shapes == DOMAIN TableShapes
    IN  {<<i, j, k>> \in shapes \X shapes \X shapes : i <= j /\ j < k}

\* Three addresses, of which at most two have the same table; which of them has
\* which table does not matter.
Triples ==
    {(a1 :> TableShapes[x[1]]) @@ (a2 :> TableShapes[x[2]]) @@ (a3 :> TableShapes[x[3]]) :
        x \in Indices}

ComponentTransactions == 1 .. 4

TableTransactions == 1 .. 3

Sets(reads, writes) == [ReadSet |-> reads, WriteSet |-> writes]

\* A transaction that touches nothing, one that only reads, one that only writes,
\* one that does both on one address and one on either.
SetShapes == {
    Sets({}, {}),
    Sets({a1}, {}),
    Sets({}, {a1, a2}),
    Sets({a1}, {a1}),
    Sets({a1, a2}, {a2})}

\* All combinations in which some transaction touches an address.
Touching ==
    {sets \in [TableTransactions -> SetShapes] :
        \E t \in TableTransactions : sets[t] # Sets({}, {})}
=============================================================================
