------------------------------- MODULE OptME -------------------------------
(***************************************************************************)
(* The OptME baseline.  Each block is simulated by the thread pool, which  *)
(* reserves the keys of every transaction; the controller then sorts the   *)
(* transactions by an address-based conflict graph, commits those that the *)
(* sort lets pass, and gives the aborted ones that it is handed to the     *)
(* pool again, epoch by epoch.  A commit takes the reservations back.      *)
(*                                                                         *)
(* The reservations of a block do not depend on the order they are made    *)
(* in, so simulating a transaction is one step; so is what the controller  *)
(* does alone while the pool is idle.                                      *)
(***************************************************************************)
EXTENDS Integers, Sequences, FiniteSets, SequencesExt

CONSTANTS
    OptMEWorkloads      \* sequences of blocks, a block a sequence of [reads, writes];
                        \* the keys are numbers, in the order of their addresses

\* What is assumed of the constants, by EpochEngines: there is a block.
OptMEBlocksAssumption ==
    \A bs \in OptMEWorkloads :
        /\ Len(bs) \in Nat \ {0} /\ DOMAIN bs = 1 .. Len(bs)
        /\ \A b \in DOMAIN bs : Len(bs[b]) \in Nat /\ DOMAIN bs[b] = 1 .. Len(bs[b])

VARIABLES
    blocks,
    blockid,
    phase,              \* "simulate", "reorder", "epoch" or "end"
    pending,            \* the tasks the pool has still to run
    schedules,          \* the epochs still to come, each a set of transactions
    \* the transactions: <<block, place in the block>>
    Aborted,
    Committed,
    Sequenceid,
    \* the table, by key
    BlockIDGet,
    BlockIDPut,
    ReservedPutNum,
    NextReservedPut

txVars == <<Aborted, Committed, Sequenceid>>
table == <<BlockIDGet, BlockIDPut, ReservedPutNum, NextReservedPut>>
vars == <<blocks, blockid, phase, pending, schedules, txVars, table>>

Txs == UNION {{<<b, i>> : i \in DOMAIN blocks[b]} : b \in DOMAIN blocks}
Reads(t) == blocks[t[1]][t[2]].reads
Writes(t) == blocks[t[1]][t[2]].writes
Keys == UNION {Reads(t) \cup Writes(t) : t \in Txs}
TxsOf(b) == {t \in Txs : t[1] = b}
Batch(b) == [i \in DOMAIN blocks[b] |-> <<b, i>>]

Init ==
    /\ blocks \in OptMEWorkloads
    /\ blockid = 1
    /\ phase = "simulate"
    /\ pending = TxsOf(1)
    /\ schedules = <<>>
    /\ Aborted = [t \in Txs |-> FALSE]
    /\ Committed = [t \in Txs |-> FALSE]
    /\ Sequenceid = [t \in Txs |-> 0]
    /\ BlockIDGet = [k \in Keys |-> 0]
    /\ BlockIDPut = [k \in Keys |-> 0]
    /\ ReservedPutNum = [k \in Keys |-> 0]
    /\ NextReservedPut = [k \in Keys |-> 0]

-----------------------------------------------------------------------------
(* Simulation.                                                             *)

Free(k) == BlockIDPut[k] = 0
Own(k) == BlockIDPut[k] = blockid

\* ReserveGet for what t reads, then ReservePut for what it writes.
Simulate(t) ==
    /\ phase = "simulate"
    /\ t \in pending
    /\ pending' = pending \ {t}
    /\ Aborted' = [Aborted EXCEPT ![t] = @ \/ \E k \in Reads(t) : ~Free(k) /\ ~Own(k)]
    /\ BlockIDGet' = [k \in Keys |-> IF k \in Reads(t) /\ (Free(k) \/ Own(k)) THEN blockid
                                     ELSE BlockIDGet[k]]
    /\ BlockIDPut' = [k \in Keys |-> IF k \in Writes(t) /\ Free(k) THEN blockid ELSE BlockIDPut[k]]
    /\ ReservedPutNum' = [k \in Keys |-> IF k \in Writes(t) /\ (Free(k) \/ Own(k))
                                         THEN ReservedPutNum[k] + 1 ELSE ReservedPutNum[k]]
    /\ NextReservedPut' = [k \in Keys |-> IF k \in Writes(t) /\ ~Free(k) /\ BlockIDPut[k] < blockid
                                          THEN NextReservedPut[k] + 1 ELSE NextReservedPut[k]]
    /\ UNCHANGED <<blocks, blockid, phase, schedules, Committed, Sequenceid>>

EndSimulate ==
    /\ phase = "simulate"
    /\ pending = {}
    /\ phase' = "reorder"
    /\ UNCHANGED <<blocks, blockid, pending, schedules, txVars, table>>

-----------------------------------------------------------------------------
(* The address-based conflict graph.                                       *)

\* Construct: of the transactions that read and write the same key the first
\* one is the key's updater, and one that comes upon the updater of another is
\* left out of the graph.
Updates(t) == Reads(t) \cap Writes(t)
Construct(batch) ==
    FoldLeft(LAMBDA acg, t :
                 IF \E k \in Updates(t) : k \in acg.updated
                 THEN [acg EXCEPT !.abortedTxs = Append(@, t)]
                 ELSE [acg EXCEPT !.txList = Append(@, t), !.updated = @ \cup Updates(t)],
             [txList |-> <<>>, abortedTxs |-> <<>>, updated |-> {}], batch)

\* addressRank: the keys with an updater before those without one.
AddressRank(acg) ==
    SetToSortSeq(Keys, LAMBDA j, k : \/ j \in acg.updated /\ k \notin acg.updated
                                     \/ (j \in acg.updated <=> k \in acg.updated) /\ j < k)

Highest(S) == CHOOSE i \in S : \A j \in S : j <= i

\* One key's turn in HierarchicalSort.  s.seq numbers the transactions, 0 for
\* none yet; s.aborted are those aborted; s.read is the number of the key's readers.
SortRead(acg, s, k) ==
    LET readers == {t \in ToSet(acg.txList) : k \in Reads(t)}
        sorted == {s.seq[t] : t \in readers} \ {0}
        high == IF sorted = {} THEN 1 ELSE Highest(sorted)
    IN  [s EXCEPT !.seq = [t \in DOMAIN @ |-> IF t \in readers /\ @[t] = 0 THEN high ELSE @[t]],
                  !.read = high]

SortWrite(acg, s, k) ==
    LET writers == SelectSeq(acg.txList, LAMBDA t : k \in Writes(t))
        sorted == {t \in ToSet(writers) : s.seq[t] > 0}
        updaters == {t \in sorted \ s.aborted : k \in Reads(t)}
        seq1 == [t \in DOMAIN s.seq |-> IF t \in updaters THEN s.read + 1 ELSE s.seq[t]]
        aborted1 == s.aborted \cup {t \in sorted : seq1[t] < s.read}
        \* the numbers of the other writers, each the next one not in use
        numbered ==
            FoldLeft(LAMBDA n, t :
                         LET i == CHOOSE j \in n.last .. n.last + Cardinality(n.used) :
                                      /\ j \notin n.used
                                      /\ \A h \in n.last .. j - 1 : h \in n.used
                         IN  [seq |-> [n.seq EXCEPT ![t] = i], used |-> n.used \cup {i}, last |-> i],
                     [seq |-> seq1, used |-> {seq1[t] : t \in sorted \ aborted1}, last |-> s.read + 1],
                     SelectSeq(writers, LAMBDA t : t \notin sorted))
    IN  [s EXCEPT !.seq = numbered.seq, !.aborted = aborted1]

HierarchicalSort(acg) ==
    FoldLeft(LAMBDA s, k : SortWrite(acg, SortRead(acg, s, k), k),
             [seq |-> Sequenceid, aborted |-> {t \in TxsOf(blockid) : Aborted[t]}, read |-> 0],
             AddressRank(acg))

\* Reorder and the extractAbortList after it.  Reorder takes the aborted
\* transactions out of txList and puts those that read nothing and write
\* several keys back, still marked as aborted; the second extraction finds
\* just these.  What is in abortedTxs is not looked at again, but nothing there
\* reads nothing; neither is the number that Reorder gives those it puts back.
Retried(aborted) ==
    {t \in TxsOf(blockid) : t \in aborted /\ Reads(t) = {} /\ Cardinality(Writes(t)) > 1}

\* Variant: what is written twice is not looked at.
FitsReads(t, epoch) == \A u \in epoch : Writes(u) \cap Reads(t) = {}

\* hasContain, of what t reads and of what it writes.
Fits(t, epoch) == \A u \in epoch : Writes(u) \cap (Reads(t) \cup Writes(t)) = {}

\* The first epoch that writes none of t's keys, or a new one.
Place(t, epochs) ==
    LET fitting == {e \in DOMAIN epochs : Fits(t, epochs[e])}
    IN  IF fitting = {} THEN Append(epochs, {t})
        ELSE LET e == CHOOSE e \in fitting : \A d \in fitting : e <= d
             IN  [epochs EXCEPT ![e] = @ \cup {t}]

\* InterEpochReordering: the transactions of S one by one, in the order of the
\* block.
Schedule(S) ==
    LET epochs[i \in 0 .. Len(blocks[blockid])] ==
            IF i = 0 THEN <<>>
            ELSE IF <<blockid, i>> \in S THEN Place(<<blockid, i>>, epochs[i - 1])
            ELSE epochs[i - 1]
    IN  epochs[Len(blocks[blockid])]

-----------------------------------------------------------------------------
(* Commit.                                                                 *)

\* Variant: whichever block holds the key.
FinalizeAny(S) ==
    LET mine == [k \in Keys |-> {t \in S : k \in Writes(t) /\ BlockIDPut[k] # 0}]
        left == [k \in Keys |-> ReservedPutNum[k] - Cardinality(mine[k])]
        over(k) == mine[k] # {} /\ left[k] = 0
    IN  /\ BlockIDPut' = [k \in Keys |-> IF ~over(k) THEN BlockIDPut[k]
                                         ELSE IF NextReservedPut[k] > 0 THEN BlockIDPut[k] + 1
                                         ELSE 0]
        /\ ReservedPutNum' = [k \in Keys |-> IF over(k) THEN NextReservedPut[k] ELSE left[k]]
        /\ NextReservedPut' = [k \in Keys |-> IF over(k) THEN 0 ELSE NextReservedPut[k]]
        /\ UNCHANGED BlockIDGet

\* Finalize for every transaction of S, over the keys each of them wrote.
\* When the last reservation of a block goes, the next block's take over.
Finalize(S) ==
    LET mine == [k \in Keys |-> {t \in S : k \in Writes(t) /\ BlockIDPut[k] = t[1]}]
        left == [k \in Keys |-> ReservedPutNum[k] - Cardinality(mine[k])]
        over(k) == mine[k] # {} /\ left[k] = 0
    IN  /\ BlockIDPut' = [k \in Keys |-> IF ~over(k) THEN BlockIDPut[k]
                                         ELSE IF NextReservedPut[k] > 0 THEN BlockIDPut[k] + 1
                                         ELSE 0]
        /\ ReservedPutNum' = [k \in Keys |-> IF over(k) THEN NextReservedPut[k] ELSE left[k]]
        /\ NextReservedPut' = [k \in Keys |-> IF over(k) THEN 0 ELSE NextReservedPut[k]]
        /\ UNCHANGED BlockIDGet

\* commitTransaction
CommitAll(S) ==
    /\ Committed' = [t \in Txs |-> Committed[t] \/ t \in S]
    /\ Finalize({t \in S : ~Committed[t]})

\* ReorderWithACG and InterEpochReordering.
ReorderWithACG ==
    /\ phase = "reorder"
    /\ LET acg == Construct(Batch(blockid))
           sorted == HierarchicalSort(acg)
           aborted == sorted.aborted \cup ToSet(acg.abortedTxs)
       IN  /\ Aborted' = [t \in Txs |-> Aborted[t] \/ t \in aborted]
           /\ Sequenceid' = sorted.seq
           /\ CommitAll(TxsOf(blockid) \ aborted)
           /\ schedules' = Schedule(Retried(aborted))
    /\ phase' = "epoch"
    /\ UNCHANGED <<blocks, blockid, pending>>

\* One task of ParallelExecute.
ReExecute(t) ==
    /\ phase = "epoch"
    /\ t \in pending
    /\ pending' = pending \ {t}
    /\ CommitAll({t})
    /\ UNCHANGED <<blocks, blockid, phase, schedules, Aborted, Sequenceid>>

\* The pool has finished an epoch, or the last one: on to the next block.
NextEpoch ==
    /\ phase = "epoch"
    /\ pending = {}
    /\ IF schedules # <<>>
       THEN /\ pending' = Head(schedules)
            /\ schedules' = Tail(schedules)
            /\ UNCHANGED <<blockid, phase>>
       ELSE IF blockid < Len(blocks)
       THEN /\ blockid' = blockid + 1
            /\ phase' = "simulate"
            /\ pending' = TxsOf(blockid + 1)
            /\ UNCHANGED schedules
       ELSE /\ phase' = "end"
            /\ UNCHANGED <<blockid, pending, schedules>>
    /\ UNCHANGED <<blocks, txVars, table>>

Next ==
    \/ \E t \in TxsOf(blockid) : Simulate(t) \/ ReExecute(t)
    \/ EndSimulate
    \/ ReorderWithACG
    \/ NextEpoch

Spec == Init /\ [][Next]_vars

-----------------------------------------------------------------------------
(* Properties.                                                             *)

\* The counter of a key's writers is exact: it is what the block that holds
\* the key has written and not committed, so that it reaches 0 only with the
\* last one and never wraps around.
OptMECountsWriters ==
    \A k \in Keys :
        LET open(b) == {t \in TxsOf(b) : /\ k \in Writes(t) /\ ~Committed[t]
                                         /\ ~(phase = "simulate" /\ t \in pending)}
        IN  IF BlockIDPut[k] = 0
            THEN ReservedPutNum[k] = 0 /\ NextReservedPut[k] = 0
            ELSE ReservedPutNum[k] = Cardinality(open(BlockIDPut[k])) /\ ReservedPutNum[k] > 0

\* Utils.go:19 says of the graph that reads come before writes: of what the
\* sort lets pass, a reader of a key is numbered before its other writers.
ReadsBeforeWrites ==
    \A t, u \in Txs :
        LET Passed(v) == Committed[v] /\ ~Aborted[v]
        IN  (t # u /\ t[1] = u[1] /\ Passed(t) /\ Passed(u) /\ Reads(t) \cap Writes(u) # {}) =>
                Sequenceid[t] < Sequenceid[u]

\* The tasks that the pool executes at the same time write different keys and
\* read none that another writes.
OptMEEpochsApart ==
    phase = "epoch" =>
        \A t, u \in pending : t # u => Writes(t) \cap (Reads(u) \cup Writes(u)) = {}

\* run.go:47 warns when the committed transactions are not all those of the
\* workload: at the end every transaction has been committed.
EveryTxCommitted == phase = "end" => \A t \in Txs : Committed[t]

=============================================================================
