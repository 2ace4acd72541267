------------------------------ MODULE Harmony ------------------------------
(***************************************************************************)
(* The Harmony baseline (newHarmony) without inter-block parallelism.  The *)
(* workers go through the blocks together, with a barrier before every     *)
(* stage of a block: execute all transactions on the state before the      *)
(* block and note their dependencies; verify; apply the write sets of the  *)
(* transactions without a conflict; execute the others again, in the       *)
(* order of a lock table; clean the tables.                                *)
(*                                                                         *)
(* The accesses of an execution are entered key by key under the lock of   *)
(* the key's partition and the dependencies under the locks of the two     *)
(* transactions.  A dependency is noted by whichever access comes second   *)
(* and nothing reads the notes before the barrier, so the execution of a   *)
(* transaction is one step.                                                *)
(***************************************************************************)
EXTENDS Integers, Sequences, FiniteSets

CONSTANTS
    HarmonyThreads,     \* numThreads
    HarmonyWorkloads    \* sequences of blocks, a block a sequence of [reads, writes]

\* What is assumed of the constants, by EpochEngines.
HarmonyThreadsAssumption == HarmonyThreads \in Nat \ {0}
HarmonyBlocksAssumption ==
    \A bs \in HarmonyWorkloads :
        /\ Len(bs) \in Nat /\ DOMAIN bs = 1 .. Len(bs)
        /\ \A b \in DOMAIN bs : Len(bs[b]) \in Nat /\ DOMAIN bs[b] = 1 .. Len(bs[b])

Stages == <<"execute", "verify", "commit", "fallback", "clean">>

VARIABLES
    blocks,
    \* the transactions: <<block, place in the block>>
    MinOut,
    MaxIn,
    FlagConflict,
    CommittedFlag,      \* Committed
    \* the tables, by key
    ReservedGetTxs,
    ReservedPutTxs,     \* UpdateCmds names the same transactions
    Handled,
    Value,              \* the transaction that wrote it, <<0, 0>> at first
    DepsGet,
    DepsPut,
    \* the barrier
    current,
    generation,
    \* the workers
    block,
    stage,
    at,                 \* "run", "wait" or "end"
    next,               \* how many of its transactions the stage has seen to
    seen                \* the generation of the barrier that it waits for

txVars == <<MinOut, MaxIn, FlagConflict, CommittedFlag>>
table == <<ReservedGetTxs, ReservedPutTxs, Handled, Value>>
lockTable == <<DepsGet, DepsPut>>
barrier == <<current, generation>>
workerVars == <<block, stage, at, next, seen>>
vars == <<blocks, txVars, table, lockTable, barrier, workerVars>>

Workers == 0 .. HarmonyThreads - 1
Txs == UNION {{<<b, i>> : i \in DOMAIN blocks[b]} : b \in DOMAIN blocks}
Reads(t) == blocks[t[1]][t[2]].reads
Writes(t) == blocks[t[1]][t[2]].writes
Keys == UNION {Reads(t) \cup Writes(t) : t \in Txs}

\* ID: the transactions are numbered through the blocks from 1.
BlockSize == 10
ID(t) == (t[1] - 1) * BlockSize + t[2]

NoInput == 0        \* MaxInInitValue, below every ID

\* The transactions that a worker has in a block, round robin: those whose
\* place, counted from 0, leaves w.
Batch(w, b) ==
    IF b = 0 THEN <<>>
    ELSE [j \in 1 .. (Len(blocks[b]) + HarmonyThreads - 1 - w) \div HarmonyThreads |->
             <<b, (j - 1) * HarmonyThreads + w + 1>>]

Init ==
    /\ blocks \in HarmonyWorkloads
    /\ MinOut = [t \in Txs |-> ID(t) + 1]
    /\ MaxIn = [t \in Txs |-> NoInput]
    /\ FlagConflict = [t \in Txs |-> FALSE]
    /\ CommittedFlag = [t \in Txs |-> FALSE]
    /\ ReservedGetTxs = [k \in Keys |-> {}]
    /\ ReservedPutTxs = [k \in Keys |-> {}]
    /\ Handled = [k \in Keys |-> FALSE]
    /\ Value = [k \in Keys |-> <<0, 0>>]
    /\ DepsGet = [k \in Keys |-> {}]
    /\ DepsPut = [k \in Keys |-> {}]
    /\ current = 0
    /\ generation = 0
    /\ block = [w \in Workers |-> 0]
    /\ stage = [w \in Workers |-> Len(Stages)]
    /\ at = [w \in Workers |-> "run"]
    /\ next = [w \in Workers |-> 0]
    /\ seen = [w \in Workers |-> 0]

-----------------------------------------------------------------------------
(* The barrier: ArriveAndWait.                                             *)

Mine(w) == Batch(w, block[w])
In(w, name) == at[w] = "run" /\ Stages[stage[w]] = name
HasMore(w) == next[w] < Len(Mine(w))
Tx(w) == Mine(w)[next[w] + 1]

LastToArrive == current + 1 = HarmonyThreads

\* The end of a stage, of a block and of the run.
Arrive(w) ==
    /\ at[w] = "run"
    /\ ~HasMore(w)
    /\ next' = [next EXCEPT ![w] = 0]
    /\ LET blockDone == stage[w] = Len(Stages)
       IN  IF blockDone /\ block[w] = Len(blocks)
           THEN /\ at' = [at EXCEPT ![w] = "end"]
                /\ UNCHANGED <<barrier, block, stage, seen>>
           ELSE /\ stage' = [stage EXCEPT ![w] = IF blockDone THEN 1 ELSE @ + 1]
                /\ block' = [block EXCEPT ![w] = IF blockDone THEN @ + 1 ELSE @]
                /\ IF LastToArrive
                   THEN /\ current' = 0
                        /\ generation' = generation + 1
                        /\ UNCHANGED <<at, seen>>
                   ELSE /\ current' = current + 1
                        /\ seen' = [seen EXCEPT ![w] = generation]
                        /\ at' = [at EXCEPT ![w] = "wait"]
                        /\ UNCHANGED generation
    /\ UNCHANGED <<blocks, txVars, table, lockTable>>

Wake(w) ==
    /\ at[w] = "wait"
    /\ generation # seen[w]
    /\ at' = [at EXCEPT ![w] = "run"]
    /\ UNCHANGED <<blocks, txVars, table, lockTable, barrier, block, stage, next, seen>>

-----------------------------------------------------------------------------
(* The stages, one transaction at a time.                                  *)

Step(w) ==
    /\ next' = [next EXCEPT ![w] = @ + 1]
    /\ UNCHANGED <<blocks, barrier, block, stage, at, seen>>

\* Those that t finds in the tables and depends on, and those that depend on
\* it: a reader depends on the writers of what it read, and of two writers
\* each counts as depending on the other.
Outs(t) ==
    (UNION {ReservedPutTxs[k] : k \in Reads(t) \cup Writes(t)}) \ {t}
Ins(t) ==
    (UNION {ReservedGetTxs[k] \cup ReservedPutTxs[k] : k \in Writes(t)}) \ {t}

Lower(a, b) == IF a < b THEN a ELSE b
Higher(a, b) == IF a > b THEN a ELSE b
MinID(S, m) == CHOOSE i \in {ID(u) : u \in S} \cup {m} : i <= m /\ \A u \in S : i <= ID(u)
MaxID(S, m) == CHOOSE i \in {ID(u) : u \in S} \cup {m} : i >= m /\ \A u \in S : i >= ID(u)

\* Variant: only what t finds in the tables is marked, never t itself.
LaterFound(t, S) == {u \in S : ID(t) < ID(u)}

\* The later transactions of the dependencies between t and S.
LaterOf(t, S) ==
    {u \in S : ID(t) < ID(u)} \cup {u \in {t} : \E v \in S : ID(v) < ID(t)}

\* OnSeeingRWDependency, for all that t's accesses bring to light.  The later
\* transaction of a dependency is marked at once.
Execute(w) ==
    /\ In(w, "execute")
    /\ HasMore(w)
    /\ LET t == Tx(w)
           out == Outs(t)
           in == Ins(t)
       IN  /\ MinOut' = [u \in Txs |-> IF u = t THEN MinID(out, MinOut[t])
                                       ELSE IF u \in in THEN Lower(ID(t), MinOut[u])
                                       ELSE MinOut[u]]
           /\ MaxIn' = [u \in Txs |-> IF u = t THEN MaxID(in, MaxIn[t])
                                      ELSE IF u \in out THEN Higher(ID(t), MaxIn[u])
                                      ELSE MaxIn[u]]
           /\ FlagConflict' =
                  [u \in Txs |-> FlagConflict[u] \/ u \in LaterOf(t, out \cup in)]
           /\ ReservedGetTxs' = [k \in Keys |-> IF k \in Reads(t) THEN ReservedGetTxs[k] \cup {t}
                                                ELSE ReservedGetTxs[k]]
           /\ ReservedPutTxs' = [k \in Keys |-> IF k \in Writes(t) THEN ReservedPutTxs[k] \cup {t}
                                                ELSE ReservedPutTxs[k]]
    /\ UNCHANGED <<CommittedFlag, Handled, Value, lockTable>>
    /\ Step(w)

\* The rule of the protocol: t depends on an earlier transaction, and one that
\* is not before that one depends on t.
Dangerous(t) == MinOut[t] < ID(t) /\ MinOut[t] <= MaxIn[t]

\* Verify and PrepareLockTable.
Verify(w) ==
    /\ In(w, "verify")
    /\ HasMore(w)
    /\ LET t == Tx(w)
           conflict == FlagConflict[t] \/ Dangerous(t)
           Entered(deps, keys) ==
               [k \in Keys |-> IF conflict /\ k \in keys THEN deps[k] \cup {t} ELSE deps[k]]
       IN  /\ FlagConflict' = [FlagConflict EXCEPT ![t] = conflict]
           /\ DepsGet' = Entered(DepsGet, Reads(t))
           /\ DepsPut' = Entered(DepsPut, Writes(t))
    /\ UNCHANGED <<MinOut, MaxIn, CommittedFlag, table>>
    /\ Step(w)

\* The last of the commands on k in the order they are applied in.
Final(k) ==
    LET active == {u \in ReservedPutTxs[k] : ~FlagConflict[u]}
        Later(u, v) == MinOut[u] > MinOut[v] \/ (MinOut[u] = MinOut[v] /\ ID(u) >= ID(v))
    IN  IF active = {} THEN Value[k] ELSE CHOOSE u \in active : \A v \in active : Later(u, v)

\* CommitWithReordering: the first writer of a key to get here applies the
\* commands of all of them.
Commit(w) ==
    /\ In(w, "commit")
    /\ HasMore(w)
    /\ LET t == Tx(w)
       IN  IF FlagConflict[t]
           THEN UNCHANGED <<Handled, Value, CommittedFlag>>
           ELSE /\ Handled' = [k \in Keys |-> Handled[k] \/ k \in Writes(t)]
                /\ Value' = [k \in Keys |-> IF k \in Writes(t) /\ ~Handled[k] THEN Final(k)
                                            ELSE Value[k]]
                /\ CommittedFlag' = [CommittedFlag EXCEPT ![t] = TRUE]
    /\ UNCHANGED <<MinOut, MaxIn, FlagConflict, ReservedGetTxs, ReservedPutTxs, lockTable>>
    /\ Step(w)

\* Variant: the later ones as well.
Others(t) ==
    (UNION {DepsGet[k] \cup DepsPut[k] : k \in Writes(t)}
        \cup UNION {DepsPut[k] : k \in Reads(t)}) \ {t}

\* The earlier transactions of the lock table that t conflicts with.
Earlier(t) ==
    {u \in UNION {DepsGet[k] \cup DepsPut[k] : k \in Writes(t)}
              \cup UNION {DepsPut[k] : k \in Reads(t)} : ID(u) < ID(t)}

\* should_wait: the latest of them, if there is any.
ShouldWait(t) == {u \in Earlier(t) : \A v \in Earlier(t) : ID(v) <= ID(u)}

Fallback(w) ==
    /\ In(w, "fallback")
    /\ HasMore(w)
    /\ LET t == Tx(w)
       IN  IF ~FlagConflict[t]
           THEN UNCHANGED <<Value, CommittedFlag>>
           ELSE /\ \A u \in ShouldWait(t) : CommittedFlag[u]
                /\ Value' = [k \in Keys |-> IF k \in Writes(t) THEN t ELSE Value[k]]
                /\ CommittedFlag' = [CommittedFlag EXCEPT ![t] = TRUE]
    /\ UNCHANGED <<MinOut, MaxIn, FlagConflict, ReservedGetTxs, ReservedPutTxs, Handled, lockTable>>
    /\ Step(w)

\* Variant: the mark that a key's commands have been applied stays.
ResetReservations(t) ==
    LET used == Reads(t) \cup Writes(t)
    IN  /\ ReservedGetTxs' = [k \in Keys |-> IF k \in used THEN {} ELSE ReservedGetTxs[k]]
        /\ ReservedPutTxs' = [k \in Keys |-> IF k \in used THEN {} ELSE ReservedPutTxs[k]]
        /\ UNCHANGED Handled

\* Variant: only for the keys that t wrote.
ResetWritten(t) ==
    /\ ReservedGetTxs' = [k \in Keys |-> IF k \in Writes(t) THEN {} ELSE ReservedGetTxs[k]]
    /\ ReservedPutTxs' = [k \in Keys |-> IF k \in Writes(t) THEN {} ELSE ReservedPutTxs[k]]
    /\ Handled' = [k \in Keys |-> Handled[k] /\ k \notin Writes(t)]

\* ResetEntry, for every key that t used.
ResetEntries(t) ==
    LET used == Reads(t) \cup Writes(t)
    IN  /\ ReservedGetTxs' = [k \in Keys |-> IF k \in used THEN {} ELSE ReservedGetTxs[k]]
        /\ ReservedPutTxs' = [k \in Keys |-> IF k \in used THEN {} ELSE ReservedPutTxs[k]]
        /\ Handled' = [k \in Keys |-> Handled[k] /\ k \notin used]

\* CleanLockTable and ResetEntry.
Clean(w) ==
    /\ In(w, "clean")
    /\ HasMore(w)
    /\ LET t == Tx(w)
       IN  /\ DepsGet' = [k \in Keys |-> IF k \in Reads(t) THEN {} ELSE DepsGet[k]]
           /\ DepsPut' = [k \in Keys |-> IF k \in Writes(t) THEN {} ELSE DepsPut[k]]
           /\ ResetEntries(t)
    /\ UNCHANGED <<txVars, Value>>
    /\ Step(w)

Worker(w) ==
    \/ Arrive(w)
    \/ Wake(w)
    \/ Execute(w)
    \/ Verify(w)
    \/ Commit(w)
    \/ Fallback(w)
    \/ Clean(w)

AllEnded == \A w \in Workers : at[w] = "end"

Next == \E w \in Workers : Worker(w)

Spec == Init /\ [][Next]_vars

\* A worker is a goroutine with an operating-system thread of its own, and one
\* that waits for a transaction yields.
Fairness == \A w \in Workers : WF_vars(Worker(w))

-----------------------------------------------------------------------------
(* Properties.                                                             *)

Conflict(t, u) ==
    \/ Writes(t) \cap (Reads(u) \cup Writes(u)) # {}
    \/ Reads(t) \cap Writes(u) # {}

\* The write sets of a block are applied without executing anything again:
\* no two of the transactions that get away with it conflict.
HarmonyCommitsApart ==
    \A t, u \in Txs :
        (t # u /\ t[1] = u[1] /\ CommittedFlag[t] /\ CommittedFlag[u]
            /\ ~FlagConflict[t] /\ ~FlagConflict[u]) => ~Conflict(t, u)

\* When the workers execute the rest of a block again, every write of the
\* transactions before them is there: a key that was handled in an earlier
\* block is not taken to be handled in this one.
HarmonyAppliesAll ==
    \A w \in Workers :
        (/\ In(w, "fallback")
         /\ \A u \in Txs : (u[1] = block[w] /\ FlagConflict[u]) => ~CommittedFlag[u]) =>
            \A t \in Txs : (t[1] = block[w] /\ CommittedFlag[t]) =>
                               \A k \in Writes(t) : Value[k] = t

\* The dependencies of a block are among its own transactions: what its tables
\* hold while it is executed and verified was entered in this block.
HarmonyNoLeftovers ==
    \A w \in Workers :
        (In(w, "execute") \/ In(w, "verify")) =>
            \A k \in Keys :
                /\ \A u \in ReservedGetTxs[k] \cup ReservedPutTxs[k] \cup DepsGet[k] \cup DepsPut[k] :
                       u[1] = block[w]
                /\ ~Handled[k]

\* Harmony.go:642 says of the fallback that it already executes in the order
\* of the dependencies, one after another: a transaction is executed again only
\* after the earlier ones of the lock table that it conflicts with.
FallbackInOrder ==
    \A t, u \in Txs :
        (t[1] = u[1] /\ ID(u) < ID(t) /\ FlagConflict[t] /\ FlagConflict[u]
            /\ Conflict(t, u) /\ CommittedFlag[t]) => CommittedFlag[u]

AllCommitted == AllEnded /\ \A t \in Txs : CommittedFlag[t]

\* No worker waits for ever at a barrier or for a transaction, and every
\* transaction is committed.
HarmonyFinishes == <>AllCommitted
=============================================================================
