------------------------------- MODULE SChain -------------------------------
(***************************************************************************)
(* The SChain baseline on one block (SChainParallelUp).  Every key has the *)
(* sequence of the transactions that use it.  The dispatcher works in      *)
(* rounds: it goes through the transactions that have not run and grants   *)
(* each its locks, if it is next in the sequence of every key it uses; it  *)
(* hands these to the workers, waits until all of them have run and        *)
(* releases their write locks.                                             *)
(***************************************************************************)
EXTENDS Integers, Sequences, FiniteSets, SequencesExt

CONSTANTS
    SChainThreads,      \* AllThreadNum, the dispatcher counted
    SChainWorkloads     \* the blocks: sequences of [reads, writes]

\* What is assumed of the constants, by OrderedEngines.
SChainThreadsAssumption == SChainThreads \in Nat \ {0, 1}
SChainBlocksAssumption ==
    \A b \in SChainWorkloads : Len(b) \in Nat /\ DOMAIN b = 1 .. Len(b)

VARIABLES
    txs,                \* the block
    \* stateAccessSequence, by key
    lockIndex,          \* how many of the sequence have been granted
    isWrite,
    \* the dispatcher
    dispatcher,         \* "grant", "wait" or "end"
    inactiveTxs,        \* the rest of the transactions that the round goes through
    newInactiveTxs,
    activeTxs,
    finishTxNumber,
    finishTxSum,
    \* the channels
    activeTxsChan,
    signals,            \* finishExecutionSignalChan
    closed,
    \* the workers
    running,            \* a transaction, 0 for none
    joined

locks == <<lockIndex, isWrite>>
roundVars == <<dispatcher, inactiveTxs, newInactiveTxs, activeTxs, finishTxNumber, finishTxSum>>
channels == <<activeTxsChan, signals, closed>>
vars == <<txs, locks, roundVars, channels, running, joined>>

Workers == 1 .. SChainThreads - 1
Txs == DOMAIN txs

\* What constructStateAccessSequence makes of a transaction: a key that it
\* also writes is not among its read keys.
WriteKeys(t) == txs[t].writes
ReadKeys(t) == txs[t].reads \ txs[t].writes
UsedKeys(t) == txs[t].writes \cup txs[t].reads
Keys == UNION {UsedKeys(t) : t \in Txs}

\* The transactions in the sequence of a key, which has them in the order of the
\* block, and the place of one of them, counted from 0.
sequence(k) == {t \in Txs : k \in UsedKeys(t)}
Place(k, t) == Cardinality({u \in sequence(k) : u < t})

Init ==
    /\ txs \in SChainWorkloads
    /\ lockIndex = [k \in Keys |-> 0]
    /\ isWrite = [k \in Keys |-> FALSE]
    /\ dispatcher = "grant"
    /\ inactiveTxs = [i \in 1 .. Len(txs) |-> i]
    /\ newInactiveTxs = <<>>
    /\ activeTxs = <<>>
    /\ finishTxNumber = 0
    /\ finishTxSum = 0
    /\ activeTxsChan = <<>>
    /\ signals = 0
    /\ closed = FALSE
    /\ running = [w \in Workers |-> 0]
    /\ joined = {}

-----------------------------------------------------------------------------
(* The locks.                                                              *)

\* Variant: a write lock does not keep the next transaction out.
CanGrantBehindWrite(k, t) == lockIndex[k] = Place(k, t)

\* canGrantSequenceLock, for a key that t uses.
CanGrant(k, t) == ~isWrite[k] /\ lockIndex[k] = Place(k, t)

\* The locks that grantLock takes on its way, and those it gives back when
\* they are not all that t needs.
Granted(t) == {k \in UsedKeys(t) : CanGrant(k, t)}
\* Variant: only the write locks are given back.
GivenBackWrites(t) == Granted(t) \cap WriteKeys(t)

GivenBack(t) == Granted(t)

\* grantLock
GrantLock(t, all) ==
    LET kept == IF all THEN Granted(t) ELSE Granted(t) \ GivenBack(t)
    IN  /\ lockIndex' = [k \in Keys |-> IF k \in kept THEN lockIndex[k] + 1 ELSE lockIndex[k]]
        /\ isWrite' = [k \in Keys |-> isWrite[k] \/ k \in (kept \cap WriteKeys(t))]

\* Variant: the locks of a round are not released.
ReleasedNone(ts) == isWrite

\* releaseLock, for all of a round.
Released(ts) == [k \in Keys |-> isWrite[k] /\ \A t \in ts : k \notin WriteKeys(t)]

-----------------------------------------------------------------------------
(* The dispatcher.                                                         *)

Grant ==
    /\ dispatcher = "grant"
    /\ inactiveTxs # <<>>
    /\ LET t == Head(inactiveTxs)
           all == Granted(t) = UsedKeys(t)
       IN  /\ GrantLock(t, all)
           /\ activeTxs' = IF all THEN Append(activeTxs, t) ELSE activeTxs
           /\ activeTxsChan' = IF all THEN Append(activeTxsChan, t) ELSE activeTxsChan
           /\ newInactiveTxs' = IF all THEN newInactiveTxs ELSE Append(newInactiveTxs, t)
    /\ inactiveTxs' = Tail(inactiveTxs)
    /\ dispatcher' = IF Len(inactiveTxs) = 1 THEN "wait" ELSE "grant"
    /\ UNCHANGED <<txs, finishTxNumber, finishTxSum, signals, closed, running, joined>>

\* It looks at the number of the signals only after it has had one.
Signal ==
    /\ dispatcher = "wait"
    /\ signals > 0
    /\ signals' = signals - 1
    /\ finishTxSum' = finishTxSum + 1
    /\ IF finishTxNumber + 1 # Len(activeTxs)
       THEN /\ finishTxNumber' = finishTxNumber + 1
            /\ UNCHANGED <<dispatcher, inactiveTxs, newInactiveTxs, activeTxs, closed, isWrite>>
       ELSE /\ closed' = (finishTxSum + 1 = Len(txs))
            /\ isWrite' = Released(ToSet(activeTxs))
            /\ dispatcher' = IF newInactiveTxs = <<>> THEN "end" ELSE "grant"
            /\ inactiveTxs' = newInactiveTxs
            /\ newInactiveTxs' = <<>>
            /\ activeTxs' = <<>>
            /\ finishTxNumber' = 0
    /\ UNCHANGED <<txs, lockIndex, activeTxsChan, running, joined>>

-----------------------------------------------------------------------------
(* The workers: runTx.                                                     *)

Take(w) ==
    /\ w \notin joined
    /\ running[w] = 0
    /\ activeTxsChan # <<>>
    /\ running' = [running EXCEPT ![w] = Head(activeTxsChan)]
    /\ activeTxsChan' = Tail(activeTxsChan)
    /\ UNCHANGED <<txs, locks, roundVars, signals, closed, joined>>

Finish(w) ==
    /\ running[w] # 0
    /\ running' = [running EXCEPT ![w] = 0]
    /\ signals' = signals + 1
    /\ UNCHANGED <<txs, locks, roundVars, activeTxsChan, closed, joined>>

Join(w) ==
    /\ w \notin joined
    /\ running[w] = 0
    /\ activeTxsChan = <<>>
    /\ closed
    /\ joined' = joined \cup {w}
    /\ UNCHANGED <<txs, locks, roundVars, channels, running>>

Worker(w) == Take(w) \/ Finish(w) \/ Join(w)

Next ==
    \/ Grant
    \/ Signal
    \/ \E w \in Workers : Worker(w)

Spec == Init /\ [][Next]_vars

\* The dispatcher and the workers have operating-system threads of their own.
Fairness ==
    /\ WF_vars(Grant)
    /\ WF_vars(Signal)
    /\ \A w \in Workers : WF_vars(Worker(w))

-----------------------------------------------------------------------------
(* Properties.                                                             *)

InFlight == (ToSet(activeTxsChan) \cup {running[w] : w \in Workers}) \ {0}

\* The transactions whose locks have been granted.
Scheduled == Txs \ (ToSet(inactiveTxs) \cup ToSet(newInactiveTxs))

\* A transaction runs only after every earlier one that writes a key it uses
\* has run and its round has ended.
SChainAfterWriters ==
    \A t, u \in Txs :
        (t < u /\ u \in Scheduled /\ WriteKeys(t) \cap UsedKeys(u) # {}) =>
            t \in Scheduled \ (ToSet(activeTxs) \cup InFlight)

\* The lock of a key has been granted to the first transactions of its
\* sequence and to those only that have been handed to the workers: one that
\* does not get all its locks has given back every one it got.
SChainLocksExact ==
    \A k \in Keys :
        /\ lockIndex[k] = Cardinality(sequence(k) \cap Scheduled)
        /\ \A t, u \in sequence(k) : t < u /\ u \in Scheduled => t \in Scheduled

AllRun ==
    /\ dispatcher = "end"
    /\ joined = Workers
    /\ finishTxSum = Len(txs)

\* Every round hands something to the workers, so that the dispatcher never
\* waits for a signal that nobody sends; all transactions run and everybody
\* ends.
SChainFinishes == <>AllRun
=============================================================================
