------------------------- MODULE DependencyScheduler -------------------------
(***************************************************************************)
(* The scheduler that the Pilotfish, QueCC and Thunderbolt baselines share *)
(* in all but its text: an acyclic graph of dependencies, the number of    *)
(* dependencies that each transaction still has, and queues of those that  *)
(* have none, under one mutex with a condition variable.  A worker that    *)
(* finds nothing to do sleeps on the condition; every completion wakes     *)
(* all sleepers.                                                           *)
(*                                                                         *)
(* Which of the ready transactions a worker is given is left open.         *)
(***************************************************************************)
EXTENDS Integers, Sequences, FiniteSets, SequencesExt

CONSTANTS
    NumWorkers,
    Workloads           \* the blocks: sequences of [reads, writes, stable]; the keys
                        \* are numbers, in the order of their addresses

\* What is assumed of the constants, by OrderedEngines.
NumWorkersAssumption == NumWorkers \in Nat \ {0}
WorkloadsAssumption ==
    \A block \in Workloads :
        /\ Len(block) \in Nat /\ DOMAIN block = 1 .. Len(block)
        /\ \A t \in DOMAIN block : block[t].reads \cup block[t].writes \subseteq Nat

VARIABLES
    txs,                \* the block
    \* the plan
    order,              \* allTxs
    edges,              \* dependents, as pairs
    indegree,
    remaining,
    \* the scheduler
    ready,              \* by queue
    completed,
    \* the workers
    at,                 \* "next", "asleep", "run", "complete" or "end", and in Thunderbolt "play"
    current             \* a transaction, 0 for none

planVars == <<order, edges>>
schedulerVars == <<indegree, remaining, ready, completed>>
workerVars == <<at, current>>

Workers == 0 .. NumWorkers - 1
Txs == DOMAIN txs
Used(t) == txs[t].reads \cup txs[t].writes
Keys == UNION {Used(t) : t \in Txs}

Indegree(e) == [t \in Txs |-> Cardinality({u \in Txs : <<u, t>> \in e})]

\* The transactions without a dependency, each in its queue.
FirstReady(e, Queue(_)) ==
    [q \in Workers |-> {t \in Txs : Indegree(e)[t] = 0 /\ Queue(t) = q}]

InitScheduler ==
    /\ txs \in Workloads
    /\ completed = {}
    /\ current = [w \in Workers |-> 0]

\* What a plan with the edges e starts with.
InitPlan(e, Queue(_)) ==
    /\ edges = e
    /\ indegree = Indegree(e)
    /\ remaining = Len(txs)
    /\ ready = FirstReady(e, Queue)

\* Variant: a completion that makes nothing ready wakes nobody.
WokenForWork(a, freed) == IF a = "asleep" /\ freed # {} THEN "next" ELSE a

\* A sleeper when a completion that made the transactions of freed ready has
\* broadcast.
Woken(a, freed) == IF a = "asleep" THEN "next" ELSE a

\* next, from the queue q; over says when there is no more to come.
NextFrom(w, q, over) ==
    /\ at[w] = "next"
    /\ IF over \/ ready[q] = {}
       THEN /\ at' = [at EXCEPT ![w] = IF over THEN "end" ELSE "asleep"]
            /\ UNCHANGED <<ready, current>>
       ELSE \E t \in ready[q] :
                /\ ready' = [ready EXCEPT ![q] = @ \ {t}]
                /\ current' = [current EXCEPT ![w] = t]
                /\ at' = [at EXCEPT ![w] = "run"]
    /\ UNCHANGED <<txs, planVars, indegree, remaining, completed>>

\* complete
CompleteTx(w, Queue(_)) ==
    /\ at[w] = "complete"
    /\ LET t == current[w]
           dependents == {u \in Txs : <<t, u>> \in edges}
           freed == {u \in dependents : indegree[u] = 1}
       IN  /\ indegree' = [u \in Txs |-> IF u \in dependents THEN indegree[u] - 1 ELSE indegree[u]]
           /\ ready' = [q \in Workers |-> ready[q] \cup {u \in freed : Queue(u) = q}]
           /\ at' = [v \in Workers |-> IF v = w THEN "next" ELSE Woken(at[v], freed)]
           /\ completed' = completed \cup {t}
    /\ remaining' = remaining - 1
    /\ current' = [current EXCEPT ![w] = 0]
    /\ UNCHANGED <<txs, planVars>>

AllEnded == \A w \in Workers : at[w] = "end"

\* The transactions that the workers have been given and have not completed.
Running == {current[w] : w \in Workers} \ {0}
=============================================================================
