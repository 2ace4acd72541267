-------------------------- MODULE CommitReExecute --------------------------
(***************************************************************************)
(* The last stages of one batch, from the published conflict graph to the  *)
(* end of the batch.                                                       *)
(*                                                                         *)
(* The workers take the connected components of the graph from a shared    *)
(* index, split each into an independent set that commits and an abort     *)
(* set, and the one that solves the last component collects the results.   *)
(* The abort sets are then taken from a second index and executed again,   *)
(* and again the last worker collects.  Every worker calls                 *)
(* tryEntryNextBatch, some of them twice; one of the calls ends the batch. *)
(*                                                                         *)
(* A worker may come to these stages when others have left them.           *)
(***************************************************************************)
EXTENDS Integers, Sequences, FiniteSets

CONSTANTS
    Workers,            \* the worker threads
    componentsQueue,    \* the components of two or more transactions
    Singles             \* the transactions without a conflict

ASSUME WorkersAssumption == IsFiniteSet(Workers)

Elements(list) == {list[i] : i \in DOMAIN list}

\* A component is connected and has an edge; components share no transaction.
ASSUME ComponentsAssumption ==
    /\ componentsQueue \in Seq(SUBSET UNION Elements(componentsQueue))
    /\ \A i, j \in DOMAIN componentsQueue :
        /\ Cardinality(componentsQueue[i]) > 1
        /\ componentsQueue[i] \cap Singles = {}
        /\ i # j => componentsQueue[i] \cap componentsQueue[j] = {}

totalComponents == Len(componentsQueue)

\* The nodes of the final graph.
Txs == Singles \cup UNION Elements(componentsQueue)

VARIABLES
    phase,                      \* where each worker is, see Phases
    componentsIndex,
    idx,                        \* the index each worker claimed
    threadCommittedTxs,         \* per worker, the independent sets it found
    threadAbortedTxs,           \* per worker, the abort sets it found
    completeComponentsNumber,
    mwisDone,
    CommittedTxs,               \* how often each transaction is in the list
    abortTxs,                   \* the engine's record of what was aborted
    abortedTxComponents,        \* reExecute: all abort sets
    abortedTxQueue,             \* reExecute: those not claimed yet
    current,                    \* the abort set each worker executes
    reCommittedTxs,             \* reExecute.threadCommittedTxs
    reAbortedTxs,               \* reExecute.threadAbortedTxs
    completedIndex,
    serialTxs,                  \* executed one by one at the very end
    reDone,                     \* reExecute.done
    finished,
    completions                 \* what was sent to completeChan

vars == <<phase, componentsIndex, idx, threadCommittedTxs, threadAbortedTxs,
          completeComponentsNumber, mwisDone, CommittedTxs, abortTxs,
          abortedTxComponents, abortedTxQueue, current, reCommittedTxs, reAbortedTxs,
          completedIndex, serialTxs, reDone, finished, completions>>

solving == <<componentsIndex, idx, threadCommittedTxs, threadAbortedTxs,
             completeComponentsNumber>>
collected == <<mwisDone, abortTxs, abortedTxComponents>>
reExecuting == <<abortedTxQueue, current, reCommittedTxs, reAbortedTxs, completedIndex>>
ending == <<finished, completions>>

\* "arrive": waits for the graph; "claim", "solve", "count", "collect": the loop
\* of solveComponentMWIS; "ready": waits for mwisDone; "reclaim", "rerun",
\* "recount", "recollect": the loop of reExecute; "rewait": spins on reDone;
\* "inner", "last": before a call of tryEntryNextBatch; "waiting": WaitingPhase.
Phases == {"arrive", "claim", "solve", "count", "collect", "ready", "reclaim",
           "rerun", "recount", "recollect", "rewait", "inner", "last", "waiting"}

TypeOK ==
    /\ phase \in [Workers -> Phases]
    /\ componentsIndex \in Nat
    /\ idx \in [Workers -> 0 .. totalComponents]
    /\ threadCommittedTxs \in [Workers -> Seq(SUBSET Txs)]
    /\ threadAbortedTxs \in [Workers -> Seq(SUBSET Txs)]
    /\ completeComponentsNumber \in Nat
    /\ mwisDone \in BOOLEAN
    /\ CommittedTxs \in [Txs -> Nat]
    /\ abortTxs \subseteq Txs
    /\ abortedTxComponents \subseteq SUBSET Txs
    /\ abortedTxQueue \subseteq abortedTxComponents
    /\ current \in [Workers -> SUBSET Txs]
    /\ reCommittedTxs \in [Workers -> SUBSET Txs]
    /\ reAbortedTxs \in [Workers -> SUBSET Txs]
    /\ completedIndex \in Nat
    /\ serialTxs \subseteq Txs
    /\ reDone \in BOOLEAN
    /\ finished \in BOOLEAN
    /\ completions \in Nat

Init ==
    /\ phase = [w \in Workers |-> "arrive"]
    /\ componentsIndex = 0
    /\ idx = [w \in Workers |-> 0]
    /\ threadCommittedTxs = [w \in Workers |-> <<>>]
    /\ threadAbortedTxs = [w \in Workers |-> <<>>]
    /\ completeComponentsNumber = 0
    /\ mwisDone = FALSE
    /\ CommittedTxs = [t \in Txs |-> IF t \in Singles THEN 1 ELSE 0]
    /\ abortTxs = {}
    /\ abortedTxComponents = {}
    /\ abortedTxQueue = {}
    /\ current = [w \in Workers |-> {}]
    /\ reCommittedTxs = [w \in Workers |-> {}]
    /\ reAbortedTxs = [w \in Workers |-> {}]
    /\ completedIndex = 0
    /\ serialTxs = {}
    /\ reDone = FALSE
    /\ finished = FALSE
    /\ completions = 0

Goto(w, p) == phase' = [phase EXCEPT ![w] = p]

----------------------------------------------------------------------------
(* solveComponentMWIS and finalizeMWISResults *)

\* The worker finds the graph published.  Where nothing conflicts, the batch is
\* over at once.
Arrive(w) ==
    /\ phase[w] = "arrive"
    /\ Goto(w, IF finished THEN "waiting"
               ELSE IF totalComponents = 0 THEN "last" ELSE "claim")
    /\ UNCHANGED <<solving, collected, CommittedTxs, reExecuting, serialTxs, reDone,
                   ending>>

\* A worker that finds no component goes on and waits for the others.
ClaimComponent(w) ==
    /\ phase[w] = "claim"
    /\ componentsIndex' = componentsIndex + 1
    /\ IF componentsIndex >= totalComponents
       THEN Goto(w, "ready") /\ UNCHANGED idx
       ELSE Goto(w, "solve") /\ idx' = [idx EXCEPT ![w] = componentsIndex + 1]
    /\ UNCHANGED <<threadCommittedTxs, threadAbortedTxs, completeComponentsNumber,
                   collected, CommittedTxs, reExecuting, serialTxs, reDone, ending>>

\* The solver returns some independent set of the component, the empty one when
\* it fails; MWIS models what it returns.  The rest is the abort set.
SolveComponent(w) ==
    /\ phase[w] = "solve"
    /\ \E independentSet \in (SUBSET componentsQueue[idx[w]]) \ {componentsQueue[idx[w]]} :
        /\ threadCommittedTxs' = [threadCommittedTxs EXCEPT ![w] = Append(@, independentSet)]
        /\ threadAbortedTxs' = [threadAbortedTxs EXCEPT ![w] =
               Append(@, componentsQueue[idx[w]] \ independentSet)]
    /\ Goto(w, "count")
    /\ UNCHANGED <<componentsIndex, idx, completeComponentsNumber, collected,
                   CommittedTxs, reExecuting, serialTxs, reDone, ending>>

\* Variant: whoever counts when every component is claimed collects.
CountWhenClaimed(w) ==
    /\ phase[w] = "count"
    /\ completeComponentsNumber' = completeComponentsNumber + 1
    /\ Goto(w, IF componentsIndex >= totalComponents THEN "collect" ELSE "claim")
    /\ UNCHANGED <<componentsIndex, idx, threadCommittedTxs, threadAbortedTxs,
                   collected, CommittedTxs, reExecuting, serialTxs, reDone, ending>>

CountComponent(w) ==
    /\ phase[w] = "count"
    /\ completeComponentsNumber' = completeComponentsNumber + 1
    /\ Goto(w, IF completeComponentsNumber' = totalComponents THEN "collect" ELSE "claim")
    /\ UNCHANGED <<componentsIndex, idx, threadCommittedTxs, threadAbortedTxs,
                   collected, CommittedTxs, reExecuting, serialTxs, reDone, ending>>

\* What a list per worker, of sets, holds together.
Entries(lists) == UNION {Elements(lists[w]) : w \in Workers}

\* How often a transaction is in the workers' lists.
Occurrences(t, lists) ==
    Cardinality({e \in Workers \X (1 .. totalComponents) :
        e[2] \in DOMAIN lists[e[1]] /\ t \in lists[e[1]][e[2]]})

\* finalizeMWISResults, with both re-execution switches on, as Run sets them.
\* There is an abort set for every component.
CollectCommitted(w) ==
    /\ phase[w] = "collect"
    /\ CommittedTxs' = [t \in Txs |->
            CommittedTxs[t] + Occurrences(t, threadCommittedTxs)]
    /\ abortedTxComponents' = Entries(threadAbortedTxs)
    /\ abortedTxQueue' = Entries(threadAbortedTxs)
    /\ abortTxs' = abortTxs \cup UNION Entries(threadAbortedTxs)
    /\ mwisDone' = TRUE
    /\ Goto(w, "ready")
    /\ UNCHANGED <<solving, current, reCommittedTxs, reAbortedTxs, completedIndex,
                   serialTxs, reDone, ending>>

----------------------------------------------------------------------------
(* reExecute and finalizeReExecute *)

\* The worker finds the commit validation done.
StartReExecute(w) ==
    /\ phase[w] = "ready"
    /\ mwisDone
    /\ Goto(w, IF finished THEN "waiting" ELSE "reclaim")
    /\ UNCHANGED <<solving, collected, CommittedTxs, reExecuting, serialTxs, reDone,
                   ending>>

\* The order of the abort sets is that of the workers and of their lists: any.
ClaimAborted(w) ==
    /\ phase[w] = "reclaim"
    /\ IF abortedTxQueue = {}
       THEN Goto(w, "rewait") /\ UNCHANGED <<abortedTxQueue, current>>
       ELSE \E txIds \in abortedTxQueue :
                /\ abortedTxQueue' = abortedTxQueue \ {txIds}
                /\ current' = [current EXCEPT ![w] = txIds]
                /\ Goto(w, "rerun")
    /\ UNCHANGED <<solving, collected, CommittedTxs, reCommittedTxs, reAbortedTxs,
                   completedIndex, serialTxs, reDone, ending>>

\* Variant: whether the sets changed is not looked at.
keepAll(w, same) ==
    /\ reCommittedTxs' = [reCommittedTxs EXCEPT ![w] = @ \cup current[w]]
    /\ reAbortedTxs' = [reAbortedTxs EXCEPT ![w] = @ \cup (current[w] \ same)]

\* The transactions that read and wrote what they did before are committed.
Keep(w, same) ==
    /\ reCommittedTxs' = [reCommittedTxs EXCEPT ![w] = @ \cup same]
    /\ reAbortedTxs' = [reAbortedTxs EXCEPT ![w] = @ \cup (current[w] \ same)]

\* Executed again, one after the other, any of them may do something else now.
ReExecute(w) ==
    /\ phase[w] = "rerun"
    /\ \E same \in SUBSET current[w] : Keep(w, same)
    /\ Goto(w, "recount")
    /\ UNCHANGED <<solving, collected, CommittedTxs, abortedTxQueue, current,
                   completedIndex, serialTxs, reDone, ending>>

\* Variant: whoever counts when every abort set is claimed collects.
RecountWhenClaimed(w) ==
    /\ phase[w] = "recount"
    /\ completedIndex' = completedIndex + 1
    /\ Goto(w, IF abortedTxQueue = {} THEN "recollect" ELSE "reclaim")
    /\ UNCHANGED <<solving, collected, CommittedTxs, abortedTxQueue, current,
                   reCommittedTxs, reAbortedTxs, serialTxs, reDone, ending>>

CountAborted(w) ==
    /\ phase[w] = "recount"
    /\ completedIndex' = completedIndex + 1
    /\ Goto(w, IF completedIndex' = Cardinality(abortedTxComponents)
               THEN "recollect" ELSE "reclaim")
    /\ UNCHANGED <<solving, collected, CommittedTxs, abortedTxQueue, current,
                   reCommittedTxs, reAbortedTxs, serialTxs, reDone, ending>>

\* Variant: an early return that does not set the flag.
CollectSilently(w) ==
    /\ phase[w] = "recollect"
    /\ CommittedTxs' = [t \in Txs |-> CommittedTxs[t] +
            Cardinality({v \in Workers : t \in reCommittedTxs[v]})]
    /\ Goto(w, "last")
    /\ UNCHANGED <<solving, collected, reExecuting, serialTxs, reDone, ending>>

\* finalizeReExecute: the transactions whose sets changed are executed serially
\* and are not added to CommittedTxs.
CollectReExecuted(w) ==
    /\ phase[w] = "recollect"
    /\ CommittedTxs' = [t \in Txs |-> CommittedTxs[t] +
            Cardinality({v \in Workers : t \in reCommittedTxs[v]})]
    /\ serialTxs' = UNION {reAbortedTxs[v] : v \in Workers}
    /\ reDone' = TRUE
    /\ Goto(w, "last")
    /\ UNCHANGED <<solving, collected, reExecuting, ending>>

\* A worker without an abort set waits for the others.
ReExecuted(w) ==
    /\ phase[w] = "rewait"
    /\ reDone
    /\ Goto(w, "inner")
    /\ UNCHANGED <<solving, collected, CommittedTxs, reExecuting, serialTxs, reDone,
                   ending>>

----------------------------------------------------------------------------
(* tryEntryNextBatch *)

\* The worker that swaps finished completes the batch; Pipeline models how it
\* moves the engine on.  A worker that waited in reExecute calls twice.
EndBatch(w) ==
    /\ phase[w] \in {"inner", "last"}
    /\ completions' = IF finished THEN completions ELSE completions + 1
    /\ finished' = TRUE
    /\ Goto(w, IF phase[w] = "inner" THEN "last" ELSE "waiting")
    /\ UNCHANGED <<solving, collected, CommittedTxs, reExecuting, serialTxs, reDone>>

Step(w) ==
    \/ Arrive(w)
    \/ ClaimComponent(w)
    \/ SolveComponent(w)
    \/ CountComponent(w)
    \/ CollectCommitted(w)
    \/ StartReExecute(w)
    \/ ClaimAborted(w)
    \/ ReExecute(w)
    \/ CountAborted(w)
    \/ CollectReExecuted(w)
    \/ ReExecuted(w)
    \/ EndBatch(w)

Terminated ==
    /\ \A w \in Workers : phase[w] = "waiting"
    /\ UNCHANGED vars

Next == Terminated \/ \E w \in Workers : Step(w)

Spec == Init /\ [][Next]_vars

\* Every worker is an OS thread that keeps running.
FairSpec == Spec /\ \A w \in Workers : WF_vars(Step(w))

----------------------------------------------------------------------------
(* Properties *)

\* No transaction of the graph is lost and none is counted twice.  After the
\* first pass each is in CommittedTxs once or recorded as aborted; at the end of
\* the batch it is in CommittedTxs once or was executed serially.  Never both.
\* While some worker has work of a stage in its hands, nobody is told that the
\* stage is over, although each worker leaves on its own.
EveryTxDecided ==
    /\ mwisDone /\ ~reDone =>
        \A t \in Txs : CommittedTxs[t] = IF t \in abortTxs THEN 0 ELSE 1
    /\ finished =>
        /\ \A t \in Txs : CommittedTxs[t] = IF t \in serialTxs THEN 0 ELSE 1
        /\ totalComponents # 0 => mwisDone /\ reDone
    /\ mwisDone => \A w \in Workers : phase[w] \notin {"solve", "count", "collect"}
    /\ reDone => \A w \in Workers : phase[w] \notin {"rerun", "recount", "recollect"}

\* Late workers add nothing to a batch that is over: its result was read when
\* finished was set.
ResultFrozen == [][finished => UNCHANGED <<CommittedTxs, abortTxs, serialTxs>>]_vars

\* The components whose transactions are all decided after the first pass.
Settled ==
    {i \in DOMAIN componentsQueue : \A t \in componentsQueue[i] :
        CommittedTxs[t] > 0 \/ t \in UNION abortedTxComponents}

Solved == {i \in DOMAIN componentsQueue : \E w \in Workers :
    \E j \in DOMAIN threadAbortedTxs[w] : threadAbortedTxs[w][j] \subseteq componentsQueue[i]}

\* The commit validation gathers the components.
Commit == INSTANCE GatherAll WITH
    Parts  <- DOMAIN componentsQueue,
    joined <- Solved,
    result <- IF mwisDone THEN Settled ELSE {},
    done   <- mwisDone

\* The commit validation implements GatherAll: one result, of every component.
ImplementsGatherAll == Commit!Spec

\* Every worker leaves the batch, also those that come when it is over; however
\* many calls of tryEntryNextBatch they make, the batch is completed once, which
\* the caller of the engine counts on.
AllLeave == <>(completions = 1 /\ \A w \in Workers : phase[w] = "waiting")
=============================================================================
