----------------------------- MODULE Thunderbolt -----------------------------
(***************************************************************************)
(* The Thunderbolt baseline on one block.  The workers play the block once *)
(* and the order in which they finish becomes its order.  The controller   *)
(* derives the dependencies from it: a read follows the latest writer of   *)
(* its key, a write that and all reads since.  The validators execute the  *)
(* transactions again by these dependencies; one whose read or write set   *)
(* comes out different stops them all, and then nothing is committed.      *)
(***************************************************************************)
EXTENDS DependencyScheduler

VARIABLES
    phase,              \* "preplay", "validate", "end" or "panic"
    jobs,               \* how many transactions have been handed out to be played
    playing,            \* by worker
    preplayed,          \* the transactions in the order of their preplayOrder
    failed,
    committed

playVars == <<jobs, playing, preplayed>>
vars == <<txs, planVars, schedulerVars, workerVars, phase, playVars, failed, committed>>

Init ==
    /\ InitScheduler
    /\ order = <<>>
    /\ edges = {}
    /\ indegree = [t \in Txs |-> 0]
    /\ remaining = 0
    /\ ready = [q \in Workers |-> {}]
    /\ at = [w \in Workers |-> "play"]
    /\ phase = "preplay"
    /\ jobs = 0
    /\ playing = [w \in Workers |-> 0]
    /\ preplayed = <<>>
    /\ failed = FALSE
    /\ committed = {}

-----------------------------------------------------------------------------
(* preplayBlock                                                            *)

Play(w) ==
    /\ at[w] = "play"
    /\ playing[w] = 0
    /\ IF jobs < Len(txs)
       THEN /\ jobs' = jobs + 1
            /\ playing' = [playing EXCEPT ![w] = jobs + 1]
            /\ UNCHANGED at
       ELSE /\ at' = [at EXCEPT ![w] = "end"]
            /\ UNCHANGED <<jobs, playing>>
    /\ UNCHANGED <<txs, planVars, schedulerVars, current, phase, preplayed, failed, committed>>

\* completionOrder.Add(1)
Played(w) ==
    /\ playing[w] # 0
    /\ preplayed' = Append(preplayed, playing[w])
    /\ playing' = [playing EXCEPT ![w] = 0]
    /\ UNCHANGED <<txs, planVars, schedulerVars, workerVars, phase, jobs, failed, committed>>

-----------------------------------------------------------------------------
(* The controller.                                                         *)

\* Variant: the reads since the last write are not looked at.
AwaitsWriter(c, t, k) == {c.latestWriter[k]} \ {0}

\* addRead and addWrite: what t depends on for the sake of the key k.
Awaits(c, t, k) ==
    ({c.latestWriter[k]} \ {0}) \cup (IF k \in txs[t].writes THEN c.readers[k] ELSE {})

\* addTransaction: what becomes of the states of the keys.  The reads of t come
\* before its writes, and t does not depend on itself.
AddTransaction(c, t) ==
    [latestWriter |-> [k \in Keys |-> IF k \in txs[t].writes THEN t ELSE c.latestWriter[k]],
     readers |-> [k \in Keys |-> IF k \in txs[t].writes THEN {}
                                 ELSE IF k \in txs[t].reads THEN c.readers[k] \cup {t}
                                 ELSE c.readers[k]]]

\* The states of the keys after the first transactions of a sequence.
KeyStates(sequence) ==
    LET after[i \in 0 .. Len(sequence)] ==
            IF i = 0 THEN [latestWriter |-> [k \in Keys |-> 0], readers |-> [k \in Keys |-> {}]]
            ELSE AddTransaction(after[i - 1], sequence[i])
    IN  after

Dependencies(sequence) ==
    LET after == KeyStates(sequence)
    IN  {e \in Txs \X Txs :
            \E i \in DOMAIN sequence :
                /\ e[2] = sequence[i]
                /\ \E k \in Used(e[2]) : e[1] \in Awaits(after[i - 1], e[2], k)}

\* topologicalOrder: as many rounds as there are transactions reach all of them.
Reached(e) ==
    FoldLeft(LAMBDA S, i : S \cup {t \in Txs : \A u \in Txs : <<u, t>> \in e => u \in S},
             {}, [i \in 1 .. Len(txs) |-> i])

CommonQueue(t) == 0

\* The workers have been joined: buildThunderboltPlan, and the validators start.
Plan ==
    /\ phase = "preplay"
    /\ AllEnded
    /\ order' = preplayed
    /\ edges' = Dependencies(preplayed)
    /\ indegree' = Indegree(edges')
    /\ remaining' = Len(txs)
    /\ ready' = FirstReady(edges', CommonQueue)
    /\ phase' = IF Reached(edges') = Txs THEN "validate" ELSE "panic"
    /\ at' = [w \in Workers |-> "next"]
    /\ UNCHANGED <<txs, completed, current, playVars, failed, committed>>

-----------------------------------------------------------------------------
(* validatePlan and commitPlan                                             *)

NextTx(w) ==
    /\ phase = "validate"
    /\ NextFrom(w, 0, failed \/ remaining = 0)
    /\ UNCHANGED <<phase, playVars, failed, committed>>

\* validateThunderboltTransaction, and fail.
Validate(w) ==
    /\ at[w] = "run"
    /\ IF txs[current[w]].stable
       THEN /\ at' = [at EXCEPT ![w] = "complete"]
            /\ UNCHANGED failed
       ELSE /\ failed' = TRUE
            /\ at' = [v \in Workers |-> IF v = w THEN "end" ELSE Woken(at[v], {})]
    /\ UNCHANGED <<txs, planVars, schedulerVars, current, phase, playVars, committed>>

Complete(w) ==
    /\ CompleteTx(w, CommonQueue)
    /\ UNCHANGED <<phase, playVars, failed, committed>>

\* The validators have been joined.
Commit ==
    /\ phase = "validate"
    /\ AllEnded
    /\ phase' = IF failed THEN "panic" ELSE "end"
    /\ committed' = IF failed THEN {} ELSE Txs
    /\ UNCHANGED <<txs, planVars, schedulerVars, workerVars, playVars, failed>>

Worker(w) ==
    \/ Play(w)
    \/ Played(w)
    \/ NextTx(w)
    \/ Validate(w)
    \/ Complete(w)

Next ==
    \/ Plan
    \/ Commit
    \/ \E w \in Workers : Worker(w)

Spec == Init /\ [][Next]_vars

\* Goroutines that can go on do so.
Fairness ==
    /\ WF_vars(Plan)
    /\ WF_vars(Commit)
    /\ \A w \in Workers : WF_vars(Worker(w))

Decided ==
    LET stable == \A t \in Txs : txs[t].stable
    IN  /\ phase = IF stable THEN "end" ELSE "panic"
        /\ AllEnded
        /\ committed = IF stable THEN Txs ELSE {}

\* A block of which every transaction behaves as it did when it was played is
\* committed; with another one the validators all stop and nothing is.
ThunderboltFinishes == <>Decided
=============================================================================
