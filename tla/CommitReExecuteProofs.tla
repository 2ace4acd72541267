----------------------- MODULE CommitReExecuteProofs -----------------------
(***************************************************************************)
(* Theorems about CommitReExecute, for any finite set of workers, any      *)
(* components and any outcome of the solver and of the second execution.   *)
(*                                                                         *)
(* Both stages hand out pieces of work from a list and end with the worker *)
(* that counts the last piece.  The argument is the same twice: the pieces *)
(* counted, those in the hands of workers and those not claimed make up    *)
(* all of them, so that the last count finds nobody at work; and every     *)
(* piece leaves its trace in the results of exactly one worker, so that    *)
(* the collection counts every transaction once.                           *)
(***************************************************************************)
EXTENDS CommitReExecute, FiniteSetTheorems, SequenceTheorems, TLAPS

\* The workers with a component, and those with an abort set, not yet counted.
Solving == {w \in Workers : phase[w] \in {"solve", "count"}}
Rerunning == {w \in Workers : phase[w] \in {"rerun", "recount"}}

\* Which phases there can be at which point of the batch.
PhaseInv ==
    /\ totalComponents = 0 =>
        ~mwisDone /\ \A w \in Workers : phase[w] \in {"arrive", "last", "waiting"}
    /\ ~mwisDone => \A w \in Workers :
        phase[w] \notin {"reclaim", "rerun", "recount", "recollect", "rewait", "inner"}
    /\ reDone => mwisDone
    /\ finished => totalComponents = 0 \/ reDone
    /\ \A w \in Workers : phase[w] \in {"inner", "last", "waiting"} =>
        totalComponents = 0 \/ reDone

\* No two workers have the same component, and all are counted.
ClaimInv ==
    /\ \A w \in Solving : idx[w] \in 1 .. totalComponents /\ idx[w] <= componentsIndex
    /\ \A v, w \in Solving : idx[v] = idx[w] => v = w
    /\ completeComponentsNumber + Cardinality(Solving) =
           IF componentsIndex < totalComponents THEN componentsIndex ELSE totalComponents

\* The worker with the last component collects, and it alone.
CollectInv ==
    /\ mwisDone \/ (\E w \in Workers : phase[w] = "collect") =>
        completeComponentsNumber = totalComponents
    /\ \A w \in Workers : phase[w] = "collect" => ~mwisDone
    /\ \A v, w \in Workers : phase[v] = "collect" /\ phase[w] = "collect" => v = w

\* Entry j of w's lists is what the solver made of component i.
Holds(w, j, i) ==
    /\ j \in DOMAIN threadAbortedTxs[w]
    /\ threadAbortedTxs[w][j] # {}
    /\ threadAbortedTxs[w][j] \subseteq componentsQueue[i]
    /\ threadCommittedTxs[w][j] = componentsQueue[i] \ threadAbortedTxs[w][j]

\* Every component that was claimed is with its solver or in one entry.
ListsInv ==
    /\ \A w \in Workers :
        /\ Len(threadCommittedTxs[w]) = Len(threadAbortedTxs[w])
        /\ Len(threadAbortedTxs[w]) <=
               completeComponentsNumber + (IF phase[w] = "count" THEN 1 ELSE 0)
    /\ \A w \in Workers : \A j \in DOMAIN threadAbortedTxs[w] :
        \E i \in DOMAIN componentsQueue :
            /\ i <= componentsIndex
            /\ Holds(w, j, i)
            /\ \A v \in Workers : phase[v] = "solve" => idx[v] # i
    /\ \A v, w \in Workers : \A i \in DOMAIN componentsQueue :
        \A j \in DOMAIN threadAbortedTxs[v], k \in DOMAIN threadAbortedTxs[w] :
            Holds(v, j, i) /\ Holds(w, k, i) => v = w /\ j = k
    /\ \A i \in DOMAIN componentsQueue : i <= componentsIndex =>
        \/ \E v \in Workers : phase[v] = "solve" /\ idx[v] = i
        \/ \E w \in Workers : \E j \in DOMAIN threadAbortedTxs[w] : Holds(w, j, i)

\* What the first pass leaves: nothing before it is collected, then disjoint
\* abort sets and every other transaction committed once.
FirstPass ==
    /\ ~mwisDone =>
        /\ CommittedTxs = [t \in Txs |-> IF t \in Singles THEN 1 ELSE 0]
        /\ abortTxs = {} /\ abortedTxComponents = {} /\ completedIndex = 0
        /\ \A w \in Workers : reCommittedTxs[w] = {} /\ reAbortedTxs[w] = {}
    /\ abortTxs = UNION abortedTxComponents
    /\ \A c, d \in abortedTxComponents : c # d => c \cap d = {}
    /\ IsFiniteSet(abortedTxComponents)
    /\ mwisDone /\ ~reDone =>
        \A t \in Txs : CommittedTxs[t] = IF t \in abortTxs THEN 0 ELSE 1

\* The abort sets that were claimed, the workers that have one, and the count.
ReclaimInv ==
    /\ \A w \in Rerunning : current[w] \in abortedTxComponents \ abortedTxQueue
    /\ \A v, w \in Rerunning : current[v] = current[w] => v = w
    /\ completedIndex + Cardinality(Rerunning) + Cardinality(abortedTxQueue) =
           Cardinality(abortedTxComponents)

RecollectInv ==
    /\ reDone \/ (\E w \in Workers : phase[w] = "recollect") =>
        completedIndex = Cardinality(abortedTxComponents)
    /\ \A w \in Workers : phase[w] = "recollect" => ~reDone
    /\ \A v, w \in Workers : phase[v] = "recollect" /\ phase[w] = "recollect" => v = w

\* The transactions that w has executed again.
ReExecutedBy(w) == reCommittedTxs[w] \cup reAbortedTxs[w]

\* Every aborted transaction is still to be claimed, with the worker that
\* executes it, or executed by one worker, with one outcome.
RerunInv ==
    /\ \A w \in Workers : reCommittedTxs[w] \cap reAbortedTxs[w] = {}
    /\ \A v, w \in Workers : v # w => ReExecutedBy(v) \cap ReExecutedBy(w) = {}
    /\ \A w \in Workers : \A t \in ReExecutedBy(w) :
        \E c \in abortedTxComponents \ abortedTxQueue :
            t \in c /\ \A v \in Workers : phase[v] = "rerun" => current[v] # c
    /\ \A c \in abortedTxComponents \ abortedTxQueue :
        \/ \E v \in Workers : phase[v] = "rerun" /\ current[v] = c
        \/ \A t \in c : \E w \in Workers : t \in ReExecutedBy(w)

\* What the batch ends with.
EndInv ==
    /\ ~reDone => serialTxs = {}
    /\ serialTxs \subseteq abortTxs
    /\ reDone => \A t \in Txs : CommittedTxs[t] = IF t \in serialTxs THEN 0 ELSE 1

IInv ==
    /\ TypeOK /\ PhaseInv /\ ClaimInv /\ CollectInv /\ ListsInv
    /\ FirstPass /\ ReclaimInv /\ RecollectInv /\ RerunInv /\ EndInv

----------------------------------------------------------------------------
(* Sets of workers and components *)

\* A set of workers is finite.
LEMMA SubsetsFinite ==
    ASSUME NEW S \in SUBSET Workers
    PROVE  IsFiniteSet(S) /\ Cardinality(S) \in Nat /\ (Cardinality(S) = 0 => S = {})
BY FS_Subset, FS_CardinalityType, FS_EmptySet, WorkersAssumption

\* A worker enters or leaves a set.
LEMMA Enters ==
    ASSUME NEW S \in SUBSET Workers, NEW w \in Workers, w \notin S
    PROVE  Cardinality(S \cup {w}) = Cardinality(S) + 1
BY SubsetsFinite, FS_AddElement

LEMMA Leaves ==
    ASSUME NEW S \in SUBSET Workers, NEW w \in S
    PROVE  /\ Cardinality(S \ {w}) = Cardinality(S) - 1
           /\ Cardinality(S) > 0
<1>1. Cardinality(S \ {w}) = Cardinality(S) - 1 /\ Cardinality(S \ {w}) \in Nat
  BY SubsetsFinite, FS_RemoveElement
<1> QED
  BY <1>1, SubsetsFinite

\* Components are disjoint and hold transactions.
LEMMA Components ==
    /\ totalComponents \in Nat /\ DOMAIN componentsQueue = 1 .. totalComponents
    /\ \A i \in DOMAIN componentsQueue :
        componentsQueue[i] \subseteq Txs /\ componentsQueue[i] \cap Singles = {}
    /\ \A i, j \in DOMAIN componentsQueue :
        i # j => componentsQueue[i] \cap componentsQueue[j] = {}
    /\ \A t \in Txs : t \in Singles \/ \E i \in DOMAIN componentsQueue : t \in componentsQueue[i]
<1>1. componentsQueue \in Seq(SUBSET UNION Elements(componentsQueue))
  BY ComponentsAssumption
<1>2. totalComponents \in Nat /\ DOMAIN componentsQueue = 1 .. totalComponents
  BY <1>1 DEF totalComponents
<1>3. \A i \in DOMAIN componentsQueue : componentsQueue[i] \subseteq Txs
  BY DEF Txs, Elements
<1>4. \A t \in Txs : t \in Singles \/ \E i \in DOMAIN componentsQueue : t \in componentsQueue[i]
  BY DEF Txs, Elements
<1> QED
  BY <1>2, <1>3, <1>4, ComponentsAssumption

\* An entry is made of one component.
LEMMA HeldOnce ==
    ASSUME NEW w \in Workers, NEW j, NEW i \in DOMAIN componentsQueue,
           NEW k \in DOMAIN componentsQueue, Holds(w, j, i), Holds(w, j, k)
    PROVE  i = k
BY Components DEF Holds

----------------------------------------------------------------------------
(* Steps that leave a stage alone *)

\* A worker that moves outside the first stage.
LEMMA FirstStageStays ==
    ASSUME IInv, NEW w \in Workers, NEW p, Goto(w, p),
           phase[w] \notin {"solve", "count", "collect"}, p \notin {"solve", "count", "collect"},
           UNCHANGED <<solving, mwisDone>>
    PROVE  ClaimInv' /\ CollectInv' /\ ListsInv'
<1>1. phase \in [Workers -> Phases] /\ phase' = [phase EXCEPT ![w] = p]
  BY DEF IInv, TypeOK, Goto
<1>2. \A v \in Workers : \A q \in {"solve", "count", "collect"} : phase'[v] = q <=> phase[v] = q
  BY <1>1
<1>3. Solving' = Solving
  BY <1>2 DEF Solving
<1>4. ClaimInv'
  BY <1>3 DEF IInv, ClaimInv, solving
<1>5. CollectInv'
  BY <1>2 DEF IInv, CollectInv, solving
<1>6. \A v, j, i : Holds(v, j, i)' <=> Holds(v, j, i)
  BY DEF Holds, solving
<1>7. ListsInv'
  BY <1>2, <1>6 DEF IInv, ListsInv, solving
<1> QED
  BY <1>4, <1>5, <1>7

\* A worker that moves outside the second stage.
LEMMA SecondStageStays ==
    ASSUME IInv, NEW w \in Workers, NEW p, Goto(w, p),
           phase[w] \notin {"rerun", "recount", "recollect"},
           p \notin {"rerun", "recount", "recollect"},
           UNCHANGED <<collected, CommittedTxs, reExecuting, serialTxs, reDone>>
    PROVE  FirstPass' /\ ReclaimInv' /\ RecollectInv' /\ RerunInv' /\ EndInv'
<1>1. phase \in [Workers -> Phases] /\ phase' = [phase EXCEPT ![w] = p]
  BY DEF IInv, TypeOK, Goto
<1>2. \A v \in Workers : \A q \in {"rerun", "recount", "recollect"} :
          phase'[v] = q <=> phase[v] = q
  BY <1>1
<1>3. Rerunning' = Rerunning
  BY <1>2 DEF Rerunning
<1>4. FirstPass' /\ EndInv'
  BY DEF IInv, FirstPass, EndInv, collected, reExecuting
<1>5. ReclaimInv'
  BY <1>3 DEF IInv, ReclaimInv, collected, reExecuting
<1>6. RecollectInv'
  BY <1>2 DEF IInv, RecollectInv, collected, reExecuting
<1>7. \A v : ReExecutedBy(v)' = ReExecutedBy(v)
  BY DEF ReExecutedBy, reExecuting
<1>8. RerunInv'
  BY <1>2, <1>7 DEF IInv, RerunInv, collected, reExecuting
<1> QED
  BY <1>4, <1>5, <1>6, <1>8

\* The steps between the stages.
LEMMA ArriveStep ==
    ASSUME IInv, NEW w \in Workers, Arrive(w)
    PROVE  IInv'
<1> DEFINE p == IF finished THEN "waiting"
                ELSE IF totalComponents = 0 THEN "last" ELSE "claim"
<1>1. Goto(w, p) /\ phase[w] = "arrive"
      /\ UNCHANGED <<solving, collected, CommittedTxs, reExecuting, serialTxs, reDone, ending>>
  BY DEF Arrive
<1>2. p \in {"waiting", "last", "claim"} /\ (p = "claim" => totalComponents # 0)
      /\ (p = "last" => totalComponents = 0) /\ (p = "waiting" => finished)
  BY DEF IInv, TypeOK
<1> HIDE DEF p
<1>3. TypeOK'
  BY <1>1, <1>2 DEF IInv, TypeOK, Goto, Phases, solving, collected, reExecuting, ending
<1>4. PhaseInv'
  BY <1>1, <1>2 DEF IInv, TypeOK, PhaseInv, Goto, collected, ending
<1>5. ClaimInv' /\ CollectInv' /\ ListsInv'
  BY <1>1, <1>2, FirstStageStays DEF collected
<1>6. FirstPass' /\ ReclaimInv' /\ RecollectInv' /\ RerunInv' /\ EndInv'
  BY <1>1, <1>2, SecondStageStays
<1> QED
  BY <1>3, <1>4, <1>5, <1>6 DEF IInv

LEMMA StartReExecuteStep ==
    ASSUME IInv, NEW w \in Workers, StartReExecute(w)
    PROVE  IInv'
<1> DEFINE p == IF finished THEN "waiting" ELSE "reclaim"
<1>1. Goto(w, p) /\ phase[w] = "ready" /\ mwisDone
      /\ UNCHANGED <<solving, collected, CommittedTxs, reExecuting, serialTxs, reDone, ending>>
  BY DEF StartReExecute
<1>2. p \in {"waiting", "reclaim"} /\ (p = "waiting" => finished)
  OBVIOUS
<1> HIDE DEF p
<1>3. TypeOK'
  BY <1>1, <1>2 DEF IInv, TypeOK, Goto, Phases, solving, collected, reExecuting, ending
<1>4. PhaseInv'
  BY <1>1, <1>2 DEF IInv, TypeOK, PhaseInv, Goto, collected, ending
<1>5. ClaimInv' /\ CollectInv' /\ ListsInv'
  BY <1>1, <1>2, FirstStageStays DEF collected
<1>6. FirstPass' /\ ReclaimInv' /\ RecollectInv' /\ RerunInv' /\ EndInv'
  BY <1>1, <1>2, SecondStageStays
<1> QED
  BY <1>3, <1>4, <1>5, <1>6 DEF IInv

LEMMA ReExecutedStep ==
    ASSUME IInv, NEW w \in Workers, ReExecuted(w)
    PROVE  IInv'
<1>1. Goto(w, "inner") /\ phase[w] = "rewait" /\ reDone
      /\ UNCHANGED <<solving, collected, CommittedTxs, reExecuting, serialTxs, reDone, ending>>
  BY DEF ReExecuted
<1>2. TypeOK'
  BY <1>1 DEF IInv, TypeOK, Goto, Phases, solving, collected, reExecuting, ending
<1>3. PhaseInv'
  BY <1>1 DEF IInv, TypeOK, PhaseInv, Goto, collected, ending
<1>4. ClaimInv' /\ CollectInv' /\ ListsInv'
  BY <1>1, FirstStageStays DEF collected
<1>5. FirstPass' /\ ReclaimInv' /\ RecollectInv' /\ RerunInv' /\ EndInv'
  BY <1>1, SecondStageStays
<1> QED
  BY <1>2, <1>3, <1>4, <1>5 DEF IInv

LEMMA EndBatchStep ==
    ASSUME IInv, NEW w \in Workers, EndBatch(w)
    PROVE  IInv'
<1> DEFINE p == IF phase[w] = "inner" THEN "last" ELSE "waiting"
<1>1. Goto(w, p) /\ phase[w] \in {"inner", "last"} /\ finished'
      /\ completions' = (IF finished THEN completions ELSE completions + 1)
      /\ UNCHANGED <<solving, collected, CommittedTxs, reExecuting, serialTxs, reDone>>
  BY DEF EndBatch
<1>2. p \in {"waiting", "last"} /\ (totalComponents = 0 \/ reDone)
  BY <1>1 DEF IInv, PhaseInv
<1> HIDE DEF p
<1>3. TypeOK'
  BY <1>1, <1>2 DEF IInv, TypeOK, Goto, Phases, solving, collected, reExecuting, EndBatch
<1>4. PhaseInv'
  BY <1>1, <1>2 DEF IInv, TypeOK, PhaseInv, Goto, collected
<1>5. ClaimInv' /\ CollectInv' /\ ListsInv'
  BY <1>1, <1>2, FirstStageStays DEF collected
<1>6. FirstPass' /\ ReclaimInv' /\ RecollectInv' /\ RerunInv' /\ EndInv'
  BY <1>1, <1>2, SecondStageStays
<1> QED
  BY <1>3, <1>4, <1>5, <1>6 DEF IInv

----------------------------------------------------------------------------
(* The first stage *)

\* The count of the components leaves no solver when it is complete.
LEMMA NobodySolves ==
    ASSUME IInv, completeComponentsNumber = totalComponents
    PROVE  Solving = {} /\ componentsIndex >= totalComponents
<1>1. Solving \in SUBSET Workers
  BY DEF Solving
<1>2. Cardinality(Solving) \in Nat /\ (Cardinality(Solving) = 0 => Solving = {})
  BY <1>1, SubsetsFinite
<1>3. componentsIndex \in Nat /\ totalComponents \in Nat
  BY Components DEF IInv, TypeOK
<1> QED
  BY <1>2, <1>3 DEF IInv, ClaimInv

LEMMA ClaimComponentStep ==
    ASSUME IInv, NEW w \in Workers, ClaimComponent(w)
    PROVE  IInv'
<1> DEFINE p == IF componentsIndex >= totalComponents THEN "ready" ELSE "solve"
<1>1. /\ Goto(w, p) /\ phase[w] = "claim" /\ componentsIndex' = componentsIndex + 1
      /\ UNCHANGED <<threadCommittedTxs, threadAbortedTxs, completeComponentsNumber,
                   collected, CommittedTxs, reExecuting, serialTxs, reDone, ending>>
  BY DEF ClaimComponent
<1>2. /\ phase \in [Workers -> Phases] /\ phase' = [phase EXCEPT ![w] = p]
      /\ componentsIndex \in Nat /\ completeComponentsNumber \in Nat /\ totalComponents \in Nat
      /\ idx \in [Workers -> 0 .. totalComponents]
  BY <1>1, Components DEF IInv, TypeOK, Goto
<1>3. p \in {"ready", "solve"} /\ totalComponents # 0
  BY <1>1 DEF IInv, PhaseInv
<1>4. \/ p = "ready" /\ componentsIndex >= totalComponents /\ idx' = idx
      \/ /\ p = "solve" /\ componentsIndex < totalComponents
         /\ idx' = [idx EXCEPT ![w] = componentsIndex + 1]
  BY <1>2 DEF ClaimComponent
<1> HIDE DEF p
<1>5. TypeOK'
  <2>1. idx' \in [Workers -> 0 .. totalComponents]
    BY <1>2, <1>4
  <2>2. totalComponents' = totalComponents /\ Txs' = Txs
    BY DEF totalComponents, Txs, Elements
  <2>3. phase' \in [Workers -> Phases] /\ componentsIndex' \in Nat
    BY <1>1, <1>2, <1>3 DEF Phases
  <2> QED
    BY <1>1, <2>1, <2>2, <2>3 DEF IInv, TypeOK, collected, reExecuting, ending
<1>6. PhaseInv'
  BY <1>1, <1>2, <1>3 DEF IInv, PhaseInv, collected, ending
<1>7. Solving \in SUBSET Workers /\ w \notin Solving /\ Cardinality(Solving) \in Nat
  BY <1>1, SubsetsFinite DEF Solving
<1>8. ClaimInv'
  <2>1. CASE p = "ready"
    <3>1. Solving' = Solving
      BY <1>1, <1>2, <2>1 DEF Solving
    <3> QED
      BY <1>1, <1>2, <1>4, <1>7, <2>1, <3>1 DEF IInv, ClaimInv
  <2>2. CASE p = "solve"
    <3>1. Solving' = Solving \cup {w}
      BY <1>1, <1>2, <2>2 DEF Solving
    <3>2. Cardinality(Solving') = Cardinality(Solving) + 1
      BY <1>7, <3>1, Enters
    <3>3. idx'[w] = componentsIndex + 1 /\ \A v \in Solving : idx'[v] = idx[v]
      BY <1>2, <1>4, <1>7, <2>2
    <3>4. \A v \in Solving : idx[v] \in 1 .. totalComponents /\ idx[v] <= componentsIndex
      BY DEF IInv, ClaimInv
    <3>5. \A v \in Solving' : idx'[v] \in 1 .. totalComponents /\ idx'[v] <= componentsIndex'
      BY <1>1, <1>2, <1>4, <2>2, <3>1, <3>3, <3>4
    <3>6. \A v, u \in Solving' : idx'[v] = idx'[u] => v = u
      <4>1. \A v, u \in Solving : idx[v] = idx[u] => v = u
        BY DEF IInv, ClaimInv
      <4>2. \A v \in Solving : idx'[v] # idx'[w]
        BY <1>2, <3>3, <3>4
      <4> QED
        BY <3>1, <3>3, <4>1, <4>2
    <3>7. completeComponentsNumber + Cardinality(Solving) = componentsIndex
      BY <1>4, <2>2 DEF IInv, ClaimInv
    <3>8. (completeComponentsNumber + Cardinality(Solving) =
           IF componentsIndex < totalComponents THEN componentsIndex ELSE totalComponents)'
      BY <1>1, <1>2, <1>4, <1>7, <2>2, <3>2, <3>7, Components
    <3>9. totalComponents' = totalComponents
      BY DEF totalComponents
    <3> QED
      BY <3>5, <3>6, <3>8, <3>9 DEF ClaimInv
  <2> QED
    BY <1>3, <2>1, <2>2
<1>9. CollectInv'
  BY <1>1, <1>2, <1>3 DEF IInv, CollectInv, collected
<1>10. \A v, j, i : Holds(v, j, i)' <=> Holds(v, j, i)
  BY <1>1 DEF Holds
<1>11. ListsInv'
  <2>1. \A v \in Workers : phase'[v] = "count" <=> phase[v] = "count"
    BY <1>1, <1>2, <1>3
  <2>2. \A v \in Workers : phase'[v] = "solve" =>
            \/ phase[v] = "solve" /\ idx'[v] = idx[v]
            \/ v = w /\ p = "solve" /\ idx'[v] = componentsIndex + 1
    BY <1>1, <1>2, <1>3, <1>4
  <2>3. \A v \in Workers : phase[v] = "solve" => phase'[v] = "solve" /\ idx'[v] = idx[v]
    BY <1>1, <1>2, <1>4
  <2>4. /\ \A v \in Workers :
            /\ Len(threadCommittedTxs[v]) = Len(threadAbortedTxs[v])
            /\ Len(threadAbortedTxs[v]) <=
                   completeComponentsNumber + (IF phase'[v] = "count" THEN 1 ELSE 0)
        /\ \A u, v \in Workers : \A i \in DOMAIN componentsQueue :
            \A j \in DOMAIN threadAbortedTxs[u], k \in DOMAIN threadAbortedTxs[v] :
                Holds(u, j, i) /\ Holds(v, k, i) => u = v /\ j = k
    BY <2>1 DEF IInv, ListsInv
  <2>5. ASSUME NEW v \in Workers, NEW j \in DOMAIN threadAbortedTxs[v]
        PROVE  \E i \in DOMAIN componentsQueue :
            /\ i <= componentsIndex'
            /\ Holds(v, j, i)
            /\ \A u \in Workers : phase'[u] = "solve" => idx'[u] # i
    <3>1. PICK i \in DOMAIN componentsQueue :
            /\ i <= componentsIndex
            /\ Holds(v, j, i)
            /\ \A u \in Workers : phase[u] = "solve" => idx[u] # i
      BY DEF IInv, ListsInv
    <3>2. i \in Nat /\ i <= componentsIndex' /\ i # componentsIndex + 1
      BY <1>1, <1>2, <3>1, Components
    <3> QED
      BY <2>2, <3>1, <3>2
  <2>6. ASSUME NEW i \in DOMAIN componentsQueue, i <= componentsIndex'
        PROVE  \/ \E v \in Workers : phase'[v] = "solve" /\ idx'[v] = i
               \/ \E v \in Workers : \E j \in DOMAIN threadAbortedTxs[v] : Holds(v, j, i)
    <3>1. CASE i <= componentsIndex
      <4>1. \/ \E v \in Workers : phase[v] = "solve" /\ idx[v] = i
            \/ \E v \in Workers : \E j \in DOMAIN threadAbortedTxs[v] : Holds(v, j, i)
        BY <3>1 DEF IInv, ListsInv
      <4> QED
        BY <2>3, <4>1
    <3>2. CASE i > componentsIndex
      <4>1. i = componentsIndex + 1 /\ i <= totalComponents
        BY <1>1, <1>2, <2>6, <3>2, Components
      <4>2. p = "solve" /\ phase'[w] = "solve" /\ idx'[w] = i
        BY <1>2, <1>4, <4>1
      <4> QED
        BY <4>2
    <3> QED
      BY <1>2, <3>1, <3>2, Components
  <2> QED
    BY <1>1, <1>10, <2>4, <2>5, <2>6 DEF ListsInv
<1>12. FirstPass' /\ ReclaimInv' /\ RecollectInv' /\ RerunInv' /\ EndInv'
  BY <1>1, <1>3, SecondStageStays
<1> QED
  BY <1>5, <1>6, <1>8, <1>9, <1>11, <1>12 DEF IInv

LEMMA CountComponentStep ==
    ASSUME IInv, NEW w \in Workers, CountComponent(w)
    PROVE  IInv'
<1> DEFINE p == IF completeComponentsNumber' = totalComponents THEN "collect" ELSE "claim"
<1>1. /\ Goto(w, p) /\ phase[w] = "count"
      /\ completeComponentsNumber' = completeComponentsNumber + 1
      /\ UNCHANGED <<componentsIndex, idx, threadCommittedTxs, threadAbortedTxs,
                   collected, CommittedTxs, reExecuting, serialTxs, reDone, ending>>
  BY DEF CountComponent
<1>2. /\ phase \in [Workers -> Phases] /\ phase' = [phase EXCEPT ![w] = p]
      /\ componentsIndex \in Nat /\ completeComponentsNumber \in Nat /\ totalComponents \in Nat
  BY <1>1, Components DEF IInv, TypeOK, Goto
<1>3. /\ p \in {"collect", "claim"}
      /\ p = "collect" => completeComponentsNumber + 1 = totalComponents
      /\ totalComponents # 0
  BY <1>1 DEF IInv, PhaseInv
<1> HIDE DEF p
<1>4. TypeOK'
  BY <1>1, <1>2, <1>3 DEF IInv, TypeOK, Phases, collected, reExecuting, ending
<1>5. PhaseInv'
  BY <1>1, <1>2, <1>3 DEF IInv, PhaseInv, collected, ending
<1>6. Solving \in SUBSET Workers /\ w \in Solving /\ Solving' = Solving \ {w}
  BY <1>1, <1>2, <1>3 DEF Solving
<1>7. /\ Cardinality(Solving') = Cardinality(Solving) - 1
      /\ Cardinality(Solving) \in Nat /\ Cardinality(Solving) > 0
  BY <1>6, SubsetsFinite, Leaves
<1>8. ClaimInv'
  BY <1>1, <1>2, <1>6, <1>7 DEF IInv, ClaimInv
<1>9. ~mwisDone /\ \A v \in Workers : phase[v] # "collect"
  <2>1. completeComponentsNumber # totalComponents
    BY <1>6, NobodySolves
  <2> QED
    BY <2>1 DEF IInv, CollectInv
<1>10. CollectInv'
  <2>1. \A v \in Workers : phase'[v] = "collect" => v = w /\ p = "collect"
    BY <1>2, <1>9
  <2>2. ~mwisDone'
    BY <1>1, <1>9 DEF collected
  <2>3. totalComponents' = totalComponents
    BY DEF totalComponents
  <2> QED
    BY <1>1, <1>3, <2>1, <2>2, <2>3 DEF CollectInv
<1>11. \A v, j, i : Holds(v, j, i)' <=> Holds(v, j, i)
  BY <1>1 DEF Holds
<1>12. ListsInv'
  <2>1. \A v \in Workers : phase'[v] = "solve" <=> phase[v] = "solve"
    BY <1>1, <1>2, <1>3
  <2>2. ASSUME NEW v \in Workers
        PROVE  /\ Len(threadCommittedTxs[v]) = Len(threadAbortedTxs[v])
               /\ Len(threadAbortedTxs[v]) <= completeComponentsNumber'
                                              + (IF phase'[v] = "count" THEN 1 ELSE 0)
    <3>1. Len(threadAbortedTxs[v]) \in Nat
      BY DEF IInv, TypeOK
    <3> QED
      BY <1>1, <1>2, <3>1 DEF IInv, ListsInv
  <2> QED
    BY <1>1, <1>11, <2>1, <2>2 DEF IInv, ListsInv
<1>13. FirstPass' /\ ReclaimInv' /\ RecollectInv' /\ RerunInv' /\ EndInv'
  BY <1>1, <1>3, SecondStageStays
<1> QED
  BY <1>4, <1>5, <1>8, <1>10, <1>12, <1>13 DEF IInv

\* The solver's entry is the first one of its component.
LEMMA SolveComponentStep ==
    ASSUME IInv, NEW w \in Workers, SolveComponent(w)
    PROVE  IInv'
<1> PICK k0 : k0 = idx[w]
  OBVIOUS
<1> PICK n : n = Len(threadAbortedTxs[w]) + 1
  OBVIOUS
<1> DEFINE c == componentsQueue[k0]
<1>1. /\ Goto(w, "count") /\ phase[w] = "solve"
      /\ UNCHANGED <<componentsIndex, idx, completeComponentsNumber, collected,
                   CommittedTxs, reExecuting, serialTxs, reDone, ending>>
  BY DEF SolveComponent
<1>2. PICK independentSet \in (SUBSET c) \ {c} :
        /\ threadCommittedTxs' = [threadCommittedTxs EXCEPT ![w] = Append(@, independentSet)]
        /\ threadAbortedTxs' = [threadAbortedTxs EXCEPT ![w] = Append(@, c \ independentSet)]
  BY DEF SolveComponent
<1>3. /\ phase \in [Workers -> Phases] /\ phase' = [phase EXCEPT ![w] = "count"]
      /\ threadCommittedTxs \in [Workers -> Seq(SUBSET Txs)]
      /\ threadAbortedTxs \in [Workers -> Seq(SUBSET Txs)]
      /\ componentsIndex \in Nat /\ completeComponentsNumber \in Nat
  BY <1>1 DEF IInv, TypeOK, Goto
<1>4. w \in Solving /\ k0 \in DOMAIN componentsQueue /\ k0 <= componentsIndex
  BY <1>1, Components DEF Solving, IInv, ClaimInv
<1>5. independentSet \in SUBSET Txs /\ c \ independentSet \in SUBSET Txs
      /\ c \ independentSet # {}
  BY <1>2, <1>4, Components
<1>6. Len(threadCommittedTxs[w]) = Len(threadAbortedTxs[w]) /\ n \in Nat
      /\ Len(threadAbortedTxs[w]) <= completeComponentsNumber
  BY <1>1, <1>3 DEF IInv, ListsInv
<1>7. /\ threadCommittedTxs'[w] \in Seq(SUBSET Txs) /\ threadAbortedTxs'[w] \in Seq(SUBSET Txs)
      /\ Len(threadCommittedTxs'[w]) = n /\ Len(threadAbortedTxs'[w]) = n
      /\ DOMAIN threadAbortedTxs[w] = 1 .. (n - 1) /\ DOMAIN threadAbortedTxs'[w] = 1 .. n
      /\ \A j \in 1 .. (n - 1) : /\ threadCommittedTxs'[w][j] = threadCommittedTxs[w][j]
                                 /\ threadAbortedTxs'[w][j] = threadAbortedTxs[w][j]
      /\ threadCommittedTxs'[w][n] = independentSet
      /\ threadAbortedTxs'[w][n] = c \ independentSet
  <2>1. threadCommittedTxs'[w] = Append(threadCommittedTxs[w], independentSet)
        /\ threadAbortedTxs'[w] = Append(threadAbortedTxs[w], c \ independentSet)
    BY <1>2, <1>3
  <2>2. threadCommittedTxs[w] \in Seq(SUBSET Txs) /\ threadAbortedTxs[w] \in Seq(SUBSET Txs)
    BY <1>3
  <2> HIDE DEF c
  <2> QED
    BY <1>5, <1>6, <2>1, <2>2
<1>8. \A v \in Workers : v # w =>
        /\ phase'[v] = phase[v]
        /\ threadCommittedTxs'[v] = threadCommittedTxs[v]
        /\ threadAbortedTxs'[v] = threadAbortedTxs[v]
  BY <1>2, <1>3
<1> HIDE DEF c
<1>9. TypeOK'
  <2>1. threadCommittedTxs' \in [Workers -> Seq(SUBSET Txs)]
        /\ threadAbortedTxs' \in [Workers -> Seq(SUBSET Txs)]
    BY <1>2, <1>3, <1>7
  <2>2. totalComponents' = totalComponents /\ Txs' = Txs
    BY DEF totalComponents, Txs, Elements
  <2> QED
    BY <1>1, <1>3, <2>1, <2>2 DEF IInv, TypeOK, Phases, collected, reExecuting, ending
<1>10. PhaseInv'
  BY <1>1, <1>3 DEF IInv, PhaseInv, collected, ending
<1>11. Solving' = Solving
  BY <1>1, <1>3 DEF Solving
<1>12. ClaimInv' /\ CollectInv'
  BY <1>1, <1>3, <1>11 DEF IInv, ClaimInv, CollectInv, collected
<1>13. Holds(w, n, k0)'
  BY <1>1, <1>2, <1>5, <1>6, <1>7 DEF Holds, c
<1>14. \A v \in Workers : \A j \in DOMAIN threadAbortedTxs[v] : \A i :
          j \in DOMAIN threadAbortedTxs'[v] /\ (Holds(v, j, i)' <=> Holds(v, j, i))
  BY <1>6, <1>7, <1>8 DEF Holds
<1>15. \A v \in Workers : \A j \in DOMAIN threadAbortedTxs'[v] :
          j \in DOMAIN threadAbortedTxs[v] \/ (v = w /\ j = n)
  BY <1>6, <1>7, <1>8
\* No other entry is of this component, and no other worker has it.
<1>16. \A v \in Workers : \A j \in DOMAIN threadAbortedTxs[v] : ~Holds(v, j, k0)
  <2> SUFFICES ASSUME NEW v \in Workers, NEW j \in DOMAIN threadAbortedTxs[v],
                      Holds(v, j, k0)
               PROVE  FALSE
    OBVIOUS
  <2>1. PICK i \in DOMAIN componentsQueue : Holds(v, j, i) /\ k0 # i
    BY <1>1 DEF IInv, ListsInv
  <2> QED
    BY <1>4, <2>1, HeldOnce
<1>17. \A i \in DOMAIN componentsQueue : Holds(w, n, i)' => i = k0
  BY <1>4, <1>13, Components DEF Holds
<1>18. \A v \in Workers : phase'[v] = "solve" => phase[v] = "solve" /\ idx[v] # k0
  <2>1. \A v \in Workers : phase'[v] = "solve" => v # w /\ phase[v] = "solve"
    BY <1>3, <1>8
  <2>2. \A v \in Solving : v # w => idx[v] # k0
    BY <1>4 DEF IInv, ClaimInv
  <2> QED
    BY <2>1, <2>2 DEF Solving
<1>19. ListsInv'
  <2>1. ASSUME NEW v \in Workers
        PROVE  /\ Len(threadCommittedTxs'[v]) = Len(threadAbortedTxs'[v])
               /\ Len(threadAbortedTxs'[v]) <=
                      completeComponentsNumber + (IF phase'[v] = "count" THEN 1 ELSE 0)
    <3>1. CASE v = w
      BY <1>3, <1>6, <1>7, <3>1 
    <3>2. CASE v # w
      BY <1>8, <3>2 DEF IInv, ListsInv
    <3> QED
      BY <3>1, <3>2
  <2>2. ASSUME NEW v \in Workers, NEW j \in DOMAIN threadAbortedTxs'[v]
        PROVE  \E i \in DOMAIN componentsQueue :
            /\ i <= componentsIndex
            /\ Holds(v, j, i)'
            /\ \A u \in Workers : phase'[u] = "solve" => idx[u] # i
    <3>1. CASE j \in DOMAIN threadAbortedTxs[v]
      <4>1. PICK i \in DOMAIN componentsQueue :
            /\ i <= componentsIndex
            /\ Holds(v, j, i)
            /\ \A u \in Workers : phase[u] = "solve" => idx[u] # i
        BY <3>1 DEF IInv, ListsInv
      <4> QED
        BY <1>14, <1>18, <3>1, <4>1
    <3>2. CASE v = w /\ j = n
      BY <1>4, <1>13, <1>18, <3>2
    <3> QED
      BY <1>15, <3>1, <3>2
  <2>3. ASSUME NEW u \in Workers, NEW v \in Workers, NEW i \in DOMAIN componentsQueue,
               NEW j \in DOMAIN threadAbortedTxs'[u], NEW k \in DOMAIN threadAbortedTxs'[v],
               Holds(u, j, i)', Holds(v, k, i)'
        PROVE  u = v /\ j = k
    <3>1. CASE j \in DOMAIN threadAbortedTxs[u] /\ k \in DOMAIN threadAbortedTxs[v]
      BY <1>14, <2>3, <3>1 DEF IInv, ListsInv
    <3>2. CASE u = w /\ j = n /\ k \in DOMAIN threadAbortedTxs[v]
      BY <1>14, <1>16, <1>17, <2>3, <3>2
    <3>3. CASE v = w /\ k = n /\ j \in DOMAIN threadAbortedTxs[u]
      BY <1>14, <1>16, <1>17, <2>3, <3>3
    <3> QED
      BY <1>15, <3>1, <3>2, <3>3
  <2>4. ASSUME NEW i \in DOMAIN componentsQueue, i <= componentsIndex
        PROVE  \/ \E v \in Workers : phase'[v] = "solve" /\ idx[v] = i
               \/ \E v \in Workers : \E j \in DOMAIN threadAbortedTxs'[v] : Holds(v, j, i)'
    <3>1. CASE i = k0
      <4>1. n \in DOMAIN threadAbortedTxs'[w]
        BY <1>6, <1>7 
      <4> QED
        BY <1>13, <3>1, <4>1
    <3>2. CASE i # k0
      <4>1. \/ \E v \in Workers : phase[v] = "solve" /\ idx[v] = i
            \/ \E v \in Workers : \E j \in DOMAIN threadAbortedTxs[v] : Holds(v, j, i)
        BY <2>4 DEF IInv, ListsInv
      <4>2. \A v \in Workers : phase[v] = "solve" /\ idx[v] = i => phase'[v] = "solve"
        BY <1>8, <3>2
      <4> QED
        BY <1>14, <4>1, <4>2
    <3> QED
      BY <3>1, <3>2
  <2>5. idx' = idx /\ componentsIndex' = componentsIndex
        /\ completeComponentsNumber' = completeComponentsNumber
    BY <1>1
  <2> QED
    BY <2>1, <2>2, <2>3, <2>4, <2>5 DEF ListsInv
<1>20. FirstPass' /\ ReclaimInv' /\ RecollectInv' /\ RerunInv' /\ EndInv'
  BY <1>1, SecondStageStays
<1> QED
  BY <1>9, <1>10, <1>12, <1>19, <1>20 DEF IInv

----------------------------------------------------------------------------
(* The collection of the first stage *)

\* When every component is counted, every one is in one entry.
LEMMA AllHeld ==
    ASSUME IInv, completeComponentsNumber = totalComponents,
           NEW i \in DOMAIN componentsQueue
    PROVE  \E v \in Workers : \E j \in DOMAIN threadAbortedTxs[v] : Holds(v, j, i)
<1>1. Solving = {} /\ componentsIndex >= totalComponents /\ componentsIndex \in Nat
  BY NobodySolves DEF IInv, TypeOK
<1>2. i <= componentsIndex
  BY <1>1, Components
<1>3. ~\E v \in Workers : phase[v] = "solve"
  BY <1>1 DEF Solving
<1> QED
  BY <1>2, <1>3 DEF IInv, ListsInv

\* An entry that has a transaction of component i is the entry of component i.
LEMMA EntryOf ==
    ASSUME IInv, NEW w \in Workers, NEW j \in DOMAIN threadAbortedTxs[w],
           NEW i \in DOMAIN componentsQueue, NEW t \in componentsQueue[i],
           t \in threadAbortedTxs[w][j] \/ t \in threadCommittedTxs[w][j]
    PROVE  Holds(w, j, i)
<1>1. PICK k \in DOMAIN componentsQueue : Holds(w, j, k)
  BY DEF IInv, ListsInv
<1>2. t \in componentsQueue[k]
  BY <1>1 DEF Holds
<1> QED
  BY <1>1, <1>2, Components

\* The two lists of a worker are equally long, and no longer than there are
\* components.
LEMMA ListDomains ==
    ASSUME IInv, completeComponentsNumber = totalComponents, NEW w \in Workers
    PROVE  /\ DOMAIN threadCommittedTxs[w] = DOMAIN threadAbortedTxs[w]
           /\ DOMAIN threadAbortedTxs[w] \subseteq 1 .. totalComponents
<1>1. threadCommittedTxs[w] \in Seq(SUBSET Txs) /\ threadAbortedTxs[w] \in Seq(SUBSET Txs)
  BY DEF IInv, TypeOK
<1>2. phase[w] # "count"
  BY NobodySolves DEF Solving
<1>3. Len(threadCommittedTxs[w]) = Len(threadAbortedTxs[w])
      /\ Len(threadAbortedTxs[w]) <= totalComponents
  BY <1>1, <1>2, Components DEF IInv, ListsInv
<1> QED
  BY <1>1, <1>3, Components

\* A transaction without a conflict is in no list.
LEMMA SingleNotListed ==
    ASSUME IInv, completeComponentsNumber = totalComponents, NEW t \in Singles
    PROVE  /\ Occurrences(t, threadCommittedTxs) = 0
           /\ t \notin UNION Entries(threadAbortedTxs)
<1>1. \A w \in Workers : \A j \in DOMAIN threadAbortedTxs[w] :
        t \notin threadAbortedTxs[w][j] /\ t \notin threadCommittedTxs[w][j]
  <2> SUFFICES ASSUME NEW w \in Workers, NEW j \in DOMAIN threadAbortedTxs[w]
               PROVE  t \notin threadAbortedTxs[w][j] /\ t \notin threadCommittedTxs[w][j]
    OBVIOUS
  <2>1. PICK k \in DOMAIN componentsQueue : Holds(w, j, k)
    BY DEF IInv, ListsInv
  <2> QED
    BY <2>1, Components DEF Holds
<1>2. {e \in Workers \X (1 .. totalComponents) :
        e[2] \in DOMAIN threadCommittedTxs[e[1]] /\ t \in threadCommittedTxs[e[1]][e[2]]} = {}
  BY <1>1, ListDomains
<1>3. t \notin UNION Entries(threadAbortedTxs)
  BY <1>1 DEF Entries, Elements
<1> QED
  BY <1>2, <1>3, FS_EmptySet DEF Occurrences

\* A transaction of a component is in one independent set or in an abort set.
LEMMA ListedOnce ==
    ASSUME IInv, completeComponentsNumber = totalComponents,
           NEW i \in DOMAIN componentsQueue, NEW t \in componentsQueue[i]
    PROVE  Occurrences(t, threadCommittedTxs) =
               IF t \in UNION Entries(threadAbortedTxs) THEN 0 ELSE 1
<1> DEFINE places == {e \in Workers \X (1 .. totalComponents) :
        e[2] \in DOMAIN threadCommittedTxs[e[1]] /\ t \in threadCommittedTxs[e[1]][e[2]]}
<1>1. PICK v \in Workers : \E j \in DOMAIN threadAbortedTxs[v] : Holds(v, j, i)
  BY AllHeld
<1>2. PICK j \in DOMAIN threadAbortedTxs[v] : Holds(v, j, i)
  BY <1>1
<1>3. \A w \in Workers : \A k \in DOMAIN threadAbortedTxs[w] :
        t \in threadAbortedTxs[w][k] \/ t \in threadCommittedTxs[w][k] => w = v /\ k = j
  <2> SUFFICES ASSUME NEW w \in Workers, NEW k \in DOMAIN threadAbortedTxs[w],
                      t \in threadAbortedTxs[w][k] \/ t \in threadCommittedTxs[w][k]
               PROVE  w = v /\ k = j
    OBVIOUS
  <2>1. Holds(w, k, i)
    BY EntryOf
  <2> QED
    BY <1>2, <2>1 DEF IInv, ListsInv
<1>4. t \in threadCommittedTxs[v][j] <=> t \notin threadAbortedTxs[v][j]
  BY <1>2 DEF Holds
<1>5. t \in UNION Entries(threadAbortedTxs) <=> t \in threadAbortedTxs[v][j]
  <2>1. t \in threadAbortedTxs[v][j] => t \in UNION Entries(threadAbortedTxs)
    BY DEF Entries, Elements
  <2>2. t \in UNION Entries(threadAbortedTxs) =>
        \E w \in Workers : \E k \in DOMAIN threadAbortedTxs[w] : t \in threadAbortedTxs[w][k]
    BY DEF Entries, Elements
  <2> QED
    BY <1>3, <2>1, <2>2
<1>6. \A e \in places : e = <<v, j>>
  BY <1>3, ListDomains
<1>7. CASE t \in threadAbortedTxs[v][j]
  <2>1. places = {}
    BY <1>4, <1>6, <1>7
  <2> QED
    BY <1>5, <1>7, <2>1, FS_EmptySet DEF Occurrences
<1>8. CASE t \notin threadAbortedTxs[v][j]
  <2>1. <<v, j>> \in places
    BY <1>4, <1>8, ListDomains
  <2>2. places = {<<v, j>>}
    BY <1>6, <2>1
  <2>3. Cardinality(places) = 1
    BY <2>2, FS_Singleton
  <2> QED
    BY <1>5, <1>8, <2>3 DEF Occurrences
<1> QED
  BY <1>7, <1>8

\* The abort sets are finitely many and share no transaction.
LEMMA AbortSets ==
    ASSUME IInv, completeComponentsNumber = totalComponents
    PROVE  /\ IsFiniteSet(Entries(threadAbortedTxs))
           /\ Entries(threadAbortedTxs) \subseteq SUBSET Txs
           /\ \A c, d \in Entries(threadAbortedTxs) : c # d => c \cap d = {}
<1> DEFINE places == {e \in Workers \X (1 .. totalComponents) :
                        e[2] \in DOMAIN threadAbortedTxs[e[1]]}
           entry == [e \in places |-> threadAbortedTxs[e[1]][e[2]]]
<1>1. \A c \in Entries(threadAbortedTxs) :
        \E w \in Workers : \E j \in DOMAIN threadAbortedTxs[w] : c = threadAbortedTxs[w][j]
  BY DEF Entries, Elements
<1>2. IsFiniteSet(places)
  <2>1. IsFiniteSet(Workers \X (1 .. totalComponents))
    <3>1. totalComponents \in Int
      BY Components
    <3>2. IsFiniteSet(1 .. totalComponents)
      BY <3>1, FS_Interval
    <3> HIDE DEF places, entry
    <3> QED
      BY <3>2, WorkersAssumption, FS_Product
  <2> QED
    BY <2>1, FS_Subset
<1>3. IsFiniteSet(Entries(threadAbortedTxs))
  <2>1. \A e \in places : entry[e] \in Entries(threadAbortedTxs)
    BY DEF Entries, Elements
  <2>2. \A c \in Entries(threadAbortedTxs) : \E e \in places : entry[e] = c
    <3> SUFFICES ASSUME NEW c \in Entries(threadAbortedTxs)
                 PROVE  \E e \in places : entry[e] = c
      OBVIOUS
    <3>1. PICK w \in Workers : \E j \in DOMAIN threadAbortedTxs[w] : c = threadAbortedTxs[w][j]
      BY <1>1
    <3>2. PICK j \in DOMAIN threadAbortedTxs[w] : c = threadAbortedTxs[w][j]
      BY <3>1
    <3>3. <<w, j>> \in places
      BY ListDomains
    <3> QED
      BY <3>2, <3>3
  <2>3. entry \in Surjection(places, Entries(threadAbortedTxs))
    BY <2>1, <2>2 DEF Surjection
  <2> QED
    BY <1>2, <2>3, FS_Surjection
<1>4. Entries(threadAbortedTxs) \subseteq SUBSET Txs
  <2>1. \A w \in Workers : threadAbortedTxs[w] \in Seq(SUBSET Txs)
    BY DEF IInv, TypeOK
  <2>2. ASSUME NEW c \in Entries(threadAbortedTxs)
        PROVE  c \in SUBSET Txs
    <3>1. PICK w \in Workers : \E j \in DOMAIN threadAbortedTxs[w] : c = threadAbortedTxs[w][j]
      BY <1>1
    <3>2. PICK j \in DOMAIN threadAbortedTxs[w] : c = threadAbortedTxs[w][j]
      BY <3>1
    <3> QED
      BY <2>1, <3>2
  <2> QED
    BY <2>2
<1>5. ASSUME NEW c \in Entries(threadAbortedTxs), NEW d \in Entries(threadAbortedTxs),
             NEW t \in c \cap d
      PROVE  c = d
  <2>1. PICK v \in Workers : \E j \in DOMAIN threadAbortedTxs[v] : c = threadAbortedTxs[v][j]
    BY <1>1
  <2>2. PICK j \in DOMAIN threadAbortedTxs[v] : c = threadAbortedTxs[v][j]
    BY <2>1
  <2>3. PICK w \in Workers : \E k \in DOMAIN threadAbortedTxs[w] : d = threadAbortedTxs[w][k]
    BY <1>1
  <2>4. PICK k \in DOMAIN threadAbortedTxs[w] : d = threadAbortedTxs[w][k]
    BY <2>3
  <2>5. PICK i \in DOMAIN componentsQueue : Holds(v, j, i)
    BY DEF IInv, ListsInv
  <2>6. t \in componentsQueue[i]
    BY <1>5, <2>2, <2>5 DEF Holds
  <2>7. Holds(w, k, i)
    BY <1>5, <2>4, <2>6, EntryOf
  <2> QED
    BY <2>2, <2>4, <2>5, <2>7 DEF IInv, ListsInv
<1> QED
  BY <1>3, <1>4, <1>5

LEMMA CollectCommittedStep ==
    ASSUME IInv, NEW w \in Workers, CollectCommitted(w)
    PROVE  IInv'
<1> DEFINE sets == Entries(threadAbortedTxs)
<1>1. /\ Goto(w, "ready") /\ phase[w] = "collect"
      /\ CommittedTxs' = [t \in Txs |-> CommittedTxs[t] + Occurrences(t, threadCommittedTxs)]
      /\ abortedTxComponents' = sets /\ abortedTxQueue' = sets
      /\ abortTxs' = abortTxs \cup UNION sets
      /\ mwisDone'
      /\ UNCHANGED <<solving, current, reCommittedTxs, reAbortedTxs, completedIndex,
                   serialTxs, reDone, ending>>
  BY DEF CollectCommitted
<1>2. phase \in [Workers -> Phases] /\ phase' = [phase EXCEPT ![w] = "ready"]
  BY <1>1 DEF IInv, TypeOK, Goto
<1>3. completeComponentsNumber = totalComponents /\ ~mwisDone /\ ~reDone
      /\ totalComponents # 0
  BY <1>1 DEF IInv, CollectInv, PhaseInv
<1>4. IsFiniteSet(sets) /\ sets \subseteq SUBSET Txs /\ Cardinality(sets) \in Nat
      /\ \A c, d \in sets : c # d => c \cap d = {}
  BY <1>3, AbortSets, FS_CardinalityType
<1>5. /\ CommittedTxs = [t \in Txs |-> IF t \in Singles THEN 1 ELSE 0]
      /\ abortTxs = {} /\ abortedTxComponents = {} /\ completedIndex = 0
      /\ \A v \in Workers : reCommittedTxs[v] = {} /\ reAbortedTxs[v] = {}
  BY <1>3 DEF IInv, FirstPass
<1>6. \A t \in Txs : CommittedTxs'[t] = IF t \in UNION sets THEN 0 ELSE 1
  <2> SUFFICES ASSUME NEW t \in Txs
               PROVE  CommittedTxs'[t] = IF t \in UNION sets THEN 0 ELSE 1
    OBVIOUS
  <2>1. CommittedTxs'[t] = (IF t \in Singles THEN 1 ELSE 0) + Occurrences(t, threadCommittedTxs)
    BY <1>1, <1>5
  <2>2. CASE t \in Singles
    BY <1>3, <2>1, <2>2, SingleNotListed
  <2>3. CASE t \notin Singles
    <3>1. PICK i \in DOMAIN componentsQueue : t \in componentsQueue[i]
      BY <2>3, Components
    <3>2. Occurrences(t, threadCommittedTxs) = IF t \in UNION sets THEN 0 ELSE 1
      BY <1>3, <3>1, ListedOnce
    <3> QED
      BY <2>1, <2>3, <3>2
  <2> QED
    BY <2>2, <2>3
<1> HIDE DEF sets
<1>7. TypeOK'
  <2>1. totalComponents' = totalComponents /\ Txs' = Txs
    BY DEF totalComponents, Txs, Elements
  <2>2. CommittedTxs' \in [Txs -> Nat]
    <3>1. \A t \in Txs : CommittedTxs'[t] \in Nat
      BY <1>6
    <3>2. DOMAIN CommittedTxs' = Txs /\ CommittedTxs' = [t \in Txs |-> CommittedTxs'[t]]
      BY <1>1
    <3> QED
      BY <3>1, <3>2
  <2>3. phase' \in [Workers -> Phases] /\ abortTxs' \subseteq Txs
        /\ abortedTxComponents' \subseteq SUBSET Txs
        /\ abortedTxQueue' \subseteq abortedTxComponents'
    BY <1>1, <1>2, <1>4, <1>5 DEF Phases
  <2> QED
    BY <1>1, <2>1, <2>2, <2>3 DEF IInv, TypeOK, solving, ending
<1>8. PhaseInv'
  BY <1>1, <1>2, <1>3 DEF IInv, PhaseInv, ending
<1>9. \A v \in Workers : \A q \in {"solve", "count"} : phase'[v] = q <=> phase[v] = q
  BY <1>1, <1>2
<1>10. ClaimInv'
  <2>1. Solving' = Solving
    BY <1>9 DEF Solving
  <2> QED
    BY <1>1, <2>1 DEF IInv, ClaimInv, solving
<1>11. CollectInv'
  <2>1. \A v \in Workers : phase'[v] # "collect"
    BY <1>1, <1>2 DEF IInv, CollectInv
  <2>2. totalComponents' = totalComponents
    BY DEF totalComponents
  <2> QED
    BY <1>1, <1>3, <2>1, <2>2 DEF CollectInv, solving
<1>12. ListsInv'
  <2>1. \A v, j, i : Holds(v, j, i)' <=> Holds(v, j, i)
    BY <1>1 DEF Holds, solving
  <2> QED
    BY <1>1, <1>9, <2>1 DEF IInv, ListsInv, solving
<1>13. FirstPass'
  BY <1>1, <1>4, <1>5, <1>6 DEF FirstPass
<1>14. \A v \in Workers : phase'[v] \notin {"rerun", "recount", "recollect"}
  BY <1>2, <1>3 DEF IInv, PhaseInv
<1>15. ReclaimInv'
  <2>1. Rerunning' = {}
    BY <1>14 DEF Rerunning
  <2>2. Cardinality(Rerunning') = 0
    BY <2>1, FS_EmptySet
  <2> QED
    BY <1>1, <1>4, <1>5, <2>1, <2>2 DEF ReclaimInv
<1>16. RecollectInv'
  BY <1>1, <1>3, <1>14 DEF RecollectInv
<1>17. RerunInv'
  <2>1. \A v \in Workers : ReExecutedBy(v)' = {}
    BY <1>1, <1>5 DEF ReExecutedBy
  <2> QED
    BY <1>1, <1>5, <2>1 DEF RerunInv
<1>18. EndInv'
  BY <1>1, <1>3 DEF IInv, EndInv
<1> QED
  BY <1>7, <1>8, <1>10, <1>11, <1>12, <1>13, <1>15, <1>16, <1>17, <1>18 DEF IInv

----------------------------------------------------------------------------
(* The second stage *)

\* The count of the abort sets leaves nobody with one when it is complete.
LEMMA NobodyReruns ==
    ASSUME IInv, completedIndex = Cardinality(abortedTxComponents)
    PROVE  Rerunning = {} /\ abortedTxQueue = {}
<1>1. Rerunning \in SUBSET Workers
  BY DEF Rerunning
<1>2. Cardinality(Rerunning) \in Nat /\ (Cardinality(Rerunning) = 0 => Rerunning = {})
  BY <1>1, SubsetsFinite
<1>3. IsFiniteSet(abortedTxQueue) /\ Cardinality(abortedTxQueue) \in Nat
      /\ (Cardinality(abortedTxQueue) = 0 => abortedTxQueue = {})
  <2>1. abortedTxQueue \in SUBSET abortedTxComponents /\ IsFiniteSet(abortedTxComponents)
    BY DEF IInv, TypeOK, FirstPass
  <2>2. IsFiniteSet(abortedTxQueue)
    BY <2>1, FS_Subset
  <2> QED
    BY <2>2, FS_CardinalityType, FS_EmptySet
<1>4. completedIndex \in Nat
  BY DEF IInv, TypeOK
<1> QED
  BY <1>2, <1>3, <1>4 DEF IInv, ReclaimInv

LEMMA ClaimAbortedStep ==
    ASSUME IInv, NEW w \in Workers, ClaimAborted(w)
    PROVE  IInv'
<1>1. /\ phase[w] = "reclaim"
      /\ UNCHANGED <<solving, collected, CommittedTxs, reCommittedTxs, reAbortedTxs,
                   completedIndex, serialTxs, reDone, ending>>
  BY DEF ClaimAborted
<1>2. CASE abortedTxQueue = {}
  <2>1. Goto(w, "rewait") /\ UNCHANGED <<abortedTxQueue, current>>
    BY <1>2 DEF ClaimAborted
  <2>2. TypeOK'
    BY <1>1, <2>1 DEF IInv, TypeOK, Goto, Phases, solving, collected, ending
  <2>3. PhaseInv'
    BY <1>1, <2>1 DEF IInv, TypeOK, PhaseInv, Goto, collected, ending
  <2>4. ClaimInv' /\ CollectInv' /\ ListsInv'
    BY <1>1, <2>1, FirstStageStays DEF collected
  <2>5. FirstPass' /\ ReclaimInv' /\ RecollectInv' /\ RerunInv' /\ EndInv'
    BY <1>1, <2>1, SecondStageStays DEF reExecuting
  <2> QED
    BY <2>2, <2>3, <2>4, <2>5 DEF IInv
<1>3. CASE abortedTxQueue # {}
  <2>1. PICK c \in abortedTxQueue :
            /\ abortedTxQueue' = abortedTxQueue \ {c}
            /\ current' = [current EXCEPT ![w] = c]
            /\ Goto(w, "rerun")
    BY <1>3 DEF ClaimAborted
  <2>2. /\ phase \in [Workers -> Phases] /\ phase' = [phase EXCEPT ![w] = "rerun"]
        /\ current \in [Workers -> SUBSET Txs] /\ completedIndex \in Nat
        /\ abortedTxQueue \subseteq abortedTxComponents /\ abortedTxComponents \subseteq SUBSET Txs
    BY <2>1 DEF IInv, TypeOK, Goto
  <2>3. TypeOK'
    BY <1>1, <2>1, <2>2 DEF IInv, TypeOK, Phases, solving, collected, ending
  <2>4. PhaseInv'
    BY <1>1, <2>2 DEF IInv, PhaseInv, collected, ending
  <2>5. ClaimInv' /\ CollectInv' /\ ListsInv'
    BY <1>1, <2>1, FirstStageStays DEF collected
  <2>6. FirstPass' /\ EndInv'
    BY <1>1 DEF IInv, FirstPass, EndInv, collected
  <2>7. Rerunning \in SUBSET Workers /\ w \notin Rerunning /\ Rerunning' = Rerunning \cup {w}
    BY <1>1, <2>2 DEF Rerunning
  <2>8. current'[w] = c /\ \A v \in Workers : v # w => current'[v] = current[v]
    BY <2>1, <2>2
  <2>9. ReclaimInv'
    <3>1. /\ \A v \in Rerunning : current[v] \in abortedTxComponents \ abortedTxQueue
          /\ \A u, v \in Rerunning : current[u] = current[v] => u = v
      BY DEF IInv, ReclaimInv
    <3>2. \A v \in Rerunning : v # w /\ current'[v] = current[v]
      BY <2>7, <2>8
    <3>3. \A v \in Rerunning' : current'[v] \in abortedTxComponents \ abortedTxQueue'
      BY <2>1, <2>2, <2>7, <2>8, <3>1, <3>2
    <3>4. \A u, v \in Rerunning' : current'[u] = current'[v] => u = v
      BY <2>7, <2>8, <3>1, <3>2
    <3>5. IsFiniteSet(abortedTxQueue)
      BY <2>2, FS_Subset DEF IInv, FirstPass
    <3>6. Cardinality(abortedTxQueue') = Cardinality(abortedTxQueue) - 1
          /\ Cardinality(abortedTxQueue) \in Nat
      BY <2>1, <3>5, FS_RemoveElement, FS_CardinalityType
    <3>7. Cardinality(Rerunning') = Cardinality(Rerunning) + 1
          /\ Cardinality(Rerunning) \in Nat
      BY <2>7, Enters, SubsetsFinite
    <3>8. completedIndex + Cardinality(Rerunning) + Cardinality(abortedTxQueue) =
             Cardinality(abortedTxComponents)
      BY DEF IInv, ReclaimInv
    <3>9. completedIndex' + Cardinality(Rerunning') + Cardinality(abortedTxQueue') =
             Cardinality(abortedTxComponents)
      BY <1>1, <2>2, <3>6, <3>7, <3>8
    <3> QED
      BY <1>1, <3>3, <3>4, <3>9 DEF ReclaimInv, collected
  <2>10. RecollectInv'
    BY <1>1, <2>2 DEF IInv, RecollectInv, collected
  <2>11. RerunInv'
    <3>1. \A v : ReExecutedBy(v)' = ReExecutedBy(v)
      BY <1>1 DEF ReExecutedBy
    <3>2. \A v \in Workers : phase'[v] = "rerun" => v = w \/ phase[v] = "rerun"
      BY <2>2
    <3>3. \A v \in Workers : phase[v] = "rerun" => phase'[v] = "rerun" /\ current'[v] = current[v]
      BY <1>1, <2>2, <2>8
    <3>4. ASSUME NEW v \in Workers, NEW t \in ReExecutedBy(v)
          PROVE  \E d \in abortedTxComponents \ abortedTxQueue' :
            t \in d /\ \A u \in Workers : phase'[u] = "rerun" => current'[u] # d
      <4>1. PICK d \in abortedTxComponents \ abortedTxQueue :
            t \in d /\ \A u \in Workers : phase[u] = "rerun" => current[u] # d
        BY DEF IInv, RerunInv
      <4>2. d # c /\ d \in abortedTxComponents \ abortedTxQueue'
        BY <2>1, <4>1
      <4> QED
        BY <2>8, <3>2, <4>1, <4>2
    <3>5. ASSUME NEW d \in abortedTxComponents \ abortedTxQueue'
          PROVE  \/ \E v \in Workers : phase'[v] = "rerun" /\ current'[v] = d
                 \/ \A t \in d : \E v \in Workers : t \in ReExecutedBy(v)
      <4>1. CASE d = c
        BY <2>2, <2>8, <4>1
      <4>2. CASE d # c
        <5>1. d \in abortedTxComponents \ abortedTxQueue
          BY <2>1, <4>2
        <5> QED
          BY <3>3, <5>1 DEF IInv, RerunInv
      <4> QED
        BY <4>1, <4>2
    <3>6. /\ \A v \in Workers : reCommittedTxs[v] \cap reAbortedTxs[v] = {}
          /\ \A u, v \in Workers : u # v => ReExecutedBy(u) \cap ReExecutedBy(v) = {}
      BY DEF IInv, RerunInv
    <3> QED
      BY <1>1, <3>1, <3>4, <3>5, <3>6 DEF RerunInv, collected
  <2> QED
    BY <2>3, <2>4, <2>5, <2>6, <2>9, <2>10, <2>11 DEF IInv
<1> QED
  BY <1>2, <1>3

\* The aborted transactions that were not executed again and those that were.
LEMMA NotYetRerun ==
    ASSUME IInv, NEW w \in Workers, phase[w] = "rerun"
    PROVE  /\ current[w] \in abortedTxComponents \ abortedTxQueue
           /\ \A v \in Workers : current[w] \cap ReExecutedBy(v) = {}
<1>1. current[w] \in abortedTxComponents \ abortedTxQueue
  BY DEF IInv, ReclaimInv, Rerunning
<1>2. ASSUME NEW v \in Workers, NEW t \in current[w] \cap ReExecutedBy(v)
      PROVE  FALSE
  <2>1. PICK d \in abortedTxComponents \ abortedTxQueue : t \in d /\ current[w] # d
    BY <1>2 DEF IInv, RerunInv
  <2> QED
    BY <1>1, <2>1 DEF IInv, FirstPass
<1> QED
  BY <1>1, <1>2

LEMMA ReExecuteStep ==
    ASSUME IInv, NEW w \in Workers, ReExecute(w)
    PROVE  IInv'
<1> PICK c : c = current[w]
  OBVIOUS
<1>1. /\ Goto(w, "recount") /\ phase[w] = "rerun"
      /\ UNCHANGED <<solving, collected, CommittedTxs, abortedTxQueue, current,
                   completedIndex, serialTxs, reDone, ending>>
  BY DEF ReExecute
<1>2. PICK same \in SUBSET c :
        /\ reCommittedTxs' = [reCommittedTxs EXCEPT ![w] = @ \cup same]
        /\ reAbortedTxs' = [reAbortedTxs EXCEPT ![w] = @ \cup (c \ same)]
  BY DEF ReExecute, Keep
<1>3. /\ phase \in [Workers -> Phases] /\ phase' = [phase EXCEPT ![w] = "recount"]
      /\ reCommittedTxs \in [Workers -> SUBSET Txs] /\ reAbortedTxs \in [Workers -> SUBSET Txs]
      /\ c \in SUBSET Txs
  BY <1>1 DEF IInv, TypeOK, Goto
<1>4. /\ reCommittedTxs'[w] = reCommittedTxs[w] \cup same
      /\ reAbortedTxs'[w] = reAbortedTxs[w] \cup (c \ same)
      /\ \A v \in Workers : v # w =>
            reCommittedTxs'[v] = reCommittedTxs[v] /\ reAbortedTxs'[v] = reAbortedTxs[v]
  BY <1>2, <1>3
<1>5. mwisDone /\ c \in abortedTxComponents \ abortedTxQueue
      /\ \A v \in Workers : c \cap ReExecutedBy(v) = {}
  BY <1>1, NotYetRerun DEF IInv, PhaseInv
<1>6. TypeOK'
  <2>1. reCommittedTxs' \in [Workers -> SUBSET Txs] /\ reAbortedTxs' \in [Workers -> SUBSET Txs]
    BY <1>2, <1>3
  <2>2. totalComponents' = totalComponents /\ Txs' = Txs
    BY DEF totalComponents, Txs, Elements
  <2>3. phase' \in [Workers -> Phases]
    BY <1>3 DEF Phases
  <2> QED
    BY <1>1, <2>1, <2>2, <2>3 DEF IInv, TypeOK, solving, collected, ending
<1>7. PhaseInv'
  BY <1>1, <1>3 DEF IInv, PhaseInv, collected, ending
<1>8. ClaimInv' /\ CollectInv' /\ ListsInv'
  BY <1>1, FirstStageStays DEF collected
<1>9. FirstPass'
  BY <1>1, <1>5 DEF IInv, FirstPass, collected
<1>10. Rerunning' = Rerunning
  BY <1>1, <1>3 DEF Rerunning
<1>11. ReclaimInv' /\ RecollectInv' /\ EndInv'
  BY <1>1, <1>3, <1>10 DEF IInv, ReclaimInv, RecollectInv, EndInv, collected
<1>12. /\ ReExecutedBy(w)' = ReExecutedBy(w) \cup c
       /\ \A v \in Workers : v # w => ReExecutedBy(v)' = ReExecutedBy(v)
  BY <1>2, <1>4 DEF ReExecutedBy
<1>13. \A v \in Workers : phase'[v] = "rerun" => v # w /\ phase[v] = "rerun" /\ current[v] # c
  <2>1. \A v \in Workers : phase'[v] = "rerun" => v # w /\ phase[v] = "rerun"
    BY <1>3
  <2>2. \A v \in Workers : v # w /\ phase[v] = "rerun" => current[v] # current[w]
    BY <1>1 DEF IInv, ReclaimInv, Rerunning
  <2> QED
    BY <2>1, <2>2
<1>14. RerunInv'
  <2>1. \A v \in Workers : reCommittedTxs'[v] \cap reAbortedTxs'[v] = {}
    <3>1. \A v \in Workers : reCommittedTxs[v] \cap reAbortedTxs[v] = {}
      BY DEF IInv, RerunInv
    <3>2. c \cap reCommittedTxs[w] = {} /\ c \cap reAbortedTxs[w] = {}
      BY <1>5 DEF ReExecutedBy
    <3>3. reCommittedTxs'[w] \cap reAbortedTxs'[w] = {}
      BY <1>2, <1>4, <3>1, <3>2
    <3> QED
      BY <1>4, <3>1, <3>3
  <2>2. \A u, v \in Workers : u # v => ReExecutedBy(u)' \cap ReExecutedBy(v)' = {}
    <3>1. \A u, v \in Workers : u # v => ReExecutedBy(u) \cap ReExecutedBy(v) = {}
      BY DEF IInv, RerunInv
    <3>2. \A v \in Workers : v # w => ReExecutedBy(w)' \cap ReExecutedBy(v)' = {}
      BY <1>5, <1>12, <3>1
    <3> QED
      BY <1>12, <3>1, <3>2
  <2>3. ASSUME NEW v \in Workers, NEW t \in ReExecutedBy(v)'
        PROVE  \E d \in abortedTxComponents \ abortedTxQueue :
            t \in d /\ \A u \in Workers : phase'[u] = "rerun" => current[u] # d
    <3>1. CASE t \in ReExecutedBy(v)
      <4>1. PICK d \in abortedTxComponents \ abortedTxQueue :
            t \in d /\ \A u \in Workers : phase[u] = "rerun" => current[u] # d
        BY <3>1 DEF IInv, RerunInv
      <4> QED
        BY <1>13, <4>1
    <3>2. CASE t \in c
      BY <1>5, <1>13, <3>2
    <3> QED
      BY <1>12, <2>3, <3>1, <3>2
  <2>4. ASSUME NEW d \in abortedTxComponents \ abortedTxQueue
        PROVE  \/ \E v \in Workers : phase'[v] = "rerun" /\ current[v] = d
               \/ \A t \in d : \E v \in Workers : t \in ReExecutedBy(v)'
    <3>1. CASE d = c
      BY <1>12, <3>1
    <3>2. CASE d # c
      <4>1. \/ \E v \in Workers : phase[v] = "rerun" /\ current[v] = d
            \/ \A t \in d : \E v \in Workers : t \in ReExecutedBy(v)
        BY DEF IInv, RerunInv
      <4>2. \A v \in Workers : phase[v] = "rerun" /\ current[v] = d => phase'[v] = "rerun"
        BY <1>3, <3>2
      <4>3. \A t : \A v \in Workers : t \in ReExecutedBy(v) => t \in ReExecutedBy(v)'
        BY <1>12
      <4> QED
        BY <4>1, <4>2, <4>3
    <3> QED
      BY <3>1, <3>2
  <2>5. abortedTxComponents' = abortedTxComponents /\ abortedTxQueue' = abortedTxQueue
        /\ current' = current
    BY <1>1 DEF collected
  <2> QED
    BY <2>1, <2>2, <2>3, <2>4, <2>5 DEF RerunInv
<1> QED
  BY <1>6, <1>7, <1>8, <1>9, <1>11, <1>14 DEF IInv

LEMMA CountAbortedStep ==
    ASSUME IInv, NEW w \in Workers, CountAborted(w)
    PROVE  IInv'
<1> DEFINE p == IF completedIndex' = Cardinality(abortedTxComponents)
                THEN "recollect" ELSE "reclaim"
<1>1. /\ Goto(w, p) /\ phase[w] = "recount" /\ completedIndex' = completedIndex + 1
      /\ UNCHANGED <<solving, collected, CommittedTxs, abortedTxQueue, current,
                   reCommittedTxs, reAbortedTxs, serialTxs, reDone, ending>>
  BY DEF CountAborted
<1>2. p \in {"recollect", "reclaim"}
      /\ (p = "recollect" => completedIndex + 1 = Cardinality(abortedTxComponents))
  BY <1>1
<1> HIDE DEF p
<1>3. phase \in [Workers -> Phases] /\ phase' = [phase EXCEPT ![w] = p]
      /\ completedIndex \in Nat
  BY <1>1 DEF IInv, TypeOK, Goto
<1>4. mwisDone
  BY <1>1 DEF IInv, PhaseInv
<1>5. TypeOK'
  BY <1>1, <1>2, <1>3 DEF IInv, TypeOK, Phases, solving, collected, ending
<1>6. PhaseInv'
  BY <1>1, <1>2, <1>3 DEF IInv, PhaseInv, collected, ending
<1>7. ClaimInv' /\ CollectInv' /\ ListsInv'
  BY <1>1, <1>2, FirstStageStays DEF collected
<1>8. FirstPass' /\ EndInv'
  BY <1>1, <1>4 DEF IInv, FirstPass, EndInv, collected
<1>9. Rerunning \in SUBSET Workers /\ w \in Rerunning /\ Rerunning' = Rerunning \ {w}
  BY <1>1, <1>2, <1>3 DEF Rerunning
<1>10. ReclaimInv'
  <2>1. Cardinality(Rerunning') = Cardinality(Rerunning) - 1
        /\ Cardinality(Rerunning) \in Nat
    BY <1>9, SubsetsFinite, Leaves
  <2>2. IsFiniteSet(abortedTxQueue)
    BY FS_Subset DEF IInv, FirstPass, TypeOK
  <2>3. Cardinality(abortedTxQueue) \in Nat
    BY <2>2, FS_CardinalityType
  <2> QED
    BY <1>1, <1>3, <1>9, <2>1, <2>3 DEF IInv, ReclaimInv, collected
<1>11. ~reDone /\ \A v \in Workers : phase[v] # "recollect"
  BY <1>9, NobodyReruns DEF IInv, RecollectInv
<1>12. RecollectInv'
  <2>1. \A v \in Workers : phase'[v] = "recollect" => v = w /\ p = "recollect"
    BY <1>3, <1>11
  <2> QED
    BY <1>1, <1>2, <1>11, <2>1 DEF RecollectInv, collected
<1>13. RerunInv'
  <2>1. \A v \in Workers : phase'[v] = "rerun" <=> phase[v] = "rerun"
    BY <1>1, <1>2, <1>3
  <2>2. \A v : ReExecutedBy(v)' = ReExecutedBy(v)
    BY <1>1 DEF ReExecutedBy
  <2> QED
    BY <1>1, <2>1, <2>2 DEF IInv, RerunInv, collected
<1> QED
  BY <1>5, <1>6, <1>7, <1>8, <1>10, <1>12, <1>13 DEF IInv

LEMMA CollectReExecutedStep ==
    ASSUME IInv, NEW w \in Workers, CollectReExecuted(w)
    PROVE  IInv'
<1> DEFINE serial == UNION {reAbortedTxs[v] : v \in Workers}
<1>1. /\ Goto(w, "last") /\ phase[w] = "recollect"
      /\ CommittedTxs' = [t \in Txs |->
            CommittedTxs[t] + Cardinality({v \in Workers : t \in reCommittedTxs[v]})]
      /\ serialTxs' = serial /\ reDone'
      /\ UNCHANGED <<solving, collected, reExecuting, ending>>
  BY DEF CollectReExecuted
<1>2. phase \in [Workers -> Phases] /\ phase' = [phase EXCEPT ![w] = "last"]
      /\ reCommittedTxs \in [Workers -> SUBSET Txs] /\ reAbortedTxs \in [Workers -> SUBSET Txs]
  BY <1>1 DEF IInv, TypeOK, Goto
<1>3. completedIndex = Cardinality(abortedTxComponents) /\ ~reDone /\ mwisDone
      /\ Rerunning = {} /\ abortedTxQueue = {}
  BY <1>1, NobodyReruns DEF IInv, RecollectInv, PhaseInv
<1>4. \A t \in Txs : CommittedTxs[t] = IF t \in abortTxs THEN 0 ELSE 1
  BY <1>3 DEF IInv, FirstPass
\* Exactly the aborted transactions were executed again.
<1>5. \A t : t \in abortTxs <=> \E v \in Workers : t \in ReExecutedBy(v)
  <2>1. \A t : t \in abortTxs <=> \E c \in abortedTxComponents : t \in c
    BY DEF IInv, FirstPass
  <2>2. \A v \in Workers : \A t \in ReExecutedBy(v) : \E c \in abortedTxComponents : t \in c
    BY DEF IInv, RerunInv
  <2>3. ~\E v \in Workers : phase[v] = "rerun"
    BY <1>3 DEF Rerunning
  <2>4. \A c \in abortedTxComponents : \A t \in c : \E v \in Workers : t \in ReExecutedBy(v)
    BY <1>3, <2>3 DEF IInv, RerunInv
  <2> QED
    BY <2>1, <2>2, <2>4
<1>6. \A t \in Txs : CommittedTxs'[t] = IF t \in serial THEN 0 ELSE 1
  <2> SUFFICES ASSUME NEW t \in Txs
               PROVE  CommittedTxs'[t] = IF t \in serial THEN 0 ELSE 1
    OBVIOUS
  <2> DEFINE keepers == {v \in Workers : t \in reCommittedTxs[v]}
  <2>1. CommittedTxs'[t] = (IF t \in abortTxs THEN 0 ELSE 1) + Cardinality(keepers)
    BY <1>1, <1>4
  <2>2. CASE t \notin abortTxs
    <3>1. keepers = {} /\ t \notin serial
      BY <1>5, <2>2 DEF ReExecutedBy
    <3>2. Cardinality(keepers) = 0
      BY <3>1, FS_EmptySet
    <3> QED
      BY <2>1, <2>2, <3>1, <3>2
  <2>3. CASE t \in abortTxs
    <3>1. PICK v \in Workers : t \in ReExecutedBy(v)
      BY <1>5, <2>3
    <3>2. \A u \in Workers : t \in ReExecutedBy(u) => u = v
      BY <3>1 DEF IInv, RerunInv
    <3>3. CASE t \in reCommittedTxs[v]
      <4>1. t \notin reAbortedTxs[v]
        BY <3>3 DEF IInv, RerunInv
      <4>2. keepers = {v} /\ t \notin serial
        BY <3>2, <3>3, <4>1 DEF ReExecutedBy
      <4>3. Cardinality(keepers) = 1
        BY <4>2, FS_Singleton
      <4> QED
        BY <2>1, <2>3, <4>2, <4>3
    <3>4. CASE t \notin reCommittedTxs[v]
      <4>1. keepers = {} /\ t \in serial
        BY <3>1, <3>2, <3>4 DEF ReExecutedBy
      <4>2. Cardinality(keepers) = 0
        BY <4>1, FS_EmptySet
      <4> QED
        BY <2>1, <2>3, <4>1, <4>2
    <3> QED
      BY <3>3, <3>4
  <2> QED
    BY <2>2, <2>3
<1>7. TypeOK'
  <2>1. serialTxs' \subseteq Txs
    BY <1>1, <1>2
  <2> HIDE DEF serial
  <2>2. totalComponents' = totalComponents /\ Txs' = Txs
    BY DEF totalComponents, Txs, Elements
  <2>3. CommittedTxs' \in [Txs -> Nat]
    <3>1. \A t \in Txs : CommittedTxs'[t] \in Nat
      BY <1>6
    <3>2. DOMAIN CommittedTxs' = Txs /\ CommittedTxs' = [t \in Txs |-> CommittedTxs'[t]]
      BY <1>1
    <3> QED
      BY <3>1, <3>2
  <2>4. phase' \in [Workers -> Phases]
    BY <1>2 DEF Phases
  <2> QED
    BY <1>1, <2>1, <2>2, <2>3, <2>4
    DEF IInv, TypeOK, solving, collected, reExecuting, ending
<1> HIDE DEF serial
<1>8. PhaseInv'
  BY <1>1, <1>2, <1>3 DEF IInv, PhaseInv, collected, ending
<1>9. ClaimInv' /\ CollectInv' /\ ListsInv'
  BY <1>1, FirstStageStays DEF collected
<1>10. FirstPass'
  BY <1>1, <1>3 DEF IInv, FirstPass, collected, reExecuting
<1>11. \A v \in Workers : \A q \in {"rerun", "recount"} : phase'[v] = q <=> phase[v] = q
  BY <1>1, <1>2
<1>12. ReclaimInv'
  <2>1. Rerunning' = Rerunning
    BY <1>11 DEF Rerunning
  <2> QED
    BY <1>1, <2>1 DEF IInv, ReclaimInv, collected, reExecuting
<1>13. RecollectInv'
  <2>1. \A v \in Workers : phase'[v] # "recollect"
    BY <1>1, <1>2 DEF IInv, RecollectInv
  <2> QED
    BY <1>1, <1>3, <2>1 DEF RecollectInv, collected, reExecuting
<1>14. RerunInv'
  <2>1. \A v : ReExecutedBy(v)' = ReExecutedBy(v)
    BY <1>1 DEF ReExecutedBy, reExecuting
  <2> QED
    BY <1>1, <1>11, <2>1 DEF IInv, RerunInv, collected, reExecuting
<1>15. EndInv'
  <2>1. serialTxs' \subseteq abortTxs
    BY <1>1, <1>5 DEF serial, ReExecutedBy
  <2> QED
    BY <1>1, <1>6, <2>1 DEF EndInv, collected
<1> QED
  BY <1>7, <1>8, <1>9, <1>10, <1>12, <1>13, <1>14, <1>15 DEF IInv

----------------------------------------------------------------------------
(* The invariant and what follows from it *)

LEMMA InitIInv ==
    ASSUME Init
    PROVE  IInv
<1>1. TypeOK
  <2>1. totalComponents \in Nat
    BY Components
  <2>2. threadCommittedTxs \in [Workers -> Seq(SUBSET Txs)]
        /\ threadAbortedTxs \in [Workers -> Seq(SUBSET Txs)]
    BY DEF Init
  <2>3. CommittedTxs \in [Txs -> Nat]
    BY DEF Init
  <2>4. idx \in [Workers -> 0 .. totalComponents]
    BY <2>1 DEF Init
  <2>5. phase \in [Workers -> Phases]
    BY DEF Init, Phases
  <2>6. current \in [Workers -> SUBSET Txs] /\ reCommittedTxs \in [Workers -> SUBSET Txs]
        /\ reAbortedTxs \in [Workers -> SUBSET Txs]
    BY DEF Init
  <2> QED
    BY <2>2, <2>3, <2>4, <2>5, <2>6 DEF Init, TypeOK
<1>2. PhaseInv
  BY DEF Init, PhaseInv
<1>3. Solving = {} /\ Rerunning = {}
  BY DEF Init, Solving, Rerunning
<1>4. Cardinality(Solving) = 0 /\ Cardinality(Rerunning) = 0 /\ Cardinality({}) = 0
      /\ IsFiniteSet({})
  BY <1>3, FS_EmptySet
<1>5. ClaimInv
  BY <1>3, <1>4, Components DEF Init, ClaimInv
<1>6. CollectInv /\ RecollectInv /\ EndInv
  BY DEF Init, CollectInv, RecollectInv, EndInv
<1>7. ListsInv
  <2>1. \A w \in Workers : threadAbortedTxs[w] = <<>> /\ threadCommittedTxs[w] = <<>>
    BY DEF Init
  <2>2. \A w \in Workers : Len(threadAbortedTxs[w]) = 0 /\ Len(threadCommittedTxs[w]) = 0
                           /\ DOMAIN threadAbortedTxs[w] = {}
    BY <2>1
  <2>3. \A i \in DOMAIN componentsQueue : ~(i <= componentsIndex)
    BY Components DEF Init
  <2>4. completeComponentsNumber = 0 /\ \A w \in Workers : phase[w] = "arrive"
    BY DEF Init
  <2> QED
    BY <2>2, <2>3, <2>4 DEF ListsInv
<1>8. FirstPass
  BY <1>4 DEF Init, FirstPass
<1>9. ReclaimInv
  BY <1>3, <1>4 DEF Init, ReclaimInv
<1>10. RerunInv
  BY DEF Init, RerunInv, ReExecutedBy
<1> QED
  BY <1>1, <1>2, <1>5, <1>6, <1>7, <1>8, <1>9, <1>10 DEF IInv

\* A step that changes nothing keeps the invariant.
LEMMA StutterIInv ==
    ASSUME IInv, UNCHANGED vars
    PROVE  IInv'
<1>1. TypeOK' /\ PhaseInv'
  BY DEF vars, IInv, TypeOK, PhaseInv
<1>2. Solving' = Solving /\ Rerunning' = Rerunning
  BY DEF vars, Solving, Rerunning
<1>3. ClaimInv' /\ CollectInv'
  BY <1>2 DEF vars, IInv, ClaimInv, CollectInv
<1>4. \A v, j, i : Holds(v, j, i)' <=> Holds(v, j, i)
  BY DEF vars, Holds
<1>5. ListsInv'
  BY <1>4 DEF vars, IInv, ListsInv
<1>6. FirstPass' /\ RecollectInv' /\ EndInv'
  BY DEF vars, IInv, FirstPass, RecollectInv, EndInv
<1>7. ReclaimInv'
  BY <1>2 DEF vars, IInv, ReclaimInv
<1>8. \A v : ReExecutedBy(v)' = ReExecutedBy(v)
  BY DEF vars, ReExecutedBy
<1>9. RerunInv'
  BY <1>8 DEF vars, IInv, RerunInv
<1> QED
  BY <1>1, <1>3, <1>5, <1>6, <1>7, <1>9 DEF IInv

\* One lemma per action; the last disjunct is the batch that is over.
LEMMA NextIInv ==
    ASSUME IInv, [Next]_vars
    PROVE  IInv'
<1>1. CASE UNCHANGED vars
  BY <1>1, StutterIInv
<1>2. CASE Terminated
  BY <1>2, StutterIInv DEF Terminated
<1>3. ASSUME NEW w \in Workers, Step(w)
      PROVE  IInv'
  BY <1>3, ArriveStep, ClaimComponentStep, SolveComponentStep, CountComponentStep,
     CollectCommittedStep, StartReExecuteStep, ClaimAbortedStep, ReExecuteStep,
     CountAbortedStep, CollectReExecutedStep, ReExecutedStep, EndBatchStep
  DEF Step
<1> QED
  BY <1>1, <1>2, <1>3 DEF Next

\* The strengthening of the properties below: in every reachable state the
\* pieces of both stages are accounted for.
THEOREM Invariance == Spec => []IInv
<1>1. Init => IInv
  BY InitIInv
<1>2. IInv /\ [Next]_vars => IInv'
  BY NextIInv
<1> QED
  BY <1>1, <1>2, PTL DEF Spec

\* Whatever workers there are, every variable keeps its type.
THEOREM TypeCorrect == Spec => []TypeOK
<1>1. IInv => TypeOK
  BY DEF IInv
<1> QED
  BY <1>1, Invariance, PTL

\* finalizeMWISResults and finalizeReExecute, for any number of workers and any
\* components: no transaction is lost and none counted twice, and no stage is
\* declared over while a worker has a piece of it.
THEOREM EveryTxDecidedCorrect == Spec => []EveryTxDecided
<1>1. ASSUME IInv
      PROVE  EveryTxDecided
  <2>1. mwisDone /\ ~reDone =>
            \A t \in Txs : CommittedTxs[t] = IF t \in abortTxs THEN 0 ELSE 1
    BY <1>1 DEF IInv, FirstPass
  <2>2. finished => (totalComponents # 0 => mwisDone /\ reDone)
    BY <1>1 DEF IInv, PhaseInv
  <2>3. totalComponents = 0 => \A t \in Txs : CommittedTxs[t] = IF t \in serialTxs THEN 0 ELSE 1
    <3> SUFFICES ASSUME totalComponents = 0
                 PROVE  \A t \in Txs : CommittedTxs[t] = IF t \in serialTxs THEN 0 ELSE 1
      OBVIOUS
    <3>1. ~mwisDone /\ ~reDone
      BY <1>1 DEF IInv, PhaseInv
    <3>2. CommittedTxs = [t \in Txs |-> IF t \in Singles THEN 1 ELSE 0] /\ serialTxs = {}
      BY <1>1, <3>1 DEF IInv, FirstPass, EndInv
    <3>3. DOMAIN componentsQueue = {}
      BY Components
    <3>4. Txs = Singles
      BY <3>3, Components DEF Txs
    <3> QED
      BY <3>2, <3>4
  <2>4. reDone => \A t \in Txs : CommittedTxs[t] = IF t \in serialTxs THEN 0 ELSE 1
    BY <1>1 DEF IInv, EndInv
  <2>5. finished => totalComponents = 0 \/ reDone
    BY <1>1 DEF IInv, PhaseInv
  <2>6. mwisDone => \A w \in Workers : phase[w] \notin {"solve", "count", "collect"}
    <3>1. mwisDone => completeComponentsNumber = totalComponents
                      /\ \A w \in Workers : phase[w] # "collect"
      BY <1>1 DEF IInv, CollectInv
    <3> QED
      BY <1>1, <3>1, NobodySolves DEF Solving
  <2>7. reDone => \A w \in Workers : phase[w] \notin {"rerun", "recount", "recollect"}
    <3>1. reDone => completedIndex = Cardinality(abortedTxComponents)
                    /\ \A w \in Workers : phase[w] # "recollect"
      BY <1>1 DEF IInv, RecollectInv
    <3> QED
      BY <1>1, <3>1, NobodyReruns DEF Rerunning
  <2> QED
    BY <2>1, <2>2, <2>3, <2>4, <2>5, <2>6, <2>7 DEF EveryTxDecided
<1> QED
  BY <1>1, Invariance, PTL

\* Both collections happen before finished is set, so that the worker that ends
\* the batch reads a result nobody changes any more.
THEOREM ResultFrozenCorrect == Spec => ResultFrozen
<1>1. ASSUME IInv, [Next]_vars, finished
      PROVE  UNCHANGED <<CommittedTxs, abortTxs, serialTxs>>
  <2>1. CASE UNCHANGED vars
    BY <2>1 DEF vars
  <2>2. CASE Terminated
    BY <2>2 DEF Terminated, vars
  <2>3. ASSUME NEW w \in Workers, Step(w)
        PROVE  UNCHANGED <<CommittedTxs, abortTxs, serialTxs>>
    <3>1. totalComponents = 0 \/ (reDone /\ mwisDone)
      BY <1>1 DEF IInv, PhaseInv
    <3>2. ~CollectCommitted(w)
      BY <1>1, <3>1 DEF CollectCommitted, IInv, CollectInv, PhaseInv
    <3>3. ~CollectReExecuted(w)
      BY <1>1, <3>1 DEF CollectReExecuted, IInv, RecollectInv, PhaseInv
    <3> QED
      BY <2>3, <3>2, <3>3 DEF Step, Arrive, ClaimComponent, SolveComponent, CountComponent,
         StartReExecute, ClaimAborted, ReExecute, CountAborted, ReExecuted, EndBatch, collected
  <2> QED
    BY <1>1, <2>1, <2>2, <2>3 DEF Next
<1> QED
  BY <1>1, Invariance, PTL DEF Spec, ResultFrozen

----------------------------------------------------------------------------
(* The commit validation implements GatherAll *)

\* After the collection every component is settled, also when the transactions
\* that were executed again are added.
LEMMA SettledAll ==
    ASSUME IInv, mwisDone
    PROVE  Settled = DOMAIN componentsQueue
<1>1. ASSUME NEW i \in DOMAIN componentsQueue, NEW t \in componentsQueue[i]
      PROVE  CommittedTxs[t] > 0 \/ t \in UNION abortedTxComponents
  <2>1. t \in Txs
    BY Components
  <2>2. CommittedTxs[t] = 1 \/ t \in abortTxs
    <3>1. CASE reDone
      BY <2>1, <3>1 DEF IInv, EndInv
    <3>2. CASE ~reDone
      BY <2>1, <3>2 DEF IInv, FirstPass
    <3> QED
      BY <3>1, <3>2
  <2>3. abortTxs = UNION abortedTxComponents
    BY DEF IInv, FirstPass
  <2> QED
    BY <2>2, <2>3
<1> QED
  BY <1>1 DEF Settled

\* The solver adds the component that it had, and no other.
LEMMA SolvedGrows ==
    ASSUME IInv, NEW w \in Workers, SolveComponent(w)
    PROVE  \E i \in DOMAIN componentsQueue : i \notin Solved /\ Solved' = Solved \cup {i}
<1> PICK k0 : k0 = idx[w]
  OBVIOUS
<1>1. PICK independentSet \in (SUBSET componentsQueue[k0]) \ {componentsQueue[k0]} :
        threadAbortedTxs' = [threadAbortedTxs EXCEPT ![w] =
            Append(@, componentsQueue[k0] \ independentSet)]
  BY DEF SolveComponent
<1> PICK s : s = componentsQueue[k0] \ independentSet
  OBVIOUS
<1> PICK n : n = Len(threadAbortedTxs[w]) + 1
  OBVIOUS
<1>2. phase[w] = "solve"
  BY DEF SolveComponent
<1>3. k0 \in DOMAIN componentsQueue
  BY <1>2, Components DEF Solving, IInv, ClaimInv
<1>4. s # {} /\ s \subseteq componentsQueue[k0] /\ s \in SUBSET Txs
  BY <1>1, <1>3, Components
<1>5. threadAbortedTxs \in [Workers -> Seq(SUBSET Txs)]
  BY DEF IInv, TypeOK
<1>6. /\ DOMAIN threadAbortedTxs[w] = 1 .. (n - 1) /\ DOMAIN threadAbortedTxs'[w] = 1 .. n
      /\ n \in Nat \ {0}
      /\ \A j \in 1 .. (n - 1) : threadAbortedTxs'[w][j] = threadAbortedTxs[w][j]
      /\ threadAbortedTxs'[w][n] = s
  <2>1. threadAbortedTxs'[w] = Append(threadAbortedTxs[w], s)
    BY <1>1, <1>5
  <2>2. threadAbortedTxs[w] \in Seq(SUBSET Txs)
    BY <1>5
  <2> QED
    BY <1>4, <2>1, <2>2
<1>7. \A v \in Workers : v # w => threadAbortedTxs'[v] = threadAbortedTxs[v]
  BY <1>1, <1>5
<1>8. \A v \in Workers : \A j \in DOMAIN threadAbortedTxs'[v] :
        \/ j \in DOMAIN threadAbortedTxs[v] /\ threadAbortedTxs'[v][j] = threadAbortedTxs[v][j]
        \/ v = w /\ j = n
  BY <1>6, <1>7
<1>9. \A v \in Workers : \A j \in DOMAIN threadAbortedTxs[v] :
        j \in DOMAIN threadAbortedTxs'[v] /\ threadAbortedTxs'[v][j] = threadAbortedTxs[v][j]
  BY <1>6, <1>7
<1>10. k0 \notin Solved
  <2> SUFFICES ASSUME NEW v \in Workers, NEW j \in DOMAIN threadAbortedTxs[v],
                      threadAbortedTxs[v][j] \subseteq componentsQueue[k0]
               PROVE  FALSE
    BY DEF Solved
  <2>1. PICK i \in DOMAIN componentsQueue : Holds(v, j, i) /\ k0 # i
    BY <1>2 DEF IInv, ListsInv
  <2> QED
    BY <1>3, <2>1, Components DEF Holds
<1>11. \A i \in DOMAIN componentsQueue : s \subseteq componentsQueue[i] <=> i = k0
  BY <1>3, <1>4, Components
<1>12. \A i \in DOMAIN componentsQueue :
        (\E v \in Workers : \E j \in DOMAIN threadAbortedTxs'[v] :
            threadAbortedTxs'[v][j] \subseteq componentsQueue[i])
        <=> i = k0 \/ \E v \in Workers : \E j \in DOMAIN threadAbortedTxs[v] :
                          threadAbortedTxs[v][j] \subseteq componentsQueue[i]
  <2> TAKE i \in DOMAIN componentsQueue
  <2>1. ASSUME NEW v \in Workers, NEW j \in DOMAIN threadAbortedTxs'[v],
               threadAbortedTxs'[v][j] \subseteq componentsQueue[i]
        PROVE  i = k0 \/ \E u \in Workers : \E k \in DOMAIN threadAbortedTxs[u] :
                             threadAbortedTxs[u][k] \subseteq componentsQueue[i]
    BY <1>6, <1>8, <1>11, <2>1
  <2>2. ASSUME NEW v \in Workers, NEW j \in DOMAIN threadAbortedTxs[v],
               threadAbortedTxs[v][j] \subseteq componentsQueue[i]
        PROVE  \E u \in Workers : \E k \in DOMAIN threadAbortedTxs'[u] :
                   threadAbortedTxs'[u][k] \subseteq componentsQueue[i]
    BY <1>9, <2>2
  <2>3. i = k0 => n \in DOMAIN threadAbortedTxs'[w]
                  /\ threadAbortedTxs'[w][n] \subseteq componentsQueue[i]
    BY <1>4, <1>6
  <2> QED
    BY <2>1, <2>2, <2>3
<1>13. Solved' = Solved \cup {k0}
  <2>1. \A i : i \in Solved' <=> i \in Solved \/ i = k0
    BY <1>3, <1>12, Zenon DEF Solved
  <2> QED
    BY <2>1
<1> QED
  BY <1>3, <1>10, <1>13

\* A step of this module is a step of GatherAll, or invisible to it: the solvers
\* hand in the components one by one, the collection publishes all of them.
THEOREM Refinement == Spec => ImplementsGatherAll
<1>1. Init => Commit!Init
  <2> SUFFICES ASSUME Init
               PROVE  Commit!Init
    OBVIOUS
  <2>1. \A w \in Workers : DOMAIN threadAbortedTxs[w] = {}
    BY DEF Init
  <2>2. Solved = {}
    BY <2>1 DEF Solved
  <2> QED
    BY <2>2 DEF Init, Commit!Init
<1>2. IInv /\ IInv' /\ [Next]_vars => [Commit!Next]_(Commit!vars)
  <2> SUFFICES ASSUME IInv, IInv', [Next]_vars
               PROVE  [Commit!Next]_(Commit!vars)
    OBVIOUS
  <2>1. ASSUME UNCHANGED <<threadAbortedTxs, mwisDone>>
        PROVE  UNCHANGED Commit!vars
    <3>1. Solved' = Solved
      BY <2>1 DEF Solved
    <3>2. mwisDone => Settled' = Settled
      <4>1. mwisDone => Settled = DOMAIN componentsQueue
        BY SettledAll
      <4>2. mwisDone' => Settled' = DOMAIN componentsQueue
        <5>1. (IInv /\ mwisDone => Settled = DOMAIN componentsQueue)'
          BY SettledAll, PTL
        <5> QED
          BY <5>1
      <4> QED
        BY <2>1, <4>1, <4>2
    <3> QED
      BY <2>1, <3>1, <3>2 DEF Commit!vars
  <2>2. CASE UNCHANGED vars
    BY <2>1, <2>2 DEF vars
  <2>3. CASE Terminated
    BY <2>1, <2>3 DEF Terminated, vars
  <2>4. ASSUME NEW w \in Workers, SolveComponent(w)
        PROVE  \E new \in SUBSET DOMAIN componentsQueue : Commit!Join(new)
    <3>1. PICK i \in DOMAIN componentsQueue : i \notin Solved /\ Solved' = Solved \cup {i}
      BY <2>4, SolvedGrows
    <3>2. ~mwisDone
      <4>1. w \in Solving
        BY <2>4 DEF SolveComponent, Solving
      <4> QED
        BY <4>1, NobodySolves DEF IInv, CollectInv
    <3>3. mwisDone' = mwisDone /\ ~mwisDone'
      BY <2>4, <3>2 DEF SolveComponent, collected
    <3>4. {i} \in SUBSET DOMAIN componentsQueue /\ Commit!Join({i})
      BY <3>1, <3>2, <3>3 DEF Commit!Join
    <3> QED
      BY <3>4
  <2>5. ASSUME NEW w \in Workers, CollectCommitted(w)
        PROVE  Commit!Publish
    <3>1. ~mwisDone /\ completeComponentsNumber = totalComponents
      BY <2>5 DEF CollectCommitted, IInv, CollectInv
    <3>2. Solved = DOMAIN componentsQueue
      <4>1. \A i \in DOMAIN componentsQueue :
              \E v \in Workers : \E j \in DOMAIN threadAbortedTxs[v] : Holds(v, j, i)
        BY <3>1, AllHeld
      <4> QED
        BY <4>1 DEF Solved, Holds
    <3>3. mwisDone' /\ Solved' = Solved
      BY <2>5 DEF CollectCommitted, solving, Solved
    <3>4. Settled' = DOMAIN componentsQueue
      <4>1. (IInv /\ mwisDone => Settled = DOMAIN componentsQueue)'
        BY SettledAll, PTL
      <4> QED
        BY <3>3, <4>1
    <3> QED
      BY <3>1, <3>2, <3>3, <3>4 DEF Commit!Publish
  <2>6. ASSUME NEW w \in Workers, Step(w), ~SolveComponent(w), ~CollectCommitted(w)
        PROVE  UNCHANGED <<threadAbortedTxs, mwisDone>>
    BY <2>6 DEF Step, Arrive, ClaimComponent, CountComponent, StartReExecute, ClaimAborted,
       ReExecute, CountAborted, CollectReExecuted, ReExecuted, EndBatch, solving, collected
  <2> QED
    BY <2>1, <2>2, <2>3, <2>4, <2>5, <2>6 DEF Next, Commit!Next
<1> QED
  BY <1>1, <1>2, Invariance, PTL DEF Spec, Commit!Spec, ImplementsGatherAll
=============================================================================
