--------------------------- MODULE DAGMergeProofs ---------------------------
(***************************************************************************)
(* Theorems about DAGMerge, for any finite set of workers and any number of *)
(* state tables.                                                           *)
(*                                                                         *)
(* The argument counts.  Every worker that ever claimed tables brings one  *)
(* graph, worth two: one when it is queued, one when it is merged away.    *)
(* CountInv is that balance; with it the number of operations computed by  *)
(* the worker with the last tables is reached only when one graph is left. *)
(***************************************************************************)
EXTENDS DAGMerge, FiniteSetTheorems, SequenceTheorems, TLAPS

\* The workers that hold a graph, or that will when they have built it.
Active == {w \in Workers :
    \/ phase[w] = "merge"
    \/ phase[w] \in {"claim", "build"} /\ w \in constructThreads}

ClaimInv ==
    /\ \A w \in Workers : phase[w] = "build" =>
        /\ w \in constructThreads
        /\ idx[w] < NumTables
        /\ idx[w] + 2 <= stateTableIndex
    /\ \A w \in Workers : phase[w] = "claim" /\ w \in constructThreads =>
        dags[w] # NoDag
    /\ \A w \in Workers : dags[w] # NoDag => w \in constructThreads
    /\ \A w \in Workers : phase[w] = "merge" =>
        stateTableIndex >= NumTables /\ dags[w] # NoDag

\* A graph that carries a number of operations carries the final one.
Exact(d) == d.totalMerges # -1 =>
                stateTableIndex >= NumTables /\ d.totalMerges = Operations

TotalsInv ==
    /\ \A w \in Workers : Exact(dags[w]) /\ Exact(pairDag[w])
    /\ \A i \in DOMAIN dagQueue : Exact(dagQueue[i])

\* Operations counted, graphs held and graphs queued against the graphs built.
CountInv ==
    completedMergeCount + 2 * Cardinality(Active) + Len(dagQueue)
        = 2 * Cardinality(constructThreads)

\* The operation that ends the stage is the last one, and ends it once.
LastInv ==
    /\ done \/ (\E w \in Workers : phase[w] = "finalize") =>
        stateTableIndex >= NumTables /\ completedMergeCount = Operations
    /\ \A w \in Workers : phase[w] = "finalize" => ~done
    /\ \A v, w \in Workers : phase[v] = "finalize" /\ phase[w] = "finalize" => v = w

IInv == TypeOK /\ ClaimInv /\ TotalsInv /\ CountInv /\ QueueShape /\ LastInv

----------------------------------------------------------------------------
(* Cardinalities and parity *)

\* A set of workers is finite.
LEMMA SubsetsFinite ==
    ASSUME NEW S \in SUBSET Workers
    PROVE  IsFiniteSet(S) /\ Cardinality(S) \in Nat /\ (Cardinality(S) = 0 => S = {})
BY FS_Subset, FS_CardinalityType, FS_EmptySet, WorkersAssumption

\* A worker leaves a set: one less.
LEMMA Leaves ==
    ASSUME NEW S \in SUBSET Workers, NEW w \in S
    PROVE  Cardinality(S \ {w}) = Cardinality(S) - 1
BY SubsetsFinite, FS_RemoveElement

\* A worker enters a set: one more.
LEMMA Enters ==
    ASSUME NEW S \in SUBSET Workers, NEW w \in Workers, w \notin S
    PROVE  Cardinality(S \cup {w}) = Cardinality(S) + 1
BY SubsetsFinite, FS_AddElement

\* One more operation changes the parity.
LEMMA ParityStep ==
    ASSUME NEW n \in Nat
    PROVE  /\ n % 2 \in {0, 1} /\ (n + 1) % 2 = 1 - (n % 2)
           /\ (2 * n - 1) % 2 = 1
OBVIOUS

\* The sets and numbers CountInv relates.
LEMMA Sets ==
    ASSUME TypeOK
    PROVE  /\ Active \in SUBSET Workers /\ constructThreads \in SUBSET Workers
           /\ Cardinality(Active) \in Nat /\ Cardinality(constructThreads) \in Nat
           /\ Cardinality(Active) = 0 => Active = {}
           /\ Len(dagQueue) \in Nat /\ completedMergeCount \in Nat
           /\ Operations = 2 * Cardinality(constructThreads) - 1
           /\ Operations \in Int
<1>1. Active \in SUBSET Workers /\ constructThreads \in SUBSET Workers
  BY DEF Active, TypeOK
<1> QED
  BY <1>1, SubsetsFinite DEF TypeOK, Operations

\* The last operation leaves one graph, and nobody holds one.
LEMMA LastFacts ==
    ASSUME IInv, completedMergeCount = Operations
    PROVE  Active = {} /\ Len(dagQueue) = 1
<1> DEFINE k == Cardinality(constructThreads)
           a == Cardinality(Active)
           l == Len(dagQueue)
<1>1. k \in Nat /\ a \in Nat /\ l \in Nat /\ completedMergeCount = 2 * k - 1
  BY Sets DEF IInv
<1>2. l = 1
  BY <1>1, ParityStep DEF IInv, QueueShape
<1>3. completedMergeCount + 2 * a + l = 2 * k
  BY DEF IInv, CountInv
<1>4. a = 0
  <2> HIDE DEF k, a, l
  <2> QED
    BY <1>1, <1>2, <1>3
<1> QED
  BY <1>2, <1>4, Sets DEF IInv

\* While a worker holds a graph, the last operation is still to come.
LEMMA NotLastYet ==
    ASSUME IInv, Active # {}
    PROVE  ~done /\ \A v \in Workers : phase[v] # "finalize"
BY LastFacts DEF IInv, LastInv
----------------------------------------------------------------------------
(* Every step keeps the invariant *)

\* A claim, of a worker's first tables or of further ones.
LEMMA ClaimStep ==
    ASSUME IInv, NEW w \in Workers, Claim(w)
    PROVE  IInv'
<1> USE DEF IInv
<1>1. /\ Goto(w, "build") /\ phase[w] = "claim" /\ stateTableIndex < NumTables
      /\ idx' = [idx EXCEPT ![w] = stateTableIndex]
      /\ stateTableIndex' = stateTableIndex + 2 /\ stateTableIndex \in Nat
      /\ constructThreads' = constructThreads \cup {w}
      /\ UNCHANGED <<dags, pairDag, dagQueue, completedMergeCount, finalDag, done>>
  BY DEF Claim, TypeOK
<1>2. TypeOK'
  BY <1>1 DEF TypeOK, Goto, Phases
<1>3. ClaimInv'
  <2>1. \A v \in Workers : phase[v] # "merge"
    BY <1>1, NumTablesAssumption DEF ClaimInv
  <2>2. \A v \in Workers : phase'[v] = "build" =>
            v \in constructThreads' /\ idx'[v] < NumTables /\ idx'[v] + 2 <= stateTableIndex'
    <3> TAKE v \in Workers
    <3>1. CASE v = w
      BY <1>1, <3>1 DEF TypeOK
    <3>2. CASE v # w
      <4>1. phase'[v] = phase[v] /\ idx'[v] = idx[v] /\ idx[v] \in Nat
        BY <1>1, <3>2 DEF TypeOK, Goto
      <4>2. phase[v] = "build" =>
                v \in constructThreads /\ idx[v] < NumTables /\ idx[v] + 2 <= stateTableIndex
        BY DEF ClaimInv
      <4>3. idx[v] + 2 <= stateTableIndex => idx[v] + 2 <= stateTableIndex + 2
        BY <4>1, <1>1
      <4> QED
        BY <4>1, <4>2, <4>3, <1>1
    <3> QED
      BY <3>1, <3>2
  <2>3. \A v \in Workers : phase'[v] = "claim" /\ v \in constructThreads' => dags'[v] # NoDag
    BY <1>1 DEF ClaimInv, TypeOK, Goto
  <2>4. \A v \in Workers : phase'[v] # "merge"
    BY <1>1, <2>1 DEF TypeOK, Goto
  <2> QED
    BY <1>1, <2>2, <2>3, <2>4 DEF ClaimInv
<1>4. TotalsInv'
  <2>1. \A d \in Dags : Exact(d) => d.totalMerges = -1
    BY <1>1, NumTablesAssumption DEF Exact
  <2>2. /\ \A v \in Workers : dags[v].totalMerges = -1 /\ pairDag[v].totalMerges = -1
        /\ \A i \in DOMAIN dagQueue : dagQueue[i].totalMerges = -1
    BY <2>1 DEF TotalsInv, TypeOK
  <2> QED
    BY <1>1, <2>2 DEF TotalsInv, Exact
<1>5. CountInv'
  <2>1. CASE w \in constructThreads
    <3>1. Active' = Active /\ constructThreads' = constructThreads
      BY <1>1, <2>1 DEF Active, Goto, TypeOK
    <3> QED
      BY <3>1, <1>1 DEF CountInv
  <2>2. CASE w \notin constructThreads
    <3>1. w \notin Active /\ Active' = Active \cup {w}
      BY <1>1, <2>2 DEF Active, Goto, TypeOK
    <3>2. Cardinality(Active') = Cardinality(Active) + 1
          /\ Cardinality(constructThreads') = Cardinality(constructThreads) + 1
      BY <1>1, <2>2, <3>1, Sets, Enters
    <3>3. completedMergeCount + 2 * Cardinality(Active) + Len(dagQueue)
              = 2 * Cardinality(constructThreads)
      BY DEF CountInv
    <3>4. completedMergeCount + 2 * (Cardinality(Active) + 1) + Len(dagQueue)
              = 2 * (Cardinality(constructThreads) + 1)
      <4> DEFINE a == Cardinality(Active)
                 k == Cardinality(constructThreads)
                 l == Len(dagQueue)
      <4>1. a \in Nat /\ k \in Nat /\ l \in Nat /\ completedMergeCount \in Nat
            /\ completedMergeCount + 2 * a + l = 2 * k
        BY <3>3, Sets
      <4> HIDE DEF a, k, l
      <4>2. completedMergeCount + 2 * (a + 1) + l = 2 * (k + 1)
        BY <4>1
      <4> QED
        BY <4>2 DEF a, k, l
    <3> QED
      BY <3>2, <3>4, <1>1 DEF CountInv
  <2> QED
    BY <2>1, <2>2
<1>6. QueueShape'
  BY <1>1 DEF QueueShape
<1>7. LastInv'
  <2>1. ~done /\ \A v \in Workers : phase[v] # "finalize"
    BY <1>1, NumTablesAssumption DEF LastInv
  <2> QED
    BY <2>1, <1>1 DEF LastInv, Goto, TypeOK
<1> QED
  BY <1>2, <1>3, <1>4, <1>5, <1>6, <1>7

\* A graph is built, or the tables join the graph the worker has.
LEMMA BuildStep ==
    ASSUME IInv, NEW w \in Workers, Build(w)
    PROVE  IInv'
<1> USE DEF IInv
<1> DEFINE d == [tables      |-> dags[w].tables \cup ClaimedTables(w),
                 totalMerges |-> IF LastClaim(w) THEN Operations ELSE dags[w].totalMerges]
<1>1. /\ Goto(w, "claim") /\ phase[w] = "build" /\ dags' = [dags EXCEPT ![w] = d]
      /\ UNCHANGED <<stateTableIndex, constructThreads, idx, pairDag, dagQueue,
                     completedMergeCount, finalDag, done>>
  BY DEF Build
<1>2. /\ w \in constructThreads /\ idx[w] < NumTables /\ idx[w] \in Nat
      /\ idx[w] + 2 <= stateTableIndex /\ stateTableIndex \in Nat
  BY <1>1 DEF ClaimInv, TypeOK
<1>3. d \in Dags /\ d # NoDag
  <2>1. dags[w] \in Dags /\ Operations \in Int
    BY Sets DEF TypeOK
  <2>2. ClaimedTables(w) \in SUBSET Tables
    BY DEF ClaimedTables
  <2>3. idx[w] \in ClaimedTables(w)
    BY <1>2, NumTablesAssumption DEF ClaimedTables, Tables
  <2> HIDE DEF d
  <2>4. d.tables = dags[w].tables \cup ClaimedTables(w)
        /\ d = [tables |-> d.tables, totalMerges |-> d.totalMerges]
        /\ d.totalMerges \in Int
    BY <2>1 DEF d, Dags
  <2>5. d.tables # {} /\ d.tables \in SUBSET Tables
    BY <2>1, <2>2, <2>3, <2>4 DEF Dags
  <2> QED
    BY <2>4, <2>5 DEF Dags, NoDag
<1>4. Exact(d)
  <2>1. CASE LastClaim(w)
    <3>1. stateTableIndex >= NumTables
      BY <2>1, <1>2, NumTablesAssumption DEF LastClaim
    <3> QED
      BY <3>1, <2>1 DEF Exact
  <2>2. CASE ~LastClaim(w)
    <3>1. Exact(dags[w])
      BY DEF TotalsInv
    <3> QED
      BY <3>1, <2>2 DEF Exact
  <2> QED
    BY <2>1, <2>2
<1> HIDE DEF d
<1>5. dags'[w] = d /\ \A v \in Workers : v # w => dags'[v] = dags[v]
  BY <1>1 DEF TypeOK
<1>6. Operations' = Operations /\ (\A e : Exact(e)' <=> Exact(e))
  BY <1>1 DEF Operations, Exact
<1>7. TypeOK'
  BY <1>1, <1>3 DEF TypeOK, Goto, Phases
<1>8. ClaimInv'
  BY <1>1, <1>2, <1>3, <1>5 DEF ClaimInv, TypeOK, Goto
<1>9. TotalsInv'
  BY <1>1, <1>4, <1>5 DEF TotalsInv, Exact, Operations
<1>10. Active' = Active
  BY <1>1, <1>2 DEF Active, Goto, TypeOK
<1>11. CountInv' /\ QueueShape'
  BY <1>1, <1>10 DEF CountInv, QueueShape
<1>12. LastInv'
  BY <1>1, <1>6 DEF LastInv, Goto, TypeOK
<1> QED
  BY <1>7, <1>8, <1>9, <1>11, <1>12

\* Inside queueMu, whatever brings the worker there.
LEMMA QueueStep ==
    ASSUME IInv, NEW w \in Workers, NEW dag \in Dags, Exact(dag), dag # NoDag,
           w \in Active, w \in constructThreads, stateTableIndex >= NumTables,
           Queue(w, dag)
    PROVE  IInv'
<1> USE DEF IInv
<1> DEFINE last == completedMergeCount' = dag.totalMerges
           p == IF last THEN "finalize" ELSE "wait"
<1>1. /\ Goto(w, p) /\ dags' = [dags EXCEPT ![w] = dag]
      /\ completedMergeCount' = completedMergeCount + 1
      /\ completedMergeCount' % 2 = 1 \/ last
      /\ dagQueue' = Append(dagQueue, dag)
      /\ UNCHANGED <<stateTableIndex, constructThreads, idx, pairDag, finalDag, done>>
  BY DEF Queue
<1>2. completedMergeCount \in Nat /\ dagQueue \in Seq(Dags) /\ Len(dagQueue) \in Nat
      /\ Len(dagQueue') = Len(dagQueue) + 1 /\ dagQueue' \in Seq(Dags)
  BY <1>1 DEF TypeOK
<1>3. last => completedMergeCount' = Operations
  BY <1>1, <1>2 DEF Exact
<1>4. completedMergeCount' % 2 = 1
  BY <1>1, <1>3, Sets, ParityStep
<1>5. Active' = Active \ {w}
  BY <1>1 DEF Active, Goto, TypeOK
<1>6. ~done /\ \A v \in Workers : phase[v] # "finalize"
  BY NotLastYet
<1>7. dags'[w] = dag /\ \A v \in Workers : v # w => dags'[v] = dags[v]
  BY <1>1 DEF TypeOK
<1>8. TypeOK'
  BY <1>1, <1>2 DEF TypeOK, Goto, Phases
<1>9. ClaimInv'
  BY <1>1, <1>7 DEF ClaimInv, TypeOK, Goto
<1>10. TotalsInv'
  <2>1. \A i \in DOMAIN dagQueue' : dagQueue'[i] = dag \/
            (i \in DOMAIN dagQueue /\ dagQueue'[i] = dagQueue[i])
    BY <1>1, <1>2
  <2> QED
    BY <2>1, <1>1, <1>7 DEF TotalsInv, Exact, Operations
<1>11. CountInv'
  <2>1. Cardinality(Active') = Cardinality(Active) - 1
    BY <1>5, Sets, Leaves
  <2>2. completedMergeCount + 2 * Cardinality(Active) + Len(dagQueue)
            = 2 * Cardinality(constructThreads)
    BY DEF CountInv
  <2>3. (completedMergeCount + 1) + 2 * (Cardinality(Active) - 1) + (Len(dagQueue) + 1)
            = 2 * Cardinality(constructThreads)
    <3> DEFINE a == Cardinality(Active)
               k == Cardinality(constructThreads)
               l == Len(dagQueue)
    <3>1. a \in Nat /\ k \in Nat /\ l \in Nat /\ completedMergeCount \in Nat
          /\ completedMergeCount + 2 * a + l = 2 * k
      BY <2>2, Sets
    <3> HIDE DEF a, k, l
    <3>2. (completedMergeCount + 1) + 2 * (a - 1) + (l + 1) = 2 * k
      BY <3>1
    <3> QED
      BY <3>2 DEF a, k, l
  <2> QED
    BY <2>1, <2>3, <1>1, <1>2 DEF CountInv
<1>12. QueueShape'
  <2>1. completedMergeCount % 2 = 0
    BY <1>1, <1>2, <1>4, ParityStep
  <2> QED
    BY <2>1, <1>2, <1>4 DEF QueueShape
<1>13. LastInv'
  <2>1. \A v \in Workers : phase'[v] = "finalize" => v = w /\ last
    BY <1>1, <1>6 DEF Goto, TypeOK
  <2>2. Operations' = Operations
    BY <1>1 DEF Operations
  <2> QED
    BY <2>1, <2>2, <1>1, <1>3, <1>6 DEF LastInv
<1> QED
  BY <1>8, <1>9, <1>10, <1>11, <1>12, <1>13

\* A graph is taken from the queue: two are held, one is queued less.
LEMMA TakeStep ==
    ASSUME IInv, NEW w \in Workers, NEW dag \in Dags, Exact(dag), dag # NoDag,
           w \in Active, w \in constructThreads, stateTableIndex >= NumTables,
           Take(w, dag)
    PROVE  IInv'
<1> USE DEF IInv
<1>1. /\ Goto(w, "merge") /\ dags' = [dags EXCEPT ![w] = dag]
      /\ completedMergeCount' = completedMergeCount + 1
      /\ completedMergeCount' % 2 # 1
      /\ dagQueue # <<>> /\ dagQueue' = Tail(dagQueue)
      /\ pairDag' = [pairDag EXCEPT ![w] = Head(dagQueue)]
      /\ UNCHANGED <<stateTableIndex, constructThreads, idx, finalDag, done>>
  BY DEF Take
<1>2. /\ completedMergeCount \in Nat /\ dagQueue \in Seq(Dags) /\ Len(dagQueue) \in Nat
      /\ Len(dagQueue') = Len(dagQueue) - 1 /\ dagQueue' \in Seq(Dags)
      /\ Head(dagQueue) \in Dags /\ 1 \in DOMAIN dagQueue /\ Head(dagQueue) = dagQueue[1]
  <2>1. dagQueue \in Seq(Dags) /\ dagQueue # <<>>
    BY <1>1 DEF TypeOK
  <2> QED
    BY <2>1, <1>1, HeadTailProperties DEF TypeOK
<1>3. completedMergeCount % 2 = 1 /\ completedMergeCount' % 2 = 0
  BY <1>1, <1>2, ParityStep
<1>4. dagQueue' = <<>>
  <2>1. Len(dagQueue') = 0
    BY <1>2, <1>3 DEF QueueShape
  <2> QED
    BY <2>1, <1>2, EmptySeq
<1>5. Active' = Active
  BY <1>1 DEF Active, Goto, TypeOK
<1>6. ~done /\ \A v \in Workers : phase[v] # "finalize"
  BY NotLastYet
<1>7. /\ dags'[w] = dag /\ \A v \in Workers : v # w => dags'[v] = dags[v]
      /\ pairDag'[w] = dagQueue[1] /\ \A v \in Workers : v # w => pairDag'[v] = pairDag[v]
  BY <1>1, <1>2 DEF TypeOK
<1>8. TypeOK'
  BY <1>1, <1>2 DEF TypeOK, Goto, Phases
<1>9. ClaimInv'
  BY <1>1, <1>7 DEF ClaimInv, TypeOK, Goto
<1>10. TotalsInv'
  BY <1>1, <1>2, <1>4, <1>7 DEF TotalsInv, Exact, Operations
<1>11. CountInv'
  <2>1. completedMergeCount + 2 * Cardinality(Active) + Len(dagQueue)
            = 2 * Cardinality(constructThreads)
    BY DEF CountInv
  <2>2. (completedMergeCount + 1) + 2 * Cardinality(Active) + (Len(dagQueue) - 1)
            = 2 * Cardinality(constructThreads)
    BY <2>1, <1>2, Sets
  <2> QED
    BY <2>2, <1>1, <1>2, <1>5 DEF CountInv
<1>12. QueueShape'
  BY <1>3, <1>4 DEF QueueShape
<1>13. LastInv'
  BY <1>1, <1>6 DEF LastInv, Goto, TypeOK
<1> QED
  BY <1>8, <1>9, <1>10, <1>11, <1>12, <1>13

\* What a merged graph carries.
LEMMA MergedFacts ==
    ASSUME NEW d \in Dags, NEW e \in Dags, Exact(d), Exact(e), d # NoDag
    PROVE  /\ MergedDag(d, e) \in Dags /\ Exact(MergedDag(d, e))
           /\ MergedDag(d, e) # NoDag
           /\ MergedDag(d, e).tables = d.tables \cup e.tables
<1>1. d.tables \in SUBSET Tables /\ e.tables \in SUBSET Tables
      /\ d.totalMerges \in Int /\ e.totalMerges \in Int
      /\ d = [tables |-> d.tables, totalMerges |-> d.totalMerges]
  BY DEF Dags
<1>2. MergedDag(d, e) \in Dags /\ Exact(MergedDag(d, e))
      /\ MergedDag(d, e).tables = d.tables \cup e.tables
      /\ MergedDag(d, e).totalMerges =
            IF e.totalMerges # -1 THEN e.totalMerges ELSE d.totalMerges
  BY <1>1 DEF MergedDag, Dags, Exact
<1>3. ASSUME MergedDag(d, e) = NoDag PROVE FALSE
  <2>1. d.tables = {} /\ d.totalMerges = -1
    BY <1>2, <1>3 DEF NoDag
  <2> QED
    BY <2>1, <1>1 DEF NoDag
<1> QED
  BY <1>2, <1>3

\* No tables are left: the worker queues its graph or takes another.
LEMMA LeafStep ==
    ASSUME IInv, NEW w \in Workers, Leaf(w)
    PROVE  IInv'
<1>1. /\ phase[w] = "claim" /\ stateTableIndex >= NumTables /\ dags[w] # NoDag
      /\ Queue(w, dags[w]) \/ Take(w, dags[w])
  BY DEF Leaf
<1>2. w \in constructThreads /\ w \in Active /\ dags[w] \in Dags /\ Exact(dags[w])
  BY <1>1 DEF IInv, ClaimInv, TotalsInv, TypeOK, Active
<1> QED
  BY <1>1, <1>2, QueueStep, TakeStep

\* A pair is merged: the worker queues the result or takes another.
LEMMA MergeStep ==
    ASSUME IInv, NEW w \in Workers, Merge(w)
    PROVE  IInv'
<1> DEFINE dag == MergedDag(dags[w], pairDag[w])
<1>1. phase[w] = "merge" /\ (Queue(w, dag) \/ Take(w, dag))
  BY DEF Merge
<1>2. /\ w \in constructThreads /\ w \in Active /\ stateTableIndex >= NumTables
      /\ dags[w] \in Dags /\ pairDag[w] \in Dags /\ dags[w] # NoDag
      /\ Exact(dags[w]) /\ Exact(pairDag[w])
  BY <1>1 DEF IInv, ClaimInv, TotalsInv, TypeOK, Active
<1>3. dag \in Dags /\ Exact(dag) /\ dag # NoDag
  BY <1>2, MergedFacts
<1> HIDE DEF dag
<1> QED
  BY <1>1, <1>2, <1>3, QueueStep, TakeStep

\* The other steps move one worker that holds no graph.
LEMMA IdleStep ==
    ASSUME IInv, NEW w \in Workers, NEW p \in {"wait", "validate"}, Goto(w, p),
           w \notin Active,
           UNCHANGED <<stateTableIndex, constructThreads, idx, dags, pairDag, dagQueue,
                       completedMergeCount>>
    PROVE  /\ Active' = Active
           /\ ClaimInv' /\ TotalsInv' /\ CountInv' /\ QueueShape'
           /\ phase' \in [Workers -> Phases]
<1> USE DEF IInv
<1>1. Active' = Active
  BY DEF Active, Goto, TypeOK
<1>2. ClaimInv'
  BY DEF ClaimInv, Goto, TypeOK
<1>3. TotalsInv'
  BY DEF TotalsInv, Exact, Operations
<1> QED
  BY <1>1, <1>2, <1>3 DEF CountInv, QueueShape, Goto, TypeOK, Phases

\* A worker that never claimed goes to the barrier.
LEMMA NothingToBuildStep ==
    ASSUME IInv, NEW w \in Workers, NothingToBuild(w)
    PROVE  IInv'
<1>1. /\ Goto(w, "wait") /\ phase[w] = "claim" /\ dags[w] = NoDag
      /\ UNCHANGED <<stateTableIndex, constructThreads, idx, dags, pairDag, dagQueue,
                     completedMergeCount, finalDag, done>>
  BY DEF NothingToBuild
<1>2. w \notin Active
  BY <1>1 DEF Active, IInv, ClaimInv
<1>3. ClaimInv' /\ TotalsInv' /\ CountInv' /\ QueueShape' /\ phase' \in [Workers -> Phases]
  BY <1>1, <1>2, IdleStep
<1>4. TypeOK'
  BY <1>1, <1>3 DEF IInv, TypeOK
<1>5. LastInv'
  BY <1>1 DEF IInv, LastInv, Goto, TypeOK, Operations
<1> QED
  BY <1>3, <1>4, <1>5 DEF IInv

\* The result is published.
LEMMA FinalizeStep ==
    ASSUME IInv, NEW w \in Workers, Finalize(w)
    PROVE  IInv'
<1>1. /\ Goto(w, "wait") /\ phase[w] = "finalize" /\ done' = TRUE
      /\ finalDag' = Head(dagQueue).tables
      /\ UNCHANGED <<stateTableIndex, constructThreads, idx, dags, pairDag, dagQueue,
                     completedMergeCount>>
  BY DEF Finalize
<1>2. w \notin Active
  BY <1>1 DEF Active
<1>3. ClaimInv' /\ TotalsInv' /\ CountInv' /\ QueueShape' /\ phase' \in [Workers -> Phases]
  BY <1>1, <1>2, IdleStep
<1>4. stateTableIndex >= NumTables /\ completedMergeCount = Operations
  BY <1>1 DEF IInv, LastInv
<1>5. TypeOK'
  <2>1. Len(dagQueue) = 1 /\ dagQueue \in Seq(Dags)
    BY <1>4, LastFacts DEF IInv, TypeOK
  <2>2. dagQueue # <<>>
    BY <2>1, EmptySeq
  <2>3. Head(dagQueue) \in Dags
    BY <2>1, <2>2, HeadTailProperties
  <2> QED
    BY <1>1, <1>3, <2>3 DEF IInv, TypeOK, Dags
<1>6. LastInv'
  <2>1. \A v \in Workers : phase'[v] # "finalize"
    BY <1>1 DEF IInv, LastInv, Goto, TypeOK
  <2> QED
    BY <2>1, <1>1, <1>4 DEF LastInv, Operations
<1> QED
  BY <1>3, <1>5, <1>6 DEF IInv

\* The barrier lets a worker go.
LEMMA StartValidationStep ==
    ASSUME IInv, NEW w \in Workers, StartValidation(w)
    PROVE  IInv'
<1>1. /\ Goto(w, "validate") /\ phase[w] = "wait"
      /\ UNCHANGED <<stateTableIndex, constructThreads, idx, dags, pairDag, dagQueue,
                     completedMergeCount, finalDag, done>>
  BY DEF StartValidation
<1>2. w \notin Active
  BY <1>1 DEF Active
<1>3. ClaimInv' /\ TotalsInv' /\ CountInv' /\ QueueShape' /\ phase' \in [Workers -> Phases]
  BY <1>1, <1>2, IdleStep
<1>4. TypeOK'
  BY <1>1, <1>3 DEF IInv, TypeOK
<1>5. LastInv'
  BY <1>1 DEF IInv, LastInv, Goto, TypeOK, Operations
<1> QED
  BY <1>3, <1>4, <1>5 DEF IInv

\* The invariant holds when the stage starts.
LEMMA InitIInv == Init => IInv
<1> SUFFICES ASSUME Init PROVE IInv
  OBVIOUS
<1> USE DEF Init
<1>1. TypeOK
  <2>1. NoDag \in Dags /\ <<>> \in Seq(Dags)
    BY DEF NoDag, Dags
  <2>2. phase \in [Workers -> Phases]
    BY DEF Phases
  <2> QED
    BY <2>1, <2>2 DEF TypeOK
<1>2. ClaimInv
  BY DEF ClaimInv
<1>3. TotalsInv
  BY DEF TotalsInv, Exact, NoDag
<1>4. Active = {} /\ Cardinality({}) = 0
  BY FS_EmptySet DEF Active
<1>5. CountInv /\ QueueShape
  BY <1>4 DEF CountInv, QueueShape
<1>6. LastInv
  BY DEF LastInv
<1> QED
  BY <1>1, <1>2, <1>3, <1>5, <1>6 DEF IInv

\* Every step keeps it.
LEMMA NextIInv == IInv /\ [Next]_vars => IInv'
<1> SUFFICES ASSUME IInv, [Next]_vars PROVE IInv'
  OBVIOUS
<1>1. CASE UNCHANGED vars
  BY <1>1 DEF vars, IInv, TypeOK, ClaimInv, TotalsInv, Exact, CountInv, QueueShape, LastInv,
              Active, Operations
<1>2. CASE \E w \in Workers : Step(w)
  <2>1. PICK w \in Workers : Step(w)
    BY <1>2
  <2> QED
    BY <2>1, ClaimStep, BuildStep, NothingToBuildStep, LeafStep, MergeStep, FinalizeStep,
       StartValidationStep DEF Step
<1> QED
  BY <1>1, <1>2 DEF Next, Terminated

\* The conjunction the other theorems rest on holds in every reachable state.
THEOREM Invariance == Spec => []IInv
BY InitIInv, NextIInv, PTL DEF Spec

\* The variables keep their types: in particular the head of the queue is only
\* read when there is one.
THEOREM TypeCorrect == Spec => []TypeOK
<1>1. IInv => TypeOK
  BY DEF IInv
<1> QED
  BY <1>1, Invariance, PTL

\* The parity rule of mergeTwoDags keeps at most one graph in the queue.
THEOREM QueueShapeCorrect == Spec => []QueueShape
<1>1. IInv => QueueShape
  BY DEF IInv
<1> QED
  BY <1>1, Invariance, PTL

\* The number of operations is computed once the last claim was made, while other
\* workers may still be building, and is the final one.
THEOREM TotalMergesExactCorrect == Spec => []TotalMergesExact
<1>1. IInv => TotalMergesExact
  BY DEF IInv, TotalsInv, Exact, TotalMergesExact
<1> QED
  BY <1>1, Invariance, PTL

----------------------------------------------------------------------------
(* Where the tables are *)

TableInv == NoTableLost /\ NoTableTwice

\* What Claimed is, before and after the last claim.
LEMMA ClaimedFacts ==
    ASSUME TypeOK
    PROVE  /\ Claimed \in SUBSET Tables
           /\ stateTableIndex >= NumTables => Claimed = Tables
           /\ stateTableIndex < NumTables => Claimed = 0 .. stateTableIndex - 1
BY NumTablesAssumption DEF Claimed, Tables, TypeOK

\* The queue holds the tables of its one graph.
LEMMA QueueContents ==
    ASSUME IInv
    PROVE  /\ dagQueue \in Seq(Dags) /\ Len(dagQueue) \in {0, 1}
           /\ Len(dagQueue) = 0 => Queued = {}
           /\ Len(dagQueue) = 1 => Queued = Head(dagQueue).tables
<1>1. dagQueue \in Seq(Dags) /\ completedMergeCount \in Nat /\ Len(dagQueue) \in Nat
  BY DEF IInv, TypeOK
<1>2. Len(dagQueue) \in {0, 1}
  BY <1>1, ParityStep DEF IInv, QueueShape
<1>3. Len(dagQueue) = 0 => Queued = {}
  BY <1>1 DEF Queued
<1>4. ASSUME Len(dagQueue) = 1 PROVE Queued = Head(dagQueue).tables
  <2>1. DOMAIN dagQueue = {1} /\ Head(dagQueue) = dagQueue[1]
    BY <1>1, <1>4
  <2> QED
    BY <2>1 DEF Queued
<1> QED
  BY <1>1, <1>2, <1>3, <1>4

\* Held, worker by worker.
LEMMA HeldFacts ==
    ASSUME IInv, NEW w \in Workers
    PROVE  /\ phase[w] = "build" => Held[w] = dags[w].tables \cup ClaimedTables(w)
           /\ phase[w] = "claim" /\ w \in constructThreads => Held[w] = dags[w].tables
           /\ phase[w] = "merge" => Held[w] = dags[w].tables \cup pairDag[w].tables
           /\ w \notin Active => Held[w] = {}
BY DEF Held, Building, Merging, Active, IInv, ClaimInv

\* A worker that has no graph yet has no tables.
LEMMA NoTablesYet ==
    ASSUME IInv, NEW w \in Workers, w \notin constructThreads
    PROVE  dags[w].tables = {} /\ Held[w] = {}
BY HeldFacts DEF IInv, ClaimInv, NoDag, Active

\* A worker that does not move holds what it held.
LEMMA OthersHold ==
    ASSUME TypeOK, NEW w \in Workers, NEW p \in Phases, Goto(w, p),
           \A v \in Workers \ {w} :
               /\ v \in constructThreads' <=> v \in constructThreads
               /\ dags'[v] = dags[v] /\ pairDag'[v] = pairDag[v] /\ idx'[v] = idx[v]
    PROVE  \A v \in Workers \ {w} : Held'[v] = Held[v]
<1>1. \A v \in Workers \ {w} : phase'[v] = phase[v]
  BY DEF Goto, TypeOK
<1> QED
  BY <1>1 DEF Held, Building, Merging, ClaimedTables

\* What one worker holds and what is queued change, by what was claimed at most.
LEMMA TablesMove ==
    ASSUME TableInv, NEW w \in Workers, NEW gained,
           \A v \in Workers \ {w} : Held'[v] = Held[v],
           Claimed' = Claimed \cup gained, Claimed \cap gained = {},
           Held'[w] \cup Queued' = Held[w] \cup Queued \cup gained,
           Held'[w] \cap Queued' = {}
    PROVE  TableInv'
<1>1. /\ Claimed = Queued \cup (UNION {Held[v] : v \in Workers})
      /\ \A u, v \in Workers : v # u => Held[v] \cap Held[u] = {}
      /\ \A v \in Workers : Held[v] \cap Queued = {}
  BY DEF TableInv, NoTableLost, NoTableTwice
<1> DEFINE others == UNION {Held[v] : v \in Workers \ {w}}
<1>2. /\ UNION {Held'[v] : v \in Workers} = Held'[w] \cup others
      /\ UNION {Held[v] : v \in Workers} = Held[w] \cup others
  OBVIOUS
<1>3. NoTableLost'
  <2>1. Claimed' = Queued' \cup (UNION {Held'[v] : v \in Workers})
    <3> HIDE DEF others
    <3> QED
      BY <1>1, <1>2
  <2> QED
    BY <2>1 DEF NoTableLost
<1>4. \A v \in Workers \ {w} : Held[v] \cap (Held'[w] \cup Queued') = {}
  <2> TAKE v \in Workers \ {w}
  <2>1. Held[v] \subseteq Claimed /\ Held[v] \cap Held[w] = {} /\ Held[v] \cap Queued = {}
    BY <1>1
  <2> QED
    BY <2>1
<1>5. NoTableTwice'
  <2>1. \A u, v \in Workers : v # u => Held'[v] \cap Held'[u] = {}
    <3> TAKE u, v \in Workers
    <3>1. CASE u # w /\ v # w
      BY <3>1, <1>1
    <3>2. CASE u = w /\ v # w
      BY <3>2, <1>4
    <3>3. CASE u # w /\ v = w
      BY <3>3, <1>4
    <3> QED
      BY <3>1, <3>2, <3>3
  <2>2. \A v \in Workers : Held'[v] \cap Queued' = {}
    BY <1>4
  <2> QED
    BY <2>1, <2>2 DEF NoTableTwice
<1> QED
  BY <1>3, <1>5 DEF TableInv

\* What is claimed is new, and the claiming worker holds it.
LEMMA ClaimTables ==
    ASSUME IInv, NEW w \in Workers, Claim(w)
    PROVE  /\ Claimed' = Claimed \cup ClaimedTables(w)'
           /\ Claimed \cap ClaimedTables(w)' = {}
           /\ ClaimedTables(w)' \in SUBSET Tables /\ ClaimedTables(w)' # {}
           /\ TableInv => TableInv'
<1>1. /\ Goto(w, "build") /\ phase[w] = "claim" /\ stateTableIndex < NumTables
      /\ stateTableIndex \in Nat /\ idx'[w] = stateTableIndex
      /\ \A v \in Workers \ {w} : idx'[v] = idx[v]
      /\ stateTableIndex' = stateTableIndex + 2
      /\ constructThreads' = constructThreads \cup {w}
      /\ UNCHANGED <<dags, pairDag, dagQueue>>
  BY DEF Claim, IInv, TypeOK
<1> DEFINE gained == {stateTableIndex, stateTableIndex + 1} \cap Tables
<1>2. ClaimedTables(w)' = gained
  BY <1>1 DEF ClaimedTables, Tables
<1>3. /\ Claimed' = Claimed \cup gained /\ Claimed \cap gained = {}
      /\ stateTableIndex \in gained
  BY <1>1, NumTablesAssumption DEF Claimed, Tables
<1>4. ASSUME TableInv PROVE TableInv'
  <2>1. \A v \in Workers \ {w} : Held'[v] = Held[v]
    BY <1>1, OthersHold DEF Phases, IInv
  <2>2. Held[w] = dags[w].tables
    BY <1>1, HeldFacts, NoTablesYet
  <2>3. Held'[w] = dags[w].tables \cup gained
    <3>1. phase'[w] = "build" /\ w \in Building'
      BY <1>1 DEF IInv, TypeOK, Goto, Building
    <3> QED
      BY <3>1, <1>1 DEF Held, Building, Merging, ClaimedTables
  <2>4. Queued' = Queued /\ Queued \subseteq Claimed
    BY <1>1, <1>4 DEF Queued, TableInv, NoTableLost
  <2>5. Held[w] \cap Queued = {}
    BY <1>4 DEF TableInv, NoTableTwice
  <2>6. Held'[w] \cup Queued' = Held[w] \cup Queued \cup gained /\ Held'[w] \cap Queued' = {}
    <3> HIDE DEF gained
    <3> QED
      BY <2>2, <2>3, <2>4, <2>5, <1>3
  <2> QED
    BY <1>3, <1>4, <2>1, <2>6, TablesMove
<1> QED
  BY <1>2, <1>3, <1>4

\* Building moves no table out of the worker's hands.
LEMMA BuildTables ==
    ASSUME IInv, TableInv, NEW w \in Workers, Build(w)
    PROVE  TableInv'
<1>1. /\ Goto(w, "claim") /\ phase[w] = "build" /\ w \in constructThreads
      /\ dags'[w].tables = dags[w].tables \cup ClaimedTables(w)
      /\ \A v \in Workers \ {w} : dags'[v] = dags[v]
      /\ UNCHANGED <<stateTableIndex, constructThreads, idx, pairDag, dagQueue>>
  BY DEF Build, IInv, TypeOK, ClaimInv
<1>2. \A v \in Workers \ {w} : Held'[v] = Held[v]
  BY <1>1, OthersHold DEF Phases, IInv
<1>3. Held'[w] = Held[w]
  <2>1. phase'[w] = "claim" /\ w \in Building'
    BY <1>1 DEF IInv, TypeOK, Goto, Building
  <2>2. Held'[w] = dags'[w].tables
    BY <2>1 DEF Held, Building, Merging
  <2> QED
    BY <2>2, <1>1, HeldFacts
<1>4. Queued' = Queued /\ Claimed' = Claimed
  BY <1>1 DEF Queued, Claimed
<1>5. Held[w] \cap Queued = {}
  BY DEF TableInv, NoTableTwice
<1> QED
  BY <1>2, <1>3, <1>4, <1>5, TablesMove

\* Queueing moves a graph from its worker to the queue.
LEMMA QueueTables ==
    ASSUME IInv, TableInv, NEW w \in Workers, NEW dag \in Dags, Exact(dag),
           dag.tables = Held[w], Queue(w, dag)
    PROVE  TableInv'
<1>1. PICK p \in {"finalize", "wait"} : Goto(w, p)
  BY DEF Queue
<1>2. /\ completedMergeCount' = completedMergeCount + 1 /\ completedMergeCount \in Nat
      /\ completedMergeCount' % 2 = 1 \/ completedMergeCount' = dag.totalMerges
      /\ \A v \in Workers \ {w} : dags'[v] = dags[v]
      /\ dagQueue' = Append(dagQueue, dag)
      /\ UNCHANGED <<stateTableIndex, constructThreads, idx, pairDag>>
  BY DEF Queue, IInv, TypeOK
<1>3. completedMergeCount' % 2 = 1
  <2> DEFINE k == Cardinality(constructThreads)
  <2>1. k \in Nat /\ Operations = 2 * k - 1 /\ (2 * k - 1) % 2 = 1
    BY Sets, ParityStep DEF IInv
  <2>2. ASSUME completedMergeCount' = dag.totalMerges
        PROVE  completedMergeCount' = Operations
    BY <1>2, <2>2 DEF Exact
  <2> HIDE DEF k
  <2> QED
    BY <1>2, <2>1, <2>2
<1>4. Len(dagQueue) = 0 /\ dagQueue \in Seq(Dags) /\ Queued = {}
  <2>1. completedMergeCount % 2 = 0
    BY <1>2, <1>3, ParityStep
  <2> QED
    BY <2>1, QueueContents DEF IInv, QueueShape
<1>5. Queued' = Held[w]
  <2>1. DOMAIN dagQueue' = {1} /\ dagQueue'[1] = dag
    BY <1>2, <1>4
  <2> QED
    BY <2>1 DEF Queued
<1>6. Held'[w] = {}
  BY <1>1 DEF Held, Building, Merging, Goto, IInv, TypeOK
<1>7. \A v \in Workers \ {w} : Held'[v] = Held[v]
  BY <1>1, <1>2, OthersHold DEF Phases, IInv
<1>8. Claimed' = Claimed
  BY <1>2 DEF Claimed
<1> QED
  BY <1>4, <1>5, <1>6, <1>7, <1>8, TablesMove

\* Taking moves it from the queue to a worker.
LEMMA TakeTables ==
    ASSUME IInv, TableInv, NEW w \in Workers, NEW dag \in Dags,
           dag.tables = Held[w], Take(w, dag)
    PROVE  TableInv'
<1>1. /\ Goto(w, "merge") /\ dagQueue # <<>> /\ dagQueue' = Tail(dagQueue)
      /\ dags'[w] = dag /\ pairDag'[w] = Head(dagQueue)
      /\ \A v \in Workers \ {w} : dags'[v] = dags[v] /\ pairDag'[v] = pairDag[v]
      /\ UNCHANGED <<stateTableIndex, constructThreads, idx>>
  BY DEF Take, IInv, TypeOK
<1>2. Queued = Head(dagQueue).tables /\ Len(dagQueue) = 1 /\ dagQueue \in Seq(Dags)
  <2>1. Len(dagQueue) # 0
    BY <1>1, EmptySeq DEF IInv, TypeOK
  <2> QED
    BY <2>1, QueueContents
<1>3. Queued' = {}
  <2>1. DOMAIN dagQueue' = {}
    BY <1>1, <1>2
  <2> QED
    BY <2>1 DEF Queued
<1>4. Held'[w] = Held[w] \cup Queued
  <2>1. phase'[w] = "merge" /\ w \in Merging' /\ w \notin Building'
    BY <1>1 DEF IInv, TypeOK, Goto, Building, Merging
  <2>2. Held'[w] = dags'[w].tables \cup pairDag'[w].tables
    BY <2>1 DEF Held
  <2> QED
    BY <2>2, <1>1, <1>2
<1>5. \A v \in Workers \ {w} : Held'[v] = Held[v]
  BY <1>1, OthersHold DEF Phases, IInv
<1>6. Claimed' = Claimed
  BY <1>1 DEF Claimed
<1> QED
  BY <1>3, <1>4, <1>5, <1>6, TablesMove

\* Both outcomes of a worker without further tables.
LEMMA LeafTables ==
    ASSUME IInv, TableInv, NEW w \in Workers, Leaf(w)
    PROVE  TableInv'
<1>1. phase[w] = "claim" /\ dags[w] # NoDag /\ (Queue(w, dags[w]) \/ Take(w, dags[w]))
  BY DEF Leaf
<1>2. dags[w] \in Dags /\ Exact(dags[w]) /\ dags[w].tables = Held[w]
  BY <1>1, HeldFacts DEF IInv, TypeOK, TotalsInv, ClaimInv
<1> QED
  BY <1>1, <1>2, QueueTables, TakeTables

\* Both outcomes of a merge.
LEMMA MergeTables ==
    ASSUME IInv, TableInv, NEW w \in Workers, Merge(w)
    PROVE  TableInv'
<1> DEFINE dag == MergedDag(dags[w], pairDag[w])
<1>1. phase[w] = "merge" /\ (Queue(w, dag) \/ Take(w, dag))
  BY DEF Merge
<1>2. dag \in Dags /\ Exact(dag) /\ dag.tables = dags[w].tables \cup pairDag[w].tables
  BY <1>1, MergedFacts DEF IInv, TypeOK, TotalsInv, ClaimInv
<1>3. dag.tables = Held[w]
  BY <1>1, <1>2, HeldFacts
<1> HIDE DEF dag
<1> QED
  BY <1>1, <1>2, <1>3, QueueTables, TakeTables

\* The other steps move no table.
LEMMA IdleTables ==
    ASSUME IInv, TableInv, NEW w \in Workers,
           NothingToBuild(w) \/ Finalize(w) \/ StartValidation(w)
    PROVE  TableInv'
<1>1. PICK p \in {"wait", "validate"} : Goto(w, p)
  BY DEF NothingToBuild, Finalize, StartValidation
<1>2. UNCHANGED <<stateTableIndex, constructThreads, idx, dags, pairDag, dagQueue>>
  BY DEF NothingToBuild, Finalize, StartValidation
<1>3. w \notin Active
  BY DEF NothingToBuild, Finalize, StartValidation, Active, IInv, ClaimInv
<1>4. Held[w] = {} /\ Held'[w] = {}
  <2>1. Held'[w] = {}
    BY <1>1 DEF Held, Building, Merging, Goto, IInv, TypeOK
  <2> QED
    BY <2>1, <1>3, HeldFacts
<1>5. \A v \in Workers \ {w} : Held'[v] = Held[v]
  BY <1>1, <1>2, OthersHold DEF Phases, IInv
<1>6. Queued' = Queued /\ Claimed' = Claimed
  BY <1>2 DEF Queued, Claimed
<1> QED
  BY <1>4, <1>5, <1>6, TablesMove

\* Nothing is claimed when the stage starts.
LEMMA InitTableInv == Init => TableInv
<1> SUFFICES ASSUME Init PROVE TableInv
  OBVIOUS
<1>1. Claimed = {}
  BY NumTablesAssumption DEF Init, Claimed
<1>2. Queued = {}
  BY DEF Init, Queued
<1>3. \A v \in Workers : Held[v] = {}
  BY DEF Init, Held, Building, Merging
<1> QED
  BY <1>1, <1>2, <1>3 DEF TableInv, NoTableLost, NoTableTwice

\* Every step keeps the tables together.
LEMMA NextTableInv == IInv /\ TableInv /\ [Next]_vars => TableInv'
<1> SUFFICES ASSUME IInv, TableInv, [Next]_vars PROVE TableInv'
  OBVIOUS
<1>1. CASE UNCHANGED vars
  BY <1>1 DEF vars, TableInv, NoTableLost, NoTableTwice, Claimed, Queued, Held,
       Building, Merging, ClaimedTables
<1>2. ASSUME NEW w \in Workers, Step(w) PROVE TableInv'
  BY <1>2, ClaimTables, BuildTables, LeafTables, MergeTables, IdleTables DEF Step
<1> QED
  BY <1>1, <1>2 DEF Next, Terminated

\* What is claimed is always somewhere, and in one place.
THEOREM TableInvariance == Spec => []TableInv
BY InitTableInv, NextTableInv, Invariance, PTL DEF Spec

\* No state table is left out of the graphs, for any number of workers and tables.
THEOREM NoTableLostCorrect == Spec => []NoTableLost
BY TableInvariance, PTL DEF TableInv

\* No state table gets into two graphs, for any number of workers and tables.
THEOREM NoTableTwiceCorrect == Spec => []NoTableTwice
BY TableInvariance, PTL DEF TableInv

----------------------------------------------------------------------------
(* What the validation starts from *)

\* The worker that counts the last operation finds the graph of all tables.
LEMMA FinalizeResult ==
    ASSUME IInv, TableInv, NEW w \in Workers, Finalize(w)
    PROVE  finalDag' = Tables /\ Claimed = Tables /\ ~done /\ done' = TRUE
<1>1. phase[w] = "finalize" /\ finalDag' = Head(dagQueue).tables /\ done' = TRUE
  BY DEF Finalize
<1>2. stateTableIndex >= NumTables /\ completedMergeCount = Operations /\ ~done
  BY <1>1 DEF IInv, LastInv
<1>3. Claimed = Tables
  BY <1>2, ClaimedFacts DEF IInv
<1>4. Active = {} /\ Queued = Head(dagQueue).tables
  BY <1>2, LastFacts, QueueContents
<1>5. \A v \in Workers : Held[v] = {}
  BY <1>4, HeldFacts
<1>6. Claimed = Queued
  BY <1>5 DEF TableInv, NoTableLost
<1> QED
  BY <1>1, <1>2, <1>3, <1>4, <1>6

\* The graph the validation starts from is built from every state table.
THEOREM FinalDagCompleteCorrect == Spec => []FinalDagComplete
<1>1. Init => FinalDagComplete
  BY DEF Init, FinalDagComplete
<1>2. IInv /\ TableInv /\ FinalDagComplete /\ [Next]_vars => FinalDagComplete'
  <2> SUFFICES ASSUME IInv, TableInv, FinalDagComplete, [Next]_vars
               PROVE  FinalDagComplete'
    OBVIOUS
  <2>1. CASE UNCHANGED <<finalDag, done>>
    BY <2>1 DEF FinalDagComplete, Tables
  <2>2. ASSUME NEW w \in Workers, Finalize(w) PROVE FinalDagComplete'
    BY <2>2, FinalizeResult DEF FinalDagComplete, Tables
  <2>3. ASSUME NEW w \in Workers, Step(w), ~Finalize(w)
        PROVE  UNCHANGED <<finalDag, done>>
    BY <2>3 DEF Step, Claim, Build, NothingToBuild, Leaf, Merge, Queue, Take,
         StartValidation
  <2> QED
    BY <2>1, <2>2, <2>3 DEF Next, Terminated, vars
<1> QED
  BY <1>1, <1>2, Invariance, TableInvariance, PTL DEF Spec

\* A step of the construction is a step of GatherAll, or invisible to it.
THEOREM Refinement == Spec => ImplementsGatherAll
<1>1. Init => Gather!Init
  BY NumTablesAssumption DEF Init, Gather!Init, Claimed
<1>2. IInv /\ TableInv /\ [Next]_vars => [Gather!Next]_(Gather!vars)
  <2> SUFFICES ASSUME IInv, TableInv, [Next]_vars
               PROVE  [Gather!Next]_(Gather!vars)
    OBVIOUS
  <2>1. CASE UNCHANGED vars
    BY <2>1 DEF vars, Gather!vars, Claimed
  <2>2. ASSUME NEW w \in Workers, Claim(w)
        PROVE  \E new \in SUBSET Tables : Gather!Join(new)
    <3> DEFINE new == ClaimedTables(w)'
    <3>1. /\ Claimed' = Claimed \cup new /\ Claimed \cap new = {}
          /\ new \in SUBSET Tables /\ new # {}
      BY <2>2, ClaimTables
    <3>2. UNCHANGED <<finalDag, done>>
      BY <2>2 DEF Claim
    <3> HIDE DEF new
    <3> QED
      BY <3>1, <3>2 DEF Gather!Join
  <2>3. ASSUME NEW w \in Workers, Finalize(w) PROVE Gather!Publish
    <3>1. UNCHANGED stateTableIndex
      BY <2>3 DEF Finalize
    <3>2. Claimed' = Claimed
      BY <3>1 DEF Claimed
    <3> QED
      BY <2>3, <3>2, FinalizeResult DEF Gather!Publish
  <2>4. ASSUME NEW w \in Workers,
               Build(w) \/ NothingToBuild(w) \/ Leaf(w) \/ Merge(w) \/ StartValidation(w)
        PROVE  UNCHANGED Gather!vars
    <3>1. UNCHANGED <<stateTableIndex, finalDag, done>>
      BY <2>4 DEF Build, NothingToBuild, Leaf, Merge, Queue, Take, StartValidation
    <3> QED
      BY <3>1 DEF Gather!vars, Claimed
  <2> QED
    BY <2>1, <2>2, <2>3, <2>4 DEF Next, Terminated, Step, Gather!Next
<1> QED
  BY <1>1, <1>2, Invariance, TableInvariance, PTL DEF Spec, Gather!Spec, ImplementsGatherAll
=============================================================================
