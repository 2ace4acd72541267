------------------------- MODULE SpeculationProofs -------------------------
(***************************************************************************)
(* Theorems about Speculation, for any workers, any two queues that do not *)
(* share a transaction and any set of conflicting transactions.            *)
(*                                                                         *)
(* The formal counter gives every transaction to one worker, which holds   *)
(* it until it is listed.  What an early worker does to the transaction    *)
(* meanwhile cannot make the set disappear, and a mark without a set is    *)
(* always the mark of the one that holds the transaction and runs it.      *)
(***************************************************************************)
EXTENDS Speculation, FiniteSetTheorems, SequenceTheorems, TLAPS

\* A formal worker that has claimed a transaction and not yet listed it.
Holding(w) == at[w] \in {"decide", "start", "run", "append"}

\* A worker that has entered the batch.
Entered(w) == Holding(w) \/ at[w] \in {"claim", "joined"}

Claimed(t) ==
    \E q \in Queues : \E i \in 1 .. Len(Queue[q]) : Queue[q][i] = t /\ i <= TxIndex[q]

IsListed(t) == \E w \in Workers : \E i \in DOMAIN ThreadRWSets[w] : ThreadRWSets[w][i] = t

\* Every claimed transaction is held by one worker or listed in one place.
OwnerInv ==
    /\ \A w \in Workers : Holding(w) => /\ tx[w] \in Txs
                                        /\ Claimed(tx[w])
                                        /\ ~IsListed(tx[w])
    /\ \A v, w \in Workers : Holding(v) /\ Holding(w) /\ tx[v] = tx[w] => v = w
    /\ \A t \in Txs : IsListed(t) => Claimed(t)
    /\ \A v, w \in Workers : \A i \in DOMAIN ThreadRWSets[v], j \in DOMAIN ThreadRWSets[w] :
           ThreadRWSets[v][i] = ThreadRWSets[w][j] => v = w /\ i = j
    /\ \A t \in Txs : Claimed(t) =>
           IsListed(t) \/ \E w \in Workers : Holding(w) /\ tx[w] = t

\* A worker goes through both queues before it joins.
JoinInv ==
    /\ \A w \in Workers : w \in finishedThreads <=> at[w] = "joined"
    /\ \A w \in Workers : Entered(w) => finished
    /\ \A w \in Workers : Entered(w) /\ queue[w] = "short" => TxIndex["long"] >= Len(LongTxs)
    /\ \A w \in Workers : at[w] = "joined" =>
           queue[w] = "short" /\ TxIndex["short"] >= Len(ShortTxs)

\* Where there is a mark there is a set, or soon will be.
SetInv ==
    /\ \A w \in Workers : at[w] \in {"runEarly", "mark"} => tx[w] \in Txs
    /\ \A w \in Workers : at[w] \in {"mark", "append"} => rwSet[tx[w]] # "nil"
    /\ \A t \in Txs : IsListed(t) => rwSet[t] # "nil"
    /\ \A t \in Txs : IsRuned[t] /\ rwSet[t] = "nil" =>
           \E w \in Workers : at[w] = "run" /\ tx[w] = t

\* A conflicting transaction goes through a formal execution.
ConflictInv ==
    /\ \A w \in Workers : at[w] = "run" => began[w] = "late"
    /\ \A w \in Workers : at[w] = "append" /\ tx[w] \in Conflicting => "late" \in ran[tx[w]]
    /\ \A t \in Txs : t \in Conflicting /\ IsListed(t) => "late" \in ran[t]

\* Graphs are built behind the execution, and before that a set may be replaced by
\* an early one only.
GraphInv ==
    /\ \A w \in Workers : at[w] = "runEarly" => began[w] = "early"
    /\ \A t \in Txs : dagNodes[t] # {} => AllJoined

IInv == TypeOK /\ OwnerInv /\ JoinInv /\ SetInv /\ ConflictInv /\ GraphInv

----------------------------------------------------------------------------
(* The queues *)

LEMMA QueueFacts ==
    ASSUME QueuesAssumption
    PROVE  /\ Queues = {"long", "short"}
           /\ Queue["long"] = LongTxs /\ Queue["short"] = ShortTxs
           /\ \A q \in Queues : Queue[q] \in Seq(Txs) /\ Len(Queue[q]) \in Nat
           /\ \A q, r \in Queues : \A i \in 1 .. Len(Queue[q]), j \in 1 .. Len(Queue[r]) :
                  Queue[q][i] = Queue[r][j] => q = r /\ i = j
           /\ \A t \in Txs : \E q \in Queues : \E i \in 1 .. Len(Queue[q]) : Queue[q][i] = t
<1> DEFINE all == LongTxs \o ShortTxs
<1>1. /\ Queues = {"long", "short"}
      /\ Queue["long"] = LongTxs /\ Queue["short"] = ShortTxs
  BY DEF Queues, Queue
<1>2. LongTxs \in Seq(Txs) /\ ShortTxs \in Seq(Txs)
  BY DEF QueuesAssumption
<1>3. /\ Len(LongTxs) \in Nat /\ Len(ShortTxs) \in Nat
      /\ all \in Seq(Txs)
      /\ Len(all) = Len(LongTxs) + Len(ShortTxs)
      /\ DOMAIN all = 1 .. Len(LongTxs) + Len(ShortTxs)
      /\ \A i \in 1 .. Len(LongTxs) : all[i] = LongTxs[i]
      /\ \A i \in 1 .. Len(ShortTxs) : all[Len(LongTxs) + i] = ShortTxs[i]
  <2> HIDE DEF Txs
  <2> QED
    BY <1>2
<1>4. \A i, j \in DOMAIN all : all[i] = all[j] => i = j
  BY DEF QueuesAssumption
<1>5. ASSUME NEW q \in Queues, NEW r \in Queues,
             NEW i \in 1 .. Len(Queue[q]), NEW j \in 1 .. Len(Queue[r]),
             Queue[q][i] = Queue[r][j]
      PROVE  q = r /\ i = j
  <2> DEFINE place(x, k) == IF x = "long" THEN k ELSE Len(LongTxs) + k
  <2>1. place(q, i) \in DOMAIN all /\ all[place(q, i)] = Queue[q][i]
    BY <1>1, <1>3, <1>5
  <2>2. place(r, j) \in DOMAIN all /\ all[place(r, j)] = Queue[r][j]
    BY <1>1, <1>3, <1>5
  <2>3. place(q, i) = place(r, j)
    BY <1>4, <1>5, <2>1, <2>2
  <2> QED
    BY <1>1, <1>3, <1>5, <2>3
<1>6. ASSUME NEW t \in Txs
      PROVE  \E q \in Queues : \E i \in 1 .. Len(Queue[q]) : Queue[q][i] = t
  <2>1. PICK k \in DOMAIN all : all[k] = t
    BY <1>6 DEF Txs
  <2>2. CASE k <= Len(LongTxs)
    BY <1>1, <1>3, <2>1, <2>2
  <2>3. CASE k > Len(LongTxs)
    <3>1. k - Len(LongTxs) \in 1 .. Len(ShortTxs) /\ ShortTxs[k - Len(LongTxs)] = t
      BY <1>3, <2>1, <2>3
    <3> QED
      BY <1>1, <3>1
  <2> QED
    BY <1>3, <2>1, <2>2, <2>3
<1> QED
  BY <1>1, <1>2, <1>3, <1>5, <1>6

----------------------------------------------------------------------------
(* Types *)

\* The outcomes of ClaimEarly.
TakesEarly(w) ==
    /\ tx' = [tx EXCEPT ![w] = tx'[w]] /\ tx'[w] \in Txs
    /\ began' = [began EXCEPT ![w] = "early"]
    /\ at' = [at EXCEPT ![w] = "runEarly"]
    /\ queue' = queue

NothingEarly(w) ==
    /\ queue' = [queue EXCEPT ![w] = "short"]
    /\ at' = at \/ at' = [at EXCEPT ![w] = "stages"]
    /\ UNCHANGED <<tx, began>>

LEMMA ClaimEarlyCases ==
    ASSUME QueuesAssumption, TypeOK, NEW w \in Workers, ClaimEarly(w)
    PROVE  /\ NextTxIndex' \in [Queues -> Nat]
           /\ TakesEarly(w) \/ NothingEarly(w)
<1>1. queue[w] \in Queues /\ NextTxIndex[queue[w]] \in Nat
  BY DEF TypeOK
<1>2. /\ Queue[queue[w]] \in Seq(Txs) /\ Len(Queue[queue[w]]) \in Nat
      /\ Queues = {"long", "short"}
  BY <1>1, QueueFacts
<1> DEFINE idx == NextTxIndex[queue[w]]
<1>3. NextTxIndex' \in [Queues -> Nat]
  <2> HIDE DEF Queues
  <2> QED
    BY <1>1 DEF ClaimEarly, TypeOK
<1>4. CASE idx < Len(Queue[queue[w]])
  <2>1. Queue[queue[w]][idx + 1] \in Txs
    <3> HIDE DEF Txs, Queue
    <3>1. idx + 1 \in 1 .. Len(Queue[queue[w]])
      BY <1>1, <1>2, <1>4
    <3> QED
      BY <1>2, <3>1
  <2>2. /\ tx' = [tx EXCEPT ![w] = Queue[queue[w]][idx + 1]]
        /\ began' = [began EXCEPT ![w] = "early"]
        /\ at' = [at EXCEPT ![w] = "runEarly"]
        /\ queue' = queue
    BY <1>4 DEF ClaimEarly, Goto, Now
  <2>3. tx'[w] = Queue[queue[w]][idx + 1]
    BY <2>2 DEF TypeOK
  <2> QED
    BY <1>3, <2>1, <2>2, <2>3 DEF TakesEarly
<1>5. CASE ~(idx < Len(Queue[queue[w]]))
  <2>1. CASE queue[w] = "long"
    BY <1>3, <1>5, <2>1 DEF ClaimEarly, NothingEarly
  <2>2. CASE queue[w] # "long"
    <3>1. queue[w] = "short" /\ queue' = queue
      BY <1>1, <1>2, <1>5, <2>2 DEF ClaimEarly
    <3>2. queue' = [queue EXCEPT ![w] = "short"]
      BY <3>1 DEF TypeOK
    <3> QED
      BY <1>3, <1>5, <2>2, <3>2 DEF ClaimEarly, Goto, NothingEarly
  <2> QED
    BY <2>1, <2>2
<1> QED
  BY <1>4, <1>5

\* The outcomes of Claim: the next transaction of a queue is nobody's yet.
Takes(w) ==
    /\ tx' = [tx EXCEPT ![w] = tx'[w]] /\ tx'[w] \in Txs
    /\ at' = [at EXCEPT ![w] = "decide"]
    /\ UNCHANGED <<queue, finishedThreads>>
    /\ ~Claimed(tx'[w])
    /\ \A t \in Txs : Claimed(t)' <=> Claimed(t) \/ t = tx'[w]

TurnsToShort(w) ==
    /\ queue[w] = "long" /\ TxIndex["long"] >= Len(LongTxs)
    /\ queue' = [queue EXCEPT ![w] = "short"]
    /\ UNCHANGED <<at, tx, finishedThreads>>
    /\ \A t \in Txs : Claimed(t)' <=> Claimed(t)

Joins(w) ==
    /\ queue[w] = "short" /\ TxIndex["short"] >= Len(ShortTxs)
    /\ at' = [at EXCEPT ![w] = "joined"]
    /\ finishedThreads' = finishedThreads \cup {w}
    /\ UNCHANGED <<queue, tx>>
    /\ \A t \in Txs : Claimed(t)' <=> Claimed(t)

LEMMA ClaimCases ==
    ASSUME QueuesAssumption, TypeOK, NEW w \in Workers, Claim(w)
    PROVE  /\ TxIndex' \in [Queues -> Nat]
           /\ \A q \in Queues : TxIndex'[q] >= TxIndex[q]
           /\ Takes(w) \/ TurnsToShort(w) \/ Joins(w)
<1> DEFINE r == queue[w]
           idx == TxIndex[r]
<1>1. r \in Queues /\ idx \in Nat /\ TxIndex \in [Queues -> Nat]
  BY DEF TypeOK
<1>2. /\ Queue[r] \in Seq(Txs) /\ Len(Queue[r]) \in Nat
      /\ Queues = {"long", "short"}
      /\ Queue["long"] = LongTxs /\ Queue["short"] = ShortTxs
      /\ \A q \in Queues : Len(Queue[q]) \in Nat
      /\ \A q \in Queues : \A i \in 1 .. Len(Queue[q]), j \in 1 .. Len(Queue[r]) :
                  Queue[q][i] = Queue[r][j] => q = r /\ i = j
  BY <1>1, QueueFacts
<1>3. TxIndex' = [TxIndex EXCEPT ![r] = idx + 1]
  BY DEF Claim
<1> HIDE DEF r
<1>4. /\ TxIndex' \in [Queues -> Nat]
      /\ TxIndex'[r] = idx + 1
      /\ \A q \in Queues : q # r => TxIndex'[q] = TxIndex[q]
      /\ \A q \in Queues : TxIndex'[q] >= TxIndex[q]
  <2> HIDE DEF Queues
  <2> QED
    BY <1>1, <1>3
<1>5. CASE idx < Len(Queue[r])
  <2> DEFINE u == Queue[r][idx + 1]
  <2>1. idx + 1 \in 1 .. Len(Queue[r])
    BY <1>1, <1>2, <1>5
  <2>2. u \in Txs
    <3> HIDE DEF Txs, Queue
    <3> QED
      BY <1>2, <2>1
  <2>3. /\ tx' = [tx EXCEPT ![w] = u]
        /\ at' = [at EXCEPT ![w] = "decide"]
        /\ UNCHANGED <<queue, finishedThreads>>
    BY <1>1, <1>2, <1>5 DEF Claim, Goto, r
  <2>4. tx'[w] = u
    BY <2>3 DEF TypeOK
  <2>5. ~Claimed(u)
    <3> SUFFICES ASSUME NEW q \in Queues, NEW i \in 1 .. Len(Queue[q]),
                        Queue[q][i] = u, i <= TxIndex[q]
                 PROVE  FALSE
      BY DEF Claimed
    <3>1. q = r /\ i = idx + 1
      BY <1>2, <2>1
    <3> QED
      BY <1>1, <3>1
  <2>6. ASSUME NEW t \in Txs
        PROVE  Claimed(t)' <=> Claimed(t) \/ t = u
    <3>1. ASSUME Claimed(t)
          PROVE  Claimed(t)'
      <4>0. PICK q \in Queues : \E i \in 1 .. Len(Queue[q]) : Queue[q][i] = t /\ i <= TxIndex[q]
        BY <3>1 DEF Claimed
      <4>1. PICK i \in 1 .. Len(Queue[q]) : Queue[q][i] = t /\ i <= TxIndex[q]
        BY <4>0
      <4>2. i <= TxIndex'[q]
        BY <1>1, <1>2, <1>4, <4>1
      <4> QED
        BY <4>1, <4>2 DEF Claimed
    <3>2. ASSUME t = u
          PROVE  Claimed(t)'
      BY <1>1, <1>4, <2>1, <3>2 DEF Claimed
    <3>3. ASSUME Claimed(t)', t # u
          PROVE  Claimed(t)
      <4>0. PICK q \in Queues : \E i \in 1 .. Len(Queue[q]) : Queue[q][i] = t /\ i <= TxIndex'[q]
        BY <3>3 DEF Claimed
      <4>1. PICK i \in 1 .. Len(Queue[q]) : Queue[q][i] = t /\ i <= TxIndex'[q]
        BY <4>0
      <4>2. i <= TxIndex[q]
        <5>1. CASE q = r
          <6>1. i # idx + 1
            BY <3>3, <4>1, <5>1
          <6> QED
            BY <1>1, <1>2, <1>4, <4>1, <5>1, <6>1
        <5> QED
          BY <1>4, <4>1, <5>1
      <4> QED
        BY <4>1, <4>2 DEF Claimed
    <3> QED
      BY <3>1, <3>2, <3>3
  <2> QED
    BY <1>4, <2>2, <2>3, <2>4, <2>5, <2>6 DEF Takes
<1>6. CASE ~(idx < Len(Queue[r]))
  <2>1. ASSUME NEW t \in Txs
        PROVE  Claimed(t)' <=> Claimed(t)
    <3>1. ASSUME NEW q \in Queues, NEW i \in 1 .. Len(Queue[q])
          PROVE  i <= TxIndex'[q] <=> i <= TxIndex[q]
      BY <1>1, <1>2, <1>4, <1>6, <3>1
    <3> QED
      BY <3>1 DEF Claimed
  <2>2. idx >= Len(Queue[r])
    BY <1>1, <1>2, <1>6
  <2>3. CASE r = "long"
    BY <1>2, <1>4, <1>6, <2>1, <2>2, <2>3 DEF Claim, TurnsToShort, r
  <2>4. CASE r = "short"
    BY <1>2, <1>4, <1>6, <2>1, <2>2, <2>4 DEF Claim, Goto, Joins, r
  <2> QED
    BY <1>1, <1>2, <2>3, <2>4
<1> QED
  BY <1>5, <1>6

----------------------------------------------------------------------------
(* The actions *)

\* What a step of worker w in the execution may be.
LEMMA ExecuteCases ==
    ASSUME NEW w \in Workers, Execute(w)
    PROVE  \/ EndBefore(w)
           \/ FinishBefore(w)
           \/ (GoAhead(w) \/ StopAhead(w))
              /\ UNCHANGED <<batchVars, claimVars, txVars, ThreadRWSets, finishedThreads>>
           \/ ClaimEarly(w)
              /\ UNCHANGED <<batchVars, TxIndex, txVars, ThreadRWSets, finishedThreads>>
           \/ EndRunEarly(w)
              /\ UNCHANGED <<batchVars, claimVars, ThreadRWSets, finishedThreads>>
           \/ Mark(w)
              /\ UNCHANGED <<batchVars, claimVars, ThreadRWSets, finishedThreads>>
           \/ (EnterBatch(w) \/ Claim(w) \/ Decide(w) \/ Start(w) \/ EndRun(w)
               \/ AppendThreadRWSets(w)) /\ UNCHANGED batchVars
  BY DEF Execute, Before, ExecuteNextBatch, ExecuteCurrentBatch, claimVars

LEMMA TypeStep ==
    ASSUME QueuesAssumption, TypeOK, OwnerInv, NEW w \in Workers, Execute(w)
    PROVE  TypeOK'
<1>a. ClaimEarly(w) =>
        NextTxIndex' \in [Queues -> Nat] /\ (TakesEarly(w) \/ NothingEarly(w))
  BY ClaimEarlyCases
<1>b. Claim(w) =>
        TxIndex' \in [Queues -> Nat] /\ (Takes(w) \/ TurnsToShort(w) \/ Joins(w))
  BY ClaimCases
<1> USE DEF TypeOK, Goto, batchVars, claimVars, txVars, Times, Now
<1> HIDE DEF Queues, Txs, Workers
<1>0. /\ allowEarlyNextBatchExecution' \in BOOLEAN
      /\ dagNodes' \in [Txs -> SUBSET (Times \cup {"nil"})]
  BY DEF Execute
<1>1. CASE EndBefore(w)
  BY <1>0, <1>1 DEF EndBefore
<1>2. CASE FinishBefore(w)
  BY <1>0, <1>2 DEF FinishBefore, workerVars
<1>3. CASE (GoAhead(w) \/ StopAhead(w))
           /\ UNCHANGED <<batchVars, claimVars, txVars, ThreadRWSets, finishedThreads>>
  BY <1>0, <1>3 DEF GoAhead, StopAhead
<1>4. CASE ClaimEarly(w)
           /\ UNCHANGED <<batchVars, TxIndex, txVars, ThreadRWSets, finishedThreads>>
  <2>1. "short" \in Queues
    BY QueueFacts
  <2> QED
    <3>1. CASE TakesEarly(w)
      <4>1. tx' \in [Workers -> Txs \cup {"none"}]
        BY <3>1 DEF TakesEarly
      <4> QED
        BY <1>0, <1>4, <1>a, <3>1, <4>1 DEF TakesEarly
    <3>2. CASE NothingEarly(w)
      BY <1>0, <1>4, <1>a, <2>1, <3>2 DEF NothingEarly
    <3> QED
      BY <1>4, <1>a, <3>1, <3>2
<1>5. CASE (EndRunEarly(w) \/ EndRun(w))
           /\ UNCHANGED <<batchVars, claimVars, ThreadRWSets, finishedThreads>>
  <2>1. UNCHANGED <<IsRuned, queue, tx, began>> /\ Store(w)
    BY <1>5 DEF EndRunEarly, EndRun
  <2>2. rwSet' \in [Txs -> Times \cup {"nil"}]
    BY <2>1 DEF Store
  <2>3. ran' \in [Txs -> SUBSET Times]
    BY <2>1 DEF Store
  <2>4. at' = [at EXCEPT ![w] = "mark"] \/ at' = [at EXCEPT ![w] = "append"]
    BY <1>5 DEF EndRunEarly, EndRun
  <2> QED
    BY <1>0, <1>5, <2>1, <2>2, <2>3, <2>4
<1>6. CASE Mark(w)
           /\ UNCHANGED <<batchVars, claimVars, ThreadRWSets, finishedThreads>>
  BY <1>0, <1>6 DEF Mark
<1>7. CASE EnterBatch(w) /\ UNCHANGED batchVars
  <2>1. "long" \in Queues
    BY QueueFacts
  <2> QED
    BY <1>0, <1>7, <2>1 DEF EnterBatch
<1>8. CASE Claim(w) /\ UNCHANGED batchVars
  <2>1. "short" \in Queues
    BY QueueFacts
  <2>2. UNCHANGED <<began, NextTxIndex, txVars, ThreadRWSets>>
    BY <1>8 DEF Claim
  <2>3. finishedThreads' \in SUBSET Workers
    BY <1>8, <1>b DEF Takes, TurnsToShort, Joins
  <2> QED
    <3>1. CASE Takes(w)
      <4>1. tx' \in [Workers -> Txs \cup {"none"}]
        BY <3>1 DEF Takes
      <4> QED
        BY <1>0, <1>8, <1>b, <2>2, <2>3, <3>1, <4>1 DEF Takes
    <3>2. CASE TurnsToShort(w)
      BY <1>0, <1>8, <1>b, <2>1, <2>2, <2>3, <3>2 DEF TurnsToShort
    <3>3. CASE Joins(w)
      BY <1>0, <1>8, <1>b, <2>2, <2>3, <3>3 DEF Joins
    <3> QED
      BY <1>8, <1>b, <3>1, <3>2, <3>3
<1>9. CASE Decide(w) /\ UNCHANGED batchVars
  BY <1>0, <1>9 DEF Decide
<1>10. CASE Start(w) /\ UNCHANGED batchVars
  BY <1>0, <1>10 DEF Start
<1>11. CASE EndRun(w) /\ UNCHANGED batchVars
  BY <1>5, <1>11 DEF EndRun
<1>12. CASE AppendThreadRWSets(w) /\ UNCHANGED batchVars
  <2>1. ThreadRWSets' \in [Workers -> Seq(Txs)]
    <3>1. tx[w] \in Txs /\ ThreadRWSets[w] \in Seq(Txs)
      BY <1>12 DEF OwnerInv, Holding, AppendThreadRWSets
    <3> QED
      BY <1>12, <3>1 DEF AppendThreadRWSets
  <2> QED
    BY <1>0, <1>12, <2>1 DEF AppendThreadRWSets
<1> QED
  BY <1>1, <1>2, <1>3, <1>4, <1>5, <1>6, <1>7, <1>8, <1>9, <1>10, <1>11, <1>12, ExecuteCases
     DEF EndRunEarly

----------------------------------------------------------------------------
(* Who holds a transaction *)

\* Steps that leave the claimed, the held and the listed transactions alone.
LEMMA OwnerKept ==
    ASSUME OwnerInv, ThreadRWSets' = ThreadRWSets,
           \A t \in Txs : Claimed(t)' <=> Claimed(t),
           \A v \in Workers : Holding(v)' <=> Holding(v),
           \A v \in Workers : Holding(v) => tx'[v] = tx[v]
    PROVE  OwnerInv'
<1>1. \A t : IsListed(t)' <=> IsListed(t)
  BY DEF IsListed
<1>2. \A w \in Workers : Holding(w)' => /\ tx'[w] \in Txs
                                        /\ Claimed(tx[w])'
                                        /\ ~IsListed(tx[w])'
  <2> SUFFICES ASSUME NEW w \in Workers, Holding(w)'
               PROVE  tx'[w] \in Txs /\ Claimed(tx[w])' /\ ~IsListed(tx[w])'
    OBVIOUS
  <2>1. Holding(w) /\ tx'[w] = tx[w] /\ tx[w] \in Txs
    BY DEF OwnerInv
  <2>2. Claimed(tx[w]) /\ ~IsListed(tx[w])
    BY <2>1 DEF OwnerInv
  <2>3. Claimed(tx[w])'
    BY <2>1, <2>2 DEF Claimed
  <2> QED
    BY <2>1, <2>2, <2>3, <1>1
<1> QED
  BY <1>1, <1>2 DEF OwnerInv

LEMMA OwnerTakes ==
    ASSUME TypeOK, OwnerInv, NEW w \in Workers, at[w] = "claim", Takes(w),
           ThreadRWSets' = ThreadRWSets
    PROVE  OwnerInv'
<1> DEFINE u == tx'[w]
<1>1. \A t : IsListed(t)' <=> IsListed(t)
  BY DEF IsListed
<1>2. /\ u \in Txs /\ ~Claimed(u)
      /\ \A t \in Txs : Claimed(t)' <=> Claimed(t) \/ t = u
      /\ \A v \in Workers : v # w => tx'[v] = tx[v] /\ (Holding(v)' <=> Holding(v))
      /\ Holding(w)' /\ ~Holding(w)
  BY DEF Takes, TypeOK, Holding
<1> HIDE DEF u
<1>3. ~IsListed(u)
  BY <1>2 DEF OwnerInv
<1>4. ASSUME NEW v \in Workers, Holding(v)'
      PROVE  tx'[v] \in Txs /\ Claimed(tx[v])' /\ ~IsListed(tx[v])'
  <2>1. CASE v = w
    <3>1. tx'[v] = u
      BY <2>1 DEF u
    <3>2. Claimed(tx[v])'
      BY <1>2, <3>1 DEF Claimed
    <3> QED
      BY <1>1, <1>2, <1>3, <3>1, <3>2
  <2>2. CASE v # w
    <3>1. Holding(v) /\ tx'[v] = tx[v]
      BY <1>2, <1>4, <2>2
    <3>2. tx[v] \in Txs /\ Claimed(tx[v]) /\ ~IsListed(tx[v])
      BY <3>1 DEF OwnerInv
    <3>3. Claimed(tx[v])'
      BY <1>2, <3>1, <3>2 DEF Claimed
    <3> QED
      BY <1>1, <3>1, <3>2, <3>3
  <2> QED
    BY <2>1, <2>2
<1>5. ASSUME NEW v \in Workers, NEW x \in Workers,
             Holding(v)', Holding(x)', tx'[v] = tx'[x]
      PROVE  v = x
  <2>1. ASSUME NEW y \in Workers, y # w, Holding(y)'
        PROVE  tx'[y] # u
    <3>1. Holding(y) /\ tx'[y] = tx[y]
      BY <1>2, <2>1
    <3> QED
      BY <1>2, <3>1 DEF OwnerInv
  <2>2. tx'[w] = u
    BY DEF u
  <2>3. CASE v = w \/ x = w
    BY <1>5, <2>1, <2>2, <2>3
  <2>4. CASE v # w /\ x # w
    <3>1. Holding(v) /\ Holding(x) /\ tx[v] = tx[x]
      BY <1>2, <1>5, <2>4
    <3> QED
      BY <3>1 DEF OwnerInv
  <2> QED
    BY <2>3, <2>4
<1>6. \A t \in Txs : IsListed(t)' => Claimed(t)'
  BY <1>1, <1>2 DEF OwnerInv
<1>7. ASSUME NEW t \in Txs, Claimed(t)'
      PROVE  IsListed(t)' \/ \E v \in Workers : Holding(v)' /\ tx'[v] = t
  <2>1. CASE t = u
    BY <1>2, <2>1 DEF u
  <2>2. CASE Claimed(t)
    <3>1. CASE IsListed(t)
      BY <1>1, <3>1
    <3>2. CASE ~IsListed(t)
      <4>1. PICK v \in Workers : Holding(v) /\ tx[v] = t
        BY <2>2, <3>2 DEF OwnerInv
      <4>2. v # w /\ Holding(v)' /\ tx'[v] = t
        BY <1>2, <4>1
      <4> QED
        BY <4>2
    <3> QED
      BY <3>1, <3>2
  <2> QED
    BY <1>2, <1>7, <2>1, <2>2
<1>8. \A v, x \in Workers : \A i \in DOMAIN ThreadRWSets'[v], j \in DOMAIN ThreadRWSets'[x] :
          ThreadRWSets'[v][i] = ThreadRWSets'[x][j] => v = x /\ i = j
  BY DEF OwnerInv
<1> QED
  BY <1>4, <1>5, <1>6, <1>7, <1>8 DEF OwnerInv

\* What appending does to the lists.
LEMMA AppendFacts ==
    ASSUME TypeOK, OwnerInv, NEW w \in Workers, AppendThreadRWSets(w)
    PROVE  /\ tx[w] \in Txs /\ ThreadRWSets[w] \in Seq(Txs)
           /\ ThreadRWSets'[w] = Append(ThreadRWSets[w], tx[w])
           /\ DOMAIN ThreadRWSets'[w] = DOMAIN ThreadRWSets[w] \cup {Len(ThreadRWSets[w]) + 1}
           /\ Len(ThreadRWSets[w]) + 1 \notin DOMAIN ThreadRWSets[w]
           /\ \A i \in DOMAIN ThreadRWSets[w] : ThreadRWSets'[w][i] = ThreadRWSets[w][i]
           /\ ThreadRWSets'[w][Len(ThreadRWSets[w]) + 1] = tx[w]
           /\ \A v \in Workers : v # w => ThreadRWSets'[v] = ThreadRWSets[v]
           /\ \A t : IsListed(t)' <=> IsListed(t) \/ t = tx[w]
<1>1. tx[w] \in Txs /\ ThreadRWSets[w] \in Seq(Txs)
  BY DEF TypeOK, OwnerInv, Holding, AppendThreadRWSets
<1>2. /\ ThreadRWSets'[w] = Append(ThreadRWSets[w], tx[w])
      /\ \A v \in Workers : v # w => ThreadRWSets'[v] = ThreadRWSets[v]
  BY DEF TypeOK, AppendThreadRWSets
<1> DEFINE old == ThreadRWSets[w]
<1> HIDE DEF old, Txs
<1>3. /\ old \in Seq(Txs)
      /\ ThreadRWSets'[w] = Append(old, tx[w])
  BY <1>1, <1>2 DEF old
<1>4. /\ DOMAIN ThreadRWSets'[w] = DOMAIN old \cup {Len(old) + 1}
      /\ Len(old) + 1 \notin DOMAIN old
      /\ \A i \in DOMAIN old : ThreadRWSets'[w][i] = old[i]
      /\ ThreadRWSets'[w][Len(old) + 1] = tx[w]
  BY <1>1, <1>3
<1>5. ASSUME NEW t
      PROVE  IsListed(t)' <=> IsListed(t) \/ t = tx[w]
  <2>1. ASSUME IsListed(t)
        PROVE  IsListed(t)'
    <3>1. PICK v \in Workers : \E i \in DOMAIN ThreadRWSets[v] : ThreadRWSets[v][i] = t
      BY <2>1 DEF IsListed
    <3> QED
      BY <1>2, <1>4, <3>1 DEF IsListed, old
  <2>2. ASSUME t = tx[w]
        PROVE  IsListed(t)'
    BY <1>4, <2>2 DEF IsListed
  <2>3. ASSUME IsListed(t)', t # tx[w]
        PROVE  IsListed(t)
    <3>1. PICK v \in Workers : \E i \in DOMAIN ThreadRWSets'[v] : ThreadRWSets'[v][i] = t
      BY <2>3 DEF IsListed
    <3> QED
      BY <1>2, <1>4, <2>3, <3>1 DEF IsListed, old
  <2> QED
    BY <2>1, <2>2, <2>3
<1> QED
  BY <1>1, <1>2, <1>4, <1>5 DEF old

LEMMA OwnerAppend ==
    ASSUME TypeOK, OwnerInv, NEW w \in Workers, AppendThreadRWSets(w)
    PROVE  OwnerInv'
<1>1. /\ \A t \in Txs : Claimed(t)' <=> Claimed(t)
      /\ UNCHANGED tx
      /\ \A v \in Workers : v # w => (Holding(v)' <=> Holding(v))
      /\ Holding(w) /\ ~Holding(w)'
  BY DEF AppendThreadRWSets, Holding, Claimed, claimVars, Goto, TypeOK
<1>2. tx[w] \in Txs /\ Claimed(tx[w]) /\ ~IsListed(tx[w])
  BY <1>1 DEF OwnerInv
<1>3. \A t : IsListed(t)' <=> IsListed(t) \/ t = tx[w]
  BY AppendFacts
<1>4. ASSUME NEW v \in Workers, Holding(v)'
      PROVE  tx'[v] \in Txs /\ Claimed(tx[v])' /\ ~IsListed(tx[v])'
  <2>1. v # w /\ Holding(v) /\ tx'[v] = tx[v]
    BY <1>1, <1>4
  <2>2. tx[v] \in Txs /\ Claimed(tx[v]) /\ ~IsListed(tx[v]) /\ tx[v] # tx[w]
    BY <1>1, <2>1 DEF OwnerInv
  <2>3. Claimed(tx[v])'
    BY <1>1, <2>1, <2>2 DEF Claimed
  <2> QED
    BY <1>3, <2>1, <2>2, <2>3
<1>5. \A v, x \in Workers : Holding(v)' /\ Holding(x)' /\ tx'[v] = tx'[x] => v = x
  BY <1>1 DEF OwnerInv
<1>6. \A t \in Txs : IsListed(t)' => Claimed(t)'
  BY <1>1, <1>2, <1>3 DEF OwnerInv
<1>7. ASSUME NEW v \in Workers, NEW x \in Workers,
             NEW i \in DOMAIN ThreadRWSets'[v], NEW j \in DOMAIN ThreadRWSets'[x],
             ThreadRWSets'[v][i] = ThreadRWSets'[x][j]
      PROVE  v = x /\ i = j
  <2> DEFINE new(y, k) == y = w /\ k = Len(ThreadRWSets[w]) + 1
  <2>1. ASSUME NEW y \in Workers, NEW k \in DOMAIN ThreadRWSets'[y]
        PROVE  \/ new(y, k) /\ ThreadRWSets'[y][k] = tx[w]
               \/ /\ k \in DOMAIN ThreadRWSets[y]
                  /\ ThreadRWSets'[y][k] = ThreadRWSets[y][k]
                  /\ ThreadRWSets[y][k] # tx[w]
    <3>1. CASE new(y, k)
      BY <3>1, AppendFacts
    <3>2. CASE ~new(y, k)
      <4>1. k \in DOMAIN ThreadRWSets[y] /\ ThreadRWSets'[y][k] = ThreadRWSets[y][k]
        BY <2>1, <3>2, AppendFacts
      <4>2. ThreadRWSets[y][k] # tx[w]
        BY <1>2, <4>1 DEF IsListed
      <4> QED
        BY <4>1, <4>2
    <3> QED
      BY <3>1, <3>2
  <2>a. \/ new(v, i) /\ ThreadRWSets'[v][i] = tx[w]
        \/ /\ i \in DOMAIN ThreadRWSets[v]
           /\ ThreadRWSets'[v][i] = ThreadRWSets[v][i]
           /\ ThreadRWSets[v][i] # tx[w]
    BY <2>1
  <2>b. \/ new(x, j) /\ ThreadRWSets'[x][j] = tx[w]
        \/ /\ j \in DOMAIN ThreadRWSets[x]
           /\ ThreadRWSets'[x][j] = ThreadRWSets[x][j]
           /\ ThreadRWSets[x][j] # tx[w]
    BY <2>1
  <2> HIDE DEF new
  <2>2. CASE new(v, i) \/ new(x, j)
    <3>1. new(v, i) /\ new(x, j)
      BY <1>7, <2>2, <2>a, <2>b, AppendFacts DEF new
    <3> QED
      BY <3>1 DEF new
  <2>4. CASE ~new(v, i) /\ ~new(x, j)
    <3>1. /\ i \in DOMAIN ThreadRWSets[v] /\ j \in DOMAIN ThreadRWSets[x]
          /\ ThreadRWSets[v][i] = ThreadRWSets[x][j]
      BY <1>7, <2>4, <2>a, <2>b
    <3> QED
      BY <3>1 DEF OwnerInv
  <2> QED
    BY <2>2, <2>4
<1>8. ASSUME NEW t \in Txs, Claimed(t)'
      PROVE  IsListed(t)' \/ \E v \in Workers : Holding(v)' /\ tx'[v] = t
  <2>1. CASE IsListed(t) \/ t = tx[w]
    BY <1>3, <2>1
  <2>2. CASE ~IsListed(t) /\ t # tx[w]
    <3>1. PICK v \in Workers : Holding(v) /\ tx[v] = t
      BY <1>1, <1>8, <2>2 DEF OwnerInv
    <3>2. v # w /\ Holding(v)' /\ tx'[v] = t
      BY <1>1, <2>2, <3>1
    <3> QED
      BY <3>2
  <2> QED
    BY <2>1, <2>2
<1> QED
  BY <1>4, <1>5, <1>6, <1>7, <1>8 DEF OwnerInv

LEMMA OwnerStep ==
    ASSUME QueuesAssumption, TypeOK, OwnerInv, NEW w \in Workers, Execute(w)
    PROVE  OwnerInv'
<1>1. CASE Claim(w)
  <2>1. at[w] = "claim" /\ ThreadRWSets' = ThreadRWSets
    BY <1>1 DEF Claim
  <2>2. CASE Takes(w)
    BY <2>1, <2>2, OwnerTakes
  <2>3. CASE TurnsToShort(w)
    <3>1. \A v \in Workers : (Holding(v)' <=> Holding(v)) /\ tx'[v] = tx[v]
      BY <2>3 DEF TurnsToShort, Holding
    <3> QED
      BY <2>1, <2>3, <3>1, OwnerKept DEF TurnsToShort
  <2>4. CASE Joins(w)
    <3>1. \A v \in Workers : (Holding(v)' <=> Holding(v)) /\ tx'[v] = tx[v]
      BY <2>1, <2>4 DEF Joins, Holding, TypeOK
    <3> QED
      BY <2>1, <2>4, <3>1, OwnerKept DEF Joins
  <2> QED
    BY <1>1, <2>2, <2>3, <2>4, ClaimCases
<1>2. CASE AppendThreadRWSets(w)
  BY <1>2, OwnerAppend
<1>3. CASE ~Claim(w) /\ ~AppendThreadRWSets(w)
  <2>1. ThreadRWSets' = ThreadRWSets /\ TxIndex' = TxIndex
    BY <1>3, ExecuteCases DEF EndBefore, FinishBefore, EnterBatch, Decide, Start, EndRun, claimVars
  <2>2. \A v \in Workers : (Holding(v)' <=> Holding(v)) /\ (Holding(v) => tx'[v] = tx[v])
    <3>1. CASE ClaimEarly(w)
      <4>1. at[w] = "claimEarly"
        BY <3>1 DEF ClaimEarly
      <4>2. CASE TakesEarly(w)
        BY <4>1, <4>2 DEF TakesEarly, Holding, TypeOK
      <4>3. CASE NothingEarly(w)
        BY <4>1, <4>3 DEF NothingEarly, Holding, TypeOK
      <4> QED
        BY <3>1, <4>2, <4>3, ClaimEarlyCases
    <3>2. CASE ~ClaimEarly(w)
      BY <1>3, <3>2, ExecuteCases DEF EndBefore, FinishBefore, GoAhead, StopAhead, EndRunEarly,
         Mark, EnterBatch, Decide, Start, EndRun, workerVars, Goto, Holding, TypeOK
    <3> QED
      BY <3>1, <3>2
  <2>3. \A t \in Txs : Claimed(t)' <=> Claimed(t)
    BY <2>1 DEF Claimed
  <2> QED
    BY <2>1, <2>2, <2>3, OwnerKept
<1> QED
  BY <1>1, <1>2, <1>3

----------------------------------------------------------------------------
(* Joining the batch *)

LEMMA JoinStep ==
    ASSUME QueuesAssumption, TypeOK, JoinInv, NEW w \in Workers, Execute(w)
    PROVE  JoinInv'
<1>0. /\ Queues = {"long", "short"}
      /\ TxIndex["long"] \in Nat /\ TxIndex["short"] \in Nat
      /\ Len(LongTxs) \in Nat /\ Len(ShortTxs) \in Nat
  BY QueueFacts DEF TypeOK
<1>1. CASE Claim(w)
  <2>1. /\ at[w] = "claim" /\ finished' = finished /\ finished
        /\ TxIndex'["long"] \in Nat /\ TxIndex'["short"] \in Nat
        /\ TxIndex'["long"] >= TxIndex["long"] /\ TxIndex'["short"] >= TxIndex["short"]
    <3>1. at[w] = "claim"
      BY <1>1 DEF Claim
    <3>2. finished' = finished
      BY <1>1, <3>1, ExecuteCases DEF EndBefore, FinishBefore, GoAhead, StopAhead, ClaimEarly,
         EndRunEarly, Mark, batchVars
    <3> QED
      BY <1>0, <1>1, <3>1, <3>2, ClaimCases DEF JoinInv, Entered
  <2>2. CASE Takes(w)
    BY <1>0, <2>1, <2>2 DEF Takes, JoinInv, Entered, Holding, TypeOK
  <2>3. CASE TurnsToShort(w)
    BY <1>0, <2>1, <2>3 DEF TurnsToShort, JoinInv, Entered, Holding, TypeOK
  <2>4. CASE Joins(w)
    BY <1>0, <2>1, <2>4 DEF Joins, JoinInv, Entered, Holding, TypeOK
  <2> QED
    BY <1>1, <2>2, <2>3, <2>4, ClaimCases
<1>2. CASE ClaimEarly(w)
  <2>1. at[w] = "claimEarly"
    BY <1>2 DEF ClaimEarly
  <2>2. UNCHANGED <<finished, TxIndex, finishedThreads>>
    BY <1>2, <2>1, ExecuteCases DEF EndBefore, FinishBefore, GoAhead, StopAhead, EndRunEarly,
       Mark, EnterBatch, Claim, Decide, Start, EndRun, AppendThreadRWSets, batchVars, claimVars
  <2>3. CASE TakesEarly(w)
    BY <1>0, <2>1, <2>2, <2>3 DEF TakesEarly, JoinInv, Entered, Holding, TypeOK
  <2>4. CASE NothingEarly(w)
    BY <1>0, <2>1, <2>2, <2>4 DEF NothingEarly, JoinInv, Entered, Holding, TypeOK
  <2> QED
    BY <1>2, <2>3, <2>4, ClaimEarlyCases
<1>3. CASE EnterBatch(w) /\ UNCHANGED batchVars
  BY <1>0, <1>3 DEF EnterBatch, JoinInv, Entered, Holding, TypeOK, batchVars, claimVars, Goto
<1>4. CASE ~Claim(w) /\ ~ClaimEarly(w) /\ ~EnterBatch(w)
  <2>1. UNCHANGED <<TxIndex, finishedThreads, queue>> /\ (finished => finished')
    BY <1>4, ExecuteCases DEF EndBefore, FinishBefore, GoAhead, StopAhead, EndRunEarly,
       Mark, Decide, Start, EndRun, AppendThreadRWSets, batchVars, claimVars, workerVars
  <2>2. /\ \A v \in Workers : v # w => at'[v] = at[v]
        /\ at'[w] = "joined" <=> at[w] = "joined"
        /\ Entered(w)' <=> Entered(w)
    <3>1. CASE EndBefore(w) \/ FinishBefore(w) \/ GoAhead(w) \/ StopAhead(w)
      BY <3>1 DEF EndBefore, FinishBefore, GoAhead, StopAhead, workerVars, Goto, Entered,
         Holding, TypeOK
    <3>2. CASE EndRunEarly(w) \/ Mark(w)
      BY <3>2 DEF EndRunEarly, Mark, Goto, Entered, Holding, TypeOK
    <3>3. CASE Decide(w)
      BY <3>3 DEF Decide, Goto, Entered, Holding, TypeOK
    <3>4. CASE Start(w) \/ EndRun(w) \/ AppendThreadRWSets(w)
      BY <3>4 DEF Start, EndRun, AppendThreadRWSets, Goto, Entered, Holding, TypeOK
    <3> QED
      BY <1>4, <3>1, <3>2, <3>3, <3>4, ExecuteCases
  <2>3. \A v \in Workers : Entered(v)' <=> Entered(v)
    BY <2>2 DEF Entered, Holding
  <2> QED
    BY <2>1, <2>2, <2>3 DEF JoinInv
<1>5. EnterBatch(w) => UNCHANGED batchVars
  BY ExecuteCases DEF EnterBatch, EndBefore, FinishBefore, GoAhead, StopAhead, ClaimEarly,
     EndRunEarly, Mark
<1> QED
  BY <1>1, <1>2, <1>3, <1>4, <1>5

----------------------------------------------------------------------------
(* Marks and sets *)

\* Storing a set only adds to what there is.
LEMMA StoreFacts ==
    ASSUME TypeOK, NEW w \in Workers, tx[w] \in Txs, Store(w)
    PROVE  /\ rwSet'[tx[w]] = began[w] /\ began[w] # "nil"
           /\ \A t \in Txs : rwSet[t] # "nil" => rwSet'[t] # "nil"
           /\ \A t \in Txs : t # tx[w] => rwSet'[t] = rwSet[t]
           /\ began[w] \in ran'[tx[w]]
           /\ \A t \in Txs : ran[t] \subseteq ran'[t]
  BY DEF TypeOK, Store, Times

LEMMA SetStep ==
    ASSUME QueuesAssumption, TypeOK, OwnerInv, SetInv, NEW w \in Workers, Execute(w)
    PROVE  SetInv'
<1> USE DEF Goto
<1>1. CASE ClaimEarly(w)
  <2>1. at[w] = "claimEarly"
    BY <1>1 DEF ClaimEarly
  <2>2. UNCHANGED <<rwSet, IsRuned, ThreadRWSets>>
    BY <1>1, <2>1, ExecuteCases DEF EndBefore, FinishBefore, GoAhead, StopAhead, EndRunEarly,
       Mark, EnterBatch, Claim, Decide, Start, EndRun, AppendThreadRWSets, txVars
  <2>3. \A t : IsListed(t)' <=> IsListed(t)
    BY <2>2 DEF IsListed
  <2>4. CASE TakesEarly(w)
    <3>1. /\ tx'[w] \in Txs /\ at'[w] = "runEarly"
          /\ \A v \in Workers : v # w => tx'[v] = tx[v] /\ at'[v] = at[v]
      BY <2>4 DEF TakesEarly, TypeOK
    <3> QED
      BY <2>1, <2>2, <2>3, <3>1 DEF SetInv
  <2>5. CASE NothingEarly(w)
    BY <2>1, <2>2, <2>3, <2>5 DEF NothingEarly, SetInv, TypeOK
  <2> QED
    BY <1>1, <2>4, <2>5, ClaimEarlyCases
<1>2. CASE EndRunEarly(w) \/ EndRun(w)
  <2>1. /\ UNCHANGED <<IsRuned, tx, ThreadRWSets>> /\ Store(w)
        /\ \/ at[w] = "runEarly" /\ at' = [at EXCEPT ![w] = "mark"]
           \/ at[w] = "run" /\ at' = [at EXCEPT ![w] = "append"]
    BY <1>2, ExecuteCases DEF EndRunEarly, EndRun, EndBefore, FinishBefore, GoAhead, StopAhead,
       ClaimEarly, Mark, EnterBatch, Claim, Decide, Start, AppendThreadRWSets
  <2>2. tx[w] \in Txs
    BY <2>1 DEF OwnerInv, Holding, SetInv
  <2>3. \A t : IsListed(t)' <=> IsListed(t)
    BY <2>1 DEF IsListed
  <2>4. /\ rwSet'[tx[w]] # "nil"
        /\ \A t \in Txs : rwSet[t] # "nil" => rwSet'[t] # "nil"
        /\ \A t \in Txs : t # tx[w] => rwSet'[t] = rwSet[t]
    BY <2>1, <2>2, StoreFacts
  <2>5. \A v \in Workers : at'[v] \in {"mark", "append"} => rwSet'[tx'[v]] # "nil"
    BY <2>1, <2>2, <2>4 DEF SetInv, TypeOK, OwnerInv, Holding
  <2>6. ASSUME NEW t \in Txs, IsRuned'[t], rwSet'[t] = "nil"
        PROVE  \E v \in Workers : at'[v] = "run" /\ tx'[v] = t
    <3>1. t # tx[w] /\ IsRuned[t] /\ rwSet[t] = "nil"
      BY <2>1, <2>4, <2>6
    <3>2. PICK v \in Workers : at[v] = "run" /\ tx[v] = t
      BY <3>1 DEF SetInv
    <3> QED
      BY <2>1, <3>1, <3>2 DEF TypeOK
  <2> QED
    BY <2>1, <2>2, <2>3, <2>4, <2>5, <2>6 DEF SetInv, TypeOK
<1>3. CASE Mark(w)
  <2>1. /\ at[w] = "mark" /\ at' = [at EXCEPT ![w] = "claimEarly"]
        /\ IsRuned' = [IsRuned EXCEPT ![tx[w]] = TRUE]
        /\ UNCHANGED <<rwSet, tx, ThreadRWSets>>
    BY <1>3, ExecuteCases DEF EndRunEarly, EndRun, EndBefore, FinishBefore, GoAhead, StopAhead,
       ClaimEarly, Mark, EnterBatch, Claim, Decide, Start, AppendThreadRWSets
  <2>2. tx[w] \in Txs /\ rwSet[tx[w]] # "nil"
    BY <2>1 DEF SetInv
  <2>3. \A t : IsListed(t)' <=> IsListed(t)
    BY <2>1 DEF IsListed
  <2>4. \A t \in Txs : IsRuned'[t] /\ rwSet'[t] = "nil" => IsRuned[t] /\ rwSet[t] = "nil"
    BY <2>1, <2>2 DEF TypeOK
  <2> QED
    BY <2>1, <2>3, <2>4 DEF SetInv, TypeOK
<1>4. CASE Claim(w)
  <2>1. at[w] = "claim" /\ UNCHANGED <<rwSet, IsRuned, ThreadRWSets>>
    BY <1>4 DEF Claim, txVars
  <2>2. \A t : IsListed(t)' <=> IsListed(t)
    BY <2>1 DEF IsListed
  <2>3. CASE Takes(w)
    <3>1. /\ tx'[w] \in Txs /\ at'[w] = "decide"
          /\ \A v \in Workers : v # w => tx'[v] = tx[v] /\ at'[v] = at[v]
      BY <2>3 DEF Takes, TypeOK
    <3> QED
      BY <2>1, <2>2, <3>1 DEF SetInv
  <2>4. CASE TurnsToShort(w)
    BY <2>1, <2>2, <2>4 DEF TurnsToShort, SetInv, TypeOK
  <2>5. CASE Joins(w)
    BY <2>1, <2>2, <2>5 DEF Joins, SetInv, TypeOK
  <2> QED
    BY <1>4, <2>3, <2>4, <2>5, ClaimCases
<1>5. CASE Decide(w)
  <2>1. /\ at[w] = "decide" /\ UNCHANGED <<rwSet, IsRuned, ThreadRWSets, tx>>
        /\ \/ at' = [at EXCEPT ![w] = "start"]
           \/ at' = [at EXCEPT ![w] = "append"] /\ IsRuned[tx[w]]
    BY <1>5 DEF Decide, NeedRun, txVars
  <2>2. \A t : IsListed(t)' <=> IsListed(t)
    BY <2>1 DEF IsListed
  <2>3. tx[w] \in Txs /\ (IsRuned[tx[w]] => rwSet[tx[w]] # "nil")
    <3>1. tx[w] \in Txs
      BY <2>1 DEF OwnerInv, Holding
    <3>2. \A v \in Workers : at[v] = "run" /\ tx[v] = tx[w] => v = w
      BY <2>1 DEF OwnerInv, Holding
    <3> QED
      BY <2>1, <3>1, <3>2 DEF SetInv
  <2> QED
    BY <2>1, <2>2, <2>3 DEF SetInv, TypeOK
<1>6. CASE Start(w)
  <2>1. /\ at[w] = "start" /\ at' = [at EXCEPT ![w] = "run"]
        /\ IsRuned' = [IsRuned EXCEPT ![tx[w]] = TRUE]
        /\ UNCHANGED <<rwSet, tx, ThreadRWSets>>
    BY <1>6 DEF Start
  <2>2. \A t : IsListed(t)' <=> IsListed(t)
    BY <2>1 DEF IsListed
  <2>3. tx[w] \in Txs /\ at'[w] = "run" /\ \A v \in Workers : at[v] = "run" => at'[v] = "run"
    BY <2>1 DEF OwnerInv, Holding, TypeOK
  <2>4. \A t \in Txs : IsRuned'[t] => IsRuned[t] \/ t = tx[w]
    BY <2>1 DEF TypeOK
  <2>5. ASSUME NEW t \in Txs, IsRuned'[t], rwSet'[t] = "nil"
        PROVE  \E v \in Workers : at'[v] = "run" /\ tx'[v] = t
    BY <2>1, <2>3, <2>4, <2>5 DEF SetInv
  <2> QED
    BY <2>1, <2>2, <2>5 DEF SetInv, TypeOK
<1>7. CASE AppendThreadRWSets(w)
  <2>1. /\ at[w] = "append" /\ at' = [at EXCEPT ![w] = "claim"]
        /\ UNCHANGED <<rwSet, IsRuned, tx>>
    BY <1>7 DEF AppendThreadRWSets, txVars
  <2>2. \A t : IsListed(t)' <=> IsListed(t) \/ t = tx[w]
    BY <1>7, AppendFacts
  <2> QED
    BY <2>1, <2>2 DEF SetInv, TypeOK
<1>8. CASE EndBefore(w) \/ FinishBefore(w) \/ GoAhead(w) \/ StopAhead(w) \/ EnterBatch(w)
  <2>1. UNCHANGED <<rwSet, IsRuned, tx, ThreadRWSets>>
    BY <1>8, ExecuteCases DEF EndBefore, FinishBefore, GoAhead, StopAhead, EnterBatch, txVars,
       ClaimEarly, EndRunEarly, Mark, Claim, Decide, Start, EndRun, AppendThreadRWSets, workerVars
  <2>2. \A t : IsListed(t)' <=> IsListed(t)
    BY <2>1 DEF IsListed
  <2>3. /\ \A v \in Workers : v # w => at'[v] = at[v]
        /\ at'[w] \notin {"runEarly", "mark", "append"} /\ at[w] # "run"
    BY <1>8 DEF EndBefore, FinishBefore, GoAhead, StopAhead, EnterBatch, workerVars, TypeOK
  <2> QED
    BY <2>1, <2>2, <2>3 DEF SetInv
<1> QED
  BY <1>1, <1>2, <1>3, <1>4, <1>5, <1>6, <1>7, <1>8, ExecuteCases

----------------------------------------------------------------------------
(* Conflicts *)

\* A formal execution begins when the batch before is finished; a conflicting
\* transaction is listed only behind one.
LEMMA ConflictStep ==
    ASSUME QueuesAssumption, TypeOK, OwnerInv, JoinInv, ConflictInv,
           NEW w \in Workers, Execute(w)
    PROVE  ConflictInv'
<1> USE DEF Goto
<1>1. CASE ClaimEarly(w)
  <2>1. at[w] = "claimEarly"
    BY <1>1 DEF ClaimEarly
  <2>2. UNCHANGED <<ran, ThreadRWSets>>
    BY <1>1, <2>1, ExecuteCases DEF EndBefore, FinishBefore, GoAhead, StopAhead, EndRunEarly,
       Mark, EnterBatch, Claim, Decide, Start, EndRun, AppendThreadRWSets, txVars
  <2>3. \A t : IsListed(t)' <=> IsListed(t)
    BY <2>2 DEF IsListed
  <2>4. /\ at'[w] \notin {"run", "append"}
        /\ \A v \in Workers : v # w => tx'[v] = tx[v] /\ at'[v] = at[v] /\ began'[v] = began[v]
    <3>1. CASE TakesEarly(w)
      BY <2>1, <3>1 DEF TakesEarly, TypeOK
    <3>2. CASE NothingEarly(w)
      BY <2>1, <3>2 DEF NothingEarly, TypeOK
    <3> QED
      BY <1>1, <3>1, <3>2, ClaimEarlyCases
  <2> QED
    BY <2>2, <2>3, <2>4 DEF ConflictInv
<1>2. CASE EndRunEarly(w) \/ EndRun(w)
  <2>1. /\ UNCHANGED <<tx, began, ThreadRWSets>> /\ Store(w)
        /\ \/ at[w] = "runEarly" /\ at' = [at EXCEPT ![w] = "mark"]
           \/ at[w] = "run" /\ at' = [at EXCEPT ![w] = "append"]
    BY <1>2, ExecuteCases DEF EndRunEarly, EndRun, EndBefore, FinishBefore, GoAhead, StopAhead,
       ClaimEarly, Mark, EnterBatch, Claim, Decide, Start, AppendThreadRWSets
  <2>2. \A t : IsListed(t)' <=> IsListed(t)
    BY <2>1 DEF IsListed
  <2>3. CASE tx[w] \in Txs
    <3>1. \A t \in Txs : "late" \in ran[t] => "late" \in ran'[t]
      BY <2>1, <2>3, StoreFacts
    <3>2. at[w] = "run" => "late" \in ran'[tx[w]]
      BY <2>1, <2>3, StoreFacts DEF ConflictInv
    <3>3. \A v \in Workers : at'[v] = "append" => tx[v] \in Txs
      BY <2>1, <2>3 DEF OwnerInv, Holding, TypeOK
    <3> QED
      BY <2>1, <2>2, <3>1, <3>2, <3>3 DEF ConflictInv, TypeOK
  <2>4. CASE tx[w] \notin Txs
    <3>1. at[w] # "run" /\ ran' = ran
      BY <2>1, <2>4 DEF OwnerInv, Holding, Store, TypeOK
    <3> QED
      BY <2>1, <2>2, <3>1 DEF ConflictInv, TypeOK
  <2> QED
    BY <2>3, <2>4
<1>3. CASE Claim(w)
  <2>1. at[w] = "claim" /\ UNCHANGED <<ran, began, ThreadRWSets>>
    BY <1>3 DEF Claim, txVars
  <2>2. \A t : IsListed(t)' <=> IsListed(t)
    BY <2>1 DEF IsListed
  <2>3. /\ at'[w] \notin {"run", "append"}
        /\ \A v \in Workers : v # w => tx'[v] = tx[v] /\ at'[v] = at[v]
    <3>1. CASE Takes(w)
      BY <2>1, <3>1 DEF Takes, TypeOK
    <3>2. CASE TurnsToShort(w)
      BY <2>1, <3>2 DEF TurnsToShort, TypeOK
    <3>3. CASE Joins(w)
      BY <2>1, <3>3 DEF Joins, TypeOK
    <3> QED
      BY <1>3, <3>1, <3>2, <3>3, ClaimCases
  <2> QED
    BY <2>1, <2>2, <2>3 DEF ConflictInv
<1>4. CASE Decide(w)
  <2>1. /\ at[w] = "decide" /\ UNCHANGED <<ran, began, tx, ThreadRWSets>>
        /\ \/ at' = [at EXCEPT ![w] = "start"]
           \/ at' = [at EXCEPT ![w] = "append"] /\ tx[w] \notin Conflicting
    BY <1>4 DEF Decide, NeedRun, txVars
  <2>2. \A t : IsListed(t)' <=> IsListed(t)
    BY <2>1 DEF IsListed
  <2> QED
    BY <2>1, <2>2 DEF ConflictInv, TypeOK
<1>5. CASE Start(w)
  <2>1. /\ at[w] = "start" /\ at' = [at EXCEPT ![w] = "run"]
        /\ began' = [began EXCEPT ![w] = "late"]
        /\ UNCHANGED <<ran, tx, ThreadRWSets>>
    BY <1>5 DEF Start, Now, JoinInv, Entered, Holding
  <2>2. \A t : IsListed(t)' <=> IsListed(t)
    BY <2>1 DEF IsListed
  <2> QED
    BY <2>1, <2>2 DEF ConflictInv, TypeOK
<1>6. CASE AppendThreadRWSets(w)
  <2>1. /\ at[w] = "append" /\ at' = [at EXCEPT ![w] = "claim"]
        /\ UNCHANGED <<ran, began, tx>>
    BY <1>6 DEF AppendThreadRWSets, txVars
  <2>2. \A t : IsListed(t)' <=> IsListed(t) \/ t = tx[w]
    BY <1>6, AppendFacts
  <2> QED
    BY <2>1, <2>2 DEF ConflictInv, TypeOK
<1>7. CASE EndBefore(w) \/ FinishBefore(w) \/ GoAhead(w) \/ StopAhead(w) \/ Mark(w)
           \/ EnterBatch(w)
  <2>1. UNCHANGED <<ran, began, tx, ThreadRWSets>>
    BY <1>7, ExecuteCases DEF EndBefore, FinishBefore, GoAhead, StopAhead, EnterBatch, txVars,
       ClaimEarly, EndRunEarly, Mark, Claim, Decide, Start, EndRun, AppendThreadRWSets, workerVars
  <2>2. \A t : IsListed(t)' <=> IsListed(t)
    BY <2>1 DEF IsListed
  <2>3. \A v \in Workers : at'[v] \in {"run", "append"} => at'[v] = at[v]
    BY <1>7 DEF EndBefore, FinishBefore, GoAhead, StopAhead, Mark, EnterBatch, workerVars, TypeOK
  <2> QED
    BY <2>1, <2>2, <2>3 DEF ConflictInv
<1> QED
  BY <1>1, <1>2, <1>3, <1>4, <1>5, <1>6, <1>7, ExecuteCases

----------------------------------------------------------------------------
(* The graphs *)

\* A worker that has joined is through with the execution.
LEMMA NoExecuteOnceJoined ==
    ASSUME NEW w \in Workers, Execute(w)
    PROVE  at[w] # "joined"
BY ExecuteCases DEF EndBefore, FinishBefore, GoAhead, StopAhead, ClaimEarly, EndRunEarly, Mark,
   EnterBatch, Claim, Decide, Start, EndRun, AppendThreadRWSets

LEMMA GraphStep ==
    ASSUME QueuesAssumption, TypeOK, JoinInv, GraphInv, NEW w \in Workers, Execute(w)
    PROVE  GraphInv'
<1> USE DEF Goto
<1>1. \A t \in Txs : dagNodes'[t] = {}
  BY NoExecuteOnceJoined DEF AllJoined, JoinInv, GraphInv, Execute
<1>2. CASE ClaimEarly(w)
  <2>1. CASE TakesEarly(w)
    BY <1>1, <2>1 DEF TakesEarly, GraphInv, TypeOK
  <2>2. CASE NothingEarly(w)
    BY <1>1, <2>2 DEF NothingEarly, GraphInv, TypeOK
  <2> QED
    BY <1>2, <2>1, <2>2, ClaimEarlyCases
<1>3. CASE Claim(w)
  BY <1>1, <1>3, ClaimCases DEF Takes, TurnsToShort, Joins, Claim, GraphInv, TypeOK
<1>4. CASE Start(w)
  BY <1>1, <1>4 DEF Start, GraphInv, TypeOK
<1>5. CASE ~ClaimEarly(w) /\ ~Claim(w) /\ ~Start(w)
  <2>1. /\ UNCHANGED began
        /\ \A v \in Workers : at'[v] = "runEarly" => at[v] = "runEarly"
    BY <1>5, ExecuteCases DEF EndBefore, FinishBefore, GoAhead, StopAhead, EndRunEarly, Mark,
       EnterBatch, Decide, EndRun, AppendThreadRWSets, workerVars, TypeOK
  <2> QED
    BY <1>1, <2>1 DEF GraphInv
<1> QED
  BY <1>2, <1>3, <1>4, <1>5

\* What a step that adds a node leaves as it was.
LEMMA AddNodeFacts ==
    ASSUME TypeOK, NEW w \in Workers, NEW t \in Txs, AddNode(w, t)
    PROVE  /\ UNCHANGED <<allowEarlyNextBatchExecution, executionDone, finished, NextTxIndex,
                          TxIndex, IsRuned, rwSet, ran, ThreadRWSets, finishedThreads, at,
                          queue, tx, began>>
           /\ AllJoined
           /\ dagNodes' \in [Txs -> SUBSET (Times \cup {"nil"})]
<1>1. rwSet[t] \in Times \cup {"nil"} /\ dagNodes[t] \in SUBSET (Times \cup {"nil"})
  BY DEF TypeOK
<1>2. dagNodes' = [dagNodes EXCEPT ![t] = @ \cup {rwSet[t]}]
  BY DEF AddNode
<1>3. dagNodes' \in [Txs -> SUBSET (Times \cup {"nil"})]
  <2> HIDE DEF Txs, Times
  <2> QED
    BY <1>1, <1>2 DEF TypeOK
<1> QED
  BY <1>3 DEF AddNode, batchVars, claimVars, txVars, workerVars

LEMMA AddNodeStep ==
    ASSUME IInv, NEW w \in Workers, NEW t \in Txs, AddNode(w, t)
    PROVE  IInv'
<1>1. TypeOK
  BY DEF IInv
<1> USE <1>1, AddNodeFacts
<1>2. TypeOK'
  BY DEF TypeOK
<1>3. /\ \A u : IsListed(u)' <=> IsListed(u)
      /\ \A u : Claimed(u)' <=> Claimed(u)
      /\ \A v : Holding(v)' <=> Holding(v)
      /\ \A v : Entered(v)' <=> Entered(v)
  BY DEF IsListed, Claimed, Holding, Entered
<1>4. OwnerInv'
  BY <1>3 DEF IInv, OwnerInv
<1>5. JoinInv'
  BY <1>3 DEF IInv, JoinInv
<1>6. SetInv' /\ ConflictInv'
  BY <1>3 DEF IInv, SetInv, ConflictInv
<1>7. GraphInv'
  BY DEF IInv, GraphInv, AllJoined
<1> QED
  BY <1>2, <1>4, <1>5, <1>6, <1>7 DEF IInv

----------------------------------------------------------------------------
(* The invariant *)

LEMMA InitIInv ==
    ASSUME QueuesAssumption, Init
    PROVE  IInv
<1>1. /\ TypeOK
      /\ \A w \in Workers : at[w] \in {"before", "ahead"}
      /\ \A w \in Workers : ThreadRWSets[w] = <<>>
      /\ \A q \in Queues : TxIndex[q] = 0
      /\ \A t \in Txs : ~IsRuned[t]
      /\ finishedThreads = {}
  <2>1. <<>> \in Seq(Txs)
    OBVIOUS
  <2>2. /\ at \in [Workers -> {"before", "ahead"}]
        /\ queue \in [Workers -> Queues]
        /\ ThreadRWSets \in [Workers -> Seq(Txs)]
    BY <2>1, QueueFacts DEF Init
  <2>3. TypeOK
    BY <2>2, QueueFacts DEF Init, TypeOK, Times
  <2> QED
    BY <2>2, <2>3 DEF Init
<1>2. \A t : ~IsListed(t)
  BY <1>1 DEF IsListed
<1>3. \A t : ~Claimed(t)
  BY <1>1, QueueFacts DEF Claimed
<1>4. OwnerInv
  BY <1>1, <1>2, <1>3 DEF OwnerInv, Holding
<1>5. JoinInv
  BY <1>1 DEF JoinInv, Entered, Holding
<1>6. SetInv /\ ConflictInv
  BY <1>1, <1>2 DEF SetInv, ConflictInv
<1>7. GraphInv
  BY <1>1 DEF Init, GraphInv
<1> QED
  BY <1>1, <1>4, <1>5, <1>6, <1>7 DEF IInv

LEMMA StutterIInv ==
    ASSUME IInv, UNCHANGED vars
    PROVE  IInv'
<1> USE DEF vars, batchVars, claimVars, txVars, workerVars
<1>1. TypeOK'
  BY DEF IInv, TypeOK
<1>2. /\ \A t : IsListed(t)' <=> IsListed(t)
      /\ \A t : Claimed(t)' <=> Claimed(t)
      /\ \A w : Holding(w)' <=> Holding(w)
      /\ \A w : Entered(w)' <=> Entered(w)
  BY DEF IsListed, Claimed, Holding, Entered
<1>3. OwnerInv'
  BY <1>2 DEF IInv, OwnerInv
<1>4. JoinInv'
  BY <1>2 DEF IInv, JoinInv
<1>5. SetInv' /\ ConflictInv'
  BY <1>2 DEF IInv, SetInv, ConflictInv
<1>6. GraphInv'
  BY DEF IInv, GraphInv, AllJoined
<1> QED
  BY <1>1, <1>3, <1>4, <1>5, <1>6 DEF IInv

LEMMA StepIInv ==
    ASSUME QueuesAssumption, IInv, [Next]_vars
    PROVE  IInv'
<1>1. CASE UNCHANGED vars
  BY <1>1, StutterIInv
<1>2. ASSUME NEW w \in Workers, Execute(w)
      PROVE  IInv'
  BY <1>2, TypeStep, OwnerStep, JoinStep, SetStep, ConflictStep, GraphStep DEF IInv
<1>3. ASSUME NEW w \in Workers, NEW t \in Txs, AddNode(w, t)
      PROVE  IInv'
  BY <1>3, AddNodeStep
<1> QED
  BY <1>1, <1>2, <1>3 DEF Next, Terminated, Worker

\* The strengthening of the properties below is an invariant of the batch, for
\* any workers and any two queues without a transaction in common.
THEOREM Invariance ==
    ASSUME QueuesAssumption
    PROVE  Spec => []IInv
BY InitIInv, StepIInv, PTL DEF Spec

\* When all workers have joined the batch, the two counters have passed the ends
\* of the queues and every transaction is listed.
LEMMA JoinedAllListed ==
    ASSUME WorkersAssumption, QueuesAssumption, IInv, AllJoined, NEW t \in Txs
    PROVE  IsListed(t)
<1>1. \A w \in Workers : at[w] = "joined"
  BY DEF AllJoined, IInv, JoinInv
<1>2. /\ TxIndex["long"] >= Len(LongTxs) /\ TxIndex["short"] >= Len(ShortTxs)
      /\ TxIndex["long"] \in Nat /\ TxIndex["short"] \in Nat
  <2>1. PICK w \in Workers : TRUE
    BY DEF WorkersAssumption, Workers
  <2> QED
    BY <1>1, <2>1, QueueFacts DEF IInv, TypeOK, JoinInv, Entered
<1>3. Claimed(t)
  <2>0. PICK q \in Queues : \E i \in 1 .. Len(Queue[q]) : Queue[q][i] = t
    BY QueueFacts
  <2>1. PICK i \in 1 .. Len(Queue[q]) : Queue[q][i] = t
    BY <2>0
  <2>2. q = "long" \/ q = "short"
    BY QueueFacts
  <2>3. Len(Queue[q]) <= TxIndex[q] /\ Len(Queue[q]) \in Nat /\ TxIndex[q] \in Nat
    BY <1>2, <2>2, QueueFacts
  <2>4. i <= TxIndex[q]
    BY <2>3
  <2> QED
    BY <2>1, <2>4 DEF Claimed
<1> QED
  BY <1>1, <1>3 DEF IInv, OwnerInv, Holding

LEMMA IInvListedOnce ==
    ASSUME WorkersAssumption, QueuesAssumption, IInv
    PROVE  ListedOnce
<1>1. ASSUME NEW t \in Txs
      PROVE  Cardinality(Listed(t)) <= 1
  <2>1. \A e, f \in Listed(t) : e = f
    BY DEF Listed, IInv, OwnerInv
  <2>2. CASE Listed(t) = {}
    BY <2>2, FS_EmptySet
  <2>3. CASE Listed(t) # {}
    <3>1. PICK e : Listed(t) = {e}
      BY <2>1, <2>3
    <3> QED
      BY <3>1, FS_Singleton
  <2> QED
    BY <2>2, <2>3
<1>2. ASSUME NEW t \in Txs, AllJoined
      PROVE  Listed(t) # {} /\ rwSet[t] # "nil"
  <2>1. IsListed(t)
    BY <1>2, JoinedAllListed
  <2>2. PICK w \in Workers : \E i \in DOMAIN ThreadRWSets[w] : ThreadRWSets[w][i] = t
    BY <2>1 DEF IsListed
  <2>3. PICK i \in DOMAIN ThreadRWSets[w] : ThreadRWSets[w][i] = t
    BY <2>2
  <2>4. <<w, i>> \in {<<w, k>> : k \in {j \in DOMAIN ThreadRWSets[w] : ThreadRWSets[w][j] = t}}
    BY <2>3
  <2>5. <<w, i>> \in Listed(t)
    BY <2>4 DEF Listed
  <2> QED
    BY <2>1, <2>5 DEF IInv, SetInv
<1> QED
  BY <1>1, <1>2 DEF ListedOnce

\* However early and formal executions of a transaction overlap, it enters the
\* lists of the workers in one place, and when the batch counts as executed every
\* transaction is listed and has the read-write set the conflict graph is built
\* from.
THEOREM EveryTransactionOnce ==
    ASSUME WorkersAssumption, QueuesAssumption
    PROVE  Spec => []ListedOnce
BY IInvListedOnce, Invariance, PTL

LEMMA IInvSetPresent ==
    ASSUME IInv
    PROVE  SetPresent
<1> SUFFICES ASSUME NEW w \in Workers, at[w] = "decide", IsRuned[tx[w]]
             PROVE  rwSet[tx[w]] # "nil"
  BY DEF SetPresent
<1>1. tx[w] \in Txs /\ \A v \in Workers : at[v] = "run" /\ tx[v] = tx[w] => v = w
  BY DEF IInv, OwnerInv, Holding
<1> QED
  BY <1>1 DEF IInv, SetInv

\* A formal worker that reads the mark of a transaction finds a read-write set to
\* look into, although mark and set are two fields without a lock and one of the
\* two writers marks before it stores.
THEOREM MarkHasSet ==
    ASSUME QueuesAssumption
    PROVE  Spec => []SetPresent
BY IInvSetPresent, Invariance, PTL

LEMMA IInvConflictsRunAgain ==
    ASSUME IInv
    PROVE  ConflictsRunAgain
<1> SUFFICES ASSUME NEW t \in Conflicting, Listed(t) # {}
             PROVE  "late" \in ran[t]
  BY DEF ConflictsRunAgain
<1>1. IsListed(t)
  BY DEF Listed, IsListed
<1>2. PICK w \in Workers : \E i \in DOMAIN ThreadRWSets[w] : ThreadRWSets[w][i] = t
  BY <1>1 DEF IsListed
<1>3. t \in Txs
  <2>1. ThreadRWSets[w] \in Seq(Txs)
    BY DEF IInv, TypeOK
  <2> QED
    BY <1>2, <2>1
<1> QED
  BY <1>1, <1>3 DEF IInv, ConflictInv

\* Whatever is executed ahead, a transaction that reads what the batch before
\* writes is listed only behind an execution that saw those writes.
THEOREM ConflictsAreRepeated ==
    ASSUME QueuesAssumption
    PROVE  Spec => []ConflictsRunAgain
BY IInvConflictsRunAgain, Invariance, PTL

\* No step but the end of an execution touches a set.
LEMMA SetKept ==
    ASSUME NEW w \in Workers, Execute(w), ~EndRunEarly(w), ~EndRun(w)
    PROVE  rwSet' = rwSet
BY ExecuteCases DEF EndBefore, FinishBefore, Mark, EnterBatch, Claim, Decide, Start,
   AppendThreadRWSets, txVars

LEMMA StepSettles ==
    ASSUME QueuesAssumption, IInv, Next, NEW t \in Txs
    PROVE  ReplacesOvertaking(t)
<1> SUFFICES ASSUME Listed(t) # {}, rwSet'[t] # rwSet[t]
             PROVE  rwSet[t] = "late" /\ rwSet'[t] = "early" /\ dagNodes[t] = {}
  BY DEF ReplacesOvertaking
<1>1. IsListed(t)
  BY DEF Listed, IsListed
<1>2. PICK w \in Workers : Execute(w)
  BY AddNodeFacts DEF Next, Terminated, Worker, vars, txVars, IInv
<1>3. dagNodes[t] = {}
  BY <1>2, NoExecuteOnceJoined DEF IInv, GraphInv, AllJoined, JoinInv
<1>4. (at[w] = "runEarly" \/ at[w] = "run") /\ Store(w)
  BY <1>2, SetKept DEF IInv, EndRunEarly, EndRun
<1>5. tx[w] \in Txs
  BY <1>4 DEF IInv, SetInv, OwnerInv, Holding
<1>6. tx[w] = t /\ rwSet'[t] = began[w]
  BY <1>4, <1>5, StoreFacts DEF IInv
<1>7. at[w] = "runEarly"
  BY <1>1, <1>4, <1>6 DEF IInv, OwnerInv, Holding
<1>8. rwSet'[t] = "early"
  BY <1>6, <1>7 DEF IInv, GraphInv
<1>9. rwSet[t] \in Times
  BY <1>1 DEF IInv, SetInv, TypeOK
<1> QED
  BY <1>3, <1>8, <1>9 DEF Times

\* What an overtaken early worker can still do to a transaction that is listed is to
\* put its own set in the place of the formal one.  No formal execution replaces
\* the set of a listed transaction, and no graph is built on a set that changes.
THEOREM SetsSettleCorrect ==
    ASSUME QueuesAssumption
    PROVE  Spec => SetsSettle
<1>1. IInv /\ [Next]_vars => [\A t \in Txs : ReplacesOvertaking(t)]_vars
  BY StepSettles
<1> QED
  BY <1>1, Invariance, PTL DEF Spec, SetsSettle
=============================================================================
