------------------------- MODULE BatchStagesProofs -------------------------
(***************************************************************************)
(* Theorems about BatchStages: what SpeculationProofs shows of the         *)
(* execution of a batch holds of it among the other stages, the batches    *)
(* that a block is cut into are exact, the independent-set solvers keep    *)
(* their promises, conflict graphs and their components are exact, and so  *)
(* are the state tables they are built from.                               *)
(***************************************************************************)
EXTENDS BatchStages, FiniteSetTheorems, FunctionTheorems, TLAPS

\* S, with its theorems.
P == INSTANCE SpeculationProofs WITH executionDone <- beforeDone

----------------------------------------------------------------------------
(* S and P are the same specification *)

LEMMA SameAssumptions == P!WorkersAssumption /\ P!QueuesAssumption
BY Assumptions DEF S!WorkersAssumption, P!WorkersAssumption, S!QueuesAssumption,
   P!QueuesAssumption, S!Txs, P!Txs

LEMMA SameInit ==
    ASSUME S!Init
    PROVE  P!Init
BY DEF S!Init, P!Init, S!Queues, P!Queues, S!Queue, P!Queue, S!Txs, P!Txs, S!Workers, P!Workers

LEMMA SameNext ==
    ASSUME S!Next
    PROVE  P!Next
<1> USE DEF S!Goto, P!Goto, S!Workers, P!Workers, S!Queue, P!Queue, S!Store, P!Store,
            S!Now, P!Now, S!batchVars, P!batchVars, S!claimVars, P!claimVars, S!txVars, P!txVars,
            S!workerVars, P!workerVars, S!NeedRun, P!NeedRun
<1>1. ASSUME NEW w \in S!Workers, S!Before(w)
      PROVE  P!Before(w)
  BY <1>1 DEF S!Before, P!Before, S!EndBefore, P!EndBefore, S!FinishBefore, P!FinishBefore
<1>2. ASSUME NEW w \in S!Workers, S!ExecuteNextBatch(w)
      PROVE  P!ExecuteNextBatch(w)
  BY <1>2 DEF S!ExecuteNextBatch, P!ExecuteNextBatch, S!GoAhead, P!GoAhead, S!StopAhead,
     P!StopAhead, S!ClaimEarly, P!ClaimEarly, S!EndRunEarly, P!EndRunEarly, S!Mark, P!Mark
<1>3. ASSUME NEW w \in S!Workers, S!ExecuteCurrentBatch(w)
      PROVE  P!ExecuteCurrentBatch(w)
  BY <1>3 DEF S!ExecuteCurrentBatch, P!ExecuteCurrentBatch, S!EnterBatch, P!EnterBatch,
     S!Claim, P!Claim, S!Decide, P!Decide, S!Start, P!Start, S!EndRun, P!EndRun,
     S!AppendThreadRWSets, P!AppendThreadRWSets
<1>4. ASSUME NEW w \in S!Workers, NEW t \in S!Txs, S!AddNode(w, t)
      PROVE  P!AddNode(w, t)
  BY <1>4 DEF S!AddNode, P!AddNode, S!AllJoined, P!AllJoined, S!Listed, P!Listed
<1>5. S!Terminated => P!Terminated
  BY DEF S!Terminated, P!Terminated, S!AllJoined, P!AllJoined, S!vars, P!vars, S!Txs, P!Txs
<1> QED
  BY <1>1, <1>2, <1>3, <1>4, <1>5 DEF S!Next, P!Next, S!Worker, P!Worker, S!Execute, P!Execute,
     S!Txs, P!Txs

----------------------------------------------------------------------------
(* The stage that executes the batch *)

\* The inductive invariant of the execution, where it is the stage looked at.
ExecuteInv == stage = "execute" => P!IInv

\* The execution of a batch keeps its inductive invariant among the stages.
THEOREM ExecuteInvariance == Spec => []ExecuteInv
<1>1. Init => ExecuteInv
  BY SameAssumptions, SameInit, P!InitIInv DEF Init, ExecuteInv
<1>2. ASSUME ExecuteInv, [Next]_vars
      PROVE  ExecuteInv'
  <2>1. CASE UNCHANGED vars
    <3>1. stage' = stage /\ UNCHANGED P!vars
      BY <2>1 DEF vars, executeVars, P!vars, P!batchVars, P!claimVars, P!txVars, P!workerVars
    <3> QED
      BY <1>2, <3>1, P!StutterIInv DEF ExecuteInv
  <2>2. CASE Next
    <3>1. stage' = stage /\ (stage = "execute" => S!Next)
      BY <2>2 DEF Next
    <3> QED
      BY <1>2, <3>1, SameAssumptions, SameNext, P!StepIInv DEF ExecuteInv
  <2> QED
    BY <1>2, <2>1, <2>2
<1> QED
  BY <1>1, <1>2, PTL DEF Spec

\* For any workers, queues and conflicts: every transaction of the executed batch
\* is listed once, with a set, a mark is never seen without its set, and what
\* reads a key that the batch before wrote has been executed since.
THEOREM ListsSettledCorrect == Spec => []ListsSettled
<1>1. ExecuteInv => ListsSettled
  <2> SUFFICES ASSUME P!IInv
               PROVE  S!ListedOnce /\ S!SetPresent /\ S!ConflictsRunAgain
    BY DEF ExecuteInv, ListsSettled
  <2>1. P!ListedOnce /\ P!SetPresent /\ P!ConflictsRunAgain
    BY SameAssumptions, P!IInvListedOnce, P!IInvSetPresent, P!IInvConflictsRunAgain
  <2>2. S!ListedOnce
    BY <2>1 DEF S!ListedOnce, P!ListedOnce, S!Listed, P!Listed, S!AllJoined, P!AllJoined,
       S!Txs, P!Txs, S!Workers, P!Workers, S!Cardinality, P!Cardinality
  <2>3. S!SetPresent
    BY <2>1 DEF S!SetPresent, P!SetPresent, S!Workers, P!Workers
  <2>4. S!ConflictsRunAgain
    BY <2>1 DEF S!ConflictsRunAgain, P!ConflictsRunAgain, S!Listed, P!Listed,
       S!Workers, P!Workers
  <2> QED
    BY <2>2, <2>3, <2>4
<1> QED
  BY <1>1, ExecuteInvariance, PTL

\* For any workers, queues and conflicts: an overtaken early execution replaces a
\* listed set at most once, and none that a graph has taken.
THEOREM SetsSettleCorrect == Spec => SetsSettle
<1>1. ASSUME ExecuteInv, [Next]_vars
      PROVE  [stage = "execute" => \A t \in S!Txs : S!ReplacesOvertaking(t)]_vars
  <2>1. ASSUME Next, stage = "execute", NEW t \in S!Txs
        PROVE  S!ReplacesOvertaking(t)
    <3>1. P!IInv /\ P!Next /\ t \in P!Txs
      BY <1>1, <2>1, SameNext DEF ExecuteInv, Next, S!Txs, P!Txs
    <3>2. P!ReplacesOvertaking(t)
      BY <3>1, SameAssumptions, P!StepSettles
    <3> QED
      BY <3>2 DEF S!ReplacesOvertaking, P!ReplacesOvertaking, S!Listed, P!Listed,
         S!Workers, P!Workers
  <2> QED
    BY <1>1, <2>1
<1> QED
  BY <1>1, ExecuteInvariance, PTL DEF Spec, SetsSettle

----------------------------------------------------------------------------
(* The stage that generates the batches                                    *)

\* How far batch b has come: it has the transactions from first to before n.
Holds(b, first, n) ==
    LET piece == first .. n - 1
    IN  /\ B!Lists(b.AllTxs, piece)
        /\ B!Lists(b.LongTxs, {t \in piece : txs[t + 1] = "long"})
        /\ B!Lists(b.ShortTxs, {t \in piece : txs[t + 1] = "short"})

\* A complete batch that is not the last one reaches a threshold, and no batch
\* exceeds one.
Fits(b) == Len(b.LongTxs) <= B!longTxThreshold /\ Len(b.AllTxs) <= B!totalTxThreshold
Full(b) == Len(b.LongTxs) = B!longTxThreshold \/ Len(b.AllTxs) = B!totalTxThreshold

\* The batch that is being filled begins after the last watermark, is counted
\* exactly and, as long as there are transactions left, has room for one.
CurrentInv ==
    LET first == B!First(Len(batches) + 1)
    IN  /\ currentBatch.ID = Len(batches)
        /\ first <= txIdx
        /\ batches # <<>> => first < Len(txs)
        /\ Holds(currentBatch, first, txIdx)
        /\ longTxCount = Len(currentBatch.LongTxs)
        /\ totalTxCount = Len(currentBatch.AllTxs)
        /\ txIdx < Len(txs) => longTxCount < B!longTxThreshold /\ totalTxCount < B!totalTxThreshold

\* The complete ones.
CompleteInv ==
    \A i \in DOMAIN batches :
        LET b == batches[i]
        IN  /\ b.ID = i - 1
            /\ B!First(i) <= b.WatermarkID
            /\ Holds(b, B!First(i), b.WatermarkID + 1)
            /\ Fits(b)
            /\ ~done \/ i # Len(batches) => Full(b)

GenerateIInv ==
    /\ B!TypeOK
    /\ CompleteInv
    /\ ~done => CurrentInv
    /\ done => txIdx = Len(txs)
    /\ done => IF batches = <<>> THEN txs = <<>>
               ELSE batches[Len(batches)].WatermarkID = Len(txs) - 1

LEMMA BatchFields ==
    ASSUME NEW b \in B!BatchType
    PROVE  /\ b.ID \in Nat /\ b.LongTxs \in Seq(Nat) /\ b.ShortTxs \in Seq(Nat)
           /\ b.AllTxs \in Seq(Nat) /\ b.WatermarkID \in Nat
BY DEF B!BatchType

LEMMA FirstNat ==
    ASSUME GenerateIInv
    PROVE  \A i \in 1 .. Len(batches) + 1 : B!First(i) \in Nat
<1>1. batches \in Seq(B!BatchType) /\ Len(batches) \in Nat
  BY DEF GenerateIInv, B!TypeOK
<1>2. ASSUME NEW i \in 1 .. Len(batches) + 1
      PROVE  B!First(i) \in Nat
  <2>1. CASE i = 1
    BY <2>1 DEF B!First
  <2>2. CASE i # 1
    <3>1. i - 1 \in 1 .. Len(batches)
      BY <1>1, <2>2
    <3>2. batches[i - 1] \in B!BatchType
      BY <1>1, <3>1
    <3>3. batches[i - 1].WatermarkID \in Nat
      BY <3>2, BatchFields
    <3> QED
      BY <2>2, <3>3 DEF B!First
  <2> QED
    BY <2>1, <2>2
<1> QED
  BY <1>2

\* One more transaction goes to the end.
LEMMA ListsAppend ==
    ASSUME NEW s \in Seq(Nat), NEW set \in SUBSET Nat, NEW n \in Nat,
           \A x \in set : x < n, B!Lists(s, set)
    PROVE  Append(s, n) \in Seq(Nat) /\ B!Lists(Append(s, n), set \cup {n})
           /\ Len(Append(s, n)) = Len(s) + 1
<1> DEFINE r == Append(s, n)
<1>0. PICK l \in Nat : l = Len(s)
  OBVIOUS
<1>1. /\ r \in Seq(Nat) /\ Len(r) = l + 1 /\ Len(s) = l
      /\ DOMAIN r = 1 .. l + 1 /\ DOMAIN s = 1 .. l
      /\ r[l + 1] = n
      /\ \A i \in 1 .. l : r[i] = s[i] /\ s[i] \in Nat
  BY <1>0
<1> HIDE DEF r
<1>2. {s[i] : i \in DOMAIN s} = set
  BY DEF B!Lists
<1>3. \A i \in 1 .. l : s[i] < n
  BY <1>1, <1>2
<1>4. ASSUME NEW i \in DOMAIN r, NEW j \in DOMAIN r, i < j
      PROVE  r[i] < r[j]
  <2>1. CASE j = l + 1
    BY <1>1, <1>3, <1>4, <2>1
  <2>2. CASE j # l + 1
    <3>1. i \in 1 .. l /\ j \in 1 .. l
      BY <1>0, <1>1, <1>4, <2>2
    <3>2. r[i] = s[i] /\ r[j] = s[j] /\ i \in DOMAIN s /\ j \in DOMAIN s
      BY <1>1, <3>1
    <3>3. s[i] < s[j]
      BY <1>4, <3>2 DEF B!Lists
    <3> QED
      BY <3>2, <3>3
  <2> QED
    BY <2>1, <2>2
<1>5. {r[i] : i \in DOMAIN r} = set \cup {n}
  <2>1. ASSUME NEW i \in DOMAIN r
        PROVE  r[i] \in set \cup {n}
    <3>1. CASE i = l + 1
      BY <1>1, <3>1
    <3>2. CASE i # l + 1
      <4>1. i \in 1 .. l
        BY <1>0, <1>1, <2>1, <3>2
      <4>2. r[i] = s[i] /\ i \in DOMAIN s
        BY <1>1, <4>1
      <4> QED
        BY <1>2, <4>2
    <3> QED
      BY <3>1, <3>2
  <2>2. ASSUME NEW x \in set \cup {n}
        PROVE  \E i \in DOMAIN r : x = r[i]
    <3>1. CASE x = n
      BY <1>1, <3>1
    <3>2. CASE x \in set
      <4>1. PICK i \in DOMAIN s : x = s[i]
        BY <1>2, <3>2
      <4> QED
        BY <1>1, <4>1
    <3> QED
      BY <3>1, <3>2
  <2> QED
    BY <2>1, <2>2
<1> QED
  BY <1>1, <1>4, <1>5 DEF B!Lists, r

LEMMA Thresholds ==
    /\ B!longTxThreshold \in Nat \ {0}
    /\ B!totalTxThreshold \in Nat \ {0}
<1> DEFINE long == CpuCores * WaterMarkAlpha
           total == CpuCores * WaterMarkBeta
<1>1. long \in Nat /\ long >= 10 /\ total \in Nat /\ total >= 10
  BY Assumptions DEF B!CoresAssumption, B!WaterMarkAssumption
<1>2. B!longTxThreshold = long \div 10 /\ B!totalTxThreshold = total \div 10
  BY DEF B!longTxThreshold, B!totalTxThreshold
<1> HIDE DEF long, total
<1>3. long \div 10 \in Nat \ {0} /\ total \div 10 \in Nat \ {0}
  BY <1>1
<1> QED
  BY <1>2, <1>3

LEMMA GenerateInit ==
    ASSUME B!Init
    PROVE  GenerateIInv
<1>1. /\ txs \in Seq(B!Kinds) /\ Len(txs) \in Nat /\ txIdx = 0 /\ batches = <<>> /\ currentBatch = B!NewBatch(0)
      /\ longTxCount = 0 /\ totalTxCount = 0 /\ done = FALSE
  <2>1. PICK n \in 0 .. MaxTxs : txs \in [1 .. n -> B!Kinds]
    BY DEF B!Init
  <2>2. n \in Nat
    BY Assumptions DEF B!MaxTxsAssumption
  <2>3. txs \in Seq(B!Kinds)
    BY <2>1, <2>2
  <2> QED
    BY <2>3 DEF B!Init
<1>2. /\ currentBatch \in B!BatchType
      /\ currentBatch.ID = 0 /\ currentBatch.AllTxs = <<>> /\ currentBatch.LongTxs = <<>>
      /\ currentBatch.ShortTxs = <<>>
  BY <1>1 DEF B!NewBatch, B!BatchType
<1>3. B!TypeOK
  <2>1. batches \in Seq(B!BatchType)
    BY <1>1
  <2>2. longTxCount \in 0 .. B!longTxThreshold /\ totalTxCount \in 0 .. B!totalTxThreshold
    BY <1>1, Thresholds
  <2>3. txIdx \in 0 .. Len(txs) /\ txs \in Seq(B!Kinds)
    BY <1>1
  <2>4. done \in BOOLEAN
    BY <1>1
  <2> QED
    BY <1>2, <2>1, <2>2, <2>3, <2>4 DEF B!TypeOK
<1>4. B!Lists(<<>>, {})
  BY DEF B!Lists
<1>5. B!First(Len(batches) + 1) = 0
  BY <1>1 DEF B!First
<1>6. Holds(currentBatch, 0, 0)
  BY <1>2, <1>4 DEF Holds
<1>7. CurrentInv
  BY <1>1, <1>2, <1>5, <1>6, Thresholds DEF CurrentInv
<1>8. CompleteInv
  BY <1>1 DEF CompleteInv
<1> QED
  BY <1>1, <1>3, <1>7, <1>8 DEF GenerateIInv

\* A batch joins the complete ones.
LEMMA CompleteAppend ==
    ASSUME GenerateIInv, ~done, NEW b \in B!BatchType, txs' = txs,
           batches' = Append(batches, b),
           b.ID = Len(batches), B!First(Len(batches) + 1) <= b.WatermarkID,
           Holds(b, B!First(Len(batches) + 1), b.WatermarkID + 1), Fits(b), done' \/ Full(b)
    PROVE  /\ batches' \in Seq(B!BatchType) /\ Len(batches') = Len(batches) + 1 /\ batches' # <<>>
           /\ B!First(Len(batches) + 1)' = b.WatermarkID + 1
           /\ batches'[Len(batches')] = b
           /\ CompleteInv'
<1> DEFINE n == Len(batches)
<1>1. /\ batches \in Seq(B!BatchType) /\ n \in Nat /\ DOMAIN batches = 1 .. n
      /\ batches' \in Seq(B!BatchType) /\ Len(batches') = n + 1 /\ DOMAIN batches' = 1 .. n + 1
      /\ batches'[n + 1] = b /\ \A i \in 1 .. n : batches'[i] = batches[i]
  BY DEF GenerateIInv, B!TypeOK
<1>2. \A i \in 1 .. n + 1 : B!First(i)' = B!First(i)
  <2>1. ASSUME NEW i \in 1 .. n + 1
        PROVE  B!First(i)' = B!First(i)
    <3>1. CASE i = 1
      BY <3>1 DEF B!First
    <3>2. CASE i # 1
      <4>1. i - 1 \in 1 .. n
        BY <1>1, <3>2
      <4> QED
        BY <1>1, <3>2, <4>1 DEF B!First
    <3> QED
      BY <3>1, <3>2
  <2> QED
    BY <2>1
<1>3. \A c, f, m : Holds(c, f, m)' = Holds(c, f, m)
  BY DEF Holds, B!Lists
<1>4. CompleteInv
  BY DEF GenerateIInv
<1> HIDE DEF n
<1>5. ASSUME NEW i \in 1 .. n + 1
      PROVE  LET c == batches'[i]
             IN  /\ c.ID = i - 1
                 /\ B!First(i) <= c.WatermarkID
                 /\ Holds(c, B!First(i), c.WatermarkID + 1)
                 /\ Fits(c)
                 /\ ~done' \/ i # n + 1 => Full(c)
  <2>1. CASE i = n + 1
    BY <1>1, <2>1 DEF n
  <2>2. CASE i # n + 1
    <3>1. i \in 1 .. n
      BY <1>1, <2>2
    <3> QED
      BY <1>1, <1>4, <3>1 DEF CompleteInv
  <2> QED
    BY <2>1, <2>2
<1>6. CompleteInv'
  BY <1>1, <1>2, <1>3, <1>5 DEF CompleteInv, Fits, Full
<1>7. B!First(Len(batches) + 1)' = b.WatermarkID + 1
  <2>1. Len(batches') + 1 # 1 /\ (Len(batches') + 1) - 1 = n + 1
    BY <1>1
  <2> QED
    BY <1>1, <2>1 DEF B!First
<1> QED
  BY <1>1, <1>6, <1>7 DEF n

\* One turn of the loop.
LEMMA AddTxKeeps ==
    ASSUME GenerateIInv, ~done, B!AddTx
    PROVE  GenerateIInv'
<1> DEFINE isLongTx == txs[txIdx + 1] = "long"
           long == IF isLongTx THEN longTxCount + 1 ELSE longTxCount
           total == totalTxCount + 1
           first == B!First(Len(batches) + 1)
           ends == B!ShouldEndBatch(long, total)
           grown == [currentBatch EXCEPT
                        !.AllTxs = Append(@, txIdx),
                        !.LongTxs = IF isLongTx THEN Append(@, txIdx) ELSE @,
                        !.ShortTxs = IF isLongTx THEN @ ELSE Append(@, txIdx),
                        !.WatermarkID = IF ends THEN txIdx ELSE @]
<1>1. /\ txIdx < Len(txs) /\ txIdx' = txIdx + 1 /\ txs' = txs /\ done' = done
      /\ IF ends /\ txIdx < Len(txs) - 1
         THEN /\ batches' = Append(batches, grown)
              /\ currentBatch' = B!NewBatch(currentBatch.ID + 1)
              /\ longTxCount' = 0
              /\ totalTxCount' = 0
         ELSE /\ currentBatch' = grown
              /\ longTxCount' = long
              /\ totalTxCount' = total
              /\ UNCHANGED batches
  BY DEF B!AddTx
<1>2. B!TypeOK /\ CompleteInv /\ CurrentInv
  BY DEF GenerateIInv
<1>3. /\ txs \in Seq(B!Kinds) /\ Len(txs) \in Nat /\ txIdx \in Nat /\ txIdx + 1 \in 0 .. Len(txs)
      /\ batches \in Seq(B!BatchType) /\ Len(batches) \in Nat
      /\ currentBatch \in B!BatchType /\ longTxCount \in Nat /\ totalTxCount \in Nat
      /\ B!longTxThreshold \in Nat \ {0} /\ B!totalTxThreshold \in Nat \ {0}
  <2>1. /\ txs \in Seq(B!Kinds) /\ txIdx \in 0 .. Len(txs) /\ batches \in Seq(B!BatchType)
        /\ currentBatch \in B!BatchType /\ longTxCount \in Nat /\ totalTxCount \in Nat
    BY <1>2 DEF B!TypeOK
  <2>2. Len(txs) \in Nat /\ Len(batches) \in Nat
    BY <2>1
  <2>3. txIdx \in Nat /\ txIdx + 1 \in 0 .. Len(txs)
    BY <1>1, <2>1, <2>2
  <2> QED
    BY <2>1, <2>2, <2>3, Thresholds
<1>4. /\ currentBatch.ID = Len(batches) /\ first <= txIdx /\ (batches # <<>> => first < Len(txs))
      /\ Holds(currentBatch, first, txIdx)
      /\ longTxCount = Len(currentBatch.LongTxs) /\ totalTxCount = Len(currentBatch.AllTxs)
      /\ longTxCount < B!longTxThreshold /\ totalTxCount < B!totalTxThreshold
  BY <1>1, <1>2 DEF CurrentInv
<1>5. first \in Nat
  <2>1. Len(batches) + 1 \in 1 .. Len(batches) + 1
    BY <1>3
  <2> QED
    BY <2>1, FirstNat
<1> HIDE DEF first
<1>6. /\ currentBatch.AllTxs \in Seq(Nat) /\ currentBatch.LongTxs \in Seq(Nat)
      /\ currentBatch.ShortTxs \in Seq(Nat) /\ currentBatch.ID \in Nat /\ currentBatch.WatermarkID \in Nat
  BY <1>3 DEF B!BatchType
<1>7. /\ grown.ID = currentBatch.ID
      /\ grown.AllTxs = Append(currentBatch.AllTxs, txIdx)
      /\ grown.LongTxs = IF isLongTx THEN Append(currentBatch.LongTxs, txIdx) ELSE currentBatch.LongTxs
      /\ grown.ShortTxs = IF isLongTx THEN currentBatch.ShortTxs ELSE Append(currentBatch.ShortTxs, txIdx)
      /\ grown.WatermarkID = IF ends THEN txIdx ELSE currentBatch.WatermarkID
      /\ (/\ Append(currentBatch.AllTxs, txIdx) \in Seq(Nat)
          /\ (isLongTx => Append(currentBatch.LongTxs, txIdx) \in Seq(Nat))
          /\ (~isLongTx => Append(currentBatch.ShortTxs, txIdx) \in Seq(Nat))
          => grown \in B!BatchType)
  BY <1>3 DEF B!BatchType
<1> HIDE DEF grown
<1> DEFINE piece == first .. txIdx - 1
           longs == {t \in piece : txs[t + 1] = "long"}
           shorts == {t \in piece : txs[t + 1] = "short"}
           later == first .. (txIdx + 1) - 1
<1>8. /\ piece \in SUBSET Nat /\ longs \in SUBSET Nat /\ shorts \in SUBSET Nat
      /\ (\A x \in piece : x < txIdx) /\ (\A x \in longs : x < txIdx) /\ (\A x \in shorts : x < txIdx)
      /\ later = piece \cup {txIdx}
      /\ {t \in later : txs[t + 1] = "long"} = IF isLongTx THEN longs \cup {txIdx} ELSE longs
      /\ {t \in later : txs[t + 1] = "short"} = IF isLongTx THEN shorts ELSE shorts \cup {txIdx}
  <2>1. txs[txIdx + 1] \in B!Kinds
    BY <1>1, <1>3
  <2>2. later = piece \cup {txIdx}
    BY <1>3, <1>4, <1>5
  <2>3. piece \in SUBSET Nat /\ \A x \in piece : x < txIdx
    BY <1>3, <1>5
  <2> HIDE DEF piece, later
  <2>4. isLongTx <=> txs[txIdx + 1] # "short"
    BY <2>1 DEF B!Kinds
  <2>5. {t \in later : txs[t + 1] = "long"} = IF isLongTx THEN longs \cup {txIdx} ELSE longs
    BY <2>2
  <2>6. {t \in later : txs[t + 1] = "short"} = IF isLongTx THEN shorts ELSE shorts \cup {txIdx}
    BY <2>2, <2>4
  <2> QED
    BY <2>2, <2>3, <2>5, <2>6
<1>9. /\ B!Lists(currentBatch.AllTxs, piece) /\ B!Lists(currentBatch.LongTxs, longs)
      /\ B!Lists(currentBatch.ShortTxs, shorts)
  BY <1>4 DEF Holds
<1>10. /\ grown.AllTxs \in Seq(Nat) /\ grown.LongTxs \in Seq(Nat) /\ grown.ShortTxs \in Seq(Nat)
       /\ Len(grown.AllTxs) = total /\ Len(grown.LongTxs) = long
       /\ Holds(grown, first, txIdx + 1)
  <2> HIDE DEF piece, longs, shorts
  <2>0. ASSUME NEW s \in Seq(Nat), NEW set \in SUBSET Nat, \A x \in set : x < txIdx, B!Lists(s, set)
        PROVE  /\ Append(s, txIdx) \in Seq(Nat) /\ Len(Append(s, txIdx)) = Len(s) + 1
               /\ B!Lists(Append(s, txIdx), set \cup {txIdx})
    BY <1>3, <2>0, ListsAppend
  <2>1. /\ grown.AllTxs \in Seq(Nat) /\ Len(grown.AllTxs) = total
        /\ B!Lists(grown.AllTxs, piece \cup {txIdx})
    <3> DEFINE s == currentBatch.AllTxs
    <3>1. s \in Seq(Nat) /\ Len(s) = totalTxCount /\ B!Lists(s, piece)
      BY <1>4, <1>6, <1>9
    <3>2. grown.AllTxs = Append(s, txIdx)
      BY <1>7
    <3> HIDE DEF s
    <3>3. /\ Append(s, txIdx) \in Seq(Nat) /\ Len(Append(s, txIdx)) = Len(s) + 1
          /\ B!Lists(Append(s, txIdx), piece \cup {txIdx})
      BY <1>8, <2>0, <3>1
    <3> QED
      BY <3>1, <3>2, <3>3
  <2>2. CASE isLongTx
    <3>1. /\ grown.LongTxs \in Seq(Nat) /\ Len(grown.LongTxs) = long
          /\ B!Lists(grown.LongTxs, longs \cup {txIdx})
      <4> DEFINE s == currentBatch.LongTxs
      <4>1. s \in Seq(Nat) /\ Len(s) = longTxCount /\ B!Lists(s, longs)
        BY <1>4, <1>6, <1>9
      <4>2. grown.LongTxs = Append(s, txIdx)
        BY <1>7, <2>2
      <4> HIDE DEF s
      <4>3. /\ Append(s, txIdx) \in Seq(Nat) /\ Len(Append(s, txIdx)) = Len(s) + 1
            /\ B!Lists(Append(s, txIdx), longs \cup {txIdx})
        BY <1>8, <2>0, <4>1
      <4> QED
        BY <2>2, <4>1, <4>2, <4>3
    <3>2. grown.ShortTxs \in Seq(Nat) /\ B!Lists(grown.ShortTxs, shorts)
      BY <1>6, <1>7, <1>9, <2>2
    <3> QED
      BY <1>8, <2>1, <2>2, <3>1, <3>2 DEF Holds
  <2>3. CASE ~isLongTx
    <3>1. grown.ShortTxs \in Seq(Nat) /\ B!Lists(grown.ShortTxs, shorts \cup {txIdx})
      <4> DEFINE s == currentBatch.ShortTxs
      <4>1. s \in Seq(Nat) /\ B!Lists(s, shorts)
        BY <1>6, <1>9
      <4>2. grown.ShortTxs = Append(s, txIdx)
        BY <1>7, <2>3
      <4> HIDE DEF s
      <4>3. /\ Append(s, txIdx) \in Seq(Nat)
            /\ B!Lists(Append(s, txIdx), shorts \cup {txIdx})
        BY <1>8, <2>0, <4>1
      <4> QED
        BY <4>2, <4>3
    <3>2. /\ grown.LongTxs \in Seq(Nat) /\ Len(grown.LongTxs) = long
          /\ B!Lists(grown.LongTxs, longs)
      BY <1>4, <1>6, <1>7, <1>9, <2>3
    <3> QED
      BY <1>8, <2>1, <2>3, <3>1, <3>2 DEF Holds
  <2> QED
    BY <2>2, <2>3
<1> HIDE DEF piece, longs, shorts, later
<1>11. long \in Nat /\ long <= B!longTxThreshold /\ total \in Nat /\ total <= B!totalTxThreshold
  BY <1>3, <1>4
<1>12. ends <=> long = B!longTxThreshold \/ total = B!totalTxThreshold
  BY <1>3, <1>11 DEF B!ShouldEndBatch
<1> HIDE DEF long, total
<1>13. grown \in B!BatchType
  BY <1>3, <1>6, <1>7, <1>10 DEF B!BatchType
<1>14. \A c, f, m : Holds(c, f, m)' = Holds(c, f, m)
  BY <1>1 DEF Holds, B!Lists
<1>15. CASE ends /\ txIdx < Len(txs) - 1
  <2>1. /\ batches' = Append(batches, grown) /\ currentBatch' = B!NewBatch(currentBatch.ID + 1)
        /\ longTxCount' = 0 /\ totalTxCount' = 0
    BY <1>1, <1>15
  <2>2. /\ grown.ID = Len(batches) /\ grown.WatermarkID = txIdx
        /\ Fits(grown) /\ Full(grown)
    BY <1>4, <1>7, <1>10, <1>11, <1>12, <1>15 DEF Fits, Full
  <2>3. /\ batches' \in Seq(B!BatchType) /\ Len(batches') = Len(batches) + 1 /\ batches' # <<>>
        /\ B!First(Len(batches) + 1)' = txIdx + 1
        /\ CompleteInv'
    BY <1>1, <1>4, <1>10, <1>13, <2>1, <2>2, CompleteAppend DEF first
  <2>4. /\ currentBatch' \in B!BatchType /\ currentBatch'.ID = Len(batches')
        /\ currentBatch'.AllTxs = <<>> /\ currentBatch'.LongTxs = <<>> /\ currentBatch'.ShortTxs = <<>>
    BY <1>4, <1>6, <2>1, <2>3 DEF B!NewBatch, B!BatchType
  <2>5. B!TypeOK'
    <3>1. longTxCount' \in 0 .. B!longTxThreshold /\ totalTxCount' \in 0 .. B!totalTxThreshold
      BY <1>3, <2>1
    <3>2. done \in BOOLEAN
      BY <1>2 DEF B!TypeOK
    <3> QED
      BY <1>1, <1>3, <2>3, <2>4, <3>1, <3>2 DEF B!TypeOK
  <2>6. Holds(currentBatch', txIdx + 1, txIdx + 1)
    <3>1. txIdx + 1 .. (txIdx + 1) - 1 = {}
      BY <1>3
    <3>2. B!Lists(<<>>, {})
      BY DEF B!Lists
    <3> QED
      BY <2>4, <3>1, <3>2 DEF Holds
  <2>7. CurrentInv'
    BY <1>1, <1>3, <1>14, <1>15, <2>1, <2>3, <2>4, <2>6 DEF CurrentInv
  <2> QED
    BY <1>1, <2>3, <2>5, <2>7 DEF GenerateIInv
<1>16. CASE ~(ends /\ txIdx < Len(txs) - 1)
  <2>1. currentBatch' = grown /\ longTxCount' = long /\ totalTxCount' = total /\ batches' = batches
    BY <1>1, <1>16
  <2>2. B!TypeOK'
    <3>1. longTxCount' \in 0 .. B!longTxThreshold /\ totalTxCount' \in 0 .. B!totalTxThreshold
      BY <1>11, <2>1
    <3>2. done \in BOOLEAN
      BY <1>2 DEF B!TypeOK
    <3> QED
      BY <1>1, <1>3, <1>13, <2>1, <3>1, <3>2 DEF B!TypeOK
  <2>3. B!First(Len(batches) + 1)' = first
    BY <2>1 DEF B!First, first
  <2>4. CompleteInv'
    BY <1>1, <1>2, <2>1, <1>14 DEF CompleteInv, B!First, Fits, Full
  <2>5. txIdx + 1 < Len(txs) => long < B!longTxThreshold /\ total < B!totalTxThreshold
    BY <1>3, <1>11, <1>12, <1>16
  <2>6. CurrentInv'
    <3>1. /\ currentBatch'.ID = Len(batches') /\ first <= txIdx' /\ (batches' # <<>> => first < Len(txs'))
      BY <1>1, <1>3, <1>4, <1>5, <1>7, <2>1
    <3>2. longTxCount' = Len(currentBatch'.LongTxs) /\ totalTxCount' = Len(currentBatch'.AllTxs)
      BY <1>10, <2>1
    <3>3. Holds(currentBatch', first, txIdx')
      BY <1>1, <1>10, <2>1
    <3>4. txIdx' < Len(txs') => longTxCount' < B!longTxThreshold /\ totalTxCount' < B!totalTxThreshold
      BY <1>1, <2>1, <2>5
    <3> QED
      BY <1>14, <2>3, <3>1, <3>2, <3>3, <3>4 DEF CurrentInv
  <2> QED
    BY <1>1, <2>2, <2>4, <2>6 DEF GenerateIInv
<1> QED
  BY <1>15, <1>16

\* The last batch ends with the block.
LEMMA AddLastBatchKeeps ==
    ASSUME GenerateIInv, ~done, B!AddLastBatch
    PROVE  GenerateIInv'
<1> DEFINE first == B!First(Len(batches) + 1)
           last == [currentBatch EXCEPT !.WatermarkID = Len(txs) - 1]
<1>1. /\ txIdx = Len(txs) /\ done' = TRUE
      /\ UNCHANGED <<txs, txIdx, currentBatch, longTxCount, totalTxCount>>
      /\ batches' = IF currentBatch.AllTxs # <<>> THEN Append(batches, last) ELSE batches
  BY DEF B!AddLastBatch
<1>2. B!TypeOK /\ CompleteInv /\ CurrentInv
  BY DEF GenerateIInv
<1>3. /\ txs \in Seq(B!Kinds) /\ Len(txs) \in Nat /\ batches \in Seq(B!BatchType) /\ Len(batches) \in Nat
      /\ currentBatch \in B!BatchType /\ currentBatch.AllTxs \in Seq(Nat)
      /\ longTxCount \in 0 .. B!longTxThreshold /\ totalTxCount \in 0 .. B!totalTxThreshold
  BY <1>2 DEF B!TypeOK, B!BatchType
<1>4. /\ currentBatch.ID = Len(batches) /\ first <= Len(txs) /\ (batches # <<>> => first < Len(txs))
      /\ Holds(currentBatch, first, Len(txs))
      /\ longTxCount = Len(currentBatch.LongTxs) /\ totalTxCount = Len(currentBatch.AllTxs)
  BY <1>1, <1>2 DEF CurrentInv
<1>5. first \in Nat
  <2>1. Len(batches) + 1 \in 1 .. Len(batches) + 1
    BY <1>3
  <2> QED
    BY <2>1, FirstNat
<1> HIDE DEF first
<1>6. {currentBatch.AllTxs[i] : i \in DOMAIN currentBatch.AllTxs} = first .. Len(txs) - 1
  BY <1>4 DEF Holds, B!Lists
<1>7. CASE currentBatch.AllTxs # <<>>
  <2>1. first < Len(txs)
    <3>1. 1 \in DOMAIN currentBatch.AllTxs
      BY <1>3, <1>7
    <3>2. currentBatch.AllTxs[1] \in first .. Len(txs) - 1
      BY <1>6, <3>1
    <3> QED
      BY <1>3, <1>5, <3>2
  <2>2. /\ last.ID = currentBatch.ID /\ last.AllTxs = currentBatch.AllTxs
        /\ last.LongTxs = currentBatch.LongTxs /\ last.ShortTxs = currentBatch.ShortTxs
        /\ last.WatermarkID = Len(txs) - 1 /\ last \in B!BatchType
    <3>1. Len(txs) - 1 \in Nat
      BY <1>3, <1>5, <2>1
    <3> QED
      BY <1>3, <3>1 DEF B!BatchType
  <2> HIDE DEF last
  <2>3. Holds(last, first, last.WatermarkID + 1)
    <3>1. last.WatermarkID + 1 = Len(txs)
      BY <1>3, <2>2
    <3> QED
      BY <1>4, <2>2, <3>1 DEF Holds
  <2>4. Fits(last)
    BY <1>3, <1>4, <2>2, Thresholds DEF Fits
  <2>5. first <= last.WatermarkID
    BY <1>3, <1>5, <2>1, <2>2
  <2>6. batches' = Append(batches, last)
    BY <1>1, <1>7
  <2>7. /\ batches' \in Seq(B!BatchType) /\ batches' # <<>> /\ batches'[Len(batches')] = last
        /\ CompleteInv'
    BY <1>1, <1>4, <2>2, <2>3, <2>4, <2>5, <2>6, CompleteAppend DEF first
  <2>8. B!TypeOK'
    BY <1>1, <1>2, <2>7 DEF B!TypeOK
  <2> QED
    BY <1>1, <2>2, <2>7, <2>8 DEF GenerateIInv
<1>8. CASE currentBatch.AllTxs = <<>>
  <2>1. batches' = batches
    BY <1>1, <1>8
  <2>2. first = Len(txs)
    <3>1. first .. Len(txs) - 1 = {}
      BY <1>6, <1>8
    <3>2. ~(first < Len(txs))
      <4>1. ASSUME first < Len(txs)
            PROVE  FALSE
        <5>1. first \in first .. Len(txs) - 1
          BY <1>3, <1>5, <4>1
        <5> QED
          BY <3>1, <5>1
      <4> QED
        BY <4>1
    <3> QED
      BY <1>3, <1>4, <1>5, <3>2
  <2>3. batches = <<>> /\ txs = <<>>
    <3>1. batches = <<>>
      BY <1>3, <1>4, <2>2
    <3>2. Len(txs) = 0
      BY <2>2, <3>1 DEF first, B!First
    <3> QED
      BY <1>3, <3>1, <3>2
  <2>4. CompleteInv'
    BY <2>1, <2>3 DEF CompleteInv
  <2>5. B!TypeOK'
    BY <1>1, <1>2, <2>1 DEF B!TypeOK
  <2> QED
    BY <1>1, <2>1, <2>3, <2>4, <2>5 DEF GenerateIInv
<1> QED
  BY <1>7, <1>8

LEMMA GenerateStutter ==
    ASSUME GenerateIInv, UNCHANGED B!vars
    PROVE  GenerateIInv'
<1>1. UNCHANGED <<txs, txIdx, batches, currentBatch, longTxCount, totalTxCount, done>>
  BY DEF B!vars
<1>2. B!TypeOK'
  BY <1>1 DEF GenerateIInv, B!TypeOK
<1>3. (\A c, f, m : Holds(c, f, m)' = Holds(c, f, m)) /\ (\A i : B!First(i)' = B!First(i))
  BY <1>1 DEF Holds, B!Lists, B!First
<1>4. CompleteInv'
  BY <1>1, <1>3 DEF GenerateIInv, CompleteInv, Fits, Full
<1>5. ~done => CurrentInv'
  BY <1>1, <1>3 DEF GenerateIInv, CurrentInv
<1> QED
  BY <1>1, <1>2, <1>4, <1>5 DEF GenerateIInv

\* The inductive invariant of the generation, where it is the stage looked at.
GenerateInv == stage = "generate" => GenerateIInv

\* The batch being filled is counted exactly, whatever the block and the
\* thresholds are.
THEOREM GenerateInvariance == Spec => []GenerateInv
<1>1. Init => GenerateInv
  BY GenerateInit DEF Init, GenerateInv
<1>2. ASSUME GenerateInv, [Next]_vars
      PROVE  GenerateInv'
  <2>1. CASE UNCHANGED vars
    <3>1. stage' = stage /\ UNCHANGED B!vars
      BY <2>1 DEF vars, generateVars, B!vars
    <3> QED
      BY <1>2, <3>1, GenerateStutter DEF GenerateInv
  <2>2. CASE Next
    <3>1. stage' = stage /\ (stage = "generate" => B!Next)
      BY <2>2 DEF Next
    <3>2. SUFFICES ASSUME stage = "generate"
                   PROVE  GenerateIInv'
      BY <3>1 DEF GenerateInv
    <3>3. GenerateIInv
      BY <1>2, <3>2 DEF GenerateInv
    <3>4. CASE B!AddTx
      <4>1. ~done
        BY <3>3, <3>4 DEF B!AddTx, GenerateIInv, B!TypeOK
      <4> QED
        BY <3>3, <3>4, <4>1, AddTxKeeps DEF B!AddTx
    <3>5. CASE B!AddLastBatch
      BY <3>3, <3>5, AddLastBatchKeeps DEF B!AddLastBatch
    <3>6. CASE B!Terminated
      BY <3>3, <3>6, GenerateStutter DEF B!Terminated
    <3> QED
      BY <3>1, <3>2, <3>4, <3>5, <3>6 DEF B!Next
  <2> QED
    BY <1>2, <2>1, <2>2
<1> QED
  BY <1>1, <1>2, PTL DEF Spec

\* For any block and any thresholds: the watermarks cut the block into
\* consecutive pieces, each in its batch in block order and by its kind, no
\* batch exceeds a threshold and only the last one may fall short of both.
THEOREM BatchesExactCorrect == Spec => []BatchesExact
<1>1. GenerateInv => BatchesExact
  <2> SUFFICES ASSUME GenerateIInv
               PROVE  B!WatermarksCut /\ B!BatchesFull
    BY DEF GenerateInv, BatchesExact
  <2>1. B!TypeOK /\ CompleteInv
    BY DEF GenerateIInv
  <2>2. ASSUME NEW i \in DOMAIN batches
        PROVE  /\ batches[i].ID = i - 1
               /\ B!First(i) .. batches[i].WatermarkID # {}
               /\ B!Lists(batches[i].AllTxs, B!First(i) .. batches[i].WatermarkID)
               /\ B!Lists(batches[i].LongTxs,
                          {t \in B!First(i) .. batches[i].WatermarkID : txs[t + 1] = "long"})
               /\ B!Lists(batches[i].ShortTxs,
                          {t \in B!First(i) .. batches[i].WatermarkID : txs[t + 1] = "short"})
               /\ Fits(batches[i])
               /\ Full(batches[i]) \/ (done /\ i = Len(batches))
    <3> DEFINE b == batches[i]
               first == B!First(i)
    <3>1. /\ b.ID = i - 1 /\ first <= b.WatermarkID /\ Holds(b, first, b.WatermarkID + 1)
          /\ Fits(b) /\ (~done \/ i # Len(batches) => Full(b))
      BY <2>1 DEF CompleteInv
    <3>2. b.WatermarkID \in Nat /\ first \in Nat
      <4>1. /\ batches \in Seq(B!BatchType) /\ i \in 1 .. Len(batches) /\ Len(batches) \in Nat
        BY <2>1 DEF B!TypeOK
      <4>2. b.WatermarkID \in Nat
        BY <4>1, BatchFields
      <4> QED
        BY <4>1, <4>2, FirstNat
    <3> HIDE DEF b, first
    <3>3. (b.WatermarkID + 1) - 1 = b.WatermarkID
      BY <3>2
    <3>4. first \in first .. b.WatermarkID
      BY <3>1, <3>2
    <3> QED
      BY <3>1, <3>3, <3>4 DEF Holds, b, first
  <2>3. B!WatermarksCut
    BY <2>2 DEF B!WatermarksCut, GenerateIInv
  <2>4. B!BatchesFull
    BY <2>2 DEF B!BatchesFull, Fits, Full
  <2> QED
    BY <2>3, <2>4
<1> QED
  BY <1>1, GenerateInvariance, PTL

-----------------------------------------------------------------------------
(* The stage that takes independent sets                                   *)

LEMMA LeastOf ==
    ASSUME NEW U \in SUBSET Nat, U # {}
    PROVE  \E m \in U : \A x \in U : m <= x
<1>1. IsWellFoundedOn(OpToRel(<, Nat), Nat)
  BY NatLessThanWellFounded, Zenon
<1>2. PICK m \in U : \A y \in Nat : <<y, m>> \in OpToRel(<, Nat) => ~(y \in U)
  BY <1>1, WFMin, Zenon
<1>3. ASSUME NEW x \in U
      PROVE  m <= x
  <2>1. x \in Nat /\ m \in Nat
    OBVIOUS
  <2>2. ~(<<x, m>> \in OpToRel(<, Nat))
    BY <1>2, <2>1
  <2>3. ~(x < m)
    BY <2>1, <2>2, Zenon DEF OpToRel
  <2> QED
    BY <2>1, <2>3
<1> QED
  BY <1>3

LEMMA GreatestOf ==
    ASSUME NEW n \in Nat, NEW U \in SUBSET (0 .. n), U # {}
    PROVE  \E m \in U : \A x \in U : x <= m
<1> DEFINE R == {y \in Nat : \E x \in U : y = n - x}
<1>1. PICK x0 \in U : TRUE
  OBVIOUS
<1>2. n - x0 \in R
  OBVIOUS
<1>3. R \in SUBSET Nat /\ R # {}
  BY <1>2
<1> HIDE DEF R
<1>4. PICK m \in R : \A y \in R : m <= y
  BY <1>3, LeastOf
<1>5. PICK x \in U : m = n - x
  BY DEF R
<1>6. ASSUME NEW y \in U
      PROVE  y <= x
  <2>1. n - y \in R
    BY DEF R
  <2>2. n - x <= n - y
    BY <1>4, <1>5, <2>1
  <2> QED
    BY <2>2
<1> QED
  BY <1>6

LEMMA AllNumbers ==
    ASSUME NEW U \in SUBSET Nat, 0 \in U, \A m \in U : m + 1 \in U
    PROVE  U = Nat
<1>1. SUFFICES ASSUME Nat \ U # {}
               PROVE  FALSE
  OBVIOUS
<1>2. PICK m \in Nat \ U : \A x \in Nat \ U : m <= x
  BY <1>1, LeastOf
<1>3. m - 1 \in Nat /\ m - 1 \in U
  BY <1>2
<1> QED
  BY <1>2, <1>3

\* A list may be defined step by step.
Follows(g, n, start, step) == g[0] = start /\ \A i \in 1 .. n : g[i] = step[<<i, g[i - 1]>>]

LEMMA StepByStep ==
    ASSUME NEW Values, NEW n \in Nat, NEW start \in Values,
           NEW step \in [(1 .. n) \X Values -> Values]
    PROVE  \E g \in [0 .. n -> Values] : Follows(g, n, start, step)
<1> DEFINE Upto(m) == \E g \in [0 .. m -> Values] :
                          g[0] = start /\ \A i \in 1 .. m : g[i] = step[<<i, g[i - 1]>>]
           U == {m \in Nat : m <= n => Upto(m)}
<1>1. 0 \in U
  <2>1. [i \in 0 .. 0 |-> start] \in [0 .. 0 -> Values] /\ [i \in 0 .. 0 |-> start][0] = start
    OBVIOUS
  <2>2. \A i \in 1 .. 0 : FALSE
    OBVIOUS
  <2> QED
    BY <2>1, <2>2
<1>2. ASSUME NEW m \in U
      PROVE  m + 1 \in U
  <2>1. SUFFICES ASSUME m + 1 <= n
                 PROVE  Upto(m + 1)
    BY <1>2
  <2>2. PICK g \in [0 .. m -> Values] : g[0] = start /\ \A i \in 1 .. m : g[i] = step[<<i, g[i - 1]>>]
    BY <2>1
  <2> DEFINE last == step[<<m + 1, g[m]>>]
             h == [i \in 0 .. m + 1 |-> IF i <= m THEN g[i] ELSE last]
  <2>3. <<m + 1, g[m]>> \in (1 .. n) \X Values
    BY <2>1
  <2>4. last \in Values /\ last = step[<<m + 1, g[m]>>]
    BY <2>3
  <2> HIDE DEF last
  <2>5. h \in [0 .. m + 1 -> Values] /\ h[0] = start /\ h[m + 1] = last
        /\ \A i \in 0 .. m : h[i] = g[i]
    BY <2>2, <2>4
  <2> HIDE DEF h
  <2>6. ASSUME NEW i \in 1 .. m + 1
        PROVE  h[i] = step[<<i, h[i - 1]>>]
    <3>1. CASE i = m + 1
      <4>1. i - 1 = m /\ m \in 0 .. m
        BY <3>1
      <4>2. h[i - 1] = g[m] /\ h[i] = last
        BY <2>5, <3>1, <4>1
      <4> QED
        BY <2>4, <3>1, <4>2
    <3>2. CASE i # m + 1
      <4>1. i \in 1 .. m /\ i - 1 \in 0 .. m
        BY <3>2
      <4>2. h[i] = g[i] /\ h[i - 1] = g[i - 1]
        BY <2>5, <4>1
      <4> QED
        BY <2>2, <4>1, <4>2
    <3> QED
      BY <3>1, <3>2
  <2> QED
    BY <2>5, <2>6
<1> HIDE DEF Upto
<1>3. U = Nat
  BY <1>1, <1>2, AllNumbers
<1>4. Upto(n)
  BY <1>3
<1> QED
  BY <1>4 DEF Upto, Follows

\* Induction on a depth.
LEMMA DepthInduction ==
    ASSUME NEW D, NEW depth \in [D -> Nat], NEW U,
           \A d \in D : (\A e \in D : depth[e] < depth[d] => e \in U) => d \in U
    PROVE  \A d \in D : d \in U
<1> DEFINE R == {n \in Nat : \E d \in D : d \notin U /\ depth[d] = n}
<1> SUFFICES ASSUME NEW d0 \in D, d0 \notin U
             PROVE  FALSE
  OBVIOUS
<1>1. R \in SUBSET Nat /\ depth[d0] \in R
  OBVIOUS
<1>2. PICK n \in R : \A m \in R : n <= m
  BY <1>1, LeastOf
<1>3. PICK d \in D : d \notin U /\ depth[d] = n
  OBVIOUS
<1>4. ASSUME NEW e \in D, depth[e] < depth[d]
      PROVE  e \in U
  <2>1. depth[e] \in Nat /\ n \in Nat /\ ~(n <= depth[e])
    BY <1>3, <1>4
  <2> QED
    BY <1>2, <2>1
<1> QED
  BY <1>3, <1>4

\* A function may be defined by recursion on a depth: step says what its value
\* is at an element and asks only for the values at elements of less depth.
AsksBelow(D, depth, F, step) ==
    \A d \in D : \A f, g \in F :
        (\A e \in D : depth[e] < depth[d] => f[e] = g[e]) => step[<<d, f>>] = step[<<d, g>>]

Recursion(D, Values, bound, depth, step) ==
    /\ Values # {}
    /\ bound \in Nat
    /\ depth \in [D -> 0 .. bound]
    /\ step \in [D \X [D -> Values] -> Values]
    /\ AsksBelow(D, depth, [D -> Values], step)

Solvable(D, Values, step) == \E f \in [D -> Values] : \A d \in D : f[d] = step[<<d, f>>]

LEMMA RecursionByDepth ==
    ASSUME NEW D, NEW Values, NEW bound, NEW depth, NEW step,
           Recursion(D, Values, bound, depth, step)
    PROVE  Solvable(D, Values, step)
<1>0. /\ Values # {} /\ bound \in Nat /\ depth \in [D -> 0 .. bound]
      /\ step \in [D \X [D -> Values] -> Values] /\ AsksBelow(D, depth, [D -> Values], step)
  BY DEF Recursion
<1> USE <1>0
<1> DEFINE F == [D -> Values]
           n == bound + 2
           next == [p \in (1 .. n) \X F |-> [d \in D |-> step[<<d, p[2]>>]]]
<1>1. PICK start \in F : TRUE
  <2>1. PICK v \in Values : TRUE
    OBVIOUS
  <2>2. [d \in D |-> v] \in F
    OBVIOUS
  <2> QED
    BY <2>2
<1>2. next \in [(1 .. n) \X F -> F]
  OBVIOUS
<1>3. \A i \in 1 .. n : \A f \in F : next[<<i, f>>] = [d \in D |-> step[<<d, f>>]]
  OBVIOUS
<1>4. n \in Nat
  OBVIOUS
<1> HIDE DEF F, next, n
<1>5. PICK g \in [0 .. n -> F] : Follows(g, n, start, next)
  BY <1>1, <1>2, <1>4, StepByStep
<1>6. ASSUME NEW i \in 1 .. n, NEW d \in D
      PROVE  g[i - 1] \in F /\ g[i] \in F /\ g[i][d] = step[<<d, g[i - 1]>>]
  <2>1. i - 1 \in 0 .. n /\ i \in 0 .. n
    BY <1>4
  <2>2. g[i] = next[<<i, g[i - 1]>>]
    BY <1>5 DEF Follows
  <2>3. g[i] = [e \in D |-> step[<<e, g[i - 1]>>]]
    BY <1>3, <2>1, <2>2
  <2> QED
    BY <2>1, <2>3
<1> DEFINE Settled == {d \in D : \A i, j \in 1 .. n : depth[d] < i /\ depth[d] < j => g[i][d] = g[j][d]}
<1>7. \A d \in D : d \in Settled
  <2>1. ASSUME NEW d \in D, \A e \in D : depth[e] < depth[d] => e \in Settled
        PROVE  d \in Settled
    <3> SUFFICES ASSUME NEW i \in 1 .. n, NEW j \in 1 .. n, depth[d] < i, depth[d] < j
                 PROVE  g[i][d] = g[j][d]
      OBVIOUS
    <3>1. ASSUME NEW e \in D, depth[e] < depth[d]
          PROVE  g[i - 1][e] = g[j - 1][e]
      <4>1. depth[e] \in Nat /\ depth[d] \in Nat
        OBVIOUS
      <4>2. i - 1 \in 1 .. n /\ j - 1 \in 1 .. n /\ depth[e] < i - 1 /\ depth[e] < j - 1
        BY <1>4, <3>1, <4>1
      <4> QED
        BY <2>1, <3>1, <4>2
    <3>2. step[<<d, g[i - 1]>>] = step[<<d, g[j - 1]>>]
      BY <1>6, <3>1 DEF AsksBelow, F
    <3> QED
      BY <1>6, <3>2
  <2>2. depth \in [D -> Nat]
    OBVIOUS
  <2> HIDE DEF Settled
  <2> QED
    BY <2>1, <2>2, DepthInduction
<1>8. n \in 1 .. n /\ n - 1 \in 1 .. n
  BY DEF n
<1>9. ASSUME NEW d \in D
      PROVE  g[n][d] = step[<<d, g[n]>>]
  <2>1. ASSUME NEW e \in D, depth[e] < depth[d]
        PROVE  g[n - 1][e] = g[n][e]
    <3>1. depth[e] < n - 1 /\ depth[e] < n
      BY <2>1 DEF n
    <3> QED
      BY <1>7, <1>8, <3>1
  <2>2. g[n] \in F /\ g[n - 1] \in F
    BY <1>6, <1>8
  <2>3. step[<<d, g[n - 1]>>] = step[<<d, g[n]>>]
    BY <2>1, <2>2 DEF AsksBelow, F
  <2> QED
    BY <1>6, <1>8, <2>3
<1> QED
  BY <1>6, <1>8, <1>9 DEF F, Solvable

\* The same for the subsets of a finite set, which have fewer elements.
LEMMA SubsetInduction ==
    ASSUME NEW X, IsFiniteSet(X), NEW U,
           \A s \in SUBSET X : (\A t \in (SUBSET s) \ {s} : t \in U) => s \in U
    PROVE  \A s \in SUBSET X : s \in U
<1> DEFINE card == [s \in SUBSET X |-> Cardinality(s)]
<1>1. \A s \in SUBSET X : IsFiniteSet(s) /\ Cardinality(s) \in Nat
  BY FS_Subset, FS_CardinalityType
<1>2. card \in [SUBSET X -> Nat] /\ \A s \in SUBSET X : card[s] = Cardinality(s)
  BY <1>1
<1>3. ASSUME NEW s \in SUBSET X, \A t \in SUBSET X : card[t] < card[s] => t \in U
      PROVE  s \in U
  <2>1. ASSUME NEW t \in (SUBSET s) \ {s}
        PROVE  t \in U
    <3>1. Cardinality(t) <= Cardinality(s) /\ Cardinality(t) # Cardinality(s)
      BY <1>1, FS_Subset
    <3>2. t \in SUBSET X /\ card[t] < card[s]
      BY <1>1, <1>2, <3>1
    <3> QED
      BY <1>3, <3>2
  <2> QED
    BY <2>1
<1> HIDE DEF card
<1> QED
  BY <1>2, <1>3, DepthInduction

AsksSubsets(X, F, step) ==
    \A s \in SUBSET X : \A f, g \in F :
        (\A t \in (SUBSET s) \ {s} : f[t] = g[t]) => step[<<s, f>>] = step[<<s, g>>]

LEMMA SubsetRecursion ==
    ASSUME NEW X, IsFiniteSet(X), NEW Values, Values # {},
           NEW step \in [(SUBSET X) \X [SUBSET X -> Values] -> Values],
           AsksSubsets(X, [SUBSET X -> Values], step)
    PROVE  Solvable(SUBSET X, Values, step)
<1> DEFINE card == [s \in SUBSET X |-> Cardinality(s)]
<1>1. \A s \in SUBSET X : IsFiniteSet(s) /\ Cardinality(s) \in 0 .. Cardinality(X)
  <2> SUFFICES ASSUME NEW s \in SUBSET X
               PROVE  IsFiniteSet(s) /\ Cardinality(s) \in 0 .. Cardinality(X)
    OBVIOUS
  <2>1. IsFiniteSet(s) /\ Cardinality(s) <= Cardinality(X)
    BY FS_Subset
  <2>2. Cardinality(s) \in Nat /\ Cardinality(X) \in Nat
    BY <2>1, FS_CardinalityType
  <2> QED
    BY <2>1, <2>2
<1>2. Cardinality(X) \in Nat
  BY FS_CardinalityType
<1>3. card \in [SUBSET X -> 0 .. Cardinality(X)] /\ \A s \in SUBSET X : card[s] = Cardinality(s)
  BY <1>1
<1> HIDE DEF card
<1>4. AsksBelow(SUBSET X, card, [SUBSET X -> Values], step)
  <2> SUFFICES ASSUME NEW s \in SUBSET X,
                      NEW f \in [SUBSET X -> Values], NEW g \in [SUBSET X -> Values],
                      \A t \in SUBSET X : card[t] < card[s] => f[t] = g[t]
               PROVE  step[<<s, f>>] = step[<<s, g>>]
    BY DEF AsksBelow
  <2>1. ASSUME NEW t \in (SUBSET s) \ {s}
        PROVE  f[t] = g[t]
    <3>1. Cardinality(t) <= Cardinality(s) /\ Cardinality(t) # Cardinality(s)
      BY <1>1, FS_Subset
    <3>2. Cardinality(t) \in Nat /\ Cardinality(s) \in Nat
      BY <1>1, <1>2
    <3>3. t \in SUBSET X /\ card[t] < card[s]
      BY <1>3, <3>1, <3>2
    <3> QED
      BY <3>3
  <2> QED
    BY <2>1 DEF AsksSubsets
<1> DEFINE D == SUBSET X
           bound == Cardinality(X)
<1>5. Recursion(D, Values, bound, card, step)
  BY <1>2, <1>3, <1>4 DEF Recursion
<1> HIDE DEF D, bound
<1>6. Solvable(D, Values, step)
  BY <1>5, RecursionByDepth
<1> QED
  BY <1>6 DEF D

\* f[s] is the sum of w over s.
Sums(f, w, X) ==
    /\ f \in [SUBSET X -> Int]
    /\ f[{}] = 0
    /\ \A s \in SUBSET X : \A x \in s : f[s] = w[x] + f[s \ {x}]

\* A sum that takes one element after the other, as MapThenSumSet does.
SumsInOrder(g, w, X) ==
    \A s \in SUBSET X : g[s] = IF s = {} THEN 0
                               ELSE w[CHOOSE x \in s : TRUE] + g[s \ {CHOOSE x \in s : TRUE}]

FixedSums(g, w, X) ==
    g = [s \in SUBSET X |-> IF s = {} THEN 0
                            ELSE w[CHOOSE x \in s : TRUE] + g[s \ {CHOOSE x \in s : TRUE}]]

LEMMA SumsExist ==
    ASSUME NEW X, IsFiniteSet(X), NEW w \in [X -> Int]
    PROVE  \E f : Sums(f, w, X)
<1> DEFINE F == [SUBSET X -> Int]
           first(s) == CHOOSE x \in s : TRUE
           step == [p \in (SUBSET X) \X F |->
                       IF p[1] = {} THEN 0 ELSE w[first(p[1])] + p[2][p[1] \ {first(p[1])}]]
<1>1. ASSUME NEW s \in SUBSET X, s # {}
      PROVE  first(s) \in s /\ first(s) \in X /\ s \ {first(s)} \in (SUBSET s) \ {s}
  BY <1>1
<1> HIDE DEF first
<1>2. ASSUME NEW s \in SUBSET X, NEW f \in F
      PROVE  /\ step[<<s, f>>] = IF s = {} THEN 0 ELSE w[first(s)] + f[s \ {first(s)}]
             /\ step[<<s, f>>] \in Int
  <2>1. step[<<s, f>>] = IF s = {} THEN 0 ELSE w[first(s)] + f[s \ {first(s)}]
    OBVIOUS
  <2>2. CASE s = {}
    BY <2>1, <2>2
  <2>3. CASE s # {}
    <3>1. s \ {first(s)} \in SUBSET X /\ w[first(s)] \in Int
      BY <1>1, <2>3
    <3>2. f[s \ {first(s)}] \in Int
      BY <3>1
    <3> QED
      BY <2>1, <2>3, <3>1, <3>2
  <2> QED
    BY <2>1, <2>2, <2>3
<1>3. step \in [(SUBSET X) \X F -> Int]
  <2>1. \A p \in (SUBSET X) \X F : step[p] \in Int
    <3> SUFFICES ASSUME NEW p \in (SUBSET X) \X F PROVE step[p] \in Int
      OBVIOUS
    <3>1. p = <<p[1], p[2]>> /\ p[1] \in SUBSET X /\ p[2] \in F
      OBVIOUS
    <3> HIDE DEF step
    <3>2. step[<<p[1], p[2]>>] \in Int
      BY <1>2, <3>1
    <3> QED
      BY <3>1, <3>2
  <2>2. DOMAIN step = (SUBSET X) \X F /\ step = [p \in DOMAIN step |-> step[p]]
    OBVIOUS
  <2> HIDE DEF step
  <2> QED
    BY <2>1, <2>2
<1> HIDE DEF step
<1>4. AsksSubsets(X, F, step)
  <2> SUFFICES ASSUME NEW s \in SUBSET X, NEW f \in F, NEW g \in F,
                      \A t \in (SUBSET s) \ {s} : f[t] = g[t]
               PROVE  step[<<s, f>>] = step[<<s, g>>]
    BY DEF AsksSubsets
  <2>1. CASE s = {}
    BY <1>2, <2>1
  <2>2. CASE s # {}
    <3>1. f[s \ {first(s)}] = g[s \ {first(s)}]
      BY <1>1, <2>2
    <3> QED
      BY <1>2, <2>2, <3>1
  <2> QED
    BY <2>1, <2>2
<1>5. Solvable(SUBSET X, Int, step)
  <2>1. Int # {}
    OBVIOUS
  <2> QED
    BY <1>3, <1>4, <2>1, SubsetRecursion
<1>6. PICK f \in F : \A s \in SUBSET X : f[s] = step[<<s, f>>]
  BY <1>5 DEF Solvable
<1>7. \A s \in SUBSET X : f[s] = IF s = {} THEN 0 ELSE w[first(s)] + f[s \ {first(s)}]
  BY <1>2, <1>6
<1> DEFINE U == {s \in SUBSET X : \A x \in s : f[s] = w[x] + f[s \ {x}]}
<1>8. ASSUME NEW s \in SUBSET X, \A t \in (SUBSET s) \ {s} : t \in U
      PROVE  s \in U
  <2> SUFFICES ASSUME NEW x \in s
               PROVE  f[s] = w[x] + f[s \ {x}]
    OBVIOUS
  <2> DEFINE y == first(s)
  <2>1. y \in s /\ f[s] = w[y] + f[s \ {y}]
    BY <1>1, <1>7
  <2> HIDE DEF y
  <2>2. CASE x = y
    BY <2>1, <2>2
  <2>3. CASE x # y
    <3>1. s \ {y} \in (SUBSET s) \ {s} /\ x \in s \ {y}
      BY <2>1, <2>3
    <3>2. s \ {x} \in (SUBSET s) \ {s} /\ y \in s \ {x}
      BY <2>1, <2>3
    <3>3. f[s \ {y}] = w[x] + f[(s \ {y}) \ {x}]
      BY <1>8, <3>1
    <3>4. f[s \ {x}] = w[y] + f[(s \ {x}) \ {y}]
      BY <1>8, <3>2
    <3>5. (s \ {y}) \ {x} = (s \ {x}) \ {y}
      OBVIOUS
    <3>6. PICK a \in Int, b \in Int, c \in Int :
              a = w[x] /\ b = w[y] /\ c = f[(s \ {y}) \ {x}]
      <4>1. (s \ {y}) \ {x} \in SUBSET X
        OBVIOUS
      <4> QED
        BY <2>1, <4>1
    <3>7. f[s] = b + (a + c) /\ w[x] + f[s \ {x}] = a + (b + c)
      BY <2>1, <3>3, <3>4, <3>5, <3>6
    <3> QED
      BY <3>7
  <2> QED
    BY <2>2, <2>3
<1> HIDE DEF U
<1>9. \A s \in SUBSET X : s \in U
  BY <1>8, SubsetInduction
<1>10. f[{}] = 0
  BY <1>7
<1> QED
  BY <1>9, <1>10 DEF Sums, U

\* The sums of the subsets of a subset.
LEMMA SumsRestrict ==
    ASSUME NEW X, NEW w, NEW f, Sums(f, w, X), NEW y \in SUBSET X
    PROVE  Sums([s \in SUBSET y |-> f[s]], w, y)
<1> DEFINE g == [s \in SUBSET y |-> f[s]]
<1>1. g \in [SUBSET y -> Int] /\ \A s \in SUBSET y : g[s] = f[s]
  BY DEF Sums
<1> HIDE DEF g
<1>2. ASSUME NEW s \in SUBSET y, NEW x \in s
      PROVE  g[s] = w[x] + g[s \ {x}]
  <2>1. s \in SUBSET X /\ s \ {x} \in SUBSET y
    OBVIOUS
  <2> QED
    BY <1>1, <2>1 DEF Sums
<1>3. g[{}] = 0
  BY <1>1 DEF Sums
<1> QED
  BY <1>1, <1>2, <1>3 DEF Sums, g

\* The sums do not depend on how they are made.
LEMMA SumsUnique ==
    ASSUME NEW X, IsFiniteSet(X), NEW w, NEW f, Sums(f, w, X),
           NEW g, SumsInOrder(g, w, X)
    PROVE  \A s \in SUBSET X : g[s] = f[s]
<1> DEFINE U == {s \in SUBSET X : g[s] = f[s]}
           first(s) == CHOOSE x \in s : TRUE
<1>1. ASSUME NEW s \in SUBSET X, \A t \in (SUBSET s) \ {s} : t \in U
      PROVE  s \in U
  <2>1. CASE s = {}
    BY <2>1 DEF Sums, SumsInOrder
  <2>2. CASE s # {}
    <3>1. first(s) \in s /\ s \ {first(s)} \in (SUBSET s) \ {s}
      BY <2>2
    <3>2. g[s] = w[first(s)] + g[s \ {first(s)}]
      BY <2>2 DEF SumsInOrder
    <3> HIDE DEF first
    <3>3. f[s] = w[first(s)] + f[s \ {first(s)}]
      BY <3>1 DEF Sums
    <3>4. g[s \ {first(s)}] = f[s \ {first(s)}]
      BY <1>1, <3>1
    <3> QED
      BY <3>2, <3>3, <3>4
  <2> QED
    BY <2>1, <2>2
<1> HIDE DEF U
<1>2. \A s \in SUBSET X : s \in U
  BY <1>1, SubsetInduction
<1> QED
  BY <1>2 DEF U

LEMMA SumsOrdered ==
    ASSUME NEW X, NEW w, NEW f, Sums(f, w, X)
    PROVE  FixedSums(f, w, X) /\ SumsInOrder(f, w, X)
<1>1. ASSUME NEW s \in SUBSET X
      PROVE  f[s] = IF s = {} THEN 0
                    ELSE w[CHOOSE x \in s : TRUE] + f[s \ {CHOOSE x \in s : TRUE}]
  <2>1. CASE s = {}
    BY <2>1 DEF Sums
  <2>2. CASE s # {}
    <3>1. (CHOOSE x \in s : TRUE) \in s
      BY <2>2
    <3> QED
      BY <2>2, <3>1 DEF Sums
  <2> QED
    BY <2>1, <2>2
<1>2. f = [s \in SUBSET X |-> f[s]]
  BY DEF Sums
<1> QED
  BY <1>1, <1>2 DEF SumsInOrder, FixedSums

\* A set without one element, and the sum without it.
LEMMA SumsUnion ==
    ASSUME NEW X, IsFiniteSet(X), NEW w \in [X -> Int], NEW f, Sums(f, w, X),
           NEW y \in SUBSET X, NEW z \in SUBSET X, y \cap z = {}
    PROVE  f[y \cup z] = f[y] + f[z]
<1> DEFINE U == {s \in SUBSET X : s \cap y = {} => f[y \cup s] = f[y] + f[s]}
<1>0. \A s \in SUBSET X : f[s] \in Int
  BY DEF Sums
<1>1. ASSUME NEW s \in SUBSET X, \A t \in (SUBSET s) \ {s} : t \in U
      PROVE  s \in U
  <2> SUFFICES ASSUME s \cap y = {}
               PROVE  f[y \cup s] = f[y] + f[s]
    OBVIOUS
  <2>1. CASE s = {}
    <3>1. f[s] = 0 /\ f[y \cup s] = f[y]
      BY <2>1 DEF Sums
    <3>2. f[y] \in Int
      BY <1>0
    <3> QED
      BY <3>1, <3>2
  <2>2. CASE s # {}
    <3>1. PICK x \in s : TRUE
      BY <2>2
    <3> DEFINE t == s \ {x}
    <3>2. t \in (SUBSET s) \ {s} /\ t \cap y = {} /\ t \in SUBSET X
      BY <3>1
    <3>3. f[y \cup t] = f[y] + f[t]
      BY <1>1, <3>2
    <3>4. f[s] = w[x] + f[t]
      BY <3>1 DEF Sums
    <3>5. x \in y \cup s /\ y \cup s \in SUBSET X /\ (y \cup s) \ {x} = y \cup t
      BY <3>1
    <3>6. f[y \cup s] = w[x] + f[y \cup t]
      BY <3>5 DEF Sums
    <3> HIDE DEF t
    <3>7. PICK a \in Int, b \in Int, c \in Int : a = w[x] /\ b = f[y] /\ c = f[t]
      BY <1>0, <3>1, <3>2
    <3>8. f[y \cup s] = a + (b + c) /\ f[s] = a + c
      BY <3>3, <3>4, <3>6, <3>7
    <3> QED
      BY <3>7, <3>8
  <2> QED
    BY <2>1, <2>2
<1> HIDE DEF U
<1>2. \A s \in SUBSET X : s \in U
  BY <1>1, SubsetInduction
<1> QED
  BY <1>2 DEF U

\* If c times every summand is at most d, c times the sum is at most d for each of
\* the elements.
LEMMA SumsBound ==
    ASSUME NEW X, IsFiniteSet(X), NEW w \in [X -> Int], NEW f, Sums(f, w, X),
           NEW c \in Int, NEW d \in Int, NEW z \in SUBSET X, \A x \in z : w[x] * c <= d
    PROVE  f[z] * c <= d * Cardinality(z)
<1> DEFINE U == {s \in SUBSET X : s \subseteq z => f[s] * c <= d * Cardinality(s)}
<1>0. \A s \in SUBSET X : f[s] \in Int /\ IsFiniteSet(s) /\ Cardinality(s) \in Nat
  BY FS_Subset, FS_CardinalityType DEF Sums
<1>1. ASSUME NEW s \in SUBSET X, \A t \in (SUBSET s) \ {s} : t \in U
      PROVE  s \in U
  <2> SUFFICES ASSUME s \subseteq z
               PROVE  f[s] * c <= d * Cardinality(s)
    OBVIOUS
  <2>1. CASE s = {}
    <3>1. f[s] = 0 /\ Cardinality(s) = 0
      BY <2>1, FS_EmptySet DEF Sums
    <3> QED
      BY <3>1
  <2>2. CASE s # {}
    <3>1. PICK x \in s : TRUE
      BY <2>2
    <3> DEFINE t == s \ {x}
    <3>2. t \in (SUBSET s) \ {s} /\ t \subseteq z /\ t \in SUBSET X
      BY <3>1
    <3>3. f[s] = w[x] + f[t]
      BY <3>1 DEF Sums
    <3>4. Cardinality(t) = Cardinality(s) - 1
      BY <1>0, <3>1, FS_RemoveElement
    <3>5. f[t] * c <= d * Cardinality(t)
      BY <1>1, <3>2
    <3>6. w[x] * c <= d
      BY <3>1
    <3> HIDE DEF t
    <3>7. PICK a \in Int, b \in Int, n \in Int : a = w[x] /\ b = f[t] /\ n = Cardinality(t)
      BY <1>0, <3>1, <3>2
    <3>8. f[s] = a + b /\ Cardinality(s) = n + 1
      BY <1>0, <3>3, <3>4, <3>7
    <3>9. b * c <= d * n /\ a * c <= d
      BY <3>5, <3>6, <3>7
    <3>10. (a + b) * c = a * c + b * c /\ d * (n + 1) = d * n + d
      OBVIOUS
    <3>11. PICK ac \in Int, bc \in Int, dn \in Int : ac = a * c /\ bc = b * c /\ dn = d * n
      OBVIOUS
    <3>12. (a + b) * c <= d * (n + 1)
      BY <3>9, <3>10, <3>11
    <3> QED
      BY <3>8, <3>12
  <2> QED
    BY <2>1, <2>2
<1> HIDE DEF U
<1>2. \A s \in SUBSET X : s \in U
  BY <1>1, SubsetInduction
<1> QED
  BY <1>2 DEF U

\* Sums of positive numbers.
LEMMA SumsPositive ==
    ASSUME NEW X, IsFiniteSet(X), NEW w \in [X -> Nat], NEW f, Sums(f, w, X)
    PROVE  /\ w \in [X -> Int]
           /\ \A s \in SUBSET X : f[s] \in Nat
           /\ \A t \in SUBSET X : \A s \in SUBSET t : f[s] <= f[t]
<1>1. w \in [X -> Int] /\ \A s \in SUBSET X : f[s] \in Int
  BY DEF Sums
<1>2. ASSUME NEW s \in SUBSET X
      PROVE  f[s] \in Nat
  <2>0. \A x \in s : w[x] * (-1) <= 0
    OBVIOUS
  <2>1. -1 \in Int /\ 0 \in Int
    OBVIOUS
  <2>2. f[s] * (-1) <= 0 * Cardinality(s)
    BY <1>1, <2>0, <2>1, SumsBound
  <2>3. Cardinality(s) \in Nat
    BY FS_Subset, FS_CardinalityType
  <2>4. PICK a \in Int : a = f[s]
    BY <1>1
  <2> QED
    BY <2>2, <2>3, <2>4
<1>3. ASSUME NEW t \in SUBSET X, NEW s \in SUBSET t
      PROVE  f[s] <= f[t]
  <2>1. s \in SUBSET X /\ t \ s \in SUBSET X /\ s \cap (t \ s) = {} /\ s \cup (t \ s) = t
    OBVIOUS
  <2>2. f[t] = f[s] + f[t \ s]
    BY <1>1, <2>1, SumsUnion
  <2>3. f[s] \in Nat /\ f[t \ s] \in Nat
    BY <1>2, <2>1
  <2> QED
    BY <2>2, <2>3
<1> QED
  BY <1>1, <1>2, <1>3

-----------------------------------------------------------------------------
(* The stage that solves a component                                       *)

LEMMA SolveSets ==
    \A y : I!Cardinality(y) = Cardinality(y) /\ I!IsFiniteSet(y) = IsFiniteSet(y)
BY DEF I!Cardinality, Cardinality, I!IsFiniteSet, IsFiniteSet

\* The weight of a set of nodes is a sum.
LEMMA WeightSum ==
    ASSUME IsFiniteSet(nodes), NEW f, Sums(f, weights, nodes), NEW y \in SUBSET nodes
    PROVE  I!Weight(y) = f[y]
<1>1. IsFiniteSet(y) 
  BY FS_Subset
<1> DEFINE h == [s \in SUBSET y |-> f[s]]
           iter == CHOOSE g : FixedSums(g, weights, y)
<1>2. Sums(h, weights, y) /\ h[y] = f[y]
  BY SumsRestrict
<1> HIDE DEF h
<1>3. FixedSums(h, weights, y)
  BY <1>2, SumsOrdered
<1>4. FixedSums(iter, weights, y)
  BY <1>3
<1>7. I!Weight(y) = iter[y]
  BY DEF I!Weight, I!MapThenSumSet, I!MapThenFoldSet, FixedSums
<1> HIDE DEF iter
<1>5. SumsInOrder(iter, weights, y)
  BY <1>4 DEF SumsInOrder, FixedSums
<1>6. iter[y] = h[y]
  BY <1>1, <1>2, <1>5, SumsUnique
<1> QED
  BY <1>2, <1>6, <1>7

LEMMA Greatest ==
    ASSUME NEW X, IsFiniteSet(X), X # {}, NEW f \in [X -> Nat]
    PROVE  \E x \in X : \A y \in X : f[y] <= f[x]
<1> DEFINE U == {s \in SUBSET X : s # {} => \E x \in s : \A y \in s : f[y] <= f[x]}
<1>1. ASSUME NEW s \in SUBSET X, \A t \in (SUBSET s) \ {s} : t \in U
      PROVE  s \in U
  <2> SUFFICES ASSUME s # {}
               PROVE  \E x \in s : \A y \in s : f[y] <= f[x]
    OBVIOUS
  <2>1. PICK z \in s : TRUE
    OBVIOUS
  <2>2. s \ {z} \in (SUBSET s) \ {s} /\ f[z] \in Nat
    BY <2>1
  <2>3. CASE s \ {z} = {}
    <3>1. \A y \in s : y = z
      BY <2>3
    <3> QED
      BY <2>2, <3>1
  <2>4. CASE s \ {z} # {}
    <3>1. PICK x \in s \ {z} : \A y \in s \ {z} : f[y] <= f[x]
      BY <1>1, <2>2, <2>4
    <3>2. f[x] \in Nat
      OBVIOUS
    <3>3. CASE f[x] <= f[z]
      <4>1. ASSUME NEW y \in s
            PROVE  f[y] <= f[z]
        <5>1. CASE y = z
          BY <2>2, <5>1
        <5>2. CASE y # z
          <6>1. f[y] \in Nat /\ f[y] <= f[x]
            BY <3>1, <5>2
          <6> QED
            BY <2>2, <3>2, <3>3, <6>1
        <5> QED
          BY <5>1, <5>2
      <4> QED
        BY <4>1
    <3>4. CASE ~(f[x] <= f[z])
      <4>1. f[z] <= f[x]
        BY <2>2, <3>2, <3>4
      <4>2. \A y \in s : f[y] <= f[x]
        BY <3>1, <4>1
      <4> QED
        BY <4>2
    <3> QED
      BY <3>3, <3>4
  <2> QED
    BY <2>3, <2>4
<1> HIDE DEF U
<1>2. \A s \in SUBSET X : s \in U
  BY <1>1, SubsetInduction
<1> QED
  BY <1>2 DEF U

\* What is solved, and how it is done.
SolveInput ==
    /\ dagEdges \in I!Graphs
    /\ nodes \in SUBSET ComponentTxs
    /\ weights \in [nodes -> Costs]
    /\ solver \in Solvers

LEMMA SolveConstants ==
    ASSUME SolveInput
    PROVE  /\ IsFiniteSet(ComponentTxs) /\ IsFiniteSet(nodes) /\ nodes \in SUBSET Nat
           /\ \A n \in nodes : weights[n] \in Nat \ {0}
           /\ weights \in [nodes -> Nat]
           /\ \A s \in SUBSET nodes : IsFiniteSet(s) /\ Cardinality(s) \in Nat
<1>1. IsFiniteSet(ComponentTxs) /\ ComponentTxs \subseteq Nat /\ Costs \subseteq Nat \ {0}
  BY Assumptions, SolveSets DEF I!TxsAssumption, I!CostsAssumption
<1>2. IsFiniteSet(nodes)
  BY <1>1, FS_Subset DEF SolveInput
<1>3. ASSUME NEW s \in SUBSET nodes
      PROVE  IsFiniteSet(s) /\ Cardinality(s) \in Nat
  BY <1>2, FS_Subset, FS_CardinalityType
<1>4. /\ \A n \in nodes : weights[n] \in Nat \ {0}
      /\ weights \in [nodes -> Nat]
  BY <1>1 DEF SolveInput
<1>5. nodes \in SUBSET Nat
  BY <1>1 DEF SolveInput
<1> QED
  BY <1>1, <1>2, <1>3, <1>4, <1>5

\* Neighbours are other nodes, and each other's.
LEMMA Neighbours ==
    ASSUME SolveInput
    PROVE  /\ \A n : I!adjList(n) \in SUBSET nodes /\ n \notin I!adjList(n)
           /\ \A m, n \in nodes : m \in I!adjList(n) <=> {m, n} \in dagEdges
           /\ \A m, n \in nodes : m \in I!adjList(n) <=> n \in I!adjList(m)
           /\ \A s \in SUBSET nodes :
                  I!IsIndependent(s) <=> \A n \in s : I!adjList(n) \cap s = {}
<1>1. \A m, n : m \in I!adjList(n) <=> m \in nodes /\ {m, n} \in dagEdges
  BY DEF I!adjList
<1>2. ASSUME NEW n
      PROVE  {n, n} \notin dagEdges
  <2>1. Cardinality({n}) = 1 /\ {n, n} = {n}
    BY FS_Singleton
  <2>2. \A e \in dagEdges : I!Cardinality(e) = 2
    BY DEF SolveInput, I!Graphs, I!kSubset
  <2>3. {n, n} \in dagEdges => Cardinality({n, n}) = 2
    BY <2>2, SolveSets
  <2>4. Cardinality({n, n}) = 1
    BY <2>1, Zenon
  <2> QED
    BY <2>3, <2>4
<1>3. \A m, n : {m, n} = {n, m}
  OBVIOUS
<1>4. ASSUME NEW s \in SUBSET nodes
      PROVE  I!IsIndependent(s) <=> \A n \in s : I!adjList(n) \cap s = {}
  <2>1. I!IsIndependent(s) <=> \A n \in s : \A m \in s : {m, n} \notin dagEdges
    BY DEF I!IsIndependent
  <2>2. \A n \in s : (I!adjList(n) \cap s = {}) <=> \A m \in s : {m, n} \notin dagEdges
    BY <1>1
  <2> QED
    BY <2>1, <2>2
<1>5. \A n : I!adjList(n) \in SUBSET nodes
  BY <1>1
<1>6. \A n : n \notin I!adjList(n)
  BY <1>1, <1>2
<1>7. \A m, n \in nodes : m \in I!adjList(n) <=> {m, n} \in dagEdges
  BY <1>1
<1>8. \A m, n \in nodes : m \in I!adjList(n) <=> n \in I!adjList(m)
  BY <1>3, <1>7
<1> QED
  BY <1>4, <1>5, <1>6, <1>7, <1>8

\* There is a node to branch on.
LEMMA BranchVertex ==
    ASSUME SolveInput, NEW c \in SUBSET nodes, c # {}
    PROVE  I!ChooseBranchVertex(c) \in c
<1> DEFINE degree == [n \in c |-> I!DegreeIn(c, n)]
           weight == [n \in c |-> weights[n]]
           Heads == {n \in c : \A m \in c : degree[m] <= degree[n]}
<1>1. IsFiniteSet(c) /\ c \in SUBSET Nat
  BY SolveConstants
<1>2. \A n \in c : degree[n] = I!DegreeIn(c, n) /\ degree[n] \in Nat
  <2> SUFFICES ASSUME NEW n \in c
               PROVE  I!DegreeIn(c, n) \in Nat
    OBVIOUS
  <2>1. I!adjList(n) \cap c \in SUBSET nodes
    OBVIOUS
  <2> QED
    BY <2>1, SolveConstants, SolveSets DEF I!DegreeIn
<1>3. \A n \in c : weight[n] = weights[n] /\ weight[n] \in Nat
  BY SolveConstants
<1>4. degree \in [c -> Nat]
  BY <1>2
<1> HIDE DEF degree
<1>5. Heads # {} /\ Heads \in SUBSET c
  <2>1. \E n \in c : \A m \in c : degree[m] <= degree[n]
    BY <1>1, <1>4, Greatest
  <2> QED
    BY <2>1
<1>6. \A n \in Heads, m \in c : degree[m] <= degree[n]
  OBVIOUS
<1>7. \A n \in Heads, m \in c \ Heads : degree[m] < degree[n]
  <2> SUFFICES ASSUME NEW n \in Heads, NEW m \in c \ Heads
               PROVE  degree[m] < degree[n]
    OBVIOUS
  <2>1. PICK k \in c : ~(degree[k] <= degree[m])
    OBVIOUS
  <2>2. degree[k] \in Nat /\ degree[m] \in Nat /\ degree[n] \in Nat /\ degree[k] <= degree[n]
    BY <1>2, <1>6
  <2> QED
    BY <2>1, <2>2
<1> DEFINE heavy == [n \in Heads |-> weight[n]]
           Tops == {n \in Heads : \A m \in Heads : heavy[m] <= heavy[n]}
<1>8. heavy \in [Heads -> Nat] /\ \A n \in Heads : heavy[n] = weight[n]
  BY <1>3, <1>5
<1> HIDE DEF weight, Heads, heavy
<1>9. Tops # {} /\ Tops \in SUBSET Heads
  <2>1. IsFiniteSet(Heads)
    BY <1>1, <1>5, FS_Subset
  <2>2. \E n \in Heads : \A m \in Heads : heavy[m] <= heavy[n]
    BY <1>5, <1>8, <2>1, Greatest
  <2> QED
    BY <2>2
<1>10. \A n \in Tops, m \in Heads : heavy[m] <= heavy[n]
  OBVIOUS
<1>11. \A n \in Tops, m \in Heads \ Tops : heavy[m] < heavy[n]
  <2> SUFFICES ASSUME NEW n \in Tops, NEW m \in Heads \ Tops
               PROVE  heavy[m] < heavy[n]
    OBVIOUS
  <2>1. PICK k \in Heads : ~(heavy[k] <= heavy[m])
    OBVIOUS
  <2>2. heavy[k] \in Nat /\ heavy[m] \in Nat /\ heavy[n] \in Nat /\ heavy[k] <= heavy[n]
    BY <1>8, <1>9, <1>10
  <2> QED
    BY <2>1, <2>2
<1> HIDE DEF Tops
<1>12. Tops \in SUBSET Nat /\ Tops \in SUBSET c
  BY <1>1, <1>5, <1>9
<1>13. PICK v \in Tops : \A m \in Tops : v <= m
  BY <1>9, <1>12, LeastOf
<1>14. ASSUME NEW m \in c \ {v}
       PROVE  \/ I!DegreeIn(c, v) > I!DegreeIn(c, m)
              \/ /\ I!DegreeIn(c, v) = I!DegreeIn(c, m)
                 /\ weights[v] > weights[m] \/ (weights[v] = weights[m] /\ v < m)
  <2>0. /\ v \in Heads /\ v \in c
        /\ degree[v] = I!DegreeIn(c, v) /\ degree[m] = I!DegreeIn(c, m)
        /\ degree[v] \in Nat /\ degree[m] \in Nat
        /\ weight[v] = weights[v] /\ weight[m] = weights[m]
        /\ weight[v] \in Nat /\ weight[m] \in Nat /\ v \in Nat /\ m \in Nat
    BY <1>1, <1>2, <1>3, <1>9, <1>12
  <2>1. CASE m \notin Heads
    <3>1. degree[m] < degree[v]
      BY <1>7, <2>0, <2>1
    <3> QED
      BY <2>0, <3>1
  <2>2. CASE m \in Heads
    <3>1. degree[m] = degree[v]
      <4>1. degree[m] <= degree[v] /\ degree[v] <= degree[m]
        BY <1>6, <2>0, <2>2
      <4> QED
        BY <2>0, <4>1
    <3>2. heavy[m] = weight[m] /\ heavy[v] = weight[v]
      BY <1>8, <2>0, <2>2
    <3>3. CASE m \in Tops
      <4>1. heavy[m] <= heavy[v] /\ heavy[v] <= heavy[m]
        BY <1>10, <2>0, <2>2, <3>3
      <4>2. v <= m
        BY <1>13, <3>3
      <4>3. v < m
        BY <2>0, <4>2
      <4>4. weights[v] = weights[m]
        BY <2>0, <3>2, <4>1
      <4> QED
        BY <2>0, <3>1, <4>3, <4>4
    <3>4. CASE m \notin Tops
      <4>1. heavy[m] < heavy[v]
        BY <1>11, <2>2, <3>4
      <4> QED
        BY <2>0, <3>1, <3>2, <4>1
    <3> QED
      BY <3>3, <3>4
  <2> QED
    BY <2>1, <2>2
<1>15. v \in c
  BY <1>12
<1> QED
  BY <1>14, <1>15 DEF I!ChooseBranchVertex

\* The better one of two branches is at least as heavy as either.
LEMMA Preferred ==
    ASSUME SolveInput, NEW y \in SUBSET nodes, NEW z \in SUBSET nodes
    PROVE  /\ I!Prefer(y, z) \in {y, z}
           /\ I!Weight(y) <= I!Weight(I!Prefer(y, z))
           /\ I!Weight(z) <= I!Weight(I!Prefer(y, z))
<1>1. IsFiniteSet(nodes) /\ weights \in [nodes -> Nat] /\ weights \in [nodes -> Int]
  BY SolveConstants
<1>2. PICK f : Sums(f, weights, nodes)
  BY <1>1, SumsExist
<1>3. \A s \in SUBSET nodes : I!Weight(s) \in Nat
  BY <1>1, <1>2, WeightSum, SumsPositive
<1>4. CASE I!Prefer(y, z) = y
  <2>1. I!Weight(z) <= I!Weight(y)
    <3>1. CASE y = z
      BY <1>3, <3>1
    <3>2. CASE y # z
      <4>1. I!Weight(y) > I!Weight(z) \/ I!Weight(y) = I!Weight(z)
        BY <1>4, <3>2 DEF I!Prefer
      <4> QED
        BY <1>3, <4>1
    <3> QED
      BY <3>1, <3>2
  <2> QED
    BY <1>3, <1>4, <2>1
<1>5. CASE I!Prefer(y, z) # y
  <2>1. I!Prefer(y, z) = z /\ ~(I!Weight(y) > I!Weight(z))
    BY <1>5 DEF I!Prefer
  <2> QED
    BY <1>3, <2>1
<1> QED
  BY <1>4, <1>5

\* The recursive definition, for any function.
ExactStep(g, c) ==
    IF \A n \in c : I!DegreeIn(c, n) = 0
    THEN c
    ELSE LET v == I!ChooseBranchVertex(c)
         IN  I!Prefer({v} \cup g[c \ (I!adjList(v) \cup {v})], g[c \ {v}])

FixedExact(g) == g = [c \in SUBSET nodes |-> ExactStep(g, c)]

\* Branching makes the set of candidates smaller.
LEMMA Branches ==
    ASSUME SolveInput, NEW c \in SUBSET nodes, NEW v,
           ~\A n \in c : I!DegreeIn(c, n) = 0, v = I!ChooseBranchVertex(c)
    PROVE  /\ v \in c /\ v \in nodes
           /\ c \ (I!adjList(v) \cup {v}) \in (SUBSET c) \ {c}
           /\ c \ (I!adjList(v) \cup {v}) \in SUBSET nodes
           /\ c \ {v} \in (SUBSET c) \ {c} /\ c \ {v} \in SUBSET nodes
<1>1. c # {}
  OBVIOUS
<1>2. v \in c
  BY <1>1, BranchVertex
<1> QED
  BY <1>2

LEMMA ExactExists ==
    ASSUME SolveInput
    PROVE  \E g \in [SUBSET nodes -> SUBSET nodes] : FixedExact(g)
<1> DEFINE F == [SUBSET nodes -> SUBSET nodes]
           step == [p \in (SUBSET nodes) \X F |-> ExactStep(p[2], p[1])]
<1>1. ASSUME NEW c \in SUBSET nodes, NEW g \in F
      PROVE  /\ ExactStep(g, c) \in SUBSET nodes
             /\ \A h \in F : (\A t \in (SUBSET c) \ {c} : g[t] = h[t]) => ExactStep(g, c) = ExactStep(h, c)
  <2>1. CASE \A n \in c : I!DegreeIn(c, n) = 0
    BY <2>1 DEF ExactStep
  <2>2. CASE ~\A n \in c : I!DegreeIn(c, n) = 0
    <3>1. PICK v : v = I!ChooseBranchVertex(c)
      OBVIOUS
    <3> DEFINE y == c \ (I!adjList(v) \cup {v})
               z == c \ {v}
    <3>2. v \in nodes /\ y \in (SUBSET c) \ {c} /\ y \in SUBSET nodes
          /\ z \in (SUBSET c) \ {c} /\ z \in SUBSET nodes
      BY <2>2, <3>1, Branches
    <3>3. \A h : ExactStep(h, c) = I!Prefer({v} \cup h[y], h[z])
      BY <2>2, <3>1 DEF ExactStep
    <3> HIDE DEF y, z
    <3>4. {v} \cup g[y] \in SUBSET nodes /\ g[z] \in SUBSET nodes
      BY <3>2
    <3>5. I!Prefer({v} \cup g[y], g[z]) \in SUBSET nodes
      BY <3>4, Preferred
    <3>6. ASSUME NEW h \in F, \A t \in (SUBSET c) \ {c} : g[t] = h[t]
          PROVE  ExactStep(g, c) = ExactStep(h, c)
      <4>1. g[y] = h[y] /\ g[z] = h[z]
        BY <3>2, <3>6
      <4> QED
        BY <3>3, <4>1
    <3> QED
      BY <3>3, <3>5, <3>6
  <2> QED
    BY <2>1, <2>2
<1>2. \A c \in SUBSET nodes : \A g \in F : step[<<c, g>>] = ExactStep(g, c)
  OBVIOUS
<1>3. step \in [(SUBSET nodes) \X F -> SUBSET nodes]
  <2>1. ASSUME NEW p \in (SUBSET nodes) \X F
        PROVE  ExactStep(p[2], p[1]) \in SUBSET nodes
    <3>1. p[1] \in SUBSET nodes /\ p[2] \in F
      OBVIOUS
    <3> QED
      BY <1>1, <3>1
  <2> QED
    BY <2>1
<1> HIDE DEF step
<1>4. AsksSubsets(nodes, F, step)
  <2> SUFFICES ASSUME NEW c \in SUBSET nodes, NEW g \in F, NEW h \in F,
                      \A t \in (SUBSET c) \ {c} : g[t] = h[t]
               PROVE  step[<<c, g>>] = step[<<c, h>>]
    BY DEF AsksSubsets
  <2> HIDE DEF F
  <2>1. ExactStep(g, c) = ExactStep(h, c)
    BY <1>1
  <2> QED
    BY <1>2, <2>1
<1>5. Solvable(SUBSET nodes, SUBSET nodes, step)
  <2>1. SUBSET nodes # {} /\ IsFiniteSet(nodes)
    BY SolveConstants
  <2> QED
    BY <1>3, <1>4, <2>1, SubsetRecursion
<1>6. PICK g \in F : \A c \in SUBSET nodes : g[c] = step[<<c, g>>]
  BY <1>5 DEF Solvable
<1>7. \A c \in SUBSET nodes : g[c] = ExactStep(g, c)
  BY <1>2, <1>6
<1>8. g = [c \in SUBSET nodes |-> g[c]]
  OBVIOUS
<1> QED
  BY <1>6, <1>7, <1>8 DEF FixedExact

\* Adding a node without neighbours keeps a set independent.
LEMMA IndependentWith ==
    ASSUME SolveInput, NEW s \in SUBSET nodes, I!IsIndependent(s), NEW v \in nodes,
           I!adjList(v) \cap s = {}
    PROVE  I!IsIndependent(s \cup {v})
<1>1. \A n \in s : I!adjList(n) \cap s = {} /\ v \notin I!adjList(n)
  BY Neighbours
<1>2. v \notin I!adjList(v) /\ s \cup {v} \in SUBSET nodes
  BY Neighbours
<1>3. \A n \in s \cup {v} : I!adjList(n) \cap (s \cup {v}) = {}
  BY <1>1, <1>2
<1> QED
  BY <1>2, <1>3, Neighbours

\* What the recursion finds is independent and as heavy as any independent set of
\* candidates.
Best(c, s) ==
    /\ s \in SUBSET c
    /\ I!IsIndependent(s)
    /\ \A t \in SUBSET c : I!IsIndependent(t) => I!Weight(t) <= I!Weight(s)

LEMMA WeightsAdd ==
    ASSUME SolveInput
    PROVE  /\ \A s \in SUBSET nodes : I!Weight(s) \in Nat
           /\ \A t \in SUBSET nodes : \A s \in SUBSET t : I!Weight(s) <= I!Weight(t)
           /\ \A s \in SUBSET nodes : \A v \in nodes \ s :
                  I!Weight(s \cup {v}) = weights[v] + I!Weight(s)
<1>1. IsFiniteSet(nodes) /\ weights \in [nodes -> Nat] /\ weights \in [nodes -> Int]
  BY SolveConstants
<1>2. PICK f : Sums(f, weights, nodes)
  BY <1>1, SumsExist
<1>3. \A s \in SUBSET nodes : I!Weight(s) = f[s]
  BY <1>1, <1>2, WeightSum
<1>4. \A s \in SUBSET nodes : f[s] \in Nat
  BY <1>1, <1>2, SumsPositive
<1>5. \A t \in SUBSET nodes : \A s \in SUBSET t : f[s] <= f[t]
  BY <1>1, <1>2, SumsPositive
<1>6. ASSUME NEW s \in SUBSET nodes, NEW v \in nodes \ s
      PROVE  f[s \cup {v}] = weights[v] + f[s]
  <2>1. s \cup {v} \in SUBSET nodes /\ v \in s \cup {v} /\ (s \cup {v}) \ {v} = s
    OBVIOUS
  <2>2. f[s \cup {v}] = weights[v] + f[(s \cup {v}) \ {v}]
    BY <1>2, <2>1 DEF Sums
  <2> QED
    BY <2>1, <2>2
<1>7. \A s \in SUBSET nodes : \A v \in nodes \ s : s \cup {v} \in SUBSET nodes
  OBVIOUS
<1>8. \A t \in SUBSET nodes : \A s \in SUBSET t : s \in SUBSET nodes
  OBVIOUS
<1> QED
  BY <1>3, <1>4, <1>5, <1>6, <1>7, <1>8

LEMMA ExactBest ==
    ASSUME SolveInput, NEW g \in [SUBSET nodes -> SUBSET nodes], FixedExact(g)
    PROVE  \A c \in SUBSET nodes : Best(c, g[c])
<1> DEFINE U == {c \in SUBSET nodes : Best(c, g[c])}
<1>0. \A c \in SUBSET nodes : g[c] = ExactStep(g, c)
  <2> HIDE DEF ExactStep
  <2> QED
    BY DEF FixedExact
<1>1. ASSUME NEW c \in SUBSET nodes, \A t \in (SUBSET c) \ {c} : t \in U
      PROVE  Best(c, g[c])
  <2>1. CASE \A n \in c : I!DegreeIn(c, n) = 0
    <3>1. g[c] = c
      BY <1>0, <2>1 DEF ExactStep
    <3>2. ASSUME NEW n \in c
          PROVE  I!adjList(n) \cap c = {}
      <4>1. Cardinality(I!adjList(n) \cap c) = 0
        BY <2>1, SolveSets DEF I!DegreeIn
      <4>2. I!adjList(n) \cap c \in SUBSET nodes
        OBVIOUS
      <4> QED
        BY <4>1, <4>2, SolveConstants, FS_EmptySet
    <3>3. I!IsIndependent(c)
      BY <3>2, Neighbours
    <3>4. \A t \in SUBSET c : I!Weight(t) <= I!Weight(c)
      BY WeightsAdd
    <3> QED
      BY <3>1, <3>3, <3>4 DEF Best
  <2>2. CASE ~\A n \in c : I!DegreeIn(c, n) = 0
    <3>1. PICK v : v = I!ChooseBranchVertex(c)
      OBVIOUS
    <3> DEFINE y == c \ (I!adjList(v) \cup {v})
               z == c \ {v}
    <3>2. v \in c /\ v \in nodes /\ y \in (SUBSET c) \ {c} /\ y \in SUBSET nodes
          /\ z \in (SUBSET c) \ {c} /\ z \in SUBSET nodes
      BY <2>2, <3>1, Branches
    <3>3. Best(y, g[y]) /\ Best(z, g[z])
      BY <1>1, <3>2
    <3>4. g[c] = I!Prefer({v} \cup g[y], g[z])
      BY <1>0, <2>2, <3>1 DEF ExactStep
    <3>5. v \notin y /\ I!adjList(v) \cap y = {} /\ y \in SUBSET c /\ z \in SUBSET c
      OBVIOUS
    <3>6. \A t \in SUBSET c : v \notin t => t \in SUBSET z
      OBVIOUS
    <3>7. \A t \in SUBSET c : I!adjList(v) \cap t = {} => t \ {v} \in SUBSET y
      OBVIOUS
    <3> HIDE DEF y, z
    <3> DEFINE include == g[y] \cup {v}
               exclude == g[z]
    <3>8. g[y] \in SUBSET y /\ g[y] \in SUBSET nodes /\ v \notin g[y]
          /\ I!IsIndependent(g[y]) /\ I!adjList(v) \cap g[y] = {}
      BY <3>3, <3>5 DEF Best
    <3>9. include \in SUBSET c /\ include \in SUBSET nodes /\ I!IsIndependent(include)
          /\ I!Weight(include) = weights[v] + I!Weight(g[y])
      BY <3>2, <3>5, <3>8, IndependentWith, WeightsAdd
    <3>10. exclude \in SUBSET c /\ exclude \in SUBSET nodes /\ I!IsIndependent(exclude)
      BY <3>2, <3>3, <3>5 DEF Best
    <3>11. g[c] = I!Prefer(include, exclude)
      <4>1. {v} \cup g[y] = g[y] \cup {v}
        OBVIOUS
      <4> QED
        BY <3>4, <4>1
    <3>12. g[c] \in {include, exclude}
           /\ I!Weight(include) <= I!Weight(g[c]) /\ I!Weight(exclude) <= I!Weight(g[c])
      BY <3>9, <3>10, <3>11, Preferred
    <3>13. ASSUME NEW t \in SUBSET c, I!IsIndependent(t)
           PROVE  I!Weight(t) <= I!Weight(g[c])
      <4>0. t \in SUBSET nodes /\ g[c] \in SUBSET nodes
        OBVIOUS
      <4>1. CASE v \in t
        <5>1. I!adjList(v) \cap t = {}
          BY <3>13, <4>0, <4>1, Neighbours
        <5> DEFINE r == t \ {v}
        <5>2. r \in SUBSET y /\ r \in SUBSET nodes /\ r \cup {v} = t /\ v \notin r
          BY <3>7, <4>0, <4>1, <5>1
        <5>3. I!IsIndependent(r)
          BY <3>13 DEF I!IsIndependent
        <5> HIDE DEF r
        <5>4. I!Weight(r) <= I!Weight(g[y])
          BY <3>3, <5>2, <5>3 DEF Best
        <5>5. I!Weight(t) = weights[v] + I!Weight(r)
          BY <3>2, <5>2, WeightsAdd
        <5>6. PICK a \in Nat, b \in Nat, d \in Nat, e \in Nat :
                  a = I!Weight(r) /\ b = I!Weight(g[y]) /\ d = I!Weight(g[c]) /\ e = weights[v]
          BY <3>2, <3>8, <4>0, <5>2, WeightsAdd, SolveConstants
        <5>7. e + b <= d
          BY <3>9, <3>12, <5>6
        <5> QED
          BY <5>4, <5>5, <5>6, <5>7
      <4>2. CASE v \notin t
        <5>1. I!Weight(t) <= I!Weight(exclude)
          BY <3>3, <3>6, <3>13, <4>2 DEF Best
        <5> HIDE DEF exclude
        <5>2. PICK a \in Nat, b \in Nat, d \in Nat :
                  a = I!Weight(t) /\ b = I!Weight(exclude) /\ d = I!Weight(g[c])
          BY <3>10, <4>0, WeightsAdd
        <5> QED
          BY <3>12, <5>1, <5>2
      <4> QED
        BY <4>1, <4>2
    <3>14. g[c] \in SUBSET c /\ I!IsIndependent(g[c])
      BY <3>9, <3>10, <3>12
    <3> QED
      BY <3>13, <3>14 DEF Best
  <2> QED
    BY <2>1, <2>2
<1>2. \A c \in SUBSET nodes : c \in U
  <2>1. IsFiniteSet(nodes)
    BY SolveConstants
  <2>2. \A c \in SUBSET nodes : (\A t \in (SUBSET c) \ {c} : t \in U) => c \in U
    BY <1>1
  <2> HIDE DEF U
  <2> QED
    BY <2>1, <2>2, SubsetInduction
<1> QED
  BY <1>2

LEMMA ExactUnique ==
    ASSUME SolveInput, NEW g, FixedExact(g), NEW h, FixedExact(h)
    PROVE  \A c \in SUBSET nodes : g[c] = h[c]
<1> DEFINE U == {c \in SUBSET nodes : g[c] = h[c]}
<1>0. \A c \in SUBSET nodes : g[c] = ExactStep(g, c) /\ h[c] = ExactStep(h, c)
  <2> HIDE DEF ExactStep
  <2> QED
    BY DEF FixedExact
<1>1. ASSUME NEW c \in SUBSET nodes, \A t \in (SUBSET c) \ {c} : t \in U
      PROVE  g[c] = h[c]
  <2>1. CASE \A n \in c : I!DegreeIn(c, n) = 0
    BY <1>0, <2>1 DEF ExactStep
  <2>2. CASE ~\A n \in c : I!DegreeIn(c, n) = 0
    <3>1. PICK v : v = I!ChooseBranchVertex(c)
      OBVIOUS
    <3> DEFINE y == c \ (I!adjList(v) \cup {v})
               z == c \ {v}
    <3>2. y \in (SUBSET c) \ {c} /\ z \in (SUBSET c) \ {c}
      BY <2>2, <3>1, Branches
    <3>3. \A f : ExactStep(f, c) = I!Prefer({v} \cup f[y], f[z])
      BY <2>2, <3>1 DEF ExactStep
    <3> HIDE DEF y, z
    <3>4. g[y] = h[y] /\ g[z] = h[z]
      BY <1>1, <3>2
    <3>5. ExactStep(g, c) = ExactStep(h, c)
      BY <3>3, <3>4
    <3> QED
      BY <1>0, <3>5
  <2> QED
    BY <2>1, <2>2
<1>2. IsFiniteSet(nodes) /\ \A c \in SUBSET nodes : (\A t \in (SUBSET c) \ {c} : t \in U) => c \in U
  BY <1>1, SolveConstants
<1> HIDE DEF U
<1>3. \A c \in SUBSET nodes : c \in U
  BY <1>2, SubsetInduction
<1> QED
  BY <1>3 DEF U

\* For any component: the exact solver finds an independent set of the greatest
\* weight that one has.
LEMMA ExactOptimal ==
    ASSUME SolveInput
    PROVE  Best(nodes, I!ExactMWIS)
<1> DEFINE exact == CHOOSE g : FixedExact(g)
<1>1. I!ExactMWIS = exact[nodes]
  BY DEF I!ExactMWIS, FixedExact, ExactStep
<1>2. PICK g \in [SUBSET nodes -> SUBSET nodes] : FixedExact(g)
  BY ExactExists
<1>3. FixedExact(exact)
  BY <1>2
<1> HIDE DEF exact
<1>4. exact[nodes] = g[nodes]
  BY <1>2, <1>3, ExactUnique
<1>5. Best(nodes, g[nodes])
  BY <1>2, ExactBest
<1> QED
  BY <1>1, <1>4, <1>5

-----------------------------------------------------------------------------
(* Sorting and folding                                                     *)

\* How many elements have at most the key of x.
Rank(key, X, x) == Cardinality({y \in X : key[y] <= key[x]})

\* Where no two elements have the same key, ranks number them in the order of
\* the keys.
Keyed(key, X) ==
    IsFiniteSet(X) /\ key \in [X -> Nat] /\ \A x, y \in X : key[x] = key[y] => x = y

LEMMA Ranked ==
    ASSUME NEW X, NEW key, Keyed(key, X)
    PROVE  /\ Cardinality(X) \in Nat
           /\ \A x \in X : Rank(key, X, x) \in 1 .. Cardinality(X)
           /\ \A x, y \in X : key[x] < key[y] => Rank(key, X, x) < Rank(key, X, y)
           /\ \A x, y \in X : Rank(key, X, x) = Rank(key, X, y) => x = y
           /\ \A i \in 1 .. Cardinality(X) : \E x \in X : Rank(key, X, x) = i
<1> DEFINE n == Cardinality(X)
           Upto(x) == {y \in X : key[y] <= key[x]}
           rank == [x \in X |-> Rank(key, X, x)]
<1>0. IsFiniteSet(X) /\ key \in [X -> Nat] /\ \A x, y \in X : key[x] = key[y] => x = y
  BY DEF Keyed
<1> USE <1>0
<1>1. n \in Nat
  BY FS_CardinalityType
<1>2. ASSUME NEW x \in X
      PROVE  /\ IsFiniteSet(Upto(x)) /\ Cardinality(Upto(x)) \in 1 .. n
  <2>1. Upto(x) \in SUBSET X /\ x \in Upto(x)
    OBVIOUS
  <2> HIDE DEF Upto
  <2>2. IsFiniteSet(Upto(x)) /\ Cardinality(Upto(x)) <= n
    BY <2>1, FS_Subset
  <2>3. Cardinality(Upto(x)) \in Nat
    BY <2>2, FS_CardinalityType
  <2>4. Cardinality(Upto(x)) # 0
    BY <2>1, <2>2, FS_EmptySet
  <2> QED
    BY <1>1, <2>2, <2>3, <2>4
<1>3. ASSUME NEW x \in X, NEW y \in X, key[x] < key[y]
      PROVE  Cardinality(Upto(x)) < Cardinality(Upto(y))
  <2>1. Upto(x) \in SUBSET Upto(y) /\ y \in Upto(y) /\ y \notin Upto(x)
    <3>1. ASSUME NEW z \in Upto(x) PROVE z \in Upto(y)
      <4>1. z \in X /\ key[z] \in Nat /\ key[x] \in Nat /\ key[y] \in Nat /\ key[z] <= key[x]
        OBVIOUS
      <4>2. key[z] <= key[y]
        BY <1>3, <4>1
      <4> QED
        BY <4>1, <4>2
    <3>2. key[y] <= key[y] /\ ~(key[y] <= key[x])
      <4>1. key[x] \in Nat /\ key[y] \in Nat
        OBVIOUS
      <4> QED
        BY <1>3, <4>1
    <3> QED
      BY <3>1, <3>2
  <2> HIDE DEF Upto
  <2>2. Cardinality(Upto(x)) <= Cardinality(Upto(y)) /\ Cardinality(Upto(x)) # Cardinality(Upto(y))
    BY <1>2, <2>1, FS_Subset
  <2>3. Cardinality(Upto(x)) \in Nat /\ Cardinality(Upto(y)) \in Nat
    BY <1>1, <1>2
  <2> QED
    BY <2>2, <2>3
<1>4. \A x \in X : rank[x] = Cardinality(Upto(x)) /\ Rank(key, X, x) = rank[x]
  BY DEF Rank
<1>5. rank \in [X -> 1 .. n]
  BY <1>2 DEF Rank
<1> HIDE DEF rank, n, Upto
<1>6. \A x, y \in X : rank[x] = rank[y] => x = y
  <2> SUFFICES ASSUME NEW x \in X, NEW y \in X, rank[x] = rank[y] PROVE x = y
    OBVIOUS
  <2>1. rank[x] \in Nat /\ key[x] \in Nat /\ key[y] \in Nat
    BY <1>1, <1>5
  <2>2. ~(key[x] < key[y]) /\ ~(key[y] < key[x])
    BY <1>3, <1>4, <2>1
  <2>3. key[x] = key[y]
    BY <2>1, <2>2
  <2> QED
    BY <2>3
<1>7. \A i \in 1 .. n : \E x \in X : rank[x] = i
  <2>1. rank \in Injection(X, 1 .. n)
    BY <1>5, <1>6 DEF Injection, IsInjective
  <2>2. IsFiniteSet(1 .. n) /\ Cardinality(1 .. n) = n
    BY <1>1, FS_Interval
  <2>3. rank \in Surjection(X, 1 .. n)
    BY <2>1, <2>2, FS_Injection DEF n
  <2> QED
    BY <2>3 DEF Surjection
<1> QED
  BY <1>1, <1>3, <1>4, <1>5, <1>6, <1>7 DEF n

\* The number of a set that is greater than all others, which a fold over a list
\* comes to last.
Highest(s) == CHOOSE x \in s : \A y \in s : x >= y

LEMMA LastOf ==
    ASSUME NEW n \in Nat, NEW s \in SUBSET (1 .. n), s # {}
    PROVE  /\ Highest(s) \in s /\ \A y \in s : Highest(s) >= y
           /\ s \ {Highest(s)} \in (SUBSET s) \ {s}
           /\ s \ {Highest(s)} \in SUBSET (1 .. n)
<1>1. s \in SUBSET (0 .. n)
  OBVIOUS
<1>2. PICK x \in s : \A y \in s : y <= x
  BY <1>1, GreatestOf
<1>3. \A y \in s : x >= y
  BY <1>2
<1> QED
  BY <1>2, <1>3 DEF Highest

LEMMA LastOfInterval ==
    ASSUME NEW n \in Nat, NEW i \in 1 .. n
    PROVE  1 .. i \in SUBSET (1 .. n) /\ Highest(1 .. i) = i /\ (1 .. i) \ {Highest(1 .. i)} = 1 .. i - 1
<1>1. 1 .. i \in SUBSET (1 .. n) /\ 1 .. i # {}
  OBVIOUS
<1>2. Highest(1 .. i) \in 1 .. i /\ \A y \in 1 .. i : Highest(1 .. i) >= y
  BY <1>1, LastOf
<1>3. Highest(1 .. i) = i
  BY <1>2
<1> QED
  BY <1>1, <1>3

\* The fold of a list, of which step says how an element changes the value.
FoldsUp(h, n, start, step) ==
    \A s \in SUBSET (1 .. n) : h[s] = IF s = {} THEN start ELSE step[<<Highest(s), h[s \ {Highest(s)}]>>]

LEMMA FoldExists ==
    ASSUME NEW Values, NEW n \in Nat, NEW start \in Values, NEW step \in [(1 .. n) \X Values -> Values]
    PROVE  \E h \in [SUBSET (1 .. n) -> Values] : FoldsUp(h, n, start, step)
<1> DEFINE X == 1 .. n
           F == [SUBSET X -> Values]
           down == [p \in (SUBSET X) \X F |->
                       IF p[1] = {} THEN start ELSE step[<<Highest(p[1]), p[2][p[1] \ {Highest(p[1])}]>>]]
<1>1. \A s \in SUBSET X : s # {} => Highest(s) \in X /\ s \ {Highest(s)} \in (SUBSET s) \ {s}
                                      /\ s \ {Highest(s)} \in SUBSET X
  <2> SUFFICES ASSUME NEW s \in SUBSET X, s # {}
               PROVE  Highest(s) \in X /\ s \ {Highest(s)} \in (SUBSET s) \ {s} /\ s \ {Highest(s)} \in SUBSET X
    OBVIOUS
  <2>1. Highest(s) \in s /\ s \ {Highest(s)} \in (SUBSET s) \ {s} /\ s \ {Highest(s)} \in SUBSET X
    BY LastOf
  <2> QED
    BY <2>1
<1>2. \A s \in SUBSET X : \A f \in F :
          down[<<s, f>>] = IF s = {} THEN start ELSE step[<<Highest(s), f[s \ {Highest(s)}]>>]
  OBVIOUS
<1>3. down \in [(SUBSET X) \X F -> Values]
  <2>1. ASSUME NEW p \in (SUBSET X) \X F
        PROVE  (IF p[1] = {} THEN start ELSE step[<<Highest(p[1]), p[2][p[1] \ {Highest(p[1])}]>>]) \in Values
    <3>1. p[1] \in SUBSET X /\ p[2] \in F
      OBVIOUS
    <3>2. CASE p[1] # {}
      <4>1. Highest(p[1]) \in X /\ p[2][p[1] \ {Highest(p[1])}] \in Values
        BY <1>1, <3>1, <3>2
      <4> QED
        BY <3>2, <4>1
    <3> QED
      BY <3>2
  <2> QED
    BY <2>1
<1> HIDE DEF down
<1>4. IsFiniteSet(X) /\ Values # {}
  BY FS_Interval
<1> HIDE DEF X
<1>5. AsksSubsets(X, F, down)
  <2> SUFFICES ASSUME NEW s \in SUBSET X, NEW f \in F, NEW g \in F,
                      \A t \in (SUBSET s) \ {s} : f[t] = g[t]
               PROVE  down[<<s, f>>] = down[<<s, g>>]
    BY DEF AsksSubsets
  <2>1. CASE s = {}
    BY <1>2, <2>1
  <2>2. CASE s # {}
    <3>1. f[s \ {Highest(s)}] = g[s \ {Highest(s)}]
      BY <1>1, <2>2
    <3>2. /\ down[<<s, f>>] = step[<<Highest(s), f[s \ {Highest(s)}]>>]
          /\ down[<<s, g>>] = step[<<Highest(s), g[s \ {Highest(s)}]>>]
      BY <1>2, <2>2
    <3> HIDE DEF down
    <3> QED
      BY <3>1, <3>2
  <2> QED
    BY <2>1, <2>2
<1>6. Solvable(SUBSET X, Values, down)
  BY <1>3, <1>4, <1>5, SubsetRecursion
<1>7. PICK h \in F : \A s \in SUBSET X : h[s] = down[<<s, h>>]
  BY <1>6 DEF Solvable
<1>8. \A s \in SUBSET X : h[s] = IF s = {} THEN start ELSE step[<<Highest(s), h[s \ {Highest(s)}]>>]
  BY <1>2, <1>7
<1> QED
  BY <1>7, <1>8 DEF FoldsUp, X

\* It goes through the list from its beginning.
LEMMA FoldFollows ==
    ASSUME NEW n \in Nat, NEW start, NEW step, NEW h, FoldsUp(h, n, start, step)
    PROVE  h[{}] = start /\ \A i \in 1 .. n : h[1 .. i] = step[<<i, h[1 .. i - 1]>>]
<1>1. h[{}] = start
  BY DEF FoldsUp
<1>2. ASSUME NEW i \in 1 .. n
      PROVE  h[1 .. i] = step[<<i, h[1 .. i - 1]>>]
  <2>1. 1 .. i \in SUBSET (1 .. n) /\ Highest(1 .. i) = i /\ (1 .. i) \ {Highest(1 .. i)} = 1 .. i - 1
    BY LastOfInterval
  <2>2. 1 .. i # {}
    OBVIOUS
  <2>3. PICK s \in SUBSET (1 .. n) : s = 1 .. i
    BY <2>1
  <2>4. h[s] = step[<<Highest(s), h[s \ {Highest(s)}]>>]
    BY <2>2, <2>3 DEF FoldsUp
  <2> QED
    BY <2>1, <2>3, <2>4
<1> QED
  BY <1>1, <1>2

-----------------------------------------------------------------------------
(* Lists of different elements                                             *)

Distinct(s) == \A i, j \in DOMAIN s : s[i] = s[j] => i = j

\* Elements(s) is ToSet(s).
Elements(s) == {s[i] : i \in DOMAIN s}

LEMMA SolveElements == \A s : I!ToSet(s) = Elements(s)
BY DEF I!ToSet, Elements

LEMMA AppendElements ==
    ASSUME NEW E, NEW s \in Seq(E), NEW x \in E
    PROVE  /\ Append(s, x) \in Seq(E) /\ Append(s, x) # <<>>
           /\ Len(Append(s, x)) = Len(s) + 1
           /\ Elements(Append(s, x)) = Elements(s) \cup {x}
           /\ Distinct(s) /\ x \notin Elements(s) => Distinct(Append(s, x))
<1> DEFINE r == Append(s, x)
<1>1. /\ r \in Seq(E) /\ Len(r) = Len(s) + 1 /\ Len(s) \in Nat /\ r # <<>>
      /\ DOMAIN r = 1 .. Len(s) + 1 /\ DOMAIN s = 1 .. Len(s)
      /\ r[Len(s) + 1] = x
      /\ \A i \in 1 .. Len(s) : r[i] = s[i]
  OBVIOUS
<1> HIDE DEF r
<1>2. Elements(r) = Elements(s) \cup {x}
  <2>1. ASSUME NEW y \in Elements(r)
        PROVE  y \in Elements(s) \cup {x}
    <3>1. PICK i \in DOMAIN r : y = r[i]
      BY DEF Elements
    <3>2. CASE i = Len(s) + 1
      BY <1>1, <3>1, <3>2
    <3>3. CASE i # Len(s) + 1
      <4>1. i \in DOMAIN s /\ y = s[i]
        BY <1>1, <3>1, <3>3
      <4> QED
        BY <4>1 DEF Elements
    <3> QED
      BY <3>2, <3>3
  <2>2. ASSUME NEW y \in Elements(s) \cup {x}
        PROVE  y \in Elements(r)
    <3>1. CASE y = x
      <4>1. Len(s) + 1 \in DOMAIN r /\ y = r[Len(s) + 1]
        BY <1>1, <3>1
      <4> QED
        BY <4>1 DEF Elements
    <3>2. CASE y \in Elements(s)
      <4>1. PICK i \in DOMAIN s : y = s[i]
        BY <3>2 DEF Elements
      <4>2. i \in DOMAIN r /\ y = r[i]
        BY <1>1, <4>1
      <4> QED
        BY <4>2 DEF Elements
    <3> QED
      BY <3>1, <3>2
  <2> QED
    BY <2>1, <2>2
<1>3. ASSUME Distinct(s), x \notin Elements(s)
      PROVE  Distinct(r)
  <2>0. \A i \in 1 .. Len(s) : s[i] # x
    BY <1>1, <1>3 DEF Elements
  <2> SUFFICES ASSUME NEW i \in DOMAIN r, NEW j \in DOMAIN r, r[i] = r[j]
               PROVE  i = j
    BY DEF Distinct
  <2>1. CASE i = Len(s) + 1 /\ j = Len(s) + 1
    BY <2>1
  <2>2. CASE i = Len(s) + 1 /\ j # Len(s) + 1
    <3>1. j \in 1 .. Len(s) /\ r[i] = x /\ r[j] = s[j]
      BY <1>1, <2>2
    <3> QED
      BY <2>0, <3>1
  <2>3. CASE i # Len(s) + 1 /\ j = Len(s) + 1
    <3>1. i \in 1 .. Len(s) /\ r[j] = x /\ r[i] = s[i]
      BY <1>1, <2>3
    <3> QED
      BY <2>0, <3>1
  <2>4. CASE i # Len(s) + 1 /\ j # Len(s) + 1
    <3>1. i \in DOMAIN s /\ j \in DOMAIN s /\ r[i] = s[i] /\ r[j] = s[j]
      BY <1>1, <2>4
    <3> QED
      BY <1>3, <3>1 DEF Distinct
  <2> QED
    BY <2>1, <2>2, <2>3, <2>4
<1> QED
  BY <1>1, <1>2, <1>3 DEF r

LEMMA DistinctSize ==
    ASSUME NEW E, NEW s \in Seq(E), Distinct(s)
    PROVE  IsFiniteSet(Elements(s)) /\ Cardinality(Elements(s)) = Len(s)
<1>1. Len(s) \in Nat /\ DOMAIN s = 1 .. Len(s)
  OBVIOUS
<1> DEFINE f == [i \in 1 .. Len(s) |-> s[i]]
<1>2. f \in Surjection(1 .. Len(s), Elements(s)) /\ f \in Injection(1 .. Len(s), Elements(s))
  <2>1. f \in [1 .. Len(s) -> Elements(s)]
    BY <1>1 DEF Elements
  <2>2. \A x \in Elements(s) : \E i \in 1 .. Len(s) : f[i] = x
    BY <1>1 DEF Elements
  <2>3. \A i, j \in 1 .. Len(s) : f[i] = f[j] => i = j
    BY <1>1 DEF Distinct
  <2> QED
    BY <2>1, <2>2, <2>3 DEF Surjection, Injection, IsInjective
<1>3. IsFiniteSet(1 .. Len(s)) /\ Cardinality(1 .. Len(s)) = Len(s)
  BY <1>1, FS_Interval
<1> QED
  BY <1>2, <1>3, FS_Surjection

-----------------------------------------------------------------------------
(* What the solvers return                                                 *)

LEMMA SortedInts ==
    ASSUME SolveInput, NEW y \in SUBSET nodes
    PROVE  /\ I!SortInts(y) \in Seq(y) /\ I!SortInts(y) \in Seq(nodes)
           /\ Distinct(I!SortInts(y))
           /\ Elements(I!SortInts(y)) = y
<1> DEFINE key == [n \in y |-> n]
           n == Cardinality(y)
           r == I!SortInts(y)
<1>1. IsFiniteSet(y) /\ y \in SUBSET Nat
  BY SolveConstants
<1>2. Keyed(key, y)
  BY <1>1 DEF Keyed
<1>3. \A k \in y : Rank(key, y, k) = I!Cardinality({m \in y : m <= k})
  <2> SUFFICES ASSUME NEW k \in y
               PROVE  Cardinality({m \in y : key[m] <= key[k]}) = I!Cardinality({m \in y : m <= k})
    BY DEF Rank
  <2>1. {m \in y : key[m] <= key[k]} = {m \in y : m <= k}
    OBVIOUS
  <2> QED
    BY <2>1, SolveSets
<1>4. /\ DOMAIN r = 1 .. n
      /\ r = [i \in DOMAIN r |-> r[i]]
      /\ \A i \in 1 .. n : r[i] = CHOOSE k \in y : I!Cardinality({m \in y : m <= k}) = i
  <2>1. I!Cardinality(y) = n
    BY SolveSets
  <2> QED
    BY <2>1 DEF I!SortInts
<1> HIDE DEF key, r
<1>5. /\ n \in Nat
      /\ \A k \in y : Rank(key, y, k) \in 1 .. n
      /\ \A m, k \in y : Rank(key, y, m) = Rank(key, y, k) => m = k
      /\ \A i \in 1 .. n : \E k \in y : Rank(key, y, k) = i
  BY <1>2, Ranked
<1> HIDE DEF n
<1>6. ASSUME NEW i \in 1 .. n
      PROVE  r[i] \in y /\ Rank(key, y, r[i]) = i
  <2>1. \E k \in y : I!Cardinality({m \in y : m <= k}) = i
    BY <1>3, <1>5
  <2>2. r[i] = CHOOSE k \in y : I!Cardinality({m \in y : m <= k}) = i
    BY <1>4
  <2>3. r[i] \in y /\ I!Cardinality({m \in y : m <= r[i]}) = i
    BY <2>1, <2>2
  <2> QED
    BY <1>3, <2>3
<1>7. DOMAIN r = 1 .. n /\ r \in [1 .. n -> y]
  <2>1. r = [i \in 1 .. n |-> r[i]]
    BY <1>4
  <2> QED
    BY <1>4, <1>6, <2>1
<1>8. r \in Seq(y) /\ r \in Seq(nodes)
  BY <1>5, <1>7
<1>9. Distinct(r)
  BY <1>6, <1>7 DEF Distinct
<1>10. \A k \in y : r[Rank(key, y, k)] = k
  BY <1>5, <1>6
<1>11. Elements(r) = y
  BY <1>5, <1>6, <1>7, <1>10 DEF Elements
<1> QED
  BY <1>8, <1>9, <1>11 DEF r

\* One step of the rounding.
SelectStep(chosen, n) == IF I!ToSet(chosen) \cap I!adjList(n) # {} THEN chosen ELSE Append(chosen, n)

SelectsUp(g, order) ==
    g = [s \in SUBSET DOMAIN order |->
            IF s = {} THEN <<>> ELSE SelectStep(g[s \ {I!Max(s)}], order[I!Max(s)])]

LEMMA SolveMax == \A s : I!Max(s) = Highest(s)
BY DEF I!Max, Highest

\* What has been selected of the first i nodes.
Selected(order, i, chosen) ==
    /\ chosen \in Seq(nodes)
    /\ Distinct(chosen)
    /\ Elements(chosen) \in SUBSET {order[j] : j \in 1 .. i}
    /\ I!IsIndependent(Elements(chosen))
    /\ \A j \in 1 .. i : order[j] \in Elements(chosen) \/ I!adjList(order[j]) \cap Elements(chosen) # {}

LEMMA SelectKeeps ==
    ASSUME SolveInput, NEW n \in Nat, NEW order \in [1 .. n -> nodes],
           \A i, j \in 1 .. n : order[i] = order[j] => i = j,
           NEW i \in 1 .. n, NEW chosen, Selected(order, i - 1, chosen)
    PROVE  Selected(order, i, SelectStep(chosen, order[i]))
<1>1. order[i] \in nodes /\ i - 1 \in Nat /\ i \in Nat
  OBVIOUS
<1>2. /\ chosen \in Seq(nodes) /\ Distinct(chosen)
      /\ Elements(chosen) \in SUBSET {order[j] : j \in 1 .. i - 1}
      /\ I!IsIndependent(Elements(chosen))
      /\ \A j \in 1 .. i - 1 :
             order[j] \in Elements(chosen) \/ I!adjList(order[j]) \cap Elements(chosen) # {}
  BY DEF Selected
<1>3. {order[j] : j \in 1 .. i - 1} \in SUBSET {order[j] : j \in 1 .. i}
      /\ order[i] \in {order[j] : j \in 1 .. i}
  OBVIOUS
<1>4. order[i] \notin Elements(chosen)
  <2>1. \A j \in 1 .. i - 1 : order[j] # order[i]
    OBVIOUS
  <2> QED
    BY <1>2, <2>1
<1>5. \A j \in 1 .. i : j = i \/ j \in 1 .. i - 1
  OBVIOUS
<1>6. CASE Elements(chosen) \cap I!adjList(order[i]) # {}
  <2>1. SelectStep(chosen, order[i]) = chosen
    BY <1>6, SolveElements DEF SelectStep
  <2>2. Elements(chosen) \in SUBSET {order[j] : j \in 1 .. i}
    BY <1>2, <1>3
  <2>3. \A j \in 1 .. i :
            order[j] \in Elements(chosen) \/ I!adjList(order[j]) \cap Elements(chosen) # {}
    BY <1>2, <1>5, <1>6
  <2> QED
    BY <1>2, <2>1, <2>2, <2>3 DEF Selected
<1>7. CASE Elements(chosen) \cap I!adjList(order[i]) = {}
  <2> DEFINE more == Append(chosen, order[i])
  <2>1. SelectStep(chosen, order[i]) = more
    BY <1>7, SolveElements DEF SelectStep
  <2>2. more \in Seq(nodes) /\ Distinct(more) /\ Elements(more) = Elements(chosen) \cup {order[i]}
    BY <1>1, <1>2, <1>4, AppendElements
  <2> HIDE DEF more
  <2>3. Elements(chosen) \in SUBSET nodes /\ I!adjList(order[i]) \cap Elements(chosen) = {}
    BY <1>2, <1>7
  <2>4. I!IsIndependent(Elements(more))
    <3>1. PICK y \in SUBSET nodes, v \in nodes : y = Elements(chosen) /\ v = order[i]
      BY <1>1, <2>3
    <3>2. I!IsIndependent(y) /\ I!adjList(v) \cap y = {} /\ Elements(more) = y \cup {v}
      BY <1>2, <2>2, <2>3, <3>1
    <3>3. I!IsIndependent(y \cup {v})
      BY <3>2, IndependentWith
    <3> QED
      BY <3>2, <3>3
  <2>5. Elements(more) \in SUBSET {order[j] : j \in 1 .. i}
    BY <1>2, <1>3, <2>2
  <2>6. \A j \in 1 .. i :
            order[j] \in Elements(more) \/ I!adjList(order[j]) \cap Elements(more) # {}
    BY <1>2, <1>5, <2>2
  <2> QED
    BY <2>1, <2>2, <2>4, <2>5, <2>6 DEF Selected
<1> QED
  BY <1>6, <1>7

LEMMA SelectsUnique ==
    ASSUME SolveInput, NEW n \in Nat, NEW order \in [1 .. n -> nodes],
           NEW g, SelectsUp(g, order), NEW h, SelectsUp(h, order)
    PROVE  \A s \in SUBSET (1 .. n) : g[s] = h[s]
<1> DEFINE U == {s \in SUBSET (1 .. n) : g[s] = h[s]}
<1>0. ASSUME NEW f, SelectsUp(f, order)
      PROVE  \A s \in SUBSET (1 .. n) :
                 f[s] = IF s = {} THEN <<>> ELSE SelectStep(f[s \ {Highest(s)}], order[Highest(s)])
  <2>1. DOMAIN order = 1 .. n
    OBVIOUS
  <2> QED
    BY <1>0, <2>1, SolveMax DEF SelectsUp
<1>1. ASSUME NEW s \in SUBSET (1 .. n), \A t \in (SUBSET s) \ {s} : t \in U
      PROVE  g[s] = h[s]
  <2>1. CASE s = {}
    BY <1>0, <2>1
  <2>2. CASE s # {}
    <3>1. s \ {Highest(s)} \in (SUBSET s) \ {s}
      BY <2>2, LastOf
    <3>2. g[s \ {Highest(s)}] = h[s \ {Highest(s)}]
      BY <1>1, <3>1
    <3>3. g[s] = SelectStep(g[s \ {Highest(s)}], order[Highest(s)])
      BY <1>0, <2>2
    <3>4. h[s] = SelectStep(h[s \ {Highest(s)}], order[Highest(s)])
      BY <1>0, <2>2
    <3> QED
      BY <3>2, <3>3, <3>4
  <2> QED
    BY <2>1, <2>2
<1>2. /\ IsFiniteSet(1 .. n)
      /\ \A s \in SUBSET (1 .. n) : (\A t \in (SUBSET s) \ {s} : t \in U) => s \in U
  <2>1. IsFiniteSet(1 .. n)
    BY FS_Interval
  <2>2. ASSUME NEW s \in SUBSET (1 .. n), \A t \in (SUBSET s) \ {s} : t \in U
        PROVE  s \in U
    BY <1>1, <2>2
  <2> QED
    BY <2>1, <2>2
<1> HIDE DEF U
<1>3. \A s \in SUBSET (1 .. n) : s \in U
  <2>1. PICK X : X = 1 .. n
    OBVIOUS
  <2>2. IsFiniteSet(X) /\ \A s \in SUBSET X : (\A t \in (SUBSET s) \ {s} : t \in U) => s \in U
    BY <1>2, <2>1
  <2>3. \A s \in SUBSET X : s \in U
    BY <2>2, SubsetInduction, Zenon
  <2> QED
    BY <2>1, <2>3
<1> QED
  BY <1>3 DEF U

\* For any order: the rounding selects nodes without conflicts, and every node it
\* leaves out conflicts with one of them.
LEMMA RoundingSelects ==
    ASSUME SolveInput, NEW order \in I!SetToSeqs(nodes)
    PROVE  /\ I!SelectInOrder(order) \in Seq(nodes)
           /\ Distinct(I!SelectInOrder(order))
           /\ I!IsIndependent(Elements(I!SelectInOrder(order)))
           /\ \A v \in nodes : \/ v \in Elements(I!SelectInOrder(order))
                               \/ I!adjList(v) \cap Elements(I!SelectInOrder(order)) # {}
<1> DEFINE n == Cardinality(nodes)
           V == Seq(nodes)
           step == [p \in (1 .. n) \X V |-> SelectStep(p[2], order[p[1]])]
<1>1. n \in Nat /\ IsFiniteSet(nodes)
  BY SolveConstants
<1>2. order \in [1 .. n -> nodes] /\ (\A i, j \in 1 .. n : i # j => order[i] # order[j])
  BY SolveSets DEF I!SetToSeqs
<1>3. \A i, j \in 1 .. n : order[i] = order[j] => i = j
  BY <1>2
<1> HIDE DEF n
<1>4. \A v \in nodes : \E i \in 1 .. n : order[i] = v
  <2>1. order \in Injection(1 .. n, nodes)
    BY <1>2, <1>3 DEF Injection, IsInjective
  <2>2. IsFiniteSet(1 .. n) /\ Cardinality(1 .. n) = n
    BY <1>1, FS_Interval
  <2>3. order \in Surjection(1 .. n, nodes)
    BY <1>1, <2>1, <2>2, FS_Injection DEF n
  <2> QED
    BY <2>3 DEF Surjection
<1>5. \A i \in 1 .. n : \A c \in V : step[<<i, c>>] = SelectStep(c, order[i]) /\ step[<<i, c>>] \in V
  <2> SUFFICES ASSUME NEW i \in 1 .. n, NEW c \in V
               PROVE  SelectStep(c, order[i]) \in V
    OBVIOUS
  <2>1. order[i] \in nodes
    BY <1>2
  <2>2. Append(c, order[i]) \in V
    BY <2>1
  <2> QED
    BY <2>2 DEF SelectStep
<1>6. step \in [(1 .. n) \X V -> V]
  <2>1. \A p \in (1 .. n) \X V : step[p] \in V
    <3> SUFFICES ASSUME NEW p \in (1 .. n) \X V PROVE step[p] \in V
      OBVIOUS
    <3>1. p = <<p[1], p[2]>> /\ p[1] \in 1 .. n /\ p[2] \in V
      OBVIOUS
    <3> HIDE DEF step, V
    <3>2. step[<<p[1], p[2]>>] \in V
      BY <1>5, <3>1
    <3> QED
      BY <3>1, <3>2
  <2>2. DOMAIN step = (1 .. n) \X V /\ step = [p \in DOMAIN step |-> step[p]]
    OBVIOUS
  <2> HIDE DEF step
  <2> QED
    BY <2>1, <2>2
<1>7. <<>> \in V
  OBVIOUS
<1> HIDE DEF step, V
<1>8. PICK h \in [SUBSET (1 .. n) -> V] : FoldsUp(h, n, <<>>, step)
  BY <1>1, <1>6, <1>7, FoldExists
<1>9. SelectsUp(h, order)
  <2>1. ASSUME NEW s \in SUBSET (1 .. n)
        PROVE  h[s] = IF s = {} THEN <<>> ELSE SelectStep(h[s \ {I!Max(s)}], order[I!Max(s)])
    <3>1. CASE s = {}
      BY <1>8, <3>1 DEF FoldsUp
    <3>2. CASE s # {}
      <4>1. Highest(s) \in 1 .. n /\ s \ {Highest(s)} \in SUBSET (1 .. n)
        BY <1>1, <3>2, LastOf
      <4>2. h[s \ {Highest(s)}] \in V
        BY <4>1
      <4>3. h[s] = step[<<Highest(s), h[s \ {Highest(s)}]>>]
        BY <1>8, <3>2 DEF FoldsUp
      <4>4. h[s] = SelectStep(h[s \ {Highest(s)}], order[Highest(s)])
        BY <1>5, <4>1, <4>2, <4>3
      <4> QED
        BY <3>2, <4>4, SolveMax
    <3> QED
      BY <3>1, <3>2
  <2>2. h = [s \in SUBSET (1 .. n) |-> h[s]] /\ DOMAIN order = 1 .. n
    BY <1>2
  <2> QED
    BY <2>1, <2>2 DEF SelectsUp
<1> DEFINE iter == CHOOSE g : SelectsUp(g, order)
<1>10. I!SelectInOrder(order) = iter[DOMAIN order]
  BY DEF I!SelectInOrder, I!FoldLeft, I!MapThenFoldSet, SelectsUp, SelectStep
<1>11. SelectsUp(iter, order)
  BY <1>9
<1> HIDE DEF iter
<1>12. iter[1 .. n] = h[1 .. n] /\ DOMAIN order = 1 .. n
  BY <1>1, <1>2, <1>9, <1>11, SelectsUnique
<1>13. h[{}] = <<>> /\ \A i \in 1 .. n : h[1 .. i] = step[<<i, h[1 .. i - 1]>>]
  BY <1>1, <1>8, FoldFollows
<1> DEFINE U == {i \in Nat : i <= n => Selected(order, i, h[1 .. i])}
<1>14. 0 \in U
  <2>1. 1 .. 0 = {} /\ h[1 .. 0] = <<>>
    BY <1>13
  <2>2. Elements(<<>>) = {} /\ Distinct(<<>>) /\ I!IsIndependent({}) /\ <<>> \in Seq(nodes)
    BY DEF Elements, Distinct, I!IsIndependent
  <2>3. Selected(order, 0, <<>>)
    BY <2>1, <2>2 DEF Selected
  <2> QED
    BY <2>1, <2>3
<1>15. ASSUME NEW m \in U
       PROVE  m + 1 \in U
  <2> SUFFICES ASSUME m + 1 <= n
               PROVE  Selected(order, m + 1, h[1 .. m + 1])
    OBVIOUS
  <2>1. PICK i \in 1 .. n : i = m + 1
    BY <1>1
  <2>2. i - 1 = m /\ m <= n
    BY <1>1, <2>1
  <2>3. Selected(order, i - 1, h[1 .. i - 1])
    BY <2>2
  <2>4. h[1 .. i - 1] \in V
    <3>1. 1 .. i - 1 \in SUBSET (1 .. n)
      BY <1>1
    <3> QED
      BY <1>8, <3>1
  <2>5. h[1 .. i] = SelectStep(h[1 .. i - 1], order[i])
    BY <1>5, <1>13, <2>4
  <2>6. Selected(order, i, SelectStep(h[1 .. i - 1], order[i]))
    BY <1>1, <1>2, <1>3, <2>3, SelectKeeps
  <2> QED
    BY <2>1, <2>5, <2>6
<1> HIDE DEF U
<1>16. n \in U
  <2>1. U \in SUBSET Nat
    BY DEF U
  <2>2. U = Nat
    BY <1>14, <1>15, <2>1, AllNumbers
  <2> QED
    BY <1>1, <2>2
<1>17. Selected(order, n, h[1 .. n])
  BY <1>1, <1>16 DEF U
<1> DEFINE r == h[1 .. n]
<1>18. I!SelectInOrder(order) = r
  BY <1>10, <1>12
<1> HIDE DEF r
<1>19. /\ r \in Seq(nodes) /\ Distinct(r) /\ I!IsIndependent(Elements(r))
       /\ \A j \in 1 .. n : order[j] \in Elements(r) \/ I!adjList(order[j]) \cap Elements(r) # {}
  BY <1>17 DEF Selected, r
<1>20. \A v \in nodes : v \in Elements(r) \/ I!adjList(v) \cap Elements(r) # {}
  BY <1>4, <1>19
<1> QED
  BY <1>18, <1>19, <1>20

-----------------------------------------------------------------------------
(* The bound of the greedy solver                                          *)

\* The common multiple of GreedyBound, and the shares of the nodes.
Whole == I!FoldSet(LAMBDA k, p : k * p, 1, 1 .. I!Cardinality(ComponentTxs))
Share(n) == (Whole \div (I!Cardinality(I!adjList(n)) + 1)) * weights[n]

FixedProducts(g, y) ==
    g = [s \in SUBSET y |-> IF s = {} THEN 1
                            ELSE (CHOOSE x \in s : TRUE) * g[s \ {CHOOSE x \in s : TRUE}]]

LEMMA WholeNatural == SolveInput => Whole \in Nat
<1> SUFFICES ASSUME SolveInput
             PROVE  Whole \in Nat
  OBVIOUS
<1> DEFINE n == Cardinality(ComponentTxs)
           X == 1 .. n
           F == [SUBSET X -> Nat]
           first(s) == CHOOSE x \in s : TRUE
           step == [p \in (SUBSET X) \X F |->
                       IF p[1] = {} THEN 1 ELSE first(p[1]) * p[2][p[1] \ {first(p[1])}]]
<1>1. n \in Nat /\ IsFiniteSet(X) /\ X \in SUBSET Nat
  BY SolveConstants, FS_CardinalityType, FS_Interval
<1>2. ASSUME NEW s \in SUBSET X, s # {}
      PROVE  first(s) \in X /\ s \ {first(s)} \in (SUBSET s) \ {s} /\ s \ {first(s)} \in SUBSET X
  BY <1>2
<1>3. \A s \in SUBSET X : \A f \in F :
          step[<<s, f>>] = IF s = {} THEN 1 ELSE first(s) * f[s \ {first(s)}]
  <2> SUFFICES ASSUME NEW s \in SUBSET X, NEW f \in F
               PROVE  step[<<s, f>>] = IF s = {} THEN 1 ELSE first(s) * f[s \ {first(s)}]
    OBVIOUS
  <2>1. <<s, f>> \in (SUBSET X) \X F
    OBVIOUS
  <2> HIDE DEF X, F, first
  <2> QED
    BY <2>1, Zenon
<1>4. step \in [(SUBSET X) \X F -> Nat]
  <2>1. ASSUME NEW p \in (SUBSET X) \X F
        PROVE  (IF p[1] = {} THEN 1 ELSE first(p[1]) * p[2][p[1] \ {first(p[1])}]) \in Nat
    <3>1. p[1] \in SUBSET X /\ p[2] \in F
      OBVIOUS
    <3>2. CASE p[1] # {}
      <4>1. first(p[1]) \in Nat /\ p[1] \ {first(p[1])} \in SUBSET X
        BY <1>1, <1>2, <3>1, <3>2
      <4>2. PICK a \in Nat, b \in Nat : a = first(p[1]) /\ b = p[2][p[1] \ {first(p[1])}]
        BY <3>1, <4>1
      <4>3. a * b \in Nat
        OBVIOUS
      <4> QED
        BY <3>2, <4>2, <4>3
    <3> QED
      BY <3>2
  <2> QED
    BY <2>1
<1> HIDE DEF step, X, first
<1>5. AsksSubsets(X, F, step)
  <2> SUFFICES ASSUME NEW s \in SUBSET X, NEW f \in F, NEW g \in F,
                      \A t \in (SUBSET s) \ {s} : f[t] = g[t]
               PROVE  step[<<s, f>>] = step[<<s, g>>]
    BY DEF AsksSubsets
  <2>1. CASE s = {}
    BY <1>3, <2>1
  <2>2. CASE s # {}
    <3>1. f[s \ {first(s)}] = g[s \ {first(s)}]
      BY <1>2, <2>2
    <3> QED
      BY <1>3, <2>2, <3>1
  <2> QED
    BY <2>1, <2>2
<1>6. Solvable(SUBSET X, Nat, step)
  <2>1. Nat # {}
    OBVIOUS
  <2> QED
    BY <1>1, <1>4, <1>5, <2>1, SubsetRecursion
<1>7. PICK f \in F : \A s \in SUBSET X : f[s] = step[<<s, f>>]
  BY <1>6 DEF Solvable
<1>8. \A s \in SUBSET X : f[s] = IF s = {} THEN 1 ELSE first(s) * f[s \ {first(s)}]
  BY <1>3, <1>7
<1>9. FixedProducts(f, X)
  <2>1. f = [s \in SUBSET X |-> f[s]]
    OBVIOUS
  <2>2. f = [s \in SUBSET X |-> IF s = {} THEN 1 ELSE first(s) * f[s \ {first(s)}]]
    BY <1>8, <2>1
  <2> QED
    BY <2>2 DEF FixedProducts, first
<1> DEFINE iter == CHOOSE g : FixedProducts(g, X)
<1>10. Whole = iter[X]
  BY SolveSets DEF Whole, I!FoldSet, I!MapThenFoldSet, FixedProducts, X
<1>11. FixedProducts(iter, X)
  BY <1>9
<1> HIDE DEF iter
<1>12. \A s \in SUBSET X : iter[s] = IF s = {} THEN 1 ELSE first(s) * iter[s \ {first(s)}]
  BY <1>11 DEF FixedProducts, first
<1> DEFINE U == {s \in SUBSET X : iter[s] = f[s]}
<1>13. \A s \in SUBSET X : (\A t \in (SUBSET s) \ {s} : t \in U) => s \in U
  <2> SUFFICES ASSUME NEW s \in SUBSET X, \A t \in (SUBSET s) \ {s} : t \in U
               PROVE  s \in U
    OBVIOUS
  <2>1. CASE s = {}
    BY <1>8, <1>12, <2>1
  <2>2. CASE s # {}
    <3>1. s \ {first(s)} \in U
      BY <1>2, <2>2
    <3>2. iter[s] = first(s) * iter[s \ {first(s)}] /\ f[s] = first(s) * f[s \ {first(s)}]
      BY <1>8, <1>12, <2>2
    <3>3. iter[s] = f[s]
      BY <3>1, <3>2
    <3> QED
      BY <3>3
  <2> QED
    BY <2>1, <2>2
<1> HIDE DEF U
<1>14. X \in U
  <2>1. \A s \in SUBSET X : s \in U
    BY <1>1, <1>13, SubsetInduction
  <2> QED
    BY <2>1
<1>15. iter[X] = f[X]
  BY <1>14 DEF U
<1> QED
  BY <1>10, <1>15

LEMMA DivisionNamed ==
    ASSUME NEW a \in Nat, NEW n \in Nat \ {0}, NEW q, q = a \div n
    PROVE  q \in Nat /\ q * n <= a
<1>1. q \in Int /\ a % n \in 0 .. n - 1
  OBVIOUS
<1>2. PICK r \in Nat : r = a % n
  BY <1>1
<1>3. a = q * n + r
  BY <1>1, <1>2
<1>4. q * n \in Int /\ q * n <= a
  BY <1>1, <1>3
<1>5. ~(q <= -1)
  <2>1. SUFFICES ASSUME q <= -1 PROVE FALSE
    OBVIOUS
  <2>2. PICK p \in Nat : q = - p - 1
    <3>1. - q - 1 \in Nat
      BY <1>1, <2>1
    <3> QED
      BY <1>1, <3>1
  <2>3. q * n = - (p * n) - n
    BY <2>2
  <2>4. p * n \in Nat
    OBVIOUS
  <2>5. r < n
    BY <1>1, <1>2
  <2> QED
    BY <1>3, <2>3, <2>4, <2>5
<1> QED
  BY <1>1, <1>4, <1>5

\* The share of a neighbour times the number of nodes that leave in a round.
LEMMA ShareArithmetic ==
    ASSUME NEW a \in Nat, NEW q \in Nat, NEW d0 \in Nat, NEW dm \in Nat, NEW dn \in Nat,
           NEW wm \in Nat, NEW wn \in Nat,
           q * d0 <= a, dm <= d0, wm * dn <= wn * dm
    PROVE  (q * wm) * dn <= a * wn
<1>1. q * (wm * dn) <= q * (wn * dm)
  <2>1. PICK x \in Nat, y \in Nat : x = wm * dn /\ y = wn * dm
    OBVIOUS
  <2>2. PICK z \in Nat : y = x + z
    <3>1. y - x \in Nat
      BY <2>1
    <3> QED
      BY <3>1
  <2>3. q * y = q * x + q * z /\ q * z \in Nat /\ q * x \in Nat
    BY <2>2
  <2> QED
    BY <2>1, <2>3
<1>2. (q * dm) * wn <= a * wn
  <2>1. PICK z \in Nat : a = q * dm + z
    <3>1. q * dm <= q * d0
      <4>1. PICK z \in Nat : d0 = dm + z
        <5>1. d0 - dm \in Nat
          OBVIOUS
        <5> QED
          BY <5>1
      <4>2. q * d0 = q * dm + q * z /\ q * z \in Nat /\ q * dm \in Nat
        BY <4>1
      <4> QED
        BY <4>2
    <3>2. q * dm \in Nat /\ q * d0 \in Nat
      OBVIOUS
    <3>3. a - q * dm \in Nat
      BY <3>1, <3>2
    <3> QED
      BY <3>2, <3>3
  <2>2. PICK x \in Nat : x = q * dm
    OBVIOUS
  <2>3. a * wn = x * wn + z * wn /\ z * wn \in Nat /\ x * wn \in Nat
    BY <2>1, <2>2
  <2> QED
    BY <2>2, <2>3
<1>3. (q * wm) * dn = q * (wm * dn) /\ q * (wn * dm) = (q * dm) * wn
  OBVIOUS
<1>4. PICK x1 \in Nat, x2 \in Nat, x3 \in Nat, x4 \in Nat :
          x1 = q * (wm * dn) /\ x2 = q * (wn * dm) /\ x3 = (q * dm) * wn /\ x4 = a * wn
  OBVIOUS
<1> QED
  BY <1>1, <1>2, <1>3, <1>4

LEMMA Cancel ==
    ASSUME NEW x \in Int, NEW y \in Int, NEW n \in Nat \ {0}, x * n <= y * n
    PROVE  x <= y
<1> SUFFICES ASSUME x > y
             PROVE  FALSE
  OBVIOUS
<1>1. PICK z \in Nat : x = y + 1 + z
  <2>1. x - y - 1 \in Nat
    OBVIOUS
  <2> QED
    BY <2>1
<1>2. x * n = y * n + n + z * n /\ z * n \in Nat /\ y * n \in Int
  BY <1>1
<1> QED
  BY <1>2

\* Who is picked pays for the shares of all nodes that leave with it.
LEMMA PickPays ==
    ASSUME SolveInput, solver = "greedy", remaining \in SUBSET nodes,
           NEW v \in remaining, I!Best(v),
           NEW shares, shares = [n \in nodes |-> Share(n)], NEW f, Sums(f, shares, nodes),
           NEW gone, gone = remaining \cap (I!adjList(v) \cup {v})
    PROVE  shares \in [nodes -> Int] /\ f[gone] <= Whole * weights[v]
<1> DEFINE degree(n) == Cardinality(I!adjList(n)) + 1
           left(n) == Cardinality(I!adjList(n) \cap remaining) + 1
<1>1. /\ IsFiniteSet(nodes) /\ Whole \in Nat
      /\ \A n \in nodes : weights[n] \in Nat
      /\ \A s \in SUBSET nodes : IsFiniteSet(s) /\ Cardinality(s) \in Nat
  BY SolveConstants, WholeNatural
<1>2. \A n \in nodes : degree(n) \in Nat \ {0} /\ left(n) \in Nat \ {0} /\ left(n) <= degree(n)
  <2> SUFFICES ASSUME NEW n \in nodes
               PROVE  degree(n) \in Nat \ {0} /\ left(n) \in Nat \ {0} /\ left(n) <= degree(n)
    OBVIOUS
  <2>1. PICK y \in SUBSET nodes, z \in SUBSET nodes :
            y = I!adjList(n) /\ z = I!adjList(n) \cap remaining
    BY Neighbours
  <2>2. z \in SUBSET y /\ Cardinality(z) \in Nat /\ Cardinality(y) \in Nat /\ IsFiniteSet(y)
    BY <1>1, <2>1
  <2>3. Cardinality(z) <= Cardinality(y)
    BY <2>2, FS_Subset
  <2> QED
    BY <2>1, <2>2, <2>3
<1>3. \A n \in nodes : /\ I!remainingDegree(n) + 1 = left(n)
                       /\ Share(n) = (Whole \div degree(n)) * weights[n]
  BY SolveSets DEF I!remainingDegree, Share
<1> HIDE DEF degree, left
<1>4. ASSUME NEW n \in nodes
      PROVE  /\ Whole \div degree(n) \in Nat
             /\ (Whole \div degree(n)) * degree(n) <= Whole
             /\ Share(n) \in Int
  <2>1. PICK d \in Nat \ {0}, w \in Nat : d = degree(n) /\ w = weights[n]
    BY <1>1, <1>2
  <2>2. PICK q : q = Whole \div d
    OBVIOUS
  <2>3. q \in Nat /\ q * d <= Whole
    BY <1>1, <2>2, DivisionNamed
  <2>4. Share(n) = q * w /\ q * w \in Int
    BY <1>3, <2>1, <2>2, <2>3
  <2> QED
    BY <2>1, <2>2, <2>3, <2>4
<1>5. shares \in [nodes -> Int] /\ \A n \in nodes : shares[n] = Share(n)
  BY <1>4
<1>6. v \in nodes /\ gone \in SUBSET nodes
  OBVIOUS
<1>7. ASSUME NEW m \in gone
      PROVE  shares[m] * left(v) <= Whole * weights[v]
  <2>0. m \in nodes /\ m \in remaining
    OBVIOUS
  <2>1. weights[m] * left(v) <= weights[v] * left(m)
    <3>1. PICK wm \in Nat, wv \in Nat, lm \in Nat, lv \in Nat :
              wm = weights[m] /\ wv = weights[v] /\ lm = left(m) /\ lv = left(v)
      BY <1>1, <1>2, <1>6, <2>0
    <3>2. CASE m = v
      <4>1. wm * lv = wv * lm
        BY <3>1, <3>2
      <4> QED
        BY <3>1, <4>1
    <3>3. CASE m # v
      <4>1. I!ByScore(v, m)
        BY <2>0, <3>3 DEF I!Best
      <4>2. \/ weights[v] * left(m) > weights[m] * left(v)
            \/ weights[v] * left(m) = weights[m] * left(v)
        BY <1>3, <1>6, <2>0, <4>1 DEF I!ByScore
      <4>3. wv * lm > wm * lv \/ wv * lm = wm * lv
        BY <3>1, <4>2
      <4>4. wm * lv <= wv * lm
        <5>1. PICK x \in Nat, y \in Nat : x = wm * lv /\ y = wv * lm
          OBVIOUS
        <5> QED
          BY <4>3, <5>1
      <4> QED
        BY <3>1, <4>4
    <3> QED
      BY <3>2, <3>3
  <2>2. PICK q \in Nat, d0 \in Nat, lm \in Nat, lv \in Nat, wm \in Nat, wv \in Nat :
            /\ q = Whole \div degree(m) /\ d0 = degree(m) /\ lm = left(m) /\ lv = left(v)
            /\ wm = weights[m] /\ wv = weights[v]
    BY <1>1, <1>2, <1>4, <1>6, <2>0
  <2>3. q * d0 <= Whole /\ lm <= d0 /\ wm * lv <= wv * lm
    BY <1>2, <1>4, <2>0, <2>1, <2>2
  <2>4. (q * wm) * lv <= Whole * wv
    BY <1>1, <2>3, ShareArithmetic
  <2>5. shares[m] = q * wm
    BY <1>3, <1>5, <2>0, <2>2
  <2> QED
    BY <2>2, <2>4, <2>5
<1>8. Cardinality(gone) = left(v)
  <2>1. PICK y \in SUBSET nodes : y = I!adjList(v) \cap remaining
    OBVIOUS
  <2>2. v \notin y /\ gone = y \cup {v} /\ IsFiniteSet(y)
    BY <1>1, <2>1, Neighbours
  <2>3. Cardinality(gone) = Cardinality(y) + 1
    BY <2>2, FS_AddElement
  <2> QED
    BY <2>1, <2>3 DEF left
<1>9. PICK c \in Nat \ {0}, p \in Int, x \in Int : c = left(v) /\ p = Whole * weights[v] /\ x = f[gone]
  <2>1. PICK w \in Nat : w = weights[v]
    BY <1>1, <1>6
  <2>2. Whole * w \in Int
    BY <1>1
  <2>3. f[gone] \in Int
    BY <1>6 DEF Sums
  <2> QED
    BY <1>2, <1>6, <2>1, <2>2, <2>3
<1>10. f[gone] * c <= p * Cardinality(gone)
  <2>1. \A m \in gone : shares[m] * c <= p
    BY <1>7, <1>9
  <2>2. c \in Int
    OBVIOUS
  <2> QED
    BY <1>1, <1>5, <1>6, <2>1, <2>2, SumsBound
<1>11. x * c <= p * c
  BY <1>8, <1>9, <1>10
<1>12. x <= p
  BY <1>11, Cancel
<1> QED
  BY <1>5, <1>9, <1>12

\* The shares are numbers, and those of a set of nodes are summed like weights.
ShareOf(y) == I!MapThenSumSet(Share, y)
Shares == [n \in nodes |-> Share(n)]

LEMMA ShareType ==
    ASSUME SolveInput
    PROVE  Shares \in [nodes -> Int] /\ \E f : Sums(f, Shares, nodes)
<1>1. /\ IsFiniteSet(nodes) /\ Whole \in Nat
      /\ \A n \in nodes : weights[n] \in Nat
      /\ \A s \in SUBSET nodes : Cardinality(s) \in Nat
  BY SolveConstants, WholeNatural
<1>2. ASSUME NEW n \in nodes
      PROVE  Share(n) \in Int
  <2>1. PICK y \in SUBSET nodes : y = I!adjList(n)
    BY Neighbours
  <2>2. PICK d \in Nat \ {0}, w \in Nat : d = Cardinality(y) + 1 /\ w = weights[n]
    BY <1>1, <2>1
  <2>3. PICK q : q = Whole \div d
    OBVIOUS
  <2>4. q \in Nat
    BY <1>1, <2>3, DivisionNamed
  <2>5. q * w \in Int
    BY <2>4
  <2>6. Share(n) = q * w
    BY <2>1, <2>2, <2>3, SolveSets DEF Share
  <2> QED
    BY <2>5, <2>6
<1>3. Shares \in [nodes -> Int]
  BY <1>2 DEF Shares
<1> QED
  BY <1>1, <1>3, SumsExist

FixedShares(g, y) ==
    g = [s \in SUBSET y |-> IF s = {} THEN 0
                            ELSE Share(CHOOSE x \in s : TRUE) + g[s \ {CHOOSE x \in s : TRUE}]]

LEMMA ShareSum ==
    ASSUME SolveInput, NEW f, Sums(f, Shares, nodes), NEW y \in SUBSET nodes
    PROVE  ShareOf(y) = f[y]
<1>1. IsFiniteSet(nodes) /\ IsFiniteSet(y)
  BY SolveConstants
<1>2. \A n \in nodes : Shares[n] = Share(n)
  BY DEF Shares
<1> DEFINE h == [s \in SUBSET y |-> f[s]]
           first(s) == CHOOSE x \in s : TRUE
<1>3. Sums(h, Shares, y) /\ h[y] = f[y]
  BY SumsRestrict
<1>4. h = [s \in SUBSET y |-> h[s]]
  OBVIOUS
<1> HIDE DEF h
<1>5. \A s \in SUBSET y : s # {} => first(s) \in nodes
  OBVIOUS
<1>6. SumsInOrder(h, Shares, y)
  BY <1>3, SumsOrdered
<1>7. \A s \in SUBSET y : h[s] = IF s = {} THEN 0 ELSE Share(first(s)) + h[s \ {first(s)}]
  BY <1>2, <1>5, <1>6 DEF SumsInOrder
<1>8. FixedShares(h, y)
  BY <1>4, <1>7 DEF FixedShares
<1> DEFINE iter == CHOOSE g : FixedShares(g, y)
<1>9. ShareOf(y) = iter[y]
  BY DEF ShareOf, I!MapThenSumSet, I!MapThenFoldSet, FixedShares
<1>10. FixedShares(iter, y)
  BY <1>8
<1> HIDE DEF iter
<1>11. \A s \in SUBSET y : iter[s] = IF s = {} THEN 0 ELSE Share(first(s)) + iter[s \ {first(s)}]
  BY <1>10 DEF FixedShares
<1>12. SumsInOrder(iter, Shares, y)
  BY <1>2, <1>5, <1>11 DEF SumsInOrder
<1>13. iter[y] = h[y]
  BY <1>1, <1>3, <1>12, SumsUnique
<1> QED
  BY <1>3, <1>9, <1>13

\* What a round of the greedy solver does to both sides of its bound.
LEMMA PickKeepsBound ==
    ASSUME SolveInput, solver = "greedy", remaining \in SUBSET nodes,
           NEW v \in remaining, I!Best(v),
           NEW c \in SUBSET nodes, v \notin c,
           ShareOf(nodes \ remaining) <= Whole * I!Weight(c)
    PROVE  ShareOf(nodes \ (remaining \ (I!adjList(v) \cup {v}))) <= Whole * I!Weight(c \cup {v})
<1> DEFINE gone == remaining \cap (I!adjList(v) \cup {v})
           away == nodes \ remaining
<1>1. PICK f : Shares \in [nodes -> Int] /\ Sums(f, Shares, nodes)
  BY ShareType
<1>2. f[gone] <= Whole * weights[v]
  <2>1. PICK y : y = Shares
    OBVIOUS
  <2>2. y = [n \in nodes |-> Share(n)] /\ Sums(f, y, nodes)
    BY <1>1, <2>1 DEF Shares
  <2>3. PICK z : z = gone
    OBVIOUS
  <2>4. z = remaining \cap (I!adjList(v) \cup {v})
    BY <2>3
  <2>5. f[z] <= Whole * weights[v]
    BY <2>2, <2>4, PickPays
  <2> QED
    BY <2>3, <2>5
<1>3. /\ nodes \ (remaining \ (I!adjList(v) \cup {v})) = away \cup gone
      /\ away \in SUBSET nodes /\ gone \in SUBSET nodes /\ away \cap gone = {}
      /\ away \cup gone \in SUBSET nodes
  <2>1. I!adjList(v) \in SUBSET nodes
    BY Neighbours
  <2> QED
    BY <2>1
<1> HIDE DEF gone, away
<1>4. f[away \cup gone] = f[away] + f[gone]
  BY <1>1, <1>3, SolveConstants, SumsUnion
<1>5. ShareOf(away \cup gone) = f[away \cup gone] /\ ShareOf(away) = f[away]
  BY <1>1, <1>3, ShareSum
<1>6. I!Weight(c \cup {v}) = weights[v] + I!Weight(c) /\ I!Weight(c) \in Nat
  BY WeightsAdd
<1>7. PICK w \in Nat, wc \in Nat, W \in Nat : w = weights[v] /\ wc = I!Weight(c) /\ W = Whole
  BY <1>6, SolveConstants, WholeNatural
<1>8. PICK x \in Int, y \in Int : x = f[away] /\ y = f[gone]
  BY <1>1, <1>3 DEF Sums
<1>9. W * (w + wc) = W * w + W * wc /\ W * w \in Int /\ W * wc \in Int
  OBVIOUS
<1>10. x <= W * wc /\ y <= W * w
  BY <1>2, <1>5, <1>7, <1>8 DEF away
<1>11. x + y <= W * (w + wc)
  BY <1>9, <1>10
<1> QED
  BY <1>3, <1>4, <1>5, <1>6, <1>7, <1>8, <1>11

-----------------------------------------------------------------------------
(* The stage that solves a component                                       *)

\* What has been chosen so far has no conflicts, among itself and with what
\* remains, and what is neither has one with it.  Where a solver is done, its
\* promise holds.
SolveIInv ==
    /\ I!TypeOK
    /\ Distinct(result)
    /\ I!IsIndependent(I!Chosen)
    /\ \A n \in remaining : I!adjList(n) \cap I!Chosen = {}
    /\ ~failed => \A n \in nodes \ (remaining \cup I!Chosen) : I!adjList(n) \cap I!Chosen # {}
    /\ failed => solver = "relaxation"
    /\ done /\ ~failed => remaining = {}
    /\ done /\ solver = "exact" => Best(nodes, I!Chosen)
    /\ solver = "greedy" => ShareOf(nodes \ remaining) <= Whole * I!Weight(I!Chosen)

\* The same, of any values of what the solvers change.
SolveState(rest, found, fails, ends) ==
    /\ rest \in SUBSET nodes
    /\ found \in Seq(nodes \ rest)
    /\ fails \in BOOLEAN /\ ends \in BOOLEAN
    /\ Distinct(found)
    /\ I!IsIndependent(Elements(found))
    /\ \A n \in rest : I!adjList(n) \cap Elements(found) = {}
    /\ ~fails => \A n \in nodes \ (rest \cup Elements(found)) : I!adjList(n) \cap Elements(found) # {}
    /\ fails => solver = "relaxation"
    /\ ends /\ ~fails => rest = {}
    /\ ends /\ solver = "exact" => Best(nodes, Elements(found))
    /\ solver = "greedy" => ShareOf(nodes \ rest) <= Whole * I!Weight(Elements(found))

LEMMA SolveParts == SolveIInv <=> SolveInput /\ SolveState(remaining, result, failed, done)
BY SolveElements DEF SolveIInv, SolveInput, SolveState, I!TypeOK, I!Chosen

LEMMA SolvePartsNext ==
    SolveIInv' <=> SolveInput' /\ SolveState(remaining, result, failed, done)'
BY SolveParts, PTL

\* The solvers change nothing of what they are given.
WeightOf(w, y) == I!MapThenSumSet(LAMBDA n : w[n], y)
ShareOfGraph(edges, set, w, y) ==
    I!MapThenSumSet(LAMBDA n : (Whole \div (I!Cardinality({m \in set : {m, n} \in edges}) + 1)) * w[n], y)

LEMMA WeightNamed == \A y : I!Weight(y) = WeightOf(weights, y)
BY DEF I!Weight, WeightOf
LEMMA WeightNamedNext == (\A y : I!Weight(y) = WeightOf(weights, y))'
BY WeightNamed, PTL
LEMMA ShareNamed == \A y : ShareOf(y) = ShareOfGraph(dagEdges, nodes, weights, y)
BY DEF ShareOf, Share, ShareOfGraph, I!adjList
LEMMA ShareNamedNext == (\A y : ShareOf(y) = ShareOfGraph(dagEdges, nodes, weights, y))'
BY ShareNamed, PTL

LEMMA SameInput ==
    ASSUME UNCHANGED I!input
    PROVE  /\ \A y : I!Weight(y)' = I!Weight(y) /\ ShareOf(y)' = ShareOf(y)
           /\ \A n : I!adjList(n)' = I!adjList(n)
           /\ \A y : I!IsIndependent(y)' = I!IsIndependent(y)
           /\ \A c, y : Best(c, y)' = Best(c, y)
           /\ Whole' = Whole
           /\ SolveInput' = SolveInput
<1>1. /\ dagEdges' = dagEdges /\ nodes' = nodes /\ weights' = weights /\ solver' = solver
  BY DEF I!input
<1>2. \A y : I!Weight(y)' = I!Weight(y)
  BY <1>1, WeightNamed, WeightNamedNext
<1>3. \A y : ShareOf(y)' = ShareOf(y)
  BY <1>1, ShareNamed, ShareNamedNext
<1>4. \A y : I!IsIndependent(y)' = I!IsIndependent(y)
  BY <1>1 DEF I!IsIndependent
<1>5. \A c, y : Best(c, y)' = Best(c, y)
  BY <1>2, <1>4 DEF Best
<1>6. SolveInput' = SolveInput
  BY <1>1 DEF SolveInput
<1>7. \A n : I!adjList(n)' = I!adjList(n)
  BY <1>1 DEF I!adjList
<1>8. Whole' = Whole
  BY DEF Whole, I!FoldSet, I!MapThenFoldSet, I!Cardinality
<1> QED
  BY <1>2, <1>3, <1>4, <1>5, <1>6, <1>7, <1>8

\* What a step that leaves the input alone must show.
LEMMA SolveKept ==
    ASSUME SolveIInv, UNCHANGED I!input, SolveState(remaining', result', failed', done')
    PROVE  SolveIInv'
<1>1. SolveState(remaining, result, failed, done)'
  BY SameInput DEF SolveState, I!input
<1> QED
  BY <1>1, SameInput, SolveParts, SolvePartsNext

LEMMA SolvePick ==
    ASSUME SolveIInv, NEW v, I!Pick(v)
    PROVE  SolveIInv'
<1> DEFINE chosen == Elements(result)
           rest == remaining \ (I!adjList(v) \cup {v})
           found == Append(result, v)
<1>1. SolveInput /\ SolveState(remaining, result, failed, done)
  BY SolveParts
<1>2. /\ solver \in {"greedy", "costOnly"} /\ v \in remaining /\ I!Best(v)
      /\ result' = found /\ remaining' = rest /\ UNCHANGED I!input
      /\ failed' = failed /\ done' = done
  BY DEF I!Pick
<1>3. ~failed /\ ~done
  BY <1>1, <1>2 DEF SolveState
<1>4. /\ rest \in SUBSET nodes /\ v \in nodes \ rest /\ remaining \in SUBSET nodes
      /\ result \in Seq(nodes \ rest)
  <2>1. result \in Seq(nodes \ remaining) /\ remaining \in SUBSET nodes
    BY <1>1 DEF SolveState
  <2>2. \A i \in 1 .. Len(result) : result[i] \in nodes \ rest
    BY <2>1
  <2> QED
    BY <1>2, <2>1, <2>2
<1>5. chosen \in SUBSET (nodes \ remaining) /\ v \notin chosen /\ chosen \in SUBSET nodes
  BY <1>1, <1>2 DEF SolveState, Elements
<1> HIDE DEF rest
<1>6. /\ found \in Seq(nodes \ rest) /\ Elements(found) = chosen \cup {v} /\ Distinct(found)
  <2>1. Distinct(result)
    BY <1>1 DEF SolveState
  <2> QED
    BY <1>4, <1>5, <2>1, AppendElements
<1>7. I!IsIndependent(chosen) /\ I!adjList(v) \cap chosen = {}
  BY <1>1, <1>2 DEF SolveState
<1> HIDE DEF chosen, found
<1>8. I!IsIndependent(chosen \cup {v})
  BY <1>1, <1>4, <1>5, <1>7, IndependentWith
<1>9. \A n \in rest : I!adjList(n) \cap (chosen \cup {v}) = {}
  <2> SUFFICES ASSUME NEW n \in rest
               PROVE  I!adjList(n) \cap (chosen \cup {v}) = {}
    OBVIOUS
  <2>1. n \in remaining /\ n \notin I!adjList(v) /\ n \in nodes /\ v \in nodes
    BY <1>4 DEF rest
  <2>2. I!adjList(n) \cap chosen = {}
    BY <1>1, <2>1 DEF SolveState, chosen
  <2>3. v \notin I!adjList(n)
    BY <1>1, <2>1, Neighbours
  <2> QED
    BY <2>2, <2>3
<1>10. \A n \in nodes \ (rest \cup (chosen \cup {v})) : I!adjList(n) \cap (chosen \cup {v}) # {}
  <2> SUFFICES ASSUME NEW n \in nodes \ (rest \cup (chosen \cup {v}))
               PROVE  I!adjList(n) \cap (chosen \cup {v}) # {}
    OBVIOUS
  <2>1. CASE n \in remaining
    <3>1. n \in I!adjList(v) /\ n \in nodes /\ v \in nodes
      BY <1>4, <2>1 DEF rest
    <3>2. v \in I!adjList(n)
      BY <1>1, <3>1, Neighbours
    <3> QED
      BY <3>2
  <2>2. CASE n \notin remaining
    <3>1. n \in nodes \ (remaining \cup chosen)
      BY <2>2
    <3>2. I!adjList(n) \cap chosen # {}
      BY <1>1, <1>3, <3>1 DEF SolveState, chosen
    <3> QED
      BY <3>2
  <2> QED
    BY <2>1, <2>2
<1>11. ASSUME solver = "greedy"
       PROVE  ShareOf(nodes \ rest) <= Whole * I!Weight(chosen \cup {v})
  <2>1. ShareOf(nodes \ remaining) <= Whole * I!Weight(chosen)
    BY <1>1, <1>11 DEF SolveState, chosen
  <2> QED
    BY <1>1, <1>2, <1>4, <1>5, <1>11, <2>1, PickKeepsBound DEF rest
<1>12. SolveState(rest, found, failed, done)
  BY <1>1, <1>2, <1>3, <1>4, <1>6, <1>8, <1>9, <1>10, <1>11 DEF SolveState
<1> QED
  BY <1>2, <1>12, SolveKept

\* Whoever leaves no node out that conflicts with none chosen is done.
LEMMA SolveAll ==
    ASSUME SolveIInv, ~done, NEW found \in Seq(nodes), Distinct(found),
           I!IsIndependent(Elements(found)), solver \in {"exact", "relaxation"},
           \A v \in nodes : v \in Elements(found) \/ I!adjList(v) \cap Elements(found) # {},
           solver = "exact" => Best(nodes, Elements(found))
    PROVE  SolveState({}, found, failed, TRUE)
<1>1. SolveState(remaining, result, failed, done)
  BY SolveParts
<1>2. \A n \in nodes \ ({} \cup Elements(found)) : I!adjList(n) \cap Elements(found) # {}
  OBVIOUS
<1>3. found \in Seq(nodes \ {})
  BY nodes \ {} = nodes
<1> QED
  BY <1>1, <1>2, <1>3 DEF SolveState

LEMMA SolveExactKeeps ==
    ASSUME SolveIInv, I!SolveExact
    PROVE  SolveIInv'
<1> DEFINE found == I!SortInts(I!ExactMWIS)
<1>1. SolveInput /\ SolveState(remaining, result, failed, done)
  BY SolveParts
<1>2. /\ solver = "exact" /\ ~done /\ result' = found /\ remaining' = {} /\ done' = TRUE
      /\ failed' = failed /\ UNCHANGED I!input
  BY DEF I!SolveExact
<1>3. Best(nodes, I!ExactMWIS)
  BY <1>1, ExactOptimal
<1>4. PICK y \in SUBSET nodes : y = I!ExactMWIS
  BY <1>3 DEF Best
<1>5. found \in Seq(nodes) /\ Distinct(found) /\ Elements(found) = y
  BY <1>1, <1>4, SortedInts
<1>6. \A v \in nodes : v \in y \/ I!adjList(v) \cap y # {}
  <2> SUFFICES ASSUME NEW v \in nodes, v \notin y, I!adjList(v) \cap y = {}
               PROVE  FALSE
    OBVIOUS
  <2>1. I!IsIndependent(y)
    BY <1>3, <1>4 DEF Best
  <2>2. I!IsIndependent(y \cup {v}) /\ y \cup {v} \in SUBSET nodes
    BY <1>1, <2>1, IndependentWith
  <2>3. I!Weight(y \cup {v}) <= I!Weight(y)
    BY <1>3, <1>4, <2>2 DEF Best
  <2>4. I!Weight(y \cup {v}) = weights[v] + I!Weight(y) /\ I!Weight(y) \in Nat
    BY <1>1, WeightsAdd
  <2>5. PICK w \in Nat \ {0}, x \in Nat : w = weights[v] /\ x = I!Weight(y)
    BY <1>1, <2>4, SolveConstants
  <2> QED
    BY <2>3, <2>4, <2>5
<1> HIDE DEF found
<1>7. SolveState({}, found, failed, TRUE)
  <2>1. I!IsIndependent(Elements(found)) /\ Best(nodes, Elements(found))
    BY <1>3, <1>4, <1>5 DEF Best
  <2>2. \A v \in nodes : v \in Elements(found) \/ I!adjList(v) \cap Elements(found) # {}
    BY <1>5, <1>6
  <2> QED
    BY <1>2, <1>5, <2>1, <2>2, SolveAll
<1> QED
  BY <1>2, <1>7, SolveKept

LEMMA SolveRelaxationKeeps ==
    ASSUME SolveIInv, NEW order \in I!SetToSeqs(nodes), I!SolveRelaxation(order)
    PROVE  SolveIInv'
<1> DEFINE found == I!SelectInOrder(order)
<1>1. SolveInput
  BY SolveParts
<1>2. /\ solver = "relaxation" /\ ~done /\ result' = found /\ remaining' = {} /\ done' = TRUE
      /\ failed' = failed /\ UNCHANGED I!input
  BY DEF I!SolveRelaxation
<1>3. /\ found \in Seq(nodes) /\ Distinct(found) /\ I!IsIndependent(Elements(found))
      /\ \A v \in nodes : v \in Elements(found) \/ I!adjList(v) \cap Elements(found) # {}
  BY <1>1, RoundingSelects
<1> HIDE DEF found
<1>4. SolveState({}, found, failed, TRUE)
  BY <1>2, <1>3, SolveAll
<1> QED
  BY <1>2, <1>4, SolveKept

LEMMA SolveStutter ==
    ASSUME SolveIInv, UNCHANGED I!vars
    PROVE  SolveIInv'
<1>1. UNCHANGED I!input /\ SolveState(remaining', result', failed', done')
  BY SolveParts DEF I!vars, I!input
<1> QED
  BY <1>1, SolveKept

LEMMA SolveNext ==
    ASSUME SolveIInv, I!Next
    PROVE  SolveIInv'
<1>1. ASSUME NEW v \in ComponentTxs, I!Pick(v)
      PROVE  SolveIInv'
  BY <1>1, SolvePick
<1>2. CASE I!EndPicking
  <2>1. /\ solver \in {"greedy", "costOnly"} /\ remaining = {} /\ done' = TRUE
        /\ remaining' = remaining /\ result' = result /\ failed' = failed /\ UNCHANGED I!input
    BY <1>2 DEF I!EndPicking
  <2>2. SolveState(remaining, result, failed, TRUE)
    BY <2>1, SolveParts DEF SolveState
  <2> QED
    BY <2>1, <2>2, SolveKept
<1>3. CASE I!FailRelaxation
  <2>1. /\ solver = "relaxation" /\ done' = TRUE /\ failed' = TRUE
        /\ remaining' = remaining /\ result' = result /\ UNCHANGED I!input
    BY <1>3 DEF I!FailRelaxation
  <2>2. SolveState(remaining, result, TRUE, TRUE)
    BY <2>1, SolveParts DEF SolveState
  <2> QED
    BY <2>1, <2>2, SolveKept
<1>4. CASE I!Terminated
  BY <1>4, SolveStutter DEF I!Terminated
<1> QED
  BY <1>1, <1>2, <1>3, <1>4, SolveExactKeeps, SolveRelaxationKeeps DEF I!Next

LEMMA SolveInit ==
    ASSUME I!Init
    PROVE  SolveIInv
<1>1. /\ SolveInput /\ remaining = nodes /\ result = <<>> /\ failed = FALSE /\ done = FALSE
  BY DEF I!Init, SolveInput
<1>2. /\ Elements(<<>>) = {} /\ Distinct(<<>>) /\ I!IsIndependent({}) /\ nodes \ nodes = {}
      /\ <<>> \in Seq({})
  BY DEF Elements, Distinct, I!IsIndependent
<1>3. ShareOf({}) <= Whole * I!Weight({})
  <2>1. PICK f : Sums(f, Shares, nodes)
    BY <1>1, ShareType
  <2>2. ShareOf({}) = 0
    BY <1>1, <2>1, ShareSum DEF Sums
  <2>3. PICK w \in Nat, x \in Nat : w = Whole /\ x = I!Weight({})
    BY <1>1, WholeNatural, WeightsAdd
  <2>4. w * x \in Nat
    OBVIOUS
  <2> QED
    BY <2>2, <2>3, <2>4
<1>4. SolveState(remaining, result, failed, done)
  BY <1>1, <1>2, <1>3 DEF SolveState
<1> QED
  BY <1>1, <1>4, SolveParts

\* The inductive invariant of the solvers, where they are the stage looked at.
SolveInv == stage = "solve" => SolveIInv

\* For any component, weights and solver: what is chosen has no conflicts, and what
\* is neither chosen nor remains has one with it.
THEOREM SolveInvariance == Spec => []SolveInv
<1>1. Init => SolveInv
  BY SolveInit DEF Init, SolveInv
<1>2. ASSUME SolveInv, [Next]_vars
      PROVE  SolveInv'
  <2>1. CASE UNCHANGED vars
    <3>1. stage' = stage /\ UNCHANGED I!vars
      BY <2>1 DEF vars, solveVars, I!vars
    <3> QED
      BY <1>2, <3>1, SolveStutter DEF SolveInv
  <2>2. CASE Next
    <3>1. stage' = stage /\ (stage = "solve" => I!Next)
      BY <2>2 DEF Next
    <3> QED
      BY <1>2, <3>1, SolveNext DEF SolveInv
  <2> QED
    BY <1>2, <2>1, <2>2
<1> QED
  BY <1>1, <1>2, PTL DEF Spec

\* For any component, weights and solver: what is committed has no conflicts, each
\* transaction is in it once, and once the solver is done every other transaction
\* conflicts with a committed one.
THEOREM IndependentCorrect == Spec => []Independent
<1>1. SolveInv => Independent
  <2> SUFFICES ASSUME SolveIInv
               PROVE  I!Independent /\ I!Maximal
    BY DEF SolveInv, Independent
  <2>1. SolveState(remaining, result, failed, done) /\ I!Chosen = Elements(result)
    BY SolveParts, SolveElements DEF I!Chosen
  <2>2. I!Cardinality(Elements(result)) = Len(result)
    BY <2>1, DistinctSize, SolveSets DEF SolveState
  <2>3. I!Independent
    BY <2>1, <2>2 DEF SolveState, I!Independent
  <2>4. I!Maximal
    BY <2>1 DEF SolveState, I!Maximal
  <2> QED
    BY <2>3, <2>4
<1> QED
  BY <1>1, SolveInvariance, PTL

\* For any component and weights: the exact solver commits the greatest weight that
\* a set without conflicts has, and the greedy one at least the sum of all weights
\* divided by the degrees plus one.
THEOREM OptimalCorrect == Spec => []Optimal
<1>1. SolveInv => Optimal
  <2> SUFFICES ASSUME SolveIInv
               PROVE  I!Optimal /\ I!GreedyBound
    BY DEF SolveInv, Optimal
  <2>1. SolveInput /\ SolveState(remaining, result, failed, done) /\ I!Chosen = Elements(result)
    BY SolveParts, SolveElements DEF I!Chosen
  <2>2. I!Optimal
    BY <2>1 DEF SolveState, I!Optimal, Best
  <2>3. I!GreedyBound
    <3>1. CASE done /\ solver = "greedy"
      <4>1. remaining = {} /\ ShareOf(nodes \ remaining) <= Whole * I!Weight(I!Chosen)
        BY <2>1, <3>1 DEF SolveState
      <4>2. nodes \ {} = nodes
        OBVIOUS
      <4>3. Whole * I!Weight(I!Chosen) >= I!MapThenSumSet(Share, nodes)
        <5>1. Whole \in Nat /\ I!Weight(Elements(result)) \in Nat /\ ShareOf(nodes) \in Int
          <6>1. Elements(result) \in SUBSET nodes
            BY <2>1 DEF SolveState, Elements
          <6>2. PICK f : Sums(f, Shares, nodes)
            BY <2>1, ShareType
          <6>3. ShareOf(nodes) = f[nodes] /\ f[nodes] \in Int
            BY <2>1, <6>2, ShareSum DEF Sums
          <6> QED
            BY <2>1, <6>1, <6>3, WholeNatural, WeightsAdd
        <5>2. PICK a \in Nat, b \in Nat, c \in Int :
                  a = Whole /\ b = I!Weight(I!Chosen) /\ c = ShareOf(nodes)
          BY <2>1, <5>1
        <5>3. a * b \in Nat /\ c <= a * b
          BY <4>1, <4>2, <5>2
        <5>4. Whole * I!Weight(I!Chosen) >= ShareOf(nodes)
          BY <5>2, <5>3
        <5> QED
          BY <5>4 DEF ShareOf
      <4> QED
        BY <4>3 DEF I!GreedyBound, Whole, Share
    <3>2. CASE ~(done /\ solver = "greedy")
      BY <3>2 DEF I!GreedyBound
    <3> QED
      BY <3>1, <3>2
  <2> QED
    BY <2>2, <2>3
<1> QED
  BY <1>1, SolveInvariance, PTL

-----------------------------------------------------------------------------
(* Find and Union                                                          *)

\* Ranks grow on the way up.
Forest(parent, rank) ==
    /\ parent \in [GraphTxs -> GraphTxs] /\ rank \in [GraphTxs -> Nat]
    /\ \A n \in GraphTxs : parent[n] # n => rank[n] < rank[parent[n]]

\* r has the root of every node.
Roots(r, parent) ==
    /\ r \in [GraphTxs -> GraphTxs]
    /\ \A n \in GraphTxs : r[n] = IF parent[n] = n THEN n ELSE r[parent[n]]

LEMMA GraphFinite == IsFiniteSet(GraphTxs) /\ GraphTxs \in SUBSET Nat
BY Assumptions DEF G!TxsAssumption, G!IsFiniteSet, IsFiniteSet

\* How far up a node is, from the greatest rank.
LEMMA ForestDepth ==
    ASSUME NEW parent, NEW rank, Forest(parent, rank)
    PROVE  \E bound \in Nat : \E depth \in [GraphTxs -> 0 .. bound] :
               \A n \in GraphTxs : parent[n] # n => depth[parent[n]] < depth[n]
<1>1. CASE GraphTxs = {}
  <2> DEFINE depth == [n \in GraphTxs |-> 0]
  <2>1. depth \in [GraphTxs -> 0 .. 0]
    BY <1>1
  <2> QED
    BY <1>1, <2>1
<1>2. CASE GraphTxs # {}
  <2>1. PICK top \in GraphTxs : \A n \in GraphTxs : rank[n] <= rank[top]
    BY <1>2, GraphFinite, Greatest DEF Forest
  <2>2. PICK bound \in Nat : bound = rank[top]
    BY DEF Forest
  <2> DEFINE depth == [n \in GraphTxs |-> bound - rank[n]]
  <2>3. ASSUME NEW n \in GraphTxs
        PROVE  bound - rank[n] \in 0 .. bound
    <3>1. PICK k \in Nat : k = rank[n]
      BY DEF Forest
    <3> QED
      BY <2>1, <2>2, <3>1
  <2>4. depth \in [GraphTxs -> 0 .. bound]
    BY <2>3
  <2>5. ASSUME NEW n \in GraphTxs, parent[n] # n
        PROVE  depth[parent[n]] < depth[n]
    <3>1. PICK k \in Nat, l \in Nat : k = rank[n] /\ l = rank[parent[n]] /\ k < l
      BY <2>5 DEF Forest
    <3>2. parent[n] \in GraphTxs
      BY DEF Forest
    <3> QED
      BY <3>1, <3>2
  <2> HIDE DEF depth
  <2> QED
    BY <2>4, <2>5
<1> QED
  BY <1>1, <1>2

\* What holds of a node whenever it holds of its parent holds of all.
LEMMA ForestInduction ==
    ASSUME NEW parent, NEW rank, Forest(parent, rank), NEW U,
           \A n \in GraphTxs : (parent[n] = n \/ parent[n] \in U) => n \in U
    PROVE  \A n \in GraphTxs : n \in U
<1>0. PICK bound \in Nat :
          \E depth \in [GraphTxs -> 0 .. bound] :
              \A n \in GraphTxs : parent[n] # n => depth[parent[n]] < depth[n]
  BY ForestDepth
<1>1. PICK depth \in [GraphTxs -> 0 .. bound] :
          \A n \in GraphTxs : parent[n] # n => depth[parent[n]] < depth[n]
  BY <1>0
<1>2. depth \in [GraphTxs -> Nat]
  BY <1>1
<1>3. ASSUME NEW n \in GraphTxs, \A m \in GraphTxs : depth[m] < depth[n] => m \in U
      PROVE  n \in U
  <2>1. parent[n] \in GraphTxs
    BY DEF Forest
  <2> QED
    BY <1>1, <1>3, <2>1
<1> QED
  BY <1>2, <1>3, DepthInduction

\* A definition that asks its value at the parent.
Climbs(parent, F, step) ==
    \A n \in GraphTxs : \A f, g \in F :
        (parent[n] # n => f[parent[n]] = g[parent[n]]) => step[<<n, f>>] = step[<<n, g>>]

LEMMA ForestRecursion ==
    ASSUME NEW parent, NEW rank, Forest(parent, rank), NEW Values, Values # {},
           NEW step \in [GraphTxs \X [GraphTxs -> Values] -> Values],
           Climbs(parent, [GraphTxs -> Values], step)
    PROVE  Solvable(GraphTxs, Values, step)
<1>0. PICK bound \in Nat :
          \E depth \in [GraphTxs -> 0 .. bound] :
              \A n \in GraphTxs : parent[n] # n => depth[parent[n]] < depth[n]
  BY ForestDepth
<1>1. PICK depth \in [GraphTxs -> 0 .. bound] :
          \A n \in GraphTxs : parent[n] # n => depth[parent[n]] < depth[n]
  BY <1>0
<1> DEFINE F == [GraphTxs -> Values]
<1>2. AsksBelow(GraphTxs, depth, F, step)
  <2> SUFFICES ASSUME NEW n \in GraphTxs, NEW f \in F, NEW g \in F,
                      \A m \in GraphTxs : depth[m] < depth[n] => f[m] = g[m]
               PROVE  step[<<n, f>>] = step[<<n, g>>]
    BY DEF AsksBelow
  <2>1. parent[n] \in GraphTxs
    BY DEF Forest
  <2>2. parent[n] # n => f[parent[n]] = g[parent[n]]
    BY <1>1, <2>1
  <2> HIDE DEF F
  <2> QED
    BY <2>2 DEF Climbs, F
<1>3. Recursion(GraphTxs, Values, bound, depth, step)
  BY <1>1, <1>2 DEF Recursion
<1> QED
  BY <1>3, RecursionByDepth

LEMMA RootsExist ==
    ASSUME NEW parent, NEW rank, Forest(parent, rank)
    PROVE  \E r : Roots(r, parent)
<1>1. CASE GraphTxs = {}
  <2> DEFINE r == [n \in GraphTxs |-> n]
  <2>1. r \in [GraphTxs -> GraphTxs]
    OBVIOUS
  <2> QED
    BY <1>1, <2>1 DEF Roots
<1>2. CASE GraphTxs # {}
  <2> DEFINE F == [GraphTxs -> GraphTxs]
             step == [p \in GraphTxs \X F |-> IF parent[p[1]] = p[1] THEN p[1] ELSE p[2][parent[p[1]]]]
  <2>1. \A n \in GraphTxs : parent[n] \in GraphTxs
    BY DEF Forest
  <2>2. \A n \in GraphTxs : \A f \in F :
            step[<<n, f>>] = IF parent[n] = n THEN n ELSE f[parent[n]]
    OBVIOUS
  <2>3. step \in [GraphTxs \X F -> GraphTxs]
    BY <2>1
  <2> HIDE DEF step
  <2>4. Climbs(parent, F, step)
    BY <2>1, <2>2 DEF Climbs
  <2>7. Solvable(GraphTxs, GraphTxs, step)
    BY <1>2, <2>3, <2>4, ForestRecursion
  <2>5. PICK r \in F : \A n \in GraphTxs : r[n] = step[<<n, r>>]
    BY <2>7 DEF Solvable
  <2>6. Roots(r, parent)
    BY <2>2, <2>5 DEF Roots
  <2> QED
    BY <2>6
<1> QED
  BY <1>1, <1>2

LEMMA RootsUnique ==
    ASSUME NEW parent, NEW rank, Forest(parent, rank), NEW r, Roots(r, parent),
           NEW q, \A n \in GraphTxs : q[n] = IF parent[n] = n THEN n ELSE q[parent[n]]
    PROVE  \A n \in GraphTxs : q[n] = r[n]
<1> DEFINE U == {n \in GraphTxs : q[n] = r[n]}
<1>1. ASSUME NEW n \in GraphTxs, parent[n] = n \/ parent[n] \in U
      PROVE  n \in U
  BY <1>1 DEF Roots
<1> HIDE DEF U
<1>2. \A n \in GraphTxs : n \in U
  BY <1>1, ForestInduction
<1> QED
  BY <1>2 DEF U

FixedRoot(g, parent) == g = [n \in GraphTxs |-> IF parent[n] = n THEN n ELSE g[parent[n]]]

\* In a forest, Find returns the root.
LEMMA RootFound ==
    ASSUME NEW parent, NEW rank, Forest(parent, rank), NEW r, Roots(r, parent), NEW x \in GraphTxs
    PROVE  G!Root(parent, x) = r[x]
<1> DEFINE iter == CHOOSE g : FixedRoot(g, parent)
<1>1. FixedRoot(r, parent)
  <2>1. r = [n \in GraphTxs |-> r[n]]
    BY DEF Roots
  <2> QED
    BY <2>1 DEF Roots, FixedRoot
<1>2. G!Root(parent, x) = iter[x]
  BY DEF G!Root, FixedRoot
<1>3. FixedRoot(iter, parent)
  BY <1>1
<1> HIDE DEF iter
<1>4. \A n \in GraphTxs : iter[n] = IF parent[n] = n THEN n ELSE iter[parent[n]]
  BY <1>3 DEF FixedRoot
<1> QED
  BY <1>2, <1>4, RootsUnique

\* A root is its own parent, and has the greatest rank of its tree.
LEMMA RootsOnTop ==
    ASSUME NEW parent, NEW rank, Forest(parent, rank), NEW r, Roots(r, parent)
    PROVE  \A n \in GraphTxs : /\ r[n] \in GraphTxs /\ parent[r[n]] = r[n] /\ r[r[n]] = r[n]
                               /\ r[n] # n => rank[n] < rank[r[n]]
                               /\ parent[n] = n <=> r[n] = n
<1> DEFINE U == {n \in GraphTxs : /\ parent[r[n]] = r[n]
                                  /\ r[n] # n => rank[n] < rank[r[n]]
                                  /\ parent[n] # n => r[n] # n}
<1>1. ASSUME NEW n \in GraphTxs, parent[n] = n \/ parent[n] \in U
      PROVE  n \in U
  <2>1. CASE parent[n] = n
    BY <2>1 DEF Roots
  <2>2. CASE parent[n] # n
    <3>1. PICK a \in GraphTxs : a = parent[n] /\ a \in U /\ r[n] = r[a] /\ rank[n] < rank[a]
      BY <1>1, <2>2 DEF Roots, Forest
    <3>2. PICK k \in Nat, l \in Nat, m \in Nat : k = rank[n] /\ l = rank[a] /\ m = rank[r[a]]
      BY DEF Forest, Roots
    <3>3. r[a] # a => l < m
      BY <3>1, <3>2
    <3>4. k < l /\ l <= m
      BY <3>1, <3>2, <3>3
    <3>5. k < m /\ r[n] # n
      BY <3>1, <3>2, <3>4
    <3>6. parent[r[n]] = r[n] /\ rank[n] < rank[r[n]]
      BY <3>1, <3>2, <3>5
    <3> QED
      BY <3>5, <3>6
  <2> QED
    BY <2>1, <2>2
<1>2. \A n \in GraphTxs : n \in U
  <2> HIDE DEF U
  <2> QED
    BY <1>1, ForestInduction
<1> QED
  BY <1>2 DEF Roots

\* The way up stays in its tree.
FixedPath(g, parent) ==
    g = [n \in GraphTxs |-> IF parent[n] = n THEN {n} ELSE {n} \cup g[parent[n]]]

LEMMA PathInTree ==
    ASSUME NEW parent, NEW rank, Forest(parent, rank), NEW r, Roots(r, parent), NEW x \in GraphTxs
    PROVE  \A y \in G!Path(parent, x) : y \in GraphTxs /\ r[y] = r[x]
<1> DEFINE V == SUBSET GraphTxs
           F == [GraphTxs -> V]
           step == [p \in GraphTxs \X F |->
                       IF parent[p[1]] = p[1] THEN {p[1]} ELSE {p[1]} \cup p[2][parent[p[1]]]]
<1>1. \A n \in GraphTxs : parent[n] \in GraphTxs
  BY DEF Forest
<1>2. \A n \in GraphTxs : \A f \in F :
          step[<<n, f>>] = IF parent[n] = n THEN {n} ELSE {n} \cup f[parent[n]]
  OBVIOUS
<1>3. step \in [GraphTxs \X F -> V]
  <2>1. \A p \in GraphTxs \X F :
            (IF parent[p[1]] = p[1] THEN {p[1]} ELSE {p[1]} \cup p[2][parent[p[1]]]) \in V
    <3> SUFFICES ASSUME NEW p \in GraphTxs \X F
                 PROVE  (IF parent[p[1]] = p[1] THEN {p[1]} ELSE {p[1]} \cup p[2][parent[p[1]]]) \in V
      OBVIOUS
    <3>1. p[1] \in GraphTxs /\ p[2] \in F
      OBVIOUS
    <3>2. p[2][parent[p[1]]] \in V
      BY <1>1, <3>1
    <3> QED
      BY <3>1, <3>2
  <2> HIDE DEF F, V
  <2> QED
    BY <2>1
<1> HIDE DEF step
<1>4. Climbs(parent, F, step)
  <2> SUFFICES ASSUME NEW n \in GraphTxs, NEW f \in F, NEW g \in F,
                      parent[n] # n => f[parent[n]] = g[parent[n]]
               PROVE  step[<<n, f>>] = step[<<n, g>>]
    BY DEF Climbs
  <2>1. /\ step[<<n, f>>] = IF parent[n] = n THEN {n} ELSE {n} \cup f[parent[n]]
        /\ step[<<n, g>>] = IF parent[n] = n THEN {n} ELSE {n} \cup g[parent[n]]
    BY <1>2
  <2> HIDE DEF F
  <2>2. CASE parent[n] = n
    BY <2>1, <2>2
  <2>3. CASE parent[n] # n
    BY <2>1, <2>3
  <2> QED
    BY <2>2, <2>3
<1>5. Solvable(GraphTxs, V, step)
  <2>1. V # {}
    OBVIOUS
  <2> HIDE DEF V
  <2> QED
    BY <1>3, <1>4, <2>1, ForestRecursion
<1>6. PICK h \in F : \A n \in GraphTxs : h[n] = step[<<n, h>>]
  BY <1>5 DEF Solvable
<1>7. FixedPath(h, parent)
  <2>1. h = [n \in GraphTxs |-> h[n]]
    OBVIOUS
  <2>2. \A n \in GraphTxs : h[n] = IF parent[n] = n THEN {n} ELSE {n} \cup h[parent[n]]
    BY <1>2, <1>6
  <2> HIDE DEF F
  <2> QED
    BY <2>1, <2>2 DEF FixedPath
<1> DEFINE iter == CHOOSE g : FixedPath(g, parent)
<1>8. G!Path(parent, x) = iter[x]
  BY DEF G!Path, FixedPath
<1>9. FixedPath(iter, parent)
  BY <1>7
<1> HIDE DEF iter
<1>10. \A n \in GraphTxs : iter[n] = IF parent[n] = n THEN {n} ELSE {n} \cup iter[parent[n]]
  BY <1>9 DEF FixedPath
<1> DEFINE U == {n \in GraphTxs : \A y \in iter[n] : y \in GraphTxs /\ r[y] = r[n]}
<1>11. ASSUME NEW n \in GraphTxs, parent[n] = n \/ parent[n] \in U
       PROVE  n \in U
  <2>1. CASE parent[n] = n
    <3>1. iter[n] = {n}
      BY <1>10, <2>1
    <3>2. \A y \in iter[n] : y \in GraphTxs /\ r[y] = r[n]
      BY <3>1
    <3> QED
      BY <3>2
  <2>2. CASE parent[n] # n
    <3>1. iter[n] = {n} \cup iter[parent[n]] /\ r[n] = r[parent[n]]
      BY <1>10, <2>2 DEF Roots
    <3>2. \A y \in iter[parent[n]] : y \in GraphTxs /\ r[y] = r[n]
      BY <1>11, <2>2, <3>1
    <3>3. \A y \in iter[n] : y \in GraphTxs /\ r[y] = r[n]
      BY <3>1, <3>2
    <3> QED
      BY <3>3
  <2> QED
    BY <2>1, <2>2
<1>12. \A n \in GraphTxs : n \in U
  <2> HIDE DEF U
  <2> QED
    BY <1>11, ForestInduction
<1> QED
  BY <1>8, <1>12

\* Compression keeps the trees.
LEMMA CompressKeeps ==
    ASSUME NEW parent, NEW rank, Forest(parent, rank), NEW r, Roots(r, parent), NEW x \in GraphTxs
    PROVE  Forest(G!Compress(parent, x), rank) /\ Roots(r, G!Compress(parent, x))
<1> DEFINE q == G!Compress(parent, x)
<1>1. \A n \in GraphTxs : q[n] = IF n \in G!Path(parent, x) THEN r[x] ELSE parent[n]
  BY RootFound DEF G!Compress
<1>2. /\ r[x] \in GraphTxs /\ \A n \in GraphTxs : parent[n] \in GraphTxs
      /\ \A n \in GraphTxs : n \in G!Path(parent, x) => r[n] = r[x]
  BY RootsOnTop, PathInTree DEF Forest
<1>3. q \in [GraphTxs -> GraphTxs]
  BY <1>1, <1>2 DEF G!Compress
<1> HIDE DEF q
<1>4. \A n \in GraphTxs : q[n] # n => rank[n] < rank[q[n]]
  BY <1>1, <1>2, RootsOnTop DEF Forest
<1>5. \A n \in GraphTxs : r[n] = IF q[n] = n THEN n ELSE r[q[n]]
  BY <1>1, <1>2, RootsOnTop DEF Roots
<1> QED
  BY <1>3, <1>4, <1>5 DEF Forest, Roots, q

\* Below the root b of another tree, the tree of a is part of it.
Linked(r, a, b, parent, rank) ==
    /\ Forest([parent EXCEPT ![a] = b], rank)
    /\ Roots([n \in GraphTxs |-> IF r[n] = a THEN b ELSE r[n]], [parent EXCEPT ![a] = b])

LEMMA LinkJoins ==
    ASSUME NEW parent, NEW rank, Forest(parent, rank), NEW r, Roots(r, parent),
           NEW a \in GraphTxs, NEW b \in GraphTxs, a # b, r[a] = a, r[b] = b,
           NEW high \in [GraphTxs -> Nat], rank[a] < high[b],
           \A n \in GraphTxs : n # b => high[n] = rank[n],
           rank[b] <= high[b]
    PROVE  Linked(r, a, b, parent, high)
<1> DEFINE q == [parent EXCEPT ![a] = b]
           s == [n \in GraphTxs |-> IF r[n] = a THEN b ELSE r[n]]
<1>1. /\ parent \in [GraphTxs -> GraphTxs] /\ rank \in [GraphTxs -> Nat] /\ r \in [GraphTxs -> GraphTxs]
  BY DEF Forest, Roots
<1>2. /\ q \in [GraphTxs -> GraphTxs] /\ s \in [GraphTxs -> GraphTxs]
      /\ \A n \in GraphTxs : q[n] = IF n = a THEN b ELSE parent[n]
      /\ \A n \in GraphTxs : s[n] = IF r[n] = a THEN b ELSE r[n]
  BY <1>1
<1> HIDE DEF q, s
<1>3. ASSUME NEW n \in GraphTxs, q[n] # n
      PROVE  high[n] < high[q[n]]
  <2>0. parent[b] = b /\ parent[a] = a
    BY RootsOnTop
  <2>1. CASE n = a
    BY <1>2, <2>1
  <2>2. CASE n # a
    <3>1. q[n] = parent[n] /\ n # b /\ parent[n] # n
      BY <1>2, <1>3, <2>0, <2>2
    <3>2. rank[n] < rank[parent[n]] /\ high[n] = rank[n] /\ parent[n] \in GraphTxs
      BY <1>1, <3>1 DEF Forest
    <3>3. PICK k \in Nat, l \in Nat, m \in Nat : k = rank[n] /\ l = rank[parent[n]] /\ m = high[parent[n]]
      BY <1>1, <3>2
    <3>4. l <= m
      BY <3>2, <3>3, <1>1
    <3>5. k < m
      BY <3>2, <3>3, <3>4
    <3> QED
      BY <3>1, <3>2, <3>3, <3>5
  <2> QED
    BY <2>1, <2>2
<1>4. ASSUME NEW n \in GraphTxs
      PROVE  s[n] = IF q[n] = n THEN n ELSE s[q[n]]
  <2>0. r[n] = IF parent[n] = n THEN n ELSE r[parent[n]]
    BY DEF Roots
  <2>1. CASE n = a
    BY <1>2, <2>1
  <2>2. CASE n # a
    <3>1. q[n] = parent[n] /\ parent[n] \in GraphTxs
      BY <1>1, <1>2, <2>2
    <3>2. CASE parent[n] = n
      BY <1>2, <2>0, <2>2, <3>1, <3>2
    <3>3. CASE parent[n] # n
      BY <1>2, <2>0, <2>2, <3>1, <3>3
    <3> QED
      BY <3>2, <3>3
  <2> QED
    BY <2>1, <2>2
<1>5. Forest(q, high)
  BY <1>2, <1>3 DEF Forest
<1>6. Roots(s, q)
  BY <1>2, <1>4 DEF Roots
<1> QED
  BY <1>5, <1>6 DEF q, s, Linked

-----------------------------------------------------------------------------
(* Conflict graphs                                                         *)

LEMMA DagFields ==
    ASSUME NEW d \in G!Dags
    PROVE  /\ d.nodes \in SUBSET GraphTxs /\ d.edges \in [GraphTxs -> SUBSET GraphTxs]
           /\ d.degree \in [GraphTxs -> Nat] /\ d.parent \in [GraphTxs -> GraphTxs]
           /\ d.rank \in [GraphTxs -> Nat] /\ d.addrs \in SUBSET GraphAddrs
           /\ d # G!NoDag
<1>1. d \in [nodes : SUBSET GraphTxs, edges : [GraphTxs -> SUBSET GraphTxs], degree : [GraphTxs -> Nat],
             parent : [GraphTxs -> GraphTxs], rank : [GraphTxs -> Nat], addrs : SUBSET GraphAddrs]
  BY DEF G!Dags
<1>2. /\ d.nodes \in SUBSET GraphTxs /\ d.edges \in [GraphTxs -> SUBSET GraphTxs]
      /\ d.degree \in [GraphTxs -> Nat] /\ d.parent \in [GraphTxs -> GraphTxs]
      /\ d.rank \in [GraphTxs -> Nat] /\ d.addrs \in SUBSET GraphAddrs
  BY <1>1
<1>3. d # G!NoDag
  <2>1. "edges" \in DOMAIN d
    <3>1. DOMAIN d = {"nodes", "edges", "degree", "parent", "rank", "addrs"}
      BY <1>1, Zenon
    <3> QED
      BY <3>1
  <2>2. "edges" \notin DOMAIN G!NoDag
    <3>1. DOMAIN G!NoDag = {"nodes", "addrs"}
      BY DEF G!NoDag
    <3>2. "edges" \notin {"nodes", "addrs"}
      OBVIOUS
    <3> QED
      BY <3>1, <3>2
  <2> QED
    BY <2>1, <2>2
<1> QED
  BY <1>2, <1>3

DagOf(no, ed, de, pa, ra, ad) ==
    [nodes |-> no, edges |-> ed, degree |-> de, parent |-> pa, rank |-> ra, addrs |-> ad]

LEMMA DagMade ==
    ASSUME NEW no \in SUBSET GraphTxs, NEW ed \in [GraphTxs -> SUBSET GraphTxs],
           NEW de \in [GraphTxs -> Nat], NEW pa \in [GraphTxs -> GraphTxs],
           NEW ra \in [GraphTxs -> Nat], NEW ad \in SUBSET GraphAddrs
    PROVE  DagOf(no, ed, de, pa, ra, ad) \in G!Dags
BY DEF G!Dags, DagOf

LEMMA DagParts ==
    ASSUME NEW d \in G!Dags
    PROVE  d = DagOf(d.nodes, d.edges, d.degree, d.parent, d.rank, d.addrs)
BY DEF G!Dags, DagOf

LEMMA DagWith ==
    ASSUME NEW d \in G!Dags
    PROVE  /\ \A p : [d EXCEPT !.parent = p]
                     = DagOf(d.nodes, d.edges, d.degree, p, d.rank, d.addrs)
           /\ \A p, k : [d EXCEPT !.parent = p, !.rank = k]
                        = DagOf(d.nodes, d.edges, d.degree, p, k, d.addrs)
           /\ \A no, ad : [d EXCEPT !.nodes = no, !.addrs = ad]
                        = DagOf(no, d.edges, d.degree, d.parent, d.rank, ad)
           /\ \A no, ed, de : [d EXCEPT !.nodes = no, !.edges = ed, !.degree = de]
                        = DagOf(no, ed, de, d.parent, d.rank, d.addrs)
           /\ \A ed, de : [d EXCEPT !.edges = ed, !.degree = de]
                        = DagOf(d.nodes, ed, de, d.parent, d.rank, d.addrs)
           /\ \A ad : [d EXCEPT !.addrs = ad]
                        = DagOf(d.nodes, d.edges, d.degree, d.parent, d.rank, ad)
<1> DEFINE no == d.nodes  ed == d.edges  de == d.degree  pa == d.parent  ra == d.rank  ad == d.addrs
<1>1. d = DagOf(no, ed, de, pa, ra, ad)
  BY DagParts
<1> HIDE DEF no, ed, de, pa, ra, ad
<1>3. \A p : [d EXCEPT !.parent = p] = DagOf(no, ed, de, p, ra, ad)
  BY <1>1 DEF DagOf
<1>4. \A p, k : [d EXCEPT !.parent = p, !.rank = k] = DagOf(no, ed, de, p, k, ad)
  <2> SUFFICES ASSUME NEW p, NEW k
               PROVE  [d EXCEPT !.parent = p, !.rank = k] = DagOf(no, ed, de, p, k, ad)
    OBVIOUS
  <2>1. [d EXCEPT !.parent = p, !.rank = k] = [[d EXCEPT !.parent = p] EXCEPT !.rank = k]
    BY <1>1
  <2>2. [DagOf(no, ed, de, p, ra, ad) EXCEPT !.rank = k] = DagOf(no, ed, de, p, k, ad)
    BY DEF DagOf
  <2> QED
    BY <1>3, <2>1, <2>2
<1>5. \A p, k : [d EXCEPT !.nodes = p, !.addrs = k] = DagOf(p, ed, de, pa, ra, k)
  <2> SUFFICES ASSUME NEW p, NEW k
               PROVE  [d EXCEPT !.nodes = p, !.addrs = k] = DagOf(p, ed, de, pa, ra, k)
    OBVIOUS
  <2>1. [d EXCEPT !.nodes = p, !.addrs = k] = [[d EXCEPT !.nodes = p] EXCEPT !.addrs = k]
    BY <1>1
  <2>2. [d EXCEPT !.nodes = p] = DagOf(p, ed, de, pa, ra, ad)
    BY <1>1 DEF DagOf
  <2>3. [DagOf(p, ed, de, pa, ra, ad) EXCEPT !.addrs = k] = DagOf(p, ed, de, pa, ra, k)
    BY DEF DagOf
  <2> QED
    BY <2>1, <2>2, <2>3
<1>7. \A k, l : [d EXCEPT !.edges = k, !.degree = l] = DagOf(no, k, l, pa, ra, ad)
  <2> SUFFICES ASSUME NEW k, NEW l
               PROVE  [d EXCEPT !.edges = k, !.degree = l] = DagOf(no, k, l, pa, ra, ad)
    OBVIOUS
  <2>1. [d EXCEPT !.edges = k, !.degree = l] = [[d EXCEPT !.edges = k] EXCEPT !.degree = l]
    BY <1>1
  <2>2. [d EXCEPT !.edges = k] = DagOf(no, k, de, pa, ra, ad)
    BY <1>1 DEF DagOf
  <2>3. [DagOf(no, k, de, pa, ra, ad) EXCEPT !.degree = l] = DagOf(no, k, l, pa, ra, ad)
    BY DEF DagOf
  <2> QED
    BY <2>1, <2>2, <2>3
<1>6. \A p, k, l : [d EXCEPT !.nodes = p, !.edges = k, !.degree = l] = DagOf(p, k, l, pa, ra, ad)
  <2> SUFFICES ASSUME NEW p, NEW k, NEW l
               PROVE  [d EXCEPT !.nodes = p, !.edges = k, !.degree = l] = DagOf(p, k, l, pa, ra, ad)
    OBVIOUS
  <2>1. [d EXCEPT !.nodes = p, !.edges = k, !.degree = l]
        = [[d EXCEPT !.edges = k, !.degree = l] EXCEPT !.nodes = p]
    BY <1>1 DEF DagOf
  <2>2. [DagOf(no, k, l, pa, ra, ad) EXCEPT !.nodes = p] = DagOf(p, k, l, pa, ra, ad)
    BY DEF DagOf
  <2> QED
    BY <1>7, <2>1, <2>2
<1>8. \A k : [d EXCEPT !.addrs = k] = DagOf(no, ed, de, pa, ra, k)
  BY <1>1 DEF DagOf
<1> QED
  BY <1>3, <1>4, <1>5, <1>6, <1>7, <1>8 DEF no, ed, de, pa, ra, ad

Grown(d) == d \in G!Dags /\ Forest(d.parent, d.rank)

\* d has the nodes and edges of e.
SameGraph(d, e) == d.nodes = e.nodes /\ d.edges = e.edges /\ d.degree = e.degree /\ d.addrs = e.addrs

\* Union, of the roots and the compressed forest.
UnionAt(d, q, a, b) ==
    CASE a = b -> [d EXCEPT !.parent = q]
      [] a # b /\ d.rank[a] < d.rank[b] -> [d EXCEPT !.parent = [q EXCEPT ![a] = b]]
      [] a # b /\ d.rank[a] > d.rank[b] -> [d EXCEPT !.parent = [q EXCEPT ![b] = a]]
      [] OTHER -> [d EXCEPT !.parent = [q EXCEPT ![b] = a], !.rank[a] = @ + 1]

\* What had the root of x or of y has the root of the other one.
JoinedRoots(r, x, y, parent) ==
    \E a, b \in GraphTxs :
        /\ (a = r[x] /\ b = r[y]) \/ (a = r[y] /\ b = r[x])
        /\ Roots([n \in GraphTxs |-> IF r[n] = a THEN b ELSE r[n]], parent)

LEMMA UnionJoins ==
    ASSUME NEW d, Grown(d), NEW x \in GraphTxs, NEW y \in GraphTxs, NEW r, Roots(r, d.parent)
    PROVE  /\ Grown(G!Union(d, x, y)) /\ SameGraph(G!Union(d, x, y), d)
           /\ JoinedRoots(r, x, y, G!Union(d, x, y).parent)
<1> DEFINE q == G!Compress(G!Compress(d.parent, x), y)
           a == r[x]
           b == r[y]
           u == G!Union(d, x, y)
<1>1. d \in G!Dags /\ Forest(d.parent, d.rank)
  BY DEF Grown
<1>2. Forest(G!Compress(d.parent, x), d.rank) /\ Roots(r, G!Compress(d.parent, x))
  BY <1>1, CompressKeeps
<1>3. Forest(q, d.rank) /\ Roots(r, q)
  BY <1>2, CompressKeeps
<1>4. G!Root(q, x) = a /\ G!Root(q, y) = b
  BY <1>3, RootFound
<1>5. a \in GraphTxs /\ b \in GraphTxs /\ r[a] = a /\ r[b] = b /\ q[a] = a /\ q[b] = b
  BY <1>3, RootsOnTop
<1>6. q \in [GraphTxs -> GraphTxs] /\ d.rank \in [GraphTxs -> Nat]
  BY <1>3 DEF Forest
<1>7. /\ d.nodes \in SUBSET GraphTxs /\ d.edges \in [GraphTxs -> SUBSET GraphTxs]
      /\ d.degree \in [GraphTxs -> Nat] /\ d.addrs \in SUBSET GraphAddrs
  BY <1>1, DagFields
<1>8. u = UnionAt(d, q, a, b)
  <2>1. u = UnionAt(d, q, G!Root(q, x), G!Root(q, y))
    BY DEF G!Union, UnionAt
  <2> QED
    BY <1>4, <2>1
<1> DEFINE joined(p, k) == DagOf(d.nodes, d.edges, d.degree, p, k, d.addrs)
           raised == [d.rank EXCEPT ![a] = d.rank[a] + 1]
<1>9. [d EXCEPT !.parent = [q EXCEPT ![b] = a], !.rank[a] = @ + 1]
      = [d EXCEPT !.parent = [q EXCEPT ![b] = a], !.rank = raised]
  BY <1>1 DEF G!Dags
<1>10. /\ a = b => u = [d EXCEPT !.parent = q]
       /\ a # b /\ d.rank[a] < d.rank[b] => u = [d EXCEPT !.parent = [q EXCEPT ![a] = b]]
       /\ a # b /\ d.rank[a] > d.rank[b] => u = [d EXCEPT !.parent = [q EXCEPT ![b] = a]]
       /\ a # b /\ ~(d.rank[a] < d.rank[b]) /\ ~(d.rank[a] > d.rank[b])
          => u = [d EXCEPT !.parent = [q EXCEPT ![b] = a], !.rank = raised]
  <2> HIDE DEF u, q, a, b, raised
  <2>1. d.rank[a] < d.rank[b] => ~(d.rank[a] > d.rank[b])
    <3>1. \A i, j \in Nat : i < j => ~(i > j)
      OBVIOUS
    <3>2. a \in GraphTxs /\ b \in GraphTxs
      BY <1>5
    <3>3. d.rank[a] \in Nat /\ d.rank[b] \in Nat
      BY <1>6, <3>2
    <3> QED
      BY <3>1, <3>3
  <2> QED
    BY <1>8, <1>9, <2>1, Zenon DEF UnionAt
<1>11. /\ a = b => u = joined(q, d.rank)
       /\ a # b /\ d.rank[a] < d.rank[b] => u = joined([q EXCEPT ![a] = b], d.rank)
       /\ a # b /\ d.rank[a] > d.rank[b] => u = joined([q EXCEPT ![b] = a], d.rank)
       /\ a # b /\ ~(d.rank[a] < d.rank[b]) /\ ~(d.rank[a] > d.rank[b])
          => u = joined([q EXCEPT ![b] = a], raised)
  <2> HIDE DEF u, q, a, b, raised
  <2> QED
    BY <1>1, <1>10, DagWith
<1>12. ASSUME NEW p \in [GraphTxs -> GraphTxs], NEW k \in [GraphTxs -> Nat], u = joined(p, k), Forest(p, k)
       PROVE  Grown(u) /\ SameGraph(u, d) /\ u.parent = p
  <2>1. joined(p, k) \in G!Dags
    BY <1>7, DagMade
  <2>2. /\ joined(p, k).parent = p /\ joined(p, k).rank = k
        /\ SameGraph(joined(p, k), d)
    BY DEF DagOf, SameGraph
  <2> HIDE DEF u, joined
  <2> QED
    BY <1>12, <2>1, <2>2 DEF Grown
<1> HIDE DEF u, q, a, b, joined
<1>13. PICK i \in Nat, j \in Nat : i = d.rank[a] /\ j = d.rank[b]
  BY <1>5, <1>6
<1>14. CASE a = b
  <2>1. Grown(u) /\ SameGraph(u, d) /\ u.parent = q
    BY <1>3, <1>6, <1>11, <1>12, <1>14
  <2>2. r \in [GraphTxs -> GraphTxs]
    BY <1>3 DEF Roots
  <2>3. [n \in GraphTxs |-> IF r[n] = a THEN b ELSE r[n]] = r
    BY <1>14, <2>2
  <2> QED
    BY <1>3, <1>5, <2>1, <2>3 DEF a, b, u, JoinedRoots
<1>15. CASE a # b /\ i < j
  <2>1. Linked(r, a, b, q, d.rank)
    <3>1. d.rank[a] < d.rank[b] /\ d.rank[b] <= d.rank[b] /\ a # b
      BY <1>13, <1>15
    <3> HIDE DEF a, b, q
    <3> QED
      BY <1>3, <1>5, <1>6, <3>1, LinkJoins
  <2>2. [q EXCEPT ![a] = b] \in [GraphTxs -> GraphTxs]
    BY <1>5, <1>6
  <2>3. Grown(u) /\ SameGraph(u, d) /\ u.parent = [q EXCEPT ![a] = b]
    BY <1>6, <1>11, <1>12, <1>13, <1>15, <2>1, <2>2 DEF Linked
  <2> QED
    BY <1>5, <2>1, <2>3 DEF a, b, u, Linked, JoinedRoots
<1>16. CASE a # b /\ i > j
  <2>1. Linked(r, b, a, q, d.rank)
    <3>1. d.rank[b] < d.rank[a] /\ d.rank[a] <= d.rank[a] /\ b # a
      BY <1>13, <1>16
    <3> QED
      BY <1>3, <1>5, <1>6, <3>1, LinkJoins
  <2>2. [q EXCEPT ![b] = a] \in [GraphTxs -> GraphTxs]
    BY <1>5, <1>6
  <2>3. Grown(u) /\ SameGraph(u, d) /\ u.parent = [q EXCEPT ![b] = a]
    BY <1>6, <1>11, <1>12, <1>13, <1>16, <2>1, <2>2 DEF Linked
  <2> QED
    BY <1>5, <2>1, <2>3 DEF a, b, u, Linked, JoinedRoots
<1>17. CASE a # b /\ i = j
  <2>1. /\ raised \in [GraphTxs -> Nat] /\ raised[a] = i + 1
        /\ \A n \in GraphTxs : n # a => raised[n] = d.rank[n]
    BY <1>5, <1>6, <1>13
  <2> HIDE DEF raised
  <2>2. Linked(r, b, a, q, raised)
    <3>1. d.rank[b] < raised[a] /\ d.rank[a] <= raised[a] /\ b # a
      BY <1>13, <1>17, <2>1
    <3> QED
      BY <1>3, <1>5, <1>6, <1>17, <2>1, <3>1, LinkJoins
  <2>3. [q EXCEPT ![b] = a] \in [GraphTxs -> GraphTxs]
    BY <1>5, <1>6
  <2>4. Grown(u) /\ SameGraph(u, d) /\ u.parent = [q EXCEPT ![b] = a]
    <3>1. ~(d.rank[a] < d.rank[b]) /\ ~(d.rank[a] > d.rank[b])
      BY <1>13, <1>17
    <3>2. u = joined([q EXCEPT ![b] = a], raised)
      BY <1>11, <1>17, <3>1 DEF raised
    <3> QED
      BY <1>12, <2>1, <2>2, <2>3, <3>2 DEF Linked
  <2> QED
    BY <1>5, <2>2, <2>4 DEF a, b, u, Linked, JoinedRoots
<1>18. a = b \/ (a # b /\ i < j) \/ (a # b /\ i > j) \/ (a # b /\ i = j)
  BY <1>13
<1> QED
  BY <1>14, <1>15, <1>16, <1>17, <1>18, Zenon

\* The root of every node.
Tree(d) == [n \in GraphTxs |-> G!Root(d.parent, n)]

LEMMA TreeRoots ==
    ASSUME NEW d, Grown(d)
    PROVE  Roots(Tree(d), d.parent) /\ \A r : Roots(r, d.parent) => r = Tree(d)
<1>1. \A r : Roots(r, d.parent) => r = Tree(d)
  <2> SUFFICES ASSUME NEW r, Roots(r, d.parent)
               PROVE  r = Tree(d)
    OBVIOUS
  <2>1. \A n \in GraphTxs : G!Root(d.parent, n) = r[n]
    BY RootFound DEF Grown
  <2>2. r = [n \in GraphTxs |-> r[n]]
    BY DEF Roots
  <2> QED
    BY <2>1, <2>2 DEF Tree
<1>2. \E r : Roots(r, d.parent)
  BY RootsExist DEF Grown
<1> QED
  BY <1>1, <1>2

\* No edge leads out of part.
Closed(part, edges) == \A m \in part : edges[m] \subseteq part

\* A tree has only what edges connect: where no edge leads out, no tree does.
Tight(d) ==
    \A part \in SUBSET GraphTxs : Closed(part, d.edges) =>
        \A m \in part, n \in GraphTxs : Tree(d)[m] = Tree(d)[n] => n \in part

\* The ends of an edge are in the same tree, but for the edges in open.
Joined(d, open) ==
    \A m \in GraphTxs : \A n \in d.edges[m] : Tree(d)[m] = Tree(d)[n] \/ <<m, n>> \in open

Symmetric(d) == \A m, n \in GraphTxs : n \in d.edges[m] => m \in d.edges[n]

\* A graph that is complete in itself.
Complete(d) == Grown(d) /\ Symmetric(d) /\ Tight(d) /\ Joined(d, {})

\* Union of the ends of an edge keeps trees tight.
LEMMA UnionGrows ==
    ASSUME NEW d, Grown(d), NEW x \in GraphTxs, NEW y \in GraphTxs,
           x \in d.edges[y], y \in d.edges[x], Tight(d), NEW open, Joined(d, open),
           NEW u, u = G!Union(d, x, y)
    PROVE  /\ Grown(u) /\ SameGraph(u, d) /\ Tight(u)
           /\ Joined(u, open \ {<<x, y>>, <<y, x>>})
<1> DEFINE r == Tree(d)
           s == Tree(u)
<1>1. Roots(r, d.parent) /\ r \in [GraphTxs -> GraphTxs]
  BY TreeRoots DEF Roots
<1>2. Grown(u) /\ SameGraph(u, d)
  BY <1>1, UnionJoins
<1>3. PICK a \in GraphTxs, b \in GraphTxs :
          /\ (a = r[x] /\ b = r[y]) \/ (a = r[y] /\ b = r[x])
          /\ Roots([n \in GraphTxs |-> IF r[n] = a THEN b ELSE r[n]], u.parent)
  <2>1. JoinedRoots(r, x, y, u.parent)
    BY <1>1, UnionJoins
  <2> QED
    BY <2>1 DEF JoinedRoots
<1>4. s = [n \in GraphTxs |-> IF r[n] = a THEN b ELSE r[n]]
  BY <1>2, <1>3, TreeRoots
<1> HIDE DEF r, s
<1>5. \A n \in GraphTxs : s[n] = IF r[n] = a THEN b ELSE r[n]
  BY <1>4
<1>6. /\ \A m, n \in GraphTxs : r[m] = r[n] => s[m] = s[n]
      /\ s[x] = s[y]
      /\ \A m, n \in GraphTxs : s[m] = s[n] =>
             \/ r[m] = r[n]
             \/ r[m] = r[x] /\ r[n] = r[y]
             \/ r[m] = r[y] /\ r[n] = r[x]
  BY <1>3, <1>5
<1>7. Tight(u)
  <2> SUFFICES ASSUME NEW part \in SUBSET GraphTxs, Closed(part, d.edges),
                      NEW m \in part, NEW n \in GraphTxs, s[m] = s[n]
               PROVE  n \in part
    BY <1>2 DEF Tight, SameGraph, s
  <2>1. \A k \in part : \A l \in GraphTxs : r[k] = r[l] => l \in part
    BY DEF Tight, r
  <2>2. CASE r[m] = r[n]
    BY <2>1, <2>2
  <2>3. CASE r[m] = r[x] /\ r[n] = r[y]
    <3>1. x \in part
      BY <2>1, <2>3
    <3>2. y \in part
      BY <3>1 DEF Closed
    <3> QED
      BY <2>1, <2>3, <3>2
  <2>4. CASE r[m] = r[y] /\ r[n] = r[x]
    <3>1. y \in part
      BY <2>1, <2>4
    <3>2. x \in part
      BY <3>1 DEF Closed
    <3> QED
      BY <2>1, <2>4, <3>2
  <2> QED
    BY <1>6, <2>2, <2>3, <2>4
<1>8. Joined(u, open \ {<<x, y>>, <<y, x>>})
  <2> SUFFICES ASSUME NEW m \in GraphTxs, NEW n \in d.edges[m], s[m] # s[n]
               PROVE  <<m, n>> \in open \ {<<x, y>>, <<y, x>>}
    BY <1>2 DEF Joined, SameGraph, s
  <2>1. n \in GraphTxs
    BY DagFields DEF Grown
  <2>2. r[m] = r[n] \/ <<m, n>> \in open
    BY DEF Joined, r
  <2>3. <<m, n>> \in open
    BY <1>6, <2>1, <2>2
  <2>4. <<m, n>> # <<x, y>> /\ <<m, n>> # <<y, x>>
    BY <1>6
  <2> QED
    BY <2>3, <2>4
<1> QED
  BY <1>2, <1>7, <1>8

\* The edges of d and one between x and y.
WithEdge(d, x, y) ==
    [m \in GraphTxs |-> IF m = x THEN d.edges[m] \cup {y}
                        ELSE IF m = y THEN d.edges[m] \cup {x} ELSE d.edges[m]]

\* Adding an edge, and joining its ends, leaves a graph complete.
LEMMA AddEdgeKeeps ==
    ASSUME NEW d, Complete(d), NEW x \in GraphTxs, NEW y \in GraphTxs, x # y,
           NEW u, u = G!AddEdge(d, x, y)
    PROVE  /\ Complete(u) /\ u.nodes = d.nodes /\ u.addrs = d.addrs
           /\ u.edges = WithEdge(d, x, y)
<1>1. /\ d \in G!Dags /\ Grown(d) /\ Symmetric(d) /\ Tight(d) /\ Joined(d, {})
      /\ Forest(d.parent, d.rank)
  BY DEF Complete, Grown
<1>2. /\ d.nodes \in SUBSET GraphTxs /\ d.edges \in [GraphTxs -> SUBSET GraphTxs]
      /\ d.degree \in [GraphTxs -> Nat] /\ d.addrs \in SUBSET GraphAddrs
      /\ d.parent \in [GraphTxs -> GraphTxs] /\ d.rank \in [GraphTxs -> Nat]
  BY <1>1, DagFields
<1>3. CASE y \in d.edges[x]
  <2>1. u = d
    BY <1>3 DEF G!AddEdge
  <2>2. x \in d.edges[y]
    BY <1>1, <1>3 DEF Symmetric
  <2>3. \A m \in GraphTxs : WithEdge(d, x, y)[m] = d.edges[m]
    BY <1>3, <2>2 DEF WithEdge
  <2>4. WithEdge(d, x, y) = d.edges
    BY <1>2, <2>3 DEF WithEdge
  <2> QED
    BY <2>1, <2>4
<1>4. CASE y \notin d.edges[x]
  <2> DEFINE ed == WithEdge(d, x, y)
             de == [[d.degree EXCEPT ![x] = @ + 1] EXCEPT ![y] = @ + 1]
             e == DagOf(d.nodes, ed, de, d.parent, d.rank, d.addrs)
  <2>1. u = G!Union(e, x, y)
    <3> DEFINE f == [d EXCEPT !.edges[x] = @ \cup {y}, !.edges[y] = @ \cup {x},
                             !.degree[x] = @ + 1, !.degree[y] = @ + 1]
               ed2 == [[d.edges EXCEPT ![x] = @ \cup {y}] EXCEPT ![y] = @ \cup {x}]
    <3>1. u = G!Union(f, x, y)
      BY <1>4 DEF G!AddEdge
    <3>2. f = [d EXCEPT !.edges = ed2, !.degree = de]
      BY <1>1 DEF G!Dags
    <3>3. ed2 = ed
      BY <1>2 DEF WithEdge
    <3> HIDE DEF f, ed2, ed, de
    <3>4. f = e
      BY <1>1, <3>2, <3>3, DagWith
    <3> QED
      BY <3>1, <3>4
  <2>2. /\ ed \in [GraphTxs -> SUBSET GraphTxs]
        /\ \A m \in GraphTxs : ed[m] = IF m = x THEN d.edges[m] \cup {y}
                                       ELSE IF m = y THEN d.edges[m] \cup {x} ELSE d.edges[m]
    BY <1>2 DEF WithEdge
  <2>3. de \in [GraphTxs -> Nat]
    BY <1>2
  <2> HIDE DEF ed, de
  <2>4. e \in G!Dags
    BY <1>2, <2>2, <2>3, DagMade
  <2>5. /\ e.nodes = d.nodes /\ e.edges = ed /\ e.parent = d.parent /\ e.rank = d.rank
        /\ e.addrs = d.addrs
    BY DEF DagOf
  <2> HIDE DEF e
  <2>6. Grown(e) /\ Tree(e) = Tree(d)
    BY <1>1, <2>4, <2>5 DEF Grown, Tree
  <2>7. Tight(e)
    <3> SUFFICES ASSUME NEW part \in SUBSET GraphTxs, Closed(part, ed)
                 PROVE  Closed(part, d.edges)
      BY <1>1, <2>5, <2>6 DEF Tight
    <3> QED
      BY <2>2 DEF Closed
  <2>8. Joined(e, {<<x, y>>, <<y, x>>})
    <3> SUFFICES ASSUME NEW m \in GraphTxs, NEW n \in ed[m], Tree(d)[m] # Tree(d)[n]
                 PROVE  <<m, n>> \in {<<x, y>>, <<y, x>>}
      BY <2>5, <2>6 DEF Joined
    <3>1. n \notin d.edges[m]
      BY <1>1 DEF Joined
    <3> QED
      BY <2>2, <3>1
  <2>9. Symmetric(e) /\ x \in e.edges[y] /\ y \in e.edges[x]
    BY <1>1, <2>2, <2>5 DEF Symmetric
  <2>10. /\ Grown(u) /\ SameGraph(u, e) /\ Tight(u)
         /\ Joined(u, {<<x, y>>, <<y, x>>} \ {<<x, y>>, <<y, x>>})
    BY <2>1, <2>6, <2>7, <2>8, <2>9, UnionGrows
  <2>11. {<<x, y>>, <<y, x>>} \ {<<x, y>>, <<y, x>>} = {}
    OBVIOUS
  <2>12. Symmetric(u)
    BY <2>9, <2>10 DEF Symmetric, SameGraph
  <2> QED
    BY <2>5, <2>10, <2>11, <2>12 DEF Complete, SameGraph, ed
<1> QED
  BY <1>3, <1>4

\* The graph d with the edges of pairs, one after the other.
BuildStep(g, d, s) ==
    IF s = {} THEN d
    ELSE G!AddEdge(g[s \ {CHOOSE x \in s : TRUE}], (CHOOSE x \in s : TRUE)[1], (CHOOSE x \in s : TRUE)[2])

FixedBuild(g, d, pairs) == g = [s \in SUBSET pairs |-> BuildStep(g, d, s)]

\* The graph v has the edges of d and of the pairs in s.
Built(v, d, s) ==
    /\ Complete(v) /\ v.nodes = d.nodes /\ v.addrs = d.addrs
    /\ \A m, n \in GraphTxs : n \in v.edges[m] <=> n \in d.edges[m] \/ <<m, n>> \in s \/ <<n, m>> \in s

LEMMA BuildKeeps ==
    ASSUME NEW d, Complete(d),
           NEW tab \in [hasRead : SUBSET GraphTxs, hasWrite : SUBSET GraphTxs]
    PROVE  Built(G!BuildConflictEdges(d, tab), d, G!ConflictsIn(tab))
<1> DEFINE pairs == G!ConflictsIn(tab)
           V == {v \in G!Dags : Complete(v)}
           F == [SUBSET pairs -> V]
           first(s) == CHOOSE x \in s : TRUE
           step == [p \in (SUBSET pairs) \X F |-> BuildStep(p[2], d, p[1])]
<1>1. /\ IsFiniteSet(pairs)
      /\ \A p \in pairs : p = <<p[1], p[2]>> /\ p[1] \in GraphTxs /\ p[2] \in GraphTxs /\ p[1] # p[2]
  <2>1. G!TxsOf(tab) \in SUBSET GraphTxs
    BY DEF G!TxsOf
  <2>2. /\ pairs \in SUBSET (GraphTxs \X GraphTxs)
        /\ \A p \in pairs : p[1] < p[2]
    BY <2>1 DEF G!ConflictsIn
  <2>3. IsFiniteSet(GraphTxs \X GraphTxs)
    BY GraphFinite, FS_Product
  <2>4. IsFiniteSet(pairs)
    BY <2>2, <2>3, FS_Subset
  <2>5. ASSUME NEW p \in pairs
        PROVE  p = <<p[1], p[2]>> /\ p[1] \in GraphTxs /\ p[2] \in GraphTxs /\ p[1] # p[2]
    <3>1. PICK m \in GraphTxs, n \in GraphTxs : p = <<m, n>>
      BY <2>2
    <3>2. m < n /\ m \in Nat /\ n \in Nat
      BY <2>2, <3>1, GraphFinite
    <3>3. m # n
      BY <3>2
    <3> QED
      BY <3>1, <3>3
  <2> QED
    BY <2>2, <2>4, <2>5
<1> HIDE DEF pairs, first
<1>2. \A s \in SUBSET pairs : s # {} =>
          first(s) \in s /\ first(s) \in pairs /\ s \ {first(s)} \in (SUBSET s) \ {s}
          /\ s \ {first(s)} \in SUBSET pairs
  BY DEF first
<1>3. d \in V
  BY DEF Complete, Grown
<1>4. \A v \in V : \A p \in pairs : G!AddEdge(v, p[1], p[2]) \in V
  <2> SUFFICES ASSUME NEW v \in V, NEW p \in pairs
               PROVE  Complete(G!AddEdge(v, p[1], p[2]))
    BY DEF Complete, Grown
  <2> QED
    BY <1>1, AddEdgeKeeps
<1>5. \A s \in SUBSET pairs : \A f : BuildStep(f, d, s)
          = IF s = {} THEN d ELSE G!AddEdge(f[s \ {first(s)}], first(s)[1], first(s)[2])
  BY DEF BuildStep, first
<1> HIDE DEF V
<1>6. \A s \in SUBSET pairs : \A f \in F : BuildStep(f, d, s) \in V
  <2> SUFFICES ASSUME NEW s \in SUBSET pairs, NEW f \in F
               PROVE  BuildStep(f, d, s) \in V
    OBVIOUS
  <2>1. CASE s = {}
    BY <1>3, <1>5, <2>1
  <2>2. CASE s # {}
    <3>1. f[s \ {first(s)}] \in V
      BY <1>2, <2>2
    <3> QED
      BY <1>2, <1>4, <1>5, <2>2, <3>1
  <2> QED
    BY <2>1, <2>2
<1>7. \A s \in SUBSET pairs : \A f \in F : step[<<s, f>>] = BuildStep(f, d, s)
  OBVIOUS
<1>8. step \in [(SUBSET pairs) \X F -> V]
  <2>1. \A p \in (SUBSET pairs) \X F : BuildStep(p[2], d, p[1]) \in V
    <3> SUFFICES ASSUME NEW p \in (SUBSET pairs) \X F
                 PROVE  BuildStep(p[2], d, p[1]) \in V
      OBVIOUS
    <3>1. p[1] \in SUBSET pairs /\ p[2] \in F
      OBVIOUS
    <3> QED
      BY <1>6, <3>1
  <2> HIDE DEF F
  <2> QED
    BY <2>1
<1> HIDE DEF step
<1>9. AsksSubsets(pairs, F, step)
  <2> SUFFICES ASSUME NEW s \in SUBSET pairs, NEW f \in F, NEW g \in F,
                      \A t \in (SUBSET s) \ {s} : f[t] = g[t]
               PROVE  step[<<s, f>>] = step[<<s, g>>]
    BY DEF AsksSubsets
  <2>0. step[<<s, f>>] = BuildStep(f, d, s) /\ step[<<s, g>>] = BuildStep(g, d, s)
    BY <1>7
  <2> HIDE DEF F
  <2>1. CASE s = {}
    BY <1>5, <2>0, <2>1
  <2>2. CASE s # {}
    <3>1. f[s \ {first(s)}] = g[s \ {first(s)}]
      BY <1>2, <2>2
    <3> QED
      BY <1>5, <2>0, <2>2, <3>1
  <2> QED
    BY <2>1, <2>2
<1>10. Solvable(SUBSET pairs, V, step)
  BY <1>1, <1>3, <1>8, <1>9, SubsetRecursion
<1>11. PICK h \in F : \A s \in SUBSET pairs : h[s] = step[<<s, h>>]
  BY <1>10 DEF Solvable
<1>12. FixedBuild(h, d, pairs)
  <2>1. h = [s \in SUBSET pairs |-> h[s]]
    OBVIOUS
  <2> HIDE DEF F
  <2>2. \A s \in SUBSET pairs : h[s] = BuildStep(h, d, s)
    BY <1>7, <1>11
  <2> QED
    BY <2>1, <2>2 DEF FixedBuild
<1> DEFINE iter == CHOOSE g : FixedBuild(g, d, pairs)
<1>13. G!BuildConflictEdges(d, tab) = iter[pairs]
  BY DEF G!BuildConflictEdges, G!FoldSet, G!MapThenFoldSet, FixedBuild, BuildStep, pairs
<1>14. FixedBuild(iter, d, pairs)
  BY <1>12
<1> HIDE DEF iter
<1>15. \A s \in SUBSET pairs : iter[s] = BuildStep(iter, d, s)
  BY <1>14 DEF FixedBuild
<1> DEFINE U == {s \in SUBSET pairs : Built(iter[s], d, s)}
<1>16. \A s \in SUBSET pairs : (\A t \in (SUBSET s) \ {s} : t \in U) => s \in U
  <2> SUFFICES ASSUME NEW s \in SUBSET pairs, \A t \in (SUBSET s) \ {s} : t \in U
               PROVE  Built(iter[s], d, s)
    OBVIOUS
  <2>1. CASE s = {}
    <3>1. iter[s] = d
      BY <1>5, <1>15, <2>1
    <3> QED
      BY <2>1, <3>1 DEF Built
  <2>2. CASE s # {}
    <3>0. PICK p \in s : p = first(s)
      BY <1>2, <2>2
    <3>1. PICK t \in SUBSET s : p = first(s) /\ t = s \ {p}
      BY <3>0
    <3>2. t \in (SUBSET s) \ {s} /\ t \in SUBSET pairs /\ s = t \cup {p} /\ p \in pairs
      BY <3>1
    <3>3. PICK v : v = iter[t]
      OBVIOUS
    <3>4. Built(v, d, t)
      BY <3>2, <3>3
    <3>5. PICK x \in GraphTxs, y \in GraphTxs : p = <<x, y>> /\ x # y /\ x = p[1] /\ y = p[2]
      BY <1>1, <3>2
    <3>6. iter[s] = G!AddEdge(v, x, y)
      BY <1>5, <1>15, <2>2, <3>1, <3>3, <3>5
    <3>7. PICK u : u = iter[s]
      OBVIOUS
    <3>8. Complete(u) /\ u.nodes = v.nodes /\ u.addrs = v.addrs /\ u.edges = WithEdge(v, x, y)
      BY <3>4, <3>5, <3>6, <3>7, AddEdgeKeeps DEF Built
    <3>9. \A m, n \in GraphTxs : n \in u.edges[m] <=>
              n \in v.edges[m] \/ (m = x /\ n = y) \/ (m = y /\ n = x)
      BY <3>5, <3>8 DEF WithEdge
    <3>10. \A m, n \in GraphTxs : /\ <<m, n>> \in s <=> <<m, n>> \in t \/ (m = x /\ n = y)
                                  /\ <<n, m>> \in s <=> <<n, m>> \in t \/ (m = y /\ n = x)
      BY <3>2, <3>5
    <3>11. Built(u, d, s)
      BY <3>4, <3>8, <3>9, <3>10 DEF Built
    <3> QED
      BY <3>7, <3>11
  <2> QED
    BY <2>1, <2>2
<1> HIDE DEF U
<1>17. \A s \in SUBSET pairs : s \in U
  BY <1>1, <1>16, SubsetInduction
<1>18. Built(iter[pairs], d, pairs)
  BY <1>17 DEF U
<1> QED
  BY <1>13, <1>18 DEF pairs

-----------------------------------------------------------------------------
(* The stage that builds and merges the conflict graphs                    *)

\* The graph has the conflicts of its addresses and no others.
Exact(d) ==
    /\ d.nodes = G!NodesOf(d.addrs)
    /\ \A m, n \in GraphTxs : n \in d.edges[m] <=> G!Conflict(d.addrs, m, n)

Good(d) == Complete(d) /\ Exact(d)

\* In the middle of a merge of p into d: the nodes in rest are still to be visited
\* and the edges in open still to be joined.  A visited node has its edges of both
\* graphs, and no node has others; trees are tight at any time.
Merging(d, p, rest, open) ==
    /\ Good(p)
    /\ Grown(d) /\ Tight(d) /\ Joined(d, open)
    /\ rest \subseteq p.nodes /\ open \subseteq G!Edges(p)
    /\ rest # {} => open = G!Edges(p)
    /\ d.nodes = G!NodesOf(d.addrs) \cup (p.nodes \ rest)
    /\ \A m, n \in GraphTxs :
        /\ G!Conflict(d.addrs, m, n) => n \in d.edges[m]
        /\ m \notin rest /\ n \in p.edges[m] => n \in d.edges[m]
        /\ n \in d.edges[m] => G!Conflict(d.addrs, m, n) \/ n \in p.edges[m]

\* Every graph that no merge works on is complete and exact, and no address is lost.
GraphState(ds, p, mg, rest, open, un) ==
    /\ ds \in [GraphWorkers -> G!Dags \cup {G!NoDag}]
    /\ un \subseteq GraphAddrs
    /\ mg \in GraphWorkers \cup {"none"}
    /\ un \cup p.addrs \cup UNION {ds[w].addrs : w \in GraphWorkers} = GraphAddrs
    /\ \A w \in GraphWorkers : w # mg /\ ds[w] # G!NoDag => Good(ds[w])
    /\ mg = "none" => p = G!NoDag /\ rest = {} /\ open = {}
    /\ mg # "none" => un = {} /\ Merging(ds[mg], p, rest, open)

GraphIInv ==
    /\ tables \in GraphWorkloads
    /\ GraphState(dags, pairDag, merging, todo, links, untaken)
    /\ done \in BOOLEAN
    /\ G!ExactComponents

LEMMA Contents ==
    ASSUME tables \in GraphWorkloads
    PROVE  /\ \A a \in GraphAddrs : tables[a] \in [hasRead : SUBSET GraphTxs, hasWrite : SUBSET GraphTxs]
           /\ G!NodesOf({}) = {}
           /\ \A as \in SUBSET GraphAddrs : G!NodesOf(as) \in SUBSET GraphTxs
           /\ \A c, d : G!NodesOf(c \cup d) = G!NodesOf(c) \cup G!NodesOf(d)
           /\ \A a : G!NodesOf({a}) = G!TxsOf(tables[a])
BY Assumptions DEF G!WorkloadsAssumption, G!NodesOf, G!TxsOf

LEMMA Conflicts ==
    ASSUME tables \in GraphWorkloads
    PROVE  /\ \A m, n : ~G!Conflict({}, m, n)
           /\ \A c, d, m, n : G!Conflict(c \cup d, m, n) <=> G!Conflict(c, m, n) \/ G!Conflict(d, m, n)
           /\ \A c, m, n : G!Conflict(c, m, n) <=> G!Conflict(c, n, m)
           /\ \A c, m, n : G!Conflict(c, m, n) => m \in G!NodesOf(c) /\ n \in G!NodesOf(c)
           /\ \A c, m : ~G!Conflict(c, m, m)
           /\ \A a \in GraphAddrs : \A m, n \in GraphTxs : G!Conflict({a}, m, n) <=>
                  \/ <<m, n>> \in G!ConflictsIn(tables[a])
                  \/ <<n, m>> \in G!ConflictsIn(tables[a])
<1>1. \A m, n : ~G!Conflict({}, m, n)
  BY DEF G!Conflict
<1>2. \A c, d, m, n : G!Conflict(c \cup d, m, n) <=> G!Conflict(c, m, n) \/ G!Conflict(d, m, n)
  BY DEF G!Conflict
<1>3. \A c, m, n : {m, n} = {n, m}
  OBVIOUS
<1>4. \A c, m, n : G!Conflict(c, m, n) <=> G!Conflict(c, n, m)
  BY DEF G!Conflict
<1>5. \A c, m, n : G!Conflict(c, m, n) => m \in G!NodesOf(c) /\ n \in G!NodesOf(c)
  BY DEF G!Conflict, G!NodesOf, G!TxsOf
<1>6. \A c, m : ~G!Conflict(c, m, m)
  BY DEF G!Conflict
<1>7. ASSUME NEW a \in GraphAddrs, NEW m \in GraphTxs, NEW n \in GraphTxs
      PROVE  G!Conflict({a}, m, n) <=>
                  \/ <<m, n>> \in G!ConflictsIn(tables[a])
                  \/ <<n, m>> \in G!ConflictsIn(tables[a])
  <2>1. m \in Nat /\ n \in Nat
    BY GraphFinite
  <2> DEFINE tab == tables[a]
  <2>2. G!Conflict({a}, m, n) <=>
            m # n /\ m \in G!TxsOf(tab) /\ n \in G!TxsOf(tab) /\ (m \in tab.hasWrite \/ n \in tab.hasWrite)
    BY DEF G!Conflict, G!TxsOf
  <2> HIDE DEF tab
  <2>3. <<m, n>> \in G!ConflictsIn(tab) <=>
            m < n /\ m \in G!TxsOf(tab) /\ n \in G!TxsOf(tab) /\ (m \in tab.hasWrite \/ n \in tab.hasWrite)
    BY DEF G!ConflictsIn
  <2>4. <<n, m>> \in G!ConflictsIn(tab) <=>
            n < m /\ m \in G!TxsOf(tab) /\ n \in G!TxsOf(tab) /\ (m \in tab.hasWrite \/ n \in tab.hasWrite)
    BY DEF G!ConflictsIn
  <2>5. m # n <=> m < n \/ n < m
    BY <2>1
  <2> QED
    BY <2>2, <2>3, <2>4, <2>5 DEF tab
<1> QED
  BY <1>1, <1>2, <1>4, <1>5, <1>6, <1>7

\* A graph without nodes is complete.
LEMMA EmptyGood ==
    ASSUME tables \in GraphWorkloads
    PROVE  Good(G!EmptyDag) /\ G!EmptyDag.addrs = {}
<1> DEFINE d == G!EmptyDag
           own == [n \in GraphTxs |-> n]
<1>1. /\ d \in G!Dags /\ d.nodes = {} /\ d.addrs = {} /\ d.parent = own
      /\ \A n \in GraphTxs : d.edges[n] = {}
  BY DEF G!EmptyDag, G!Dags
<1>2. d.rank \in [GraphTxs -> Nat]
  BY <1>1, DagFields
<1> HIDE DEF d
<1>3. Forest(own, d.rank) /\ Roots(own, own)
  BY <1>2 DEF Forest, Roots
<1> HIDE DEF own
<1>4. Grown(d) /\ Tree(d) = own
  <2>1. Grown(d)
    BY <1>1, <1>3 DEF Grown
  <2> QED
    BY <1>1, <1>3, <2>1, TreeRoots
<1>5. Tight(d)
  BY <1>4 DEF Tight, own
<1>6. Symmetric(d) /\ Joined(d, {})
  BY <1>1 DEF Symmetric, Joined
<1>7. Exact(d)
  BY <1>1, Contents, Conflicts DEF Exact
<1> QED
  BY <1>1, <1>4, <1>5, <1>6, <1>7 DEF Good, Complete, d

\* A graph with more nodes and addresses, of which the edges are still to come.
With(d, no, ad) == DagOf(no, d.edges, d.degree, d.parent, d.rank, ad)

LEMMA WithNodes ==
    ASSUME NEW d, Complete(d), NEW no \in SUBSET GraphTxs, NEW ad \in SUBSET GraphAddrs
    PROVE  /\ Complete(With(d, no, ad)) /\ With(d, no, ad).nodes = no
           /\ With(d, no, ad).addrs = ad /\ With(d, no, ad).edges = d.edges
<1> DEFINE e == With(d, no, ad)
<1>1. d \in G!Dags /\ Grown(d)
  BY DEF Complete, Grown
<1>3. e \in G!Dags
  BY <1>1, DagFields, DagMade DEF With
<1>4. /\ e.nodes = no /\ e.addrs = ad /\ e.edges = d.edges /\ e.parent = d.parent /\ e.rank = d.rank
  BY DEF DagOf, With
<1> HIDE DEF e
<1>5. Tree(e) = Tree(d)
  BY <1>4 DEF Tree
<1> QED
  BY <1>3, <1>4, <1>5 DEF Complete, Grown, Symmetric, Tight, Joined, e

\* The graph with the nodes of one more address.
Beside(d, a) == [d EXCEPT !.nodes = @ \cup G!TxsOf(tables[a]), !.addrs = @ \cup {a}]

LEMMA BuildGood ==
    ASSUME tables \in GraphWorkloads, NEW d, Good(d), NEW a \in GraphAddrs,
           NEW u, u = G!BuildConflictEdges(Beside(d, a), tables[a])
    PROVE  Good(u) /\ u.addrs = d.addrs \cup {a}
<1> DEFINE e == Beside(d, a)
           no == d.nodes \cup G!TxsOf(tables[a])
           ad == d.addrs \cup {a}
<1>1. /\ Complete(d) /\ Exact(d) /\ d \in G!Dags
      /\ d.nodes \in SUBSET GraphTxs /\ d.addrs \in SUBSET GraphAddrs
      /\ d.edges \in [GraphTxs -> SUBSET GraphTxs]
  BY DagFields DEF Good, Complete, Grown
<1>2. e = [d EXCEPT !.nodes = no, !.addrs = ad]
  BY <1>1 DEF G!Dags, Beside
<1>3. no \in SUBSET GraphTxs /\ ad \in SUBSET GraphAddrs
  <2>1. G!NodesOf({a}) = G!TxsOf(tables[a]) /\ G!NodesOf({a}) \in SUBSET GraphTxs
    BY Contents
  <2> QED
    BY <1>1, <2>1
<1>4. no = G!NodesOf(ad)
  <2>1. G!NodesOf({a}) = G!TxsOf(tables[a]) /\ G!NodesOf(ad) = G!NodesOf(d.addrs) \cup G!NodesOf({a})
    BY Contents
  <2> QED
    BY <1>1, <2>1 DEF Exact
<1> HIDE DEF e, no, ad
<1>5. Complete(e) /\ e.nodes = no /\ e.addrs = ad /\ e.edges = d.edges
  <2>1. \A x, y : [d EXCEPT !.nodes = x, !.addrs = y] = With(d, x, y)
    BY <1>1, DagWith DEF With
  <2>2. e = With(d, no, ad)
    BY <1>2, <2>1, Zenon
  <2>3. /\ Complete(With(d, no, ad)) /\ With(d, no, ad).nodes = no
        /\ With(d, no, ad).addrs = ad /\ With(d, no, ad).edges = d.edges
    BY <1>1, <1>3, WithNodes
  <2> QED
    BY <2>2, <2>3
<1>6. tables[a] \in [hasRead : SUBSET GraphTxs, hasWrite : SUBSET GraphTxs]
  BY Contents
<1>7. Built(u, e, G!ConflictsIn(tables[a]))
  BY <1>5, <1>6, BuildKeeps DEF e
<1>8. Exact(u)
  <2>1. u.nodes = G!NodesOf(u.addrs) /\ u.addrs = ad
    BY <1>4, <1>5, <1>7 DEF Built
  <2>2. ASSUME NEW m \in GraphTxs, NEW n \in GraphTxs
        PROVE  n \in u.edges[m] <=> G!Conflict(ad, m, n)
    <3>1. n \in u.edges[m] <=> \/ n \in d.edges[m]
                               \/ <<m, n>> \in G!ConflictsIn(tables[a])
                               \/ <<n, m>> \in G!ConflictsIn(tables[a])
      BY <1>5, <1>7 DEF Built
    <3>2. n \in d.edges[m] <=> G!Conflict(d.addrs, m, n)
      BY <1>1 DEF Exact
    <3>3. G!Conflict(ad, m, n) <=> G!Conflict(d.addrs, m, n) \/ G!Conflict({a}, m, n)
      BY Conflicts DEF ad
    <3>4. G!Conflict({a}, m, n) <=> \/ <<m, n>> \in G!ConflictsIn(tables[a])
                                    \/ <<n, m>> \in G!ConflictsIn(tables[a])
      BY Conflicts
    <3> QED
      BY <3>1, <3>2, <3>3, <3>4
  <2> QED
    BY <2>1, <2>2 DEF Exact
<1>9. Complete(u) /\ u.addrs = ad
  BY <1>5, <1>7 DEF Built
<1> QED
  BY <1>8, <1>9 DEF Good, ad

\* What a visit of node n makes of d: the nodes and edges are no and ed.
Visited(d, u, n) ==
    /\ Grown(u) /\ u.parent = d.parent /\ u.addrs = d.addrs /\ u.nodes = d.nodes \cup {n}
    /\ \A m \in GraphTxs : d.edges[m] \subseteq u.edges[m]
    /\ pairDag.edges[n] \subseteq u.edges[n]
    /\ \A m \in GraphTxs : \A k \in u.edges[m] : k \in d.edges[m] \/ k \in pairDag.edges[m]

LEMMA VisitNew ==
    ASSUME NEW d, Grown(d), pairDag \in G!Dags, NEW n \in GraphTxs,
           d.edges[n] \subseteq pairDag.edges[n]
    PROVE  Visited(d, G!AddNode(d, n), n)
<1> DEFINE u == G!AddNode(d, n)
           no == d.nodes \cup {n}
           ed == [d.edges EXCEPT ![n] = pairDag.edges[n]]
           de == [d.degree EXCEPT ![n] = pairDag.degree[n]]
<1>1. d \in G!Dags /\ Forest(d.parent, d.rank)
  BY DEF Grown
<1>2. /\ d.nodes \in SUBSET GraphTxs /\ d.addrs \in SUBSET GraphAddrs
      /\ d.edges \in [GraphTxs -> SUBSET GraphTxs] /\ d.degree \in [GraphTxs -> Nat]
      /\ d.parent \in [GraphTxs -> GraphTxs] /\ d.rank \in [GraphTxs -> Nat]
      /\ pairDag.edges \in [GraphTxs -> SUBSET GraphTxs] /\ pairDag.degree \in [GraphTxs -> Nat]
  BY <1>1, DagFields
<1>3. u = [d EXCEPT !.nodes = no, !.edges = ed, !.degree = de]
  BY <1>1 DEF G!AddNode, G!Dags
<1>4. /\ no \in SUBSET GraphTxs /\ ed \in [GraphTxs -> SUBSET GraphTxs] /\ de \in [GraphTxs -> Nat]
      /\ \A m \in GraphTxs : ed[m] = IF m = n THEN pairDag.edges[n] ELSE d.edges[m]
  BY <1>2
<1> HIDE DEF u, ed, de
<1>5. u = DagOf(no, ed, de, d.parent, d.rank, d.addrs)
  <2>1. \A x, y, z : [d EXCEPT !.nodes = x, !.edges = y, !.degree = z]
                     = DagOf(x, y, z, d.parent, d.rank, d.addrs)
    BY <1>1, DagWith
  <2> QED
    BY <1>3, <2>1, Zenon
<1>6. u \in G!Dags
  BY <1>2, <1>4, <1>5, DagMade
<1>7. /\ u.nodes = no /\ u.edges = ed /\ u.parent = d.parent /\ u.rank = d.rank /\ u.addrs = d.addrs
  BY <1>5 DEF DagOf
<1> QED
  BY <1>1, <1>4, <1>6, <1>7 DEF Visited, Grown, u

LEMMA VisitKnown ==
    ASSUME NEW d, Grown(d), pairDag \in G!Dags, Symmetric(pairDag),
           NEW n \in GraphTxs, n \in d.nodes, n \notin pairDag.edges[n]
    PROVE  Visited(d, G!AddEdges(d, n), n)
<1> DEFINE u == G!AddEdges(d, n)
           missing == pairDag.edges[n] \ d.edges[n]
           edgesOf(m) == CASE m = n         -> d.edges[m] \cup missing
                           [] m \in missing -> d.edges[m] \cup {n}
                           [] OTHER         -> d.edges[m]
           degreeOf(m) == CASE m = n         -> d.degree[m] + G!Cardinality(missing)
                            [] m \in missing -> d.degree[m] + 1
                            [] OTHER         -> d.degree[m]
           ed == [m \in GraphTxs |-> edgesOf(m)]
           de == [m \in GraphTxs |-> degreeOf(m)]
<1>1. d \in G!Dags /\ Forest(d.parent, d.rank)
  BY DEF Grown
<1>2. /\ d.nodes \in SUBSET GraphTxs /\ d.addrs \in SUBSET GraphAddrs
      /\ d.edges \in [GraphTxs -> SUBSET GraphTxs] /\ d.degree \in [GraphTxs -> Nat]
      /\ d.parent \in [GraphTxs -> GraphTxs] /\ d.rank \in [GraphTxs -> Nat]
      /\ pairDag.edges \in [GraphTxs -> SUBSET GraphTxs]
  BY <1>1, DagFields
<1>3. u = [d EXCEPT !.edges = ed, !.degree = de]
  BY <1>1, Zenon DEF G!AddEdges
<1>4. missing \in SUBSET GraphTxs /\ n \notin missing /\ G!Cardinality(missing) \in Nat
  <2>1. missing \in SUBSET GraphTxs /\ n \notin missing
    BY <1>2
  <2> HIDE DEF missing
  <2>2. Cardinality(missing) \in Nat
    BY <2>1, GraphFinite, FS_Subset, FS_CardinalityType
  <2>3. G!Cardinality(missing) = Cardinality(missing)
    BY DEF G!Cardinality, Cardinality
  <2> QED
    BY <2>1, <2>2, <2>3
<1> HIDE DEF u, missing
<1>5. \A m \in GraphTxs : /\ m = n => ed[m] = d.edges[m] \cup missing /\ de[m] = d.degree[m] + G!Cardinality(missing)
                          /\ m \in missing => ed[m] = d.edges[m] \cup {n} /\ de[m] = d.degree[m] + 1
                          /\ m # n /\ m \notin missing => ed[m] = d.edges[m] /\ de[m] = d.degree[m]
  <2> SUFFICES ASSUME NEW m \in GraphTxs
               PROVE  /\ m = n => ed[m] = d.edges[m] \cup missing /\ de[m] = d.degree[m] + G!Cardinality(missing)
                      /\ m \in missing => ed[m] = d.edges[m] \cup {n} /\ de[m] = d.degree[m] + 1
                      /\ m # n /\ m \notin missing => ed[m] = d.edges[m] /\ de[m] = d.degree[m]
    OBVIOUS
  <2>1. m = n => m \notin missing
    BY <1>4
  <2> QED
    BY <2>1, Zenon
<1> HIDE DEF edgesOf, degreeOf
<1>6. ed = [m \in GraphTxs |-> ed[m]] /\ de = [m \in GraphTxs |-> de[m]]
  OBVIOUS
<1> HIDE DEF ed, de
<1>7. \A m \in GraphTxs : ed[m] \in SUBSET GraphTxs /\ de[m] \in Nat
  <2> SUFFICES ASSUME NEW m \in GraphTxs
               PROVE  ed[m] \in SUBSET GraphTxs /\ de[m] \in Nat
    OBVIOUS
  <2>1. PICK i \in Nat, c \in Nat : i = d.degree[m] /\ c = G!Cardinality(missing)
    BY <1>2, <1>4
  <2>2. i + c \in Nat /\ i + 1 \in Nat
    OBVIOUS
  <2>3. d.edges[m] \in SUBSET GraphTxs
    BY <1>2
  <2>4. m = n \/ m \in missing \/ (m # n /\ m \notin missing)
    OBVIOUS
  <2> QED
    BY <1>4, <1>5, <2>1, <2>2, <2>3, <2>4
<1>8. ed \in [GraphTxs -> SUBSET GraphTxs] /\ de \in [GraphTxs -> Nat]
  BY <1>6, <1>7
<1>9. u = DagOf(d.nodes, ed, de, d.parent, d.rank, d.addrs)
  <2>1. \A y, z : [d EXCEPT !.edges = y, !.degree = z] = DagOf(d.nodes, y, z, d.parent, d.rank, d.addrs)
    BY <1>1, DagWith
  <2> QED
    BY <1>3, <2>1, Zenon
<1>10. u \in G!Dags
  BY <1>2, <1>8, <1>9, DagMade
<1>11. /\ u.nodes = d.nodes /\ u.edges = ed /\ u.parent = d.parent /\ u.rank = d.rank /\ u.addrs = d.addrs
  BY <1>9 DEF DagOf
<1>12. \A m \in GraphTxs : /\ d.edges[m] \subseteq ed[m]
                           /\ \A k \in ed[m] : k \in d.edges[m] \/ k \in pairDag.edges[m]
  <2> SUFFICES ASSUME NEW m \in GraphTxs
               PROVE  /\ d.edges[m] \subseteq ed[m]
                      /\ \A k \in ed[m] : k \in d.edges[m] \/ k \in pairDag.edges[m]
    OBVIOUS
  <2>1. CASE m = n
    BY <1>5, <2>1 DEF missing
  <2>2. CASE m \in missing
    <3>1. n \in pairDag.edges[m]
      BY <2>2 DEF missing, Symmetric
    <3> QED
      BY <1>5, <2>2, <3>1
  <2>3. CASE m # n /\ m \notin missing
    BY <1>5, <2>3
  <2> QED
    BY <2>1, <2>2, <2>3
<1>13. pairDag.edges[n] \subseteq ed[n]
  BY <1>5 DEF missing
<1>14. u.nodes = d.nodes \cup {n}
  BY <1>11
<1> QED
  BY <1>1, <1>10, <1>11, <1>12, <1>13, <1>14 DEF Visited, Grown, u

\* The edges of a good graph are between its nodes, and go both ways.
LEMMA GoodEdges ==
    ASSUME tables \in GraphWorkloads, NEW d, Good(d)
    PROVE  /\ d \in G!Dags /\ Grown(d) /\ Tight(d) /\ Joined(d, {}) /\ Symmetric(d) /\ Exact(d)
           /\ d.nodes \in SUBSET GraphTxs /\ d.addrs \in SUBSET GraphAddrs
           /\ d.edges \in [GraphTxs -> SUBSET GraphTxs]
           /\ \A m \in GraphTxs : \A n \in d.edges[m] : m \in d.nodes /\ n \in d.nodes /\ m # n
           /\ \A m, n : <<m, n>> \in G!Edges(d) <=>
                  m \in GraphTxs /\ n \in GraphTxs /\ n \in d.edges[m]
<1>1. /\ d \in G!Dags /\ Grown(d) /\ Tight(d) /\ Joined(d, {}) /\ Symmetric(d) /\ Exact(d)
  BY DEF Good, Complete, Grown
<1>2. /\ d.nodes \in SUBSET GraphTxs /\ d.addrs \in SUBSET GraphAddrs
      /\ d.edges \in [GraphTxs -> SUBSET GraphTxs]
  BY <1>1, DagFields
<1>3. \A m \in GraphTxs : \A n \in d.edges[m] : m \in d.nodes /\ n \in d.nodes /\ m # n
  BY <1>1, <1>2, Conflicts DEF Exact
<1>4. \A m, n : <<m, n>> \in G!Edges(d) <=> m \in GraphTxs /\ n \in GraphTxs /\ n \in d.edges[m]
  BY <1>2, <1>3 DEF G!Edges
<1> QED
  BY <1>1, <1>2, <1>3, <1>4

LEMMA StartsMerging ==
    ASSUME tables \in GraphWorkloads, NEW d, Good(d), NEW p, Good(p)
    PROVE  Merging(d, p, p.nodes, G!Edges(p))
<1>1. Grown(d) /\ Tight(d) /\ Joined(d, {}) /\ Exact(d)
  BY GoodEdges
<1>2. Joined(d, G!Edges(p))
  BY <1>1 DEF Joined
<1>3. \A m, n \in GraphTxs : n \in p.edges[m] => m \in p.nodes
  BY GoodEdges
<1> QED
  BY <1>1, <1>2, <1>3 DEF Merging, Exact

LEMMA VisitKeeps ==
    ASSUME tables \in GraphWorkloads, NEW d, NEW rest, NEW open,
           Merging(d, pairDag, rest, open), NEW n \in rest,
           NEW u, u = IF n \in d.nodes THEN G!AddEdges(d, n) ELSE G!AddNode(d, n)
    PROVE  Merging(u, pairDag, rest \ {n}, open) /\ u.addrs = d.addrs /\ Grown(u)
<1>1. /\ Good(pairDag) /\ Grown(d) /\ Tight(d) /\ Joined(d, open)
      /\ rest \subseteq pairDag.nodes /\ open = G!Edges(pairDag)
      /\ d.nodes = G!NodesOf(d.addrs) \cup (pairDag.nodes \ rest)
  BY DEF Merging
<1>2. \A m, k \in GraphTxs :
        /\ G!Conflict(d.addrs, m, k) => k \in d.edges[m]
        /\ m \notin rest /\ k \in pairDag.edges[m] => k \in d.edges[m]
        /\ k \in d.edges[m] => G!Conflict(d.addrs, m, k) \/ k \in pairDag.edges[m]
  BY DEF Merging
<1>3. /\ pairDag \in G!Dags /\ Symmetric(pairDag) /\ n \in GraphTxs /\ n \in pairDag.nodes
      /\ n \notin pairDag.edges[n]
      /\ \A m, k : <<m, k>> \in open <=> m \in GraphTxs /\ k \in GraphTxs /\ k \in pairDag.edges[m]
  BY <1>1, GoodEdges
<1>4. d.edges \in [GraphTxs -> SUBSET GraphTxs] /\ d.addrs \in SUBSET GraphAddrs
  BY <1>1, DagFields DEF Grown
<1>5. Visited(d, u, n)
  <2>1. CASE n \in d.nodes
    BY <1>1, <1>3, <2>1, VisitKnown
  <2>2. CASE n \notin d.nodes
    <3>1. \A k \in d.edges[n] : k \in pairDag.edges[n]
      BY <1>1, <1>2, <1>3, <1>4, <2>2, Conflicts
    <3> QED
      BY <1>1, <1>3, <2>2, <3>1, VisitNew
  <2> QED
    BY <2>1, <2>2
<1>6. /\ Grown(u) /\ u.parent = d.parent /\ u.addrs = d.addrs /\ u.nodes = d.nodes \cup {n}
      /\ \A m \in GraphTxs : d.edges[m] \subseteq u.edges[m]
      /\ pairDag.edges[n] \subseteq u.edges[n]
      /\ \A m \in GraphTxs : \A k \in u.edges[m] : k \in d.edges[m] \/ k \in pairDag.edges[m]
  BY <1>5 DEF Visited
<1>7. u.edges \in [GraphTxs -> SUBSET GraphTxs]
  BY <1>6, DagFields DEF Grown
<1>8. Tree(u) = Tree(d)
  BY <1>6 DEF Tree
<1>9. Tight(u)
  <2> SUFFICES ASSUME NEW part \in SUBSET GraphTxs, Closed(part, u.edges)
               PROVE  Closed(part, d.edges)
    BY <1>1, <1>8 DEF Tight
  <2> QED
    BY <1>6 DEF Closed
<1>10. Joined(u, open)
  <2> SUFFICES ASSUME NEW m \in GraphTxs, NEW k \in u.edges[m]
               PROVE  Tree(d)[m] = Tree(d)[k] \/ <<m, k>> \in open
    BY <1>8 DEF Joined
  <2>1. k \in d.edges[m] \/ k \in pairDag.edges[m]
    BY <1>6
  <2>2. k \in GraphTxs
    BY <1>7
  <2> QED
    BY <1>1, <1>3, <2>1, <2>2 DEF Joined
<1>11. u.nodes = G!NodesOf(u.addrs) \cup (pairDag.nodes \ (rest \ {n}))
  BY <1>1, <1>3, <1>6
<1>12. ASSUME NEW m \in GraphTxs, NEW k \in GraphTxs
       PROVE  /\ G!Conflict(u.addrs, m, k) => k \in u.edges[m]
              /\ m \notin rest \ {n} /\ k \in pairDag.edges[m] => k \in u.edges[m]
              /\ k \in u.edges[m] => G!Conflict(u.addrs, m, k) \/ k \in pairDag.edges[m]
  BY <1>2, <1>6
<1>13. rest \ {n} \subseteq pairDag.nodes /\ open \subseteq G!Edges(pairDag)
  BY <1>1
<1> QED
  BY <1>1, <1>6, <1>9, <1>10, <1>11, <1>12, <1>13 DEF Merging

LEMMA JoinKeeps ==
    ASSUME tables \in GraphWorkloads, NEW d, NEW p, NEW open, Merging(d, p, {}, open),
           NEW x \in GraphTxs, NEW y \in GraphTxs, <<x, y>> \in open,
           NEW u, u = G!Union(d, x, y)
    PROVE  Merging(u, p, {}, open \ {<<x, y>>}) /\ u.addrs = d.addrs /\ Grown(u)
<1>1. Good(p) /\ Grown(d) /\ Tight(d) /\ Joined(d, open) /\ open \subseteq G!Edges(p)
  BY DEF Merging
<1>2. \A m, k \in GraphTxs : k \in p.edges[m] => k \in d.edges[m]
  BY DEF Merging
<1>3. y \in p.edges[x] /\ x \in p.edges[y]
  BY <1>1, GoodEdges DEF Symmetric
<1>4. y \in d.edges[x] /\ x \in d.edges[y]
  BY <1>2, <1>3
<1>5. /\ Grown(u) /\ SameGraph(u, d) /\ Tight(u)
      /\ Joined(u, open \ {<<x, y>>, <<y, x>>})
  BY <1>1, <1>4, UnionGrows
<1>6. Joined(u, open \ {<<x, y>>})
  BY <1>5 DEF Joined
<1>7. {} # {} => open \ {<<x, y>>} = G!Edges(p)
  OBVIOUS
<1>8. u.nodes = d.nodes /\ u.edges = d.edges /\ u.addrs = d.addrs
  BY <1>5 DEF SameGraph
<1> QED
  BY <1>1, <1>5, <1>6, <1>7, <1>8 DEF Merging

\* Once all is visited and joined, the graph is that of the addresses of both.
LEMMA EndsMerging ==
    ASSUME tables \in GraphWorkloads, NEW d, NEW p, Merging(d, p, {}, {}),
           NEW u, u = [d EXCEPT !.addrs = @ \cup p.addrs]
    PROVE  Good(u) /\ u.addrs = d.addrs \cup p.addrs
<1> DEFINE ad == d.addrs \cup p.addrs
<1>1. Good(p) /\ Grown(d) /\ Tight(d) /\ Joined(d, {}) /\ d \in G!Dags /\ Forest(d.parent, d.rank)
  BY DEF Merging, Grown
<1>2. Exact(p) /\ p.addrs \in SUBSET GraphAddrs
  BY <1>1, GoodEdges
<1>3. /\ d.nodes \in SUBSET GraphTxs /\ d.edges \in [GraphTxs -> SUBSET GraphTxs]
      /\ d.degree \in [GraphTxs -> Nat] /\ d.addrs \in SUBSET GraphAddrs
      /\ d.parent \in [GraphTxs -> GraphTxs] /\ d.rank \in [GraphTxs -> Nat]
  BY <1>1, DagFields
<1>4. u = [d EXCEPT !.addrs = ad]
  BY <1>1 DEF G!Dags
<1>5. ad \in SUBSET GraphAddrs
  BY <1>2, <1>3
<1>6. /\ d.nodes = G!NodesOf(d.addrs) \cup p.nodes
      /\ \A m, n \in GraphTxs : n \in d.edges[m] <=> G!Conflict(d.addrs, m, n) \/ n \in p.edges[m]
  BY DEF Merging
<1>7. /\ d.nodes = G!NodesOf(ad)
      /\ \A m, n \in GraphTxs : n \in d.edges[m] <=> G!Conflict(ad, m, n)
  <2>1. G!NodesOf(ad) = G!NodesOf(d.addrs) \cup G!NodesOf(p.addrs)
    BY Contents
  <2>2. \A m, n : G!Conflict(ad, m, n) <=> G!Conflict(d.addrs, m, n) \/ G!Conflict(p.addrs, m, n)
    BY Conflicts
  <2> HIDE DEF ad
  <2> QED
    BY <1>2, <1>6, <2>1, <2>2 DEF Exact
<1> HIDE DEF ad
<1>8. u = DagOf(d.nodes, d.edges, d.degree, d.parent, d.rank, ad)
  <2>1. \A x : [d EXCEPT !.addrs = x] = DagOf(d.nodes, d.edges, d.degree, d.parent, d.rank, x)
    BY <1>1, DagWith
  <2> QED
    BY <1>4, <2>1, Zenon
<1>9. u \in G!Dags
  <2>1. PICK no \in SUBSET GraphTxs, ed \in [GraphTxs -> SUBSET GraphTxs], de \in [GraphTxs -> Nat],
             pa \in [GraphTxs -> GraphTxs], ra \in [GraphTxs -> Nat] :
             u = DagOf(no, ed, de, pa, ra, ad)
    BY <1>3, <1>8
  <2>2. DagOf(no, ed, de, pa, ra, ad) \in G!Dags
    BY <1>5, DagMade
  <2> QED
    BY <2>1, <2>2
<1>10. /\ u.nodes = d.nodes /\ u.edges = d.edges /\ u.parent = d.parent /\ u.rank = d.rank /\ u.addrs = ad
  BY <1>8 DEF DagOf
<1>11. Grown(u) /\ Tree(u) = Tree(d)
  BY <1>1, <1>9, <1>10 DEF Grown, Tree
<1>12. Tight(u) /\ Joined(u, {})
  <2>1. Tight(d) /\ Joined(d, {})
    BY <1>1
  <2>2. Tight(u)
    BY <1>10, <1>11, <2>1 DEF Tight
  <2>3. Joined(u, {})
    BY <1>10, <1>11, <2>1 DEF Joined
  <2> QED
    BY <2>2, <2>3
<1>13. Symmetric(u)
  BY <1>7, <1>10, Conflicts DEF Symmetric
<1> QED
  BY <1>7, <1>10, <1>11, <1>12, <1>13 DEF Good, Complete, Exact, ad

\* The components of a good graph of all addresses are those of the conflicts.
LEMMA ComponentsOf ==
    ASSUME tables \in GraphWorkloads, NEW d, Good(d), d.addrs = GraphAddrs,
           NEW comps, comps = G!GetConnectedComponents(d)
    PROVE  /\ \A c \in comps : IsFiniteSet(c) /\ c \in SUBSET GraphTxs
           /\ UNION comps = G!NodesOf(GraphAddrs)
           /\ \A c, e \in comps : c # e => c \cap e = {}
           /\ \A c \in comps : G!IsConnected(c)
           /\ \A c, e \in comps : c # e => \A m \in c, n \in e : ~G!Conflict(GraphAddrs, m, n)
<1> DEFINE of(k) == {n \in d.nodes : Tree(d)[n] = Tree(d)[k]}
<1>1. /\ Tight(d) /\ Joined(d, {}) /\ d.nodes \in SUBSET GraphTxs
      /\ d.edges \in [GraphTxs -> SUBSET GraphTxs]
      /\ \A m \in GraphTxs : \A n \in d.edges[m] : m \in d.nodes /\ n \in d.nodes
      /\ d.nodes = G!NodesOf(GraphAddrs)
      /\ \A m, n \in GraphTxs : n \in d.edges[m] <=> G!Conflict(GraphAddrs, m, n)
  BY GoodEdges DEF Exact
<1>2. \A n \in GraphTxs : Tree(d)[n] = G!Root(d.parent, n)
  BY DEF Tree
<1>3. comps = {of(k) : k \in d.nodes}
  <2>1. comps = {{n \in d.nodes : G!Root(d.parent, n) = r} : r \in {G!Root(d.parent, n) : n \in d.nodes}}
    BY DEF G!GetConnectedComponents
  <2>2. \A k \in d.nodes : of(k) = {n \in d.nodes : G!Root(d.parent, n) = G!Root(d.parent, k)}
    BY <1>1, <1>2
  <2> QED
    BY <2>1, <2>2
<1>4. \A k \in d.nodes : k \in of(k) /\ of(k) \in SUBSET d.nodes
  OBVIOUS
<1>5. \A j, k \in d.nodes : \A m \in of(j) : m \in of(k) => of(j) = of(k)
  OBVIOUS
<1>6. \A j, k \in d.nodes : \A m \in of(j), n \in of(k) : Tree(d)[m] = Tree(d)[n] <=> of(j) = of(k)
  OBVIOUS
<1> HIDE DEF of
<1>7. \A c \in comps : IsFiniteSet(c) /\ c \in SUBSET GraphTxs
  <2>1. \A c \in comps : c \in SUBSET GraphTxs
    BY <1>1, <1>3, <1>4
  <2> QED
    BY <2>1, GraphFinite, FS_Subset
<1>8. UNION comps = G!NodesOf(GraphAddrs)
  BY <1>1, <1>3, <1>4
<1>9. \A c, e \in comps : c # e => c \cap e = {}
  BY <1>3, <1>5
<1>10. ASSUME NEW c \in comps, NEW e \in comps, NEW m \in c, NEW n \in e, G!Conflict(GraphAddrs, m, n)
       PROVE  c = e
  <2>1. m \in GraphTxs /\ n \in GraphTxs
    BY <1>7
  <2>2. Tree(d)[m] = Tree(d)[n]
    BY <1>1, <1>10, <2>1 DEF Joined
  <2> QED
    BY <1>3, <1>6, <2>2
<1>11. ASSUME NEW c \in comps
       PROVE  G!IsConnected(c)
  <2> SUFFICES ASSUME NEW part \in (SUBSET c) \ {{}, c},
                      \A m \in part, n \in c \ part : ~G!Conflict(GraphAddrs, m, n)
               PROVE  FALSE
    BY DEF G!IsConnected
  <2>0. c \in SUBSET GraphTxs /\ part \in SUBSET GraphTxs
    BY <1>7
  <2>1. PICK k \in d.nodes : c = of(k)
    BY <1>3
  <2>2. ASSUME NEW m \in part, NEW n \in d.edges[m]
        PROVE  n \in part
    <3>1. m \in GraphTxs /\ n \in GraphTxs /\ m \in d.nodes /\ n \in d.nodes
      BY <1>1, <2>0
    <3>2. Tree(d)[m] = Tree(d)[n]
      BY <1>1, <3>1 DEF Joined
    <3>3. n \in of(n) /\ m \in of(k)
      BY <1>4, <2>1, <3>1
    <3>4. n \in c
      BY <1>6, <2>1, <3>1, <3>2, <3>3
    <3>5. G!Conflict(GraphAddrs, m, n)
      BY <1>1, <3>1
    <3> QED
      BY <3>4, <3>5
  <2>3. Closed(part, d.edges)
    BY <2>2 DEF Closed
  <2>4. PICK m \in part : TRUE
    OBVIOUS
  <2>5. PICK n \in c : n \notin part
    OBVIOUS
  <2>6. Tree(d)[m] = Tree(d)[n]
    BY <1>6, <2>1
  <2> QED
    BY <1>1, <2>0, <2>3, <2>4, <2>5, <2>6 DEF Tight
<1> QED
  BY <1>7, <1>8, <1>9, <1>10, <1>11

LEMMA PublishKeeps ==
    ASSUME GraphIInv, G!PublishComponents
    PROVE  G!ExactComponents'
<1>0. /\ tables \in GraphWorkloads /\ GraphState(dags, pairDag, merging, todo, links, untaken)
  BY DEF GraphIInv
<1>1. PICK w \in GraphWorkers :
          /\ dags[w] # G!NoDag
          /\ \A v \in GraphWorkers \ {w} : dags[v] = G!NoDag
          /\ LET components == G!GetConnectedComponents(dags[w])
                 single(c) == G!Cardinality(c) = 1
             IN  /\ CommittedTxs' = UNION {c \in components : single(c)}
                 /\ componentsQueue' = {c \in components : ~single(c)}
  BY DEF G!PublishComponents
<1>2. untaken = {} /\ merging = "none" /\ tables' = tables
  BY DEF G!PublishComponents
<1> DEFINE d == dags[w]
           comps == G!GetConnectedComponents(d)
           parts == componentsQueue' \cup {{n} : n \in CommittedTxs'}
<1>3. Good(d)
  BY <1>0, <1>1, <1>2, Assumptions DEF GraphState, G!WorkersAssumption
<1>4. d.addrs = GraphAddrs
  <2>1. pairDag = G!NoDag
    BY <1>0, <1>2 DEF GraphState
  <2>2. untaken \cup pairDag.addrs \cup UNION {dags[v].addrs : v \in GraphWorkers} = GraphAddrs
    BY <1>0 DEF GraphState
  <2>3. G!NoDag.addrs = {}
    BY DEF G!NoDag
  <2>4. \A v \in GraphWorkers : v = w \/ dags[v].addrs = {}
    BY <1>1, <2>3
  <2> QED
    BY <1>2, <2>1, <2>2, <2>3, <2>4
<1> HIDE DEF d, comps
<1>5. /\ \A c \in comps : IsFiniteSet(c) /\ c \in SUBSET GraphTxs
      /\ UNION comps = G!NodesOf(GraphAddrs)
      /\ \A c, e \in comps : c # e => c \cap e = {}
      /\ \A c \in comps : G!IsConnected(c)
      /\ \A c, e \in comps : c # e => \A m \in c, n \in e : ~G!Conflict(GraphAddrs, m, n)
  BY <1>0, <1>3, <1>4, ComponentsOf DEF comps
<1>6. /\ CommittedTxs' = UNION {c \in comps : G!Cardinality(c) = 1}
      /\ componentsQueue' = {c \in comps : G!Cardinality(c) # 1}
  BY <1>1 DEF comps, d
<1>7. \A c \in comps : G!Cardinality(c) = 1 <=> \E n : c = {n}
  <2>1. \A c : G!Cardinality(c) = Cardinality(c)
    BY DEF G!Cardinality, Cardinality
  <2> QED
    BY <1>5, <2>1, FS_Singleton
<1>8. parts = comps
  <2>1. \A c \in comps : c \in parts
    <3> SUFFICES ASSUME NEW c \in comps
                 PROVE  c \in parts
      OBVIOUS
    <3>1. CASE G!Cardinality(c) = 1
      <4>1. PICK n : c = {n}
        BY <1>7, <3>1
      <4>2. n \in CommittedTxs'
        BY <1>6, <3>1, <4>1
      <4> QED
        BY <4>1, <4>2
    <3>2. CASE G!Cardinality(c) # 1
      BY <1>6, <3>2
    <3> QED
      BY <3>1, <3>2
  <2>2. \A c \in parts : c \in comps
    <3> SUFFICES ASSUME NEW n \in CommittedTxs'
                 PROVE  {n} \in comps
      BY <1>6
    <3>1. PICK c \in comps : n \in c /\ G!Cardinality(c) = 1
      BY <1>6
    <3>2. c = {n}
      BY <1>7, <3>1
    <3> QED
      BY <3>2
  <2> QED
    BY <2>1, <2>2
<1>9. /\ \A as : G!NodesOf(as)' = G!NodesOf(as)
      /\ \A as, m, n : G!Conflict(as, m, n)' <=> G!Conflict(as, m, n)
      /\ \A c : G!IsConnected(c)' <=> G!IsConnected(c)
  BY <1>2 DEF G!NodesOf, G!Conflict, G!IsConnected
<1> HIDE DEF parts
<1>10. /\ UNION parts = G!NodesOf(GraphAddrs)'
       /\ \A c, e \in parts : c # e => c \cap e = {}
       /\ \A c \in parts : G!IsConnected(c)'
       /\ \A c, e \in parts : c # e => \A m \in c, n \in e : ~G!Conflict(GraphAddrs, m, n)'
  BY <1>5, <1>8, <1>9
<1> QED
  BY <1>10 DEF G!ExactComponents, parts

\* What a step that changes only the graphs must show.
LEMMA GraphKept ==
    ASSUME GraphIInv, tables' = tables, UNCHANGED <<CommittedTxs, componentsQueue, done>>,
           GraphState(dags', pairDag', merging', todo', links', untaken')
    PROVE  GraphIInv'
<1>1. /\ \A as : G!NodesOf(as)' = G!NodesOf(as)
      /\ \A as, m, n : G!Conflict(as, m, n)' <=> G!Conflict(as, m, n)
      /\ \A c : G!IsConnected(c)' <=> G!IsConnected(c)
  BY DEF G!NodesOf, G!Conflict, G!IsConnected
<1>2. G!ExactComponents'
  <2> DEFINE parts == componentsQueue' \cup {{n} : n \in CommittedTxs'}
  <2>1. parts = componentsQueue \cup {{n} : n \in CommittedTxs} /\ done' = done
    OBVIOUS
  <2>2. CASE done
    <3>1. LET ps == componentsQueue \cup {{n} : n \in CommittedTxs}
          IN  /\ UNION ps = G!NodesOf(GraphAddrs)
              /\ \A c, e \in ps : c # e => c \cap e = {}
              /\ \A c \in ps : G!IsConnected(c)
              /\ \A c, e \in ps : c # e => \A m \in c, n \in e : ~G!Conflict(GraphAddrs, m, n)
      BY <2>2 DEF GraphIInv, G!ExactComponents
    <3>2. /\ UNION parts = G!NodesOf(GraphAddrs)
          /\ \A c, e \in parts : c # e => c \cap e = {}
          /\ \A c \in parts : G!IsConnected(c)
          /\ \A c, e \in parts : c # e => \A m \in c, n \in e : ~G!Conflict(GraphAddrs, m, n)
      BY <2>1, <3>1
    <3> HIDE DEF parts
    <3>3. /\ UNION parts = G!NodesOf(GraphAddrs)'
          /\ \A c, e \in parts : c # e => c \cap e = {}
          /\ \A c \in parts : G!IsConnected(c)'
          /\ \A c, e \in parts : c # e => \A m \in c, n \in e : ~G!Conflict(GraphAddrs, m, n)'
      BY <1>1, <3>2
    <3> QED
      BY <3>3 DEF G!ExactComponents, parts
  <2>3. CASE ~done
    BY <2>1, <2>3 DEF G!ExactComponents
  <2> QED
    BY <2>2, <2>3
<1>3. \A d : Exact(d)' <=> Exact(d)
  BY <1>1 DEF Exact
<1>4. \A d : Good(d)' <=> Good(d)
  BY <1>3 DEF Good
<1>5. \A d, p, rest, open : Merging(d, p, rest, open)' <=> Merging(d, p, rest, open)
  BY <1>1, <1>4 DEF Merging
<1>6. GraphState(dags, pairDag, merging, todo, links, untaken)'
  BY <1>4, <1>5 DEF GraphState
<1> QED
  BY <1>2, <1>6 DEF GraphIInv

AddrsIn(ds) == UNION {ds[w].addrs : w \in GraphWorkers}

LEMMA ConstructKeeps ==
    ASSUME GraphIInv, NEW w \in GraphWorkers, NEW a \in GraphAddrs, G!ConstructDAGForAddress(w, a)
    PROVE  GraphIInv'
<1> DEFINE mine == IF dags[w] = G!NoDag THEN G!EmptyDag ELSE dags[w]
           with == [mine EXCEPT !.nodes = @ \cup G!TxsOf(tables[a]), !.addrs = @ \cup {a}]
           u == G!BuildConflictEdges(with, tables[a])
<1>1. tables \in GraphWorkloads /\ GraphState(dags, pairDag, merging, todo, links, untaken)
  BY DEF GraphIInv
<1>2. /\ a \in untaken /\ untaken' = untaken \ {a} /\ dags' = [dags EXCEPT ![w] = u]
      /\ tables' = tables /\ pairDag' = pairDag /\ merging' = merging /\ todo' = todo
      /\ links' = links /\ UNCHANGED <<CommittedTxs, componentsQueue, done>>
  BY DEF G!ConstructDAGForAddress
<1>3. merging = "none" /\ "none" \notin GraphWorkers
  BY <1>1, <1>2, Assumptions DEF GraphState, G!WorkersAssumption
<1>4. Good(mine) /\ mine.addrs = dags[w].addrs
  <2>1. CASE dags[w] = G!NoDag
    <3>1. G!NoDag.addrs = {}
      BY DEF G!NoDag
    <3>2. Good(G!EmptyDag) /\ G!EmptyDag.addrs = {}
      BY <1>1, EmptyGood
    <3>3. mine = G!EmptyDag
      BY <2>1
    <3> HIDE DEF mine
    <3> QED
      BY <2>1, <3>1, <3>2, <3>3
  <2>2. CASE dags[w] # G!NoDag
    <3>1. Good(dags[w])
      BY <1>1, <1>3, <2>2 DEF GraphState
    <3> QED
      BY <2>2, <3>1
  <2> QED
    BY <2>1, <2>2
<1> HIDE DEF mine
<1>5. Good(u) /\ u.addrs = mine.addrs \cup {a}
  <2>1. u = G!BuildConflictEdges(Beside(mine, a), tables[a])
    BY DEF Beside
  <2> HIDE DEF u
  <2> QED
    BY <1>1, <1>4, <2>1, BuildGood
<1>6. u \in G!Dags
  BY <1>5 DEF Good, Complete, Grown
<1> HIDE DEF with, u
<1>7. PICK ds : ds = dags'
  OBVIOUS
<1>8. /\ dags \in [GraphWorkers -> G!Dags \cup {G!NoDag}]
      /\ untaken \cup pairDag.addrs \cup AddrsIn(dags) = GraphAddrs
      /\ \A v \in GraphWorkers : dags[v] # G!NoDag => Good(dags[v])
      /\ pairDag = G!NoDag /\ todo = {} /\ links = {} /\ untaken \subseteq GraphAddrs
  BY <1>1, <1>3 DEF GraphState, AddrsIn
<1>9. ds \in [GraphWorkers -> G!Dags \cup {G!NoDag}] /\ \A v \in GraphWorkers : ds[v] = IF v = w THEN u ELSE dags[v]
  BY <1>2, <1>6, <1>7, <1>8
<1>10. AddrsIn(ds) = AddrsIn(dags) \cup {a}
  <2>1. ds[w].addrs = dags[w].addrs \cup {a}
    BY <1>4, <1>5, <1>9
  <2> QED
    BY <1>9, <2>1 DEF AddrsIn
<1>11. (untaken \ {a}) \cup pairDag.addrs \cup AddrsIn(ds) = GraphAddrs
  BY <1>2, <1>8, <1>10
<1>12. GraphState(ds, pairDag, merging, todo, links, untaken \ {a})
  BY <1>3, <1>5, <1>8, <1>9, <1>11 DEF GraphState, AddrsIn
<1> QED
  BY <1>2, <1>7, <1>12, GraphKept

LEMMA StartKeeps ==
    ASSUME GraphIInv, NEW w \in GraphWorkers, NEW v \in GraphWorkers, G!StartMerge(w, v)
    PROVE  GraphIInv'
<1> DEFINE swap == G!Cardinality(dags[v].nodes) > G!Cardinality(dags[w].nodes)
           keep == IF swap THEN dags[v] ELSE dags[w]
           other == IF swap THEN dags[w] ELSE dags[v]
<1>1. tables \in GraphWorkloads /\ GraphState(dags, pairDag, merging, todo, links, untaken)
  BY DEF GraphIInv
<1>2. /\ untaken = {} /\ merging = "none" /\ w # v /\ dags[w] # G!NoDag /\ dags[v] # G!NoDag
      /\ dags' = [dags EXCEPT ![w] = keep, ![v] = G!NoDag]
      /\ pairDag' = other /\ todo' = other.nodes /\ links' = G!Edges(other)
      /\ merging' = w /\ untaken' = untaken
      /\ tables' = tables /\ UNCHANGED <<CommittedTxs, componentsQueue, done>>
  BY DEF G!StartMerge
<1>3. "none" \notin GraphWorkers
  BY Assumptions DEF G!WorkersAssumption
<1>4. (keep = dags[v] /\ other = dags[w]) \/ (keep = dags[w] /\ other = dags[v])
  OBVIOUS
<1> HIDE DEF swap, keep, other
<1>5. Good(keep) /\ Good(other) /\ keep \in G!Dags /\ other \in G!Dags
  <2>1. Good(dags[w]) /\ Good(dags[v])
    BY <1>1, <1>2, <1>3 DEF GraphState
  <2> QED
    BY <1>4, <2>1 DEF Good, Complete, Grown
<1>6. Merging(keep, other, other.nodes, G!Edges(other))
  BY <1>1, <1>5, StartsMerging
<1>7. PICK ds : ds = dags'
  OBVIOUS
<1>8. /\ dags \in [GraphWorkers -> G!Dags \cup {G!NoDag}]
      /\ untaken \cup pairDag.addrs \cup AddrsIn(dags) = GraphAddrs
      /\ \A k \in GraphWorkers : dags[k] # G!NoDag => Good(dags[k])
      /\ pairDag.addrs = {} /\ untaken \subseteq GraphAddrs
  BY <1>1, <1>2, <1>3 DEF GraphState, AddrsIn, G!NoDag
<1>9. /\ ds \in [GraphWorkers -> G!Dags \cup {G!NoDag}]
      /\ \A k \in GraphWorkers : ds[k] = IF k = v THEN G!NoDag ELSE IF k = w THEN keep ELSE dags[k]
  BY <1>2, <1>5, <1>7, <1>8
<1>10. other.addrs \cup AddrsIn(ds) = AddrsIn(dags)
  <2>1. G!NoDag.addrs = {}
    BY DEF G!NoDag
  <2>2. /\ ds[w].addrs = keep.addrs /\ ds[v].addrs = {}
        /\ keep.addrs \cup other.addrs = dags[w].addrs \cup dags[v].addrs
        /\ \A k \in GraphWorkers : k # w /\ k # v => ds[k].addrs = dags[k].addrs
    BY <1>2, <1>4, <1>9, <2>1
  <2>3. \A b : b \in AddrsIn(ds) <=> \E k \in GraphWorkers : b \in ds[k].addrs
    BY DEF AddrsIn
  <2>4. \A b : b \in AddrsIn(dags) <=> \E k \in GraphWorkers : b \in dags[k].addrs
    BY DEF AddrsIn
  <2>5. \A b : b \in other.addrs \cup AddrsIn(ds) => b \in AddrsIn(dags)
    BY <2>2, <2>3, <2>4
  <2>6. \A b : b \in AddrsIn(dags) => b \in other.addrs \cup AddrsIn(ds)
    BY <2>2, <2>3, <2>4
  <2> QED
    BY <2>5, <2>6
<1>11. untaken \cup other.addrs \cup AddrsIn(ds) = GraphAddrs
  BY <1>8, <1>10
<1>12. GraphState(ds, other, w, other.nodes, G!Edges(other), untaken)
  BY <1>2, <1>3, <1>6, <1>8, <1>9, <1>11 DEF GraphState, AddrsIn
<1> QED
  BY <1>2, <1>7, <1>12, GraphKept

\* A step of a merge: the graph that it works on is replaced by u.
LEMMA GraphMergeStep ==
    ASSUME GraphIInv, merging # "none", NEW u, NEW rest, NEW open,
           Merging(u, pairDag, rest, open), u.addrs = dags[merging].addrs,
           dags' = [dags EXCEPT ![merging] = u], todo' = rest, links' = open,
           UNCHANGED <<tables, untaken, pairDag, merging, CommittedTxs, componentsQueue, done>>
    PROVE  GraphIInv'
<1>1. tables \in GraphWorkloads /\ GraphState(dags, pairDag, merging, todo, links, untaken)
  BY DEF GraphIInv
<1>2. u \in G!Dags
  BY DEF Merging, Grown
<1>3. PICK ds : ds = dags'
  OBVIOUS
<1>4. /\ dags \in [GraphWorkers -> G!Dags \cup {G!NoDag}] /\ merging \in GraphWorkers
      /\ untaken \cup pairDag.addrs \cup AddrsIn(dags) = GraphAddrs
      /\ \A k \in GraphWorkers : k # merging /\ dags[k] # G!NoDag => Good(dags[k])
      /\ untaken = {}
  BY <1>1 DEF GraphState, AddrsIn
<1>5. /\ ds \in [GraphWorkers -> G!Dags \cup {G!NoDag}]
      /\ \A k \in GraphWorkers : ds[k] = IF k = merging THEN u ELSE dags[k]
  BY <1>2, <1>3, <1>4
<1>6. AddrsIn(ds) = AddrsIn(dags)
  <2>1. \A k \in GraphWorkers : ds[k].addrs = dags[k].addrs
    BY <1>5
  <2> QED
    BY <2>1 DEF AddrsIn
<1>7. GraphState(ds, pairDag, merging, rest, open, untaken)
  BY <1>4, <1>5, <1>6 DEF GraphState, AddrsIn
<1> QED
  BY <1>3, <1>7, GraphKept

LEMMA MergeNodeKeeps ==
    ASSUME GraphIInv, NEW n \in GraphTxs, G!MergeNode(n)
    PROVE  GraphIInv'
<1> DEFINE d == dags[merging]
           u == IF n \in d.nodes THEN G!AddEdges(d, n) ELSE G!AddNode(d, n)
<1>1. tables \in GraphWorkloads /\ GraphState(dags, pairDag, merging, todo, links, untaken)
  BY DEF GraphIInv
<1>2. /\ n \in todo /\ todo' = todo \ {n} /\ dags' = [dags EXCEPT ![merging] = u]
      /\ UNCHANGED <<tables, untaken, pairDag, merging, links, CommittedTxs, componentsQueue, done>>
  <2>1. dags \in [GraphWorkers -> G!Dags \cup {G!NoDag}]
    BY <1>1 DEF GraphState
  <2> QED
    BY <2>1 DEF G!MergeNode
<1>3. merging # "none" /\ Merging(d, pairDag, todo, links)
  BY <1>1, <1>2 DEF GraphState
<1>4. Merging(u, pairDag, todo \ {n}, links) /\ u.addrs = d.addrs
  <2> HIDE DEF d
  <2> QED
    BY <1>1, <1>2, <1>3, VisitKeeps
<1> HIDE DEF u
<1> QED
  BY <1>2, <1>3, <1>4, GraphMergeStep

LEMMA JoinEndsKeeps ==
    ASSUME GraphIInv, NEW m \in GraphTxs, NEW n \in GraphTxs, G!JoinEnds(<<m, n>>)
    PROVE  GraphIInv'
<1> DEFINE d == dags[merging]
           u == G!Union(d, m, n)
<1>1. tables \in GraphWorkloads /\ GraphState(dags, pairDag, merging, todo, links, untaken)
  BY DEF GraphIInv
<1>2. /\ todo = {} /\ <<m, n>> \in links /\ links' = links \ {<<m, n>>}
      /\ dags' = [dags EXCEPT ![merging] = u]
      /\ UNCHANGED <<tables, untaken, pairDag, merging, todo, CommittedTxs, componentsQueue, done>>
  <2>1. dags \in [GraphWorkers -> G!Dags \cup {G!NoDag}]
    BY <1>1 DEF GraphState
  <2>2. <<m, n>>[1] = m /\ <<m, n>>[2] = n
    OBVIOUS
  <2> QED
    BY <2>1, <2>2 DEF G!JoinEnds
<1>3. merging # "none" /\ Merging(d, pairDag, {}, links)
  BY <1>1, <1>2 DEF GraphState
<1>4. Merging(u, pairDag, {}, links \ {<<m, n>>}) /\ u.addrs = d.addrs
  <2> HIDE DEF d
  <2> QED
    BY <1>1, <1>2, <1>3, JoinKeeps
<1> HIDE DEF u
<1> QED
  BY <1>2, <1>3, <1>4, GraphMergeStep

LEMMA EndKeeps ==
    ASSUME GraphIInv, G!EndMerge
    PROVE  GraphIInv'
<1> DEFINE d == dags[merging]
           u == [d EXCEPT !.addrs = @ \cup pairDag.addrs]
<1>1. tables \in GraphWorkloads /\ GraphState(dags, pairDag, merging, todo, links, untaken)
  BY DEF GraphIInv
<1>2. dags \in [GraphWorkers -> G!Dags \cup {G!NoDag}]
  BY <1>1 DEF GraphState
<1>3. /\ merging # "none" /\ todo = {} /\ links = {} /\ dags' = [dags EXCEPT ![merging] = u]
      /\ pairDag' = G!NoDag /\ merging' = "none" /\ todo' = todo /\ links' = links
      /\ untaken' = untaken /\ tables' = tables
      /\ UNCHANGED <<CommittedTxs, componentsQueue, done>>
  BY <1>2 DEF G!EndMerge
<1>4. merging \in GraphWorkers /\ Merging(d, pairDag, {}, {}) /\ untaken = {}
  BY <1>1, <1>3 DEF GraphState
<1>5. Good(u) /\ u.addrs = d.addrs \cup pairDag.addrs
  <2> HIDE DEF d
  <2> QED
    BY <1>1, <1>4, EndsMerging
<1>6. u \in G!Dags
  BY <1>5 DEF Good, Complete, Grown
<1> HIDE DEF u
<1>7. PICK ds : ds = dags'
  OBVIOUS
<1>8. /\ untaken \cup pairDag.addrs \cup AddrsIn(dags) = GraphAddrs
      /\ \A k \in GraphWorkers : k # merging /\ dags[k] # G!NoDag => Good(dags[k])
  BY <1>1 DEF GraphState, AddrsIn
<1>9. /\ ds \in [GraphWorkers -> G!Dags \cup {G!NoDag}]
      /\ \A k \in GraphWorkers : ds[k] = IF k = merging THEN u ELSE dags[k]
  BY <1>2, <1>3, <1>4, <1>6, <1>7
<1>10. AddrsIn(ds) = AddrsIn(dags) \cup pairDag.addrs
  <2>1. ds[merging].addrs = dags[merging].addrs \cup pairDag.addrs
    BY <1>4, <1>5, <1>9
  <2> QED
    BY <1>4, <1>9, <2>1 DEF AddrsIn
<1>11. untaken \cup G!NoDag.addrs \cup AddrsIn(ds) = GraphAddrs
  BY <1>8, <1>10 DEF G!NoDag
<1>12. GraphState(ds, G!NoDag, "none", todo, links, untaken)
  BY <1>3, <1>4, <1>5, <1>8, <1>9, <1>11 DEF GraphState, AddrsIn
<1> QED
  BY <1>3, <1>7, <1>12, GraphKept

LEMMA GraphNext ==
    ASSUME GraphIInv, G!Next
    PROVE  GraphIInv'
<1>1. ASSUME NEW w \in GraphWorkers, NEW a \in GraphAddrs, G!ConstructDAGForAddress(w, a)
      PROVE  GraphIInv'
  BY <1>1, ConstructKeeps
<1>2. ASSUME NEW w \in GraphWorkers, NEW v \in GraphWorkers, G!StartMerge(w, v)
      PROVE  GraphIInv'
  BY <1>2, StartKeeps
<1>3. ASSUME NEW n \in GraphTxs, G!MergeNode(n)
      PROVE  GraphIInv'
  BY <1>3, MergeNodeKeeps
<1>4. ASSUME NEW m \in GraphTxs, NEW n \in GraphTxs, G!JoinEnds(<<m, n>>)
      PROVE  GraphIInv'
  BY <1>4, JoinEndsKeeps
<1>5. CASE G!EndMerge
  BY <1>5, EndKeeps
<1>6. CASE G!PublishComponents
  <2>1. /\ UNCHANGED <<tables, untaken, dags, pairDag, merging, todo, links>> /\ done' = TRUE
    BY <1>6 DEF G!PublishComponents
  <2>2. \A d : Good(d)' <=> Good(d)
    BY <2>1 DEF Good, Exact, G!NodesOf, G!Conflict
  <2>3. \A d, p, rest, open : Merging(d, p, rest, open)' <=> Merging(d, p, rest, open)
    BY <2>1, <2>2 DEF Merging, G!NodesOf, G!Conflict
  <2>4. GraphState(dags, pairDag, merging, todo, links, untaken)'
    BY <2>1, <2>2, <2>3 DEF GraphIInv, GraphState
  <2>5. G!ExactComponents'
    BY <1>6, PublishKeeps
  <2> QED
    BY <2>1, <2>4, <2>5 DEF GraphIInv
<1>7. CASE UNCHANGED G!vars
  <2>1. /\ tables' = tables /\ UNCHANGED <<CommittedTxs, componentsQueue, done>>
        /\ GraphState(dags', pairDag', merging', todo', links', untaken')
    BY <1>7 DEF GraphIInv, G!vars
  <2> QED
    BY <2>1, GraphKept
<1> QED
  BY <1>1, <1>2, <1>3, <1>4, <1>5, <1>6, <1>7 DEF G!Next, G!Terminated

LEMMA GraphStutter ==
    ASSUME GraphIInv, UNCHANGED G!vars
    PROVE  GraphIInv'
<1>1. /\ tables' = tables /\ UNCHANGED <<CommittedTxs, componentsQueue, done>>
      /\ GraphState(dags', pairDag', merging', todo', links', untaken')
  BY DEF GraphIInv, G!vars
<1> QED
  BY <1>1, GraphKept

LEMMA GraphInit ==
    ASSUME G!Init
    PROVE  GraphIInv
<1>1. /\ tables \in GraphWorkloads /\ untaken = GraphAddrs
      /\ dags = [w \in GraphWorkers |-> G!NoDag]
      /\ pairDag = G!NoDag /\ merging = "none" /\ todo = {} /\ links = {} /\ done = FALSE
  BY DEF G!Init
<1>2. G!NoDag.addrs = {}
  BY DEF G!NoDag
<1>3. \A w \in GraphWorkers : dags[w] = G!NoDag /\ dags[w].addrs = {}
  BY <1>1, <1>2
<1>4. untaken \cup pairDag.addrs \cup UNION {dags[w].addrs : w \in GraphWorkers} = GraphAddrs
  BY <1>1, <1>2, <1>3
<1>5. dags \in [GraphWorkers -> G!Dags \cup {G!NoDag}]
  BY <1>1
<1>6. GraphState(dags, pairDag, merging, todo, links, untaken)
  BY <1>1, <1>3, <1>4, <1>5 DEF GraphState
<1>7. G!ExactComponents
  BY <1>1 DEF G!ExactComponents
<1> QED
  BY <1>1, <1>6, <1>7 DEF GraphIInv

\* The inductive invariant of the conflict graphs, where they are looked at.
GraphInv == stage = "graph" => GraphIInv

\* For any batch, addresses and workers, in any order of building and merging: every
\* graph that no merge works on is complete and exact for the addresses it was built
\* from, its forest is one and its trees are the connected parts, the graph in a
\* merge lacks only what is still to be visited and joined, and no address is lost.
THEOREM GraphInvariance == Spec => []GraphInv
<1>1. Init => GraphInv
  BY GraphInit DEF Init, GraphInv
<1>2. ASSUME GraphInv, [Next]_vars
      PROVE  GraphInv'
  <2>1. CASE UNCHANGED vars
    <3>1. stage' = stage /\ UNCHANGED G!vars
      BY <2>1 DEF vars, graphVars, G!vars
    <3> QED
      BY <1>2, <3>1, GraphStutter DEF GraphInv
  <2>2. CASE Next
    <3>1. stage' = stage /\ (stage = "graph" => G!Next)
      BY <2>2 DEF Next
    <3> QED
      BY <1>2, <3>1, GraphNext DEF GraphInv
  <2> QED
    BY <1>2, <2>1, <2>2
<1> QED
  BY <1>1, <1>2, PTL DEF Spec

\* For any batch, addresses and workers: graphs have the conflicts of their addresses
\* and no others, the published components are the connected components of all
\* conflicts, and ranks grow towards the roots, so Find ends.
THEOREM GraphExactCorrect == Spec => []GraphExact
<1>1. GraphInv => GraphExact
  <2> SUFFICES ASSUME GraphIInv
               PROVE  G!ExactGraph /\ G!ExactComponents /\ G!RanksGrow
    BY DEF GraphInv, GraphExact
  <2>1. \A dag \in G!AtRest : Good(dag)
    BY DEF G!AtRest, GraphIInv, GraphState
  <2>2. G!ExactGraph
    BY <2>1 DEF G!ExactGraph, Good, Exact
  <2>3. G!RanksGrow
    BY <2>1 DEF G!RanksGrow, Good, Complete, Grown, Forest
  <2> QED
    BY <2>2, <2>3 DEF GraphIInv
<1> QED
  BY <1>1, GraphInvariance, PTL

-----------------------------------------------------------------------------
(* The stage that builds and merges the state tables                       *)

\* Operations come in the order of their keys: by transaction, reads first.
Key(op) == 2 * op.TxID + op.Type

LEMMA OperationKeys ==
    /\ \A o \in T!Operation : /\ o = [TxID |-> o.TxID, Type |-> o.Type] /\ o.TxID \in TableTxs
                              /\ o.TxID \in Nat /\ o.Type \in {0, 1} /\ Key(o) \in Nat
    /\ \A o, p \in T!Operation :
        /\ Key(o) = Key(p) => o = p
        /\ T!CompareOperations(o, p) <= 0 <=> Key(o) <= Key(p)
        /\ Key(o) < Key(p) => \/ o.TxID < p.TxID
                              \/ o.TxID = p.TxID /\ o.Type < p.Type
<1>1. \A o \in T!Operation : /\ o = [TxID |-> o.TxID, Type |-> o.Type] /\ o.TxID \in TableTxs
                             /\ o.TxID \in Nat /\ o.Type \in {0, 1}
  <2>1. TableTxs \in SUBSET Nat
    BY Assumptions DEF T!TxsAssumption
  <2> SUFFICES ASSUME NEW o \in T!Operation
               PROVE  /\ o = [TxID |-> o.TxID, Type |-> o.Type] /\ o.TxID \in TableTxs
                      /\ o.TxID \in Nat /\ o.Type \in {0, 1}
    OBVIOUS
  <2>2. o \in [TxID : TableTxs, Type : {0, 1}]
    BY DEF T!Operation
  <2>3. o = [TxID |-> o.TxID, Type |-> o.Type] /\ o.TxID \in TableTxs /\ o.Type \in {0, 1}
    BY <2>2
  <2> QED
    BY <2>1, <2>3
<1>2. ASSUME NEW o \in T!Operation
      PROVE  Key(o) \in Nat
  <2>1. PICK m \in Nat, x \in Nat : m = o.TxID /\ x = o.Type
    BY <1>1
  <2> QED
    BY <2>1 DEF Key
<1>3. ASSUME NEW o \in T!Operation, NEW p \in T!Operation
      PROVE  /\ Key(o) = Key(p) => o = p
             /\ T!CompareOperations(o, p) <= 0 <=> Key(o) <= Key(p)
             /\ Key(o) < Key(p) => \/ o.TxID < p.TxID
                                   \/ o.TxID = p.TxID /\ o.Type < p.Type
  <2>1. PICK m \in Nat, x \in {0, 1} : m = o.TxID /\ x = o.Type /\ o = [TxID |-> m, Type |-> x]
    BY <1>1
  <2>2. PICK n \in Nat, y \in {0, 1} : n = p.TxID /\ y = p.Type /\ p = [TxID |-> n, Type |-> y]
    BY <1>1
  <2>3. Key(o) = 2 * m + x /\ Key(p) = 2 * n + y
    BY <2>1, <2>2 DEF Key
  <2>4. /\ 2 * m + x = 2 * n + y => m = n /\ x = y
        /\ 2 * m + x < 2 * n + y => m < n \/ (m = n /\ x < y)
        /\ (IF m # n THEN m - n ELSE x - y) <= 0 <=> 2 * m + x <= 2 * n + y
    OBVIOUS
  <2>5. T!CompareOperations(o, p) = IF m # n THEN m - n ELSE x - y
    BY <2>1, <2>2 DEF T!CompareOperations
  <2> QED
    BY <2>1, <2>2, <2>3, <2>4, <2>5
<1> QED
  BY <1>1, <1>2, <1>3

\* The list s has the operations ops, each once and in order.
SortedList(s, ops) ==
    /\ s \in Seq(T!Operation)
    /\ Elements(s) = ops
    /\ \A i, j \in 1 .. Len(s) : i < j => Key(s[i]) < Key(s[j])

LEMMA SortedSorts ==
    ASSUME NEW ops \in SUBSET T!Operation, IsFiniteSet(ops)
    PROVE  SortedList(T!Sorted(ops), ops) /\ (ops # {} => T!Sorted(ops) # <<>>)
<1> DEFINE key == [o \in ops |-> Key(o)]
           n == Cardinality(ops)
           r == T!Sorted(ops)
<1>0. \A y : T!Cardinality(y) = Cardinality(y)
  BY DEF T!Cardinality, Cardinality
<1>1. /\ key \in [ops -> Nat] /\ \A o \in ops : key[o] = Key(o)
      /\ \A o, p \in ops : key[o] = key[p] => o = p
  BY OperationKeys
<1>2. Keyed(key, ops)
  BY <1>1 DEF Keyed
<1>3. \A o \in ops : Rank(key, ops, o) = T!Cardinality({q \in ops : T!CompareOperations(q, o) <= 0})
  <2> SUFFICES ASSUME NEW o \in ops
               PROVE  {q \in ops : key[q] <= key[o]} = {q \in ops : T!CompareOperations(q, o) <= 0}
    BY <1>0 DEF Rank
  <2>1. \A q \in ops : key[q] <= key[o] <=> T!CompareOperations(q, o) <= 0
    BY <1>1, OperationKeys
  <2> HIDE DEF key
  <2> QED
    BY <2>1
<1>4. /\ DOMAIN r = 1 .. n
      /\ r = [i \in DOMAIN r |-> r[i]]
      /\ \A i \in 1 .. n :
            r[i] = CHOOSE o \in ops : T!Cardinality({q \in ops : T!CompareOperations(q, o) <= 0}) = i
  <2>1. T!Cardinality(ops) = n
    BY <1>0
  <2> DEFINE f(i) == CHOOSE o \in ops : T!Cardinality({q \in ops : T!CompareOperations(q, o) <= 0}) = i
  <2>2. r = [i \in 1 .. T!Cardinality(ops) |-> f(i)]
    BY Zenon DEF T!Sorted
  <2> HIDE DEF n, r
  <2>3. r = [i \in 1 .. n |-> f(i)]
    BY <2>1, <2>2
  <2> HIDE DEF f
  <2>4. DOMAIN r = 1 .. n /\ r = [i \in DOMAIN r |-> r[i]] /\ \A i \in 1 .. n : r[i] = f(i)
    BY <2>3
  <2> QED
    BY <2>4 DEF f
<1> HIDE DEF key, r
<1>5. /\ n \in Nat
      /\ \A o \in ops : Rank(key, ops, o) \in 1 .. n
      /\ \A o, p \in ops : key[o] < key[p] => Rank(key, ops, o) < Rank(key, ops, p)
      /\ \A o, p \in ops : Rank(key, ops, o) = Rank(key, ops, p) => o = p
      /\ \A i \in 1 .. n : \E o \in ops : Rank(key, ops, o) = i
  BY <1>2, Ranked
<1> HIDE DEF n
<1>6. ASSUME NEW i \in 1 .. n
      PROVE  r[i] \in ops /\ Rank(key, ops, r[i]) = i
  <2>1. \E o \in ops : T!Cardinality({q \in ops : T!CompareOperations(q, o) <= 0}) = i
    BY <1>3, <1>5
  <2>2. r[i] = CHOOSE o \in ops : T!Cardinality({q \in ops : T!CompareOperations(q, o) <= 0}) = i
    BY <1>4
  <2>3. r[i] \in ops /\ T!Cardinality({q \in ops : T!CompareOperations(q, r[i]) <= 0}) = i
    BY <2>1, <2>2
  <2> QED
    BY <1>3, <2>3
<1>7. r \in [1 .. n -> ops]
  <2>1. r = [i \in 1 .. n |-> r[i]]
    BY <1>4
  <2> QED
    BY <1>6, <2>1
<1>8. r \in Seq(ops) /\ Len(r) = n /\ r \in Seq(T!Operation)
  BY <1>5, <1>7
<1>9. \A o \in ops : r[Rank(key, ops, o)] = o
  BY <1>5, <1>6
<1>10. Elements(r) = ops
  BY <1>5, <1>6, <1>7, <1>9 DEF Elements
<1>11. ASSUME NEW i \in 1 .. n, NEW j \in 1 .. n, i < j
       PROVE  Key(r[i]) < Key(r[j])
  <2>1. PICK o \in ops, p \in ops : o = r[i] /\ p = r[j] /\ Rank(key, ops, o) = i /\ Rank(key, ops, p) = j
    BY <1>6
  <2>2. PICK x \in Nat, y \in Nat : x = key[o] /\ y = key[p]
    BY <1>1
  <2>3. ~(y < x)
    BY <1>5, <1>11, <2>1, <2>2
  <2>4. x # y
    BY <1>1, <1>11, <2>1, <2>2
  <2>5. x < y
    BY <2>3, <2>4
  <2> QED
    BY <1>1, <2>1, <2>2, <2>5
<1>12. ops # {} => r # <<>>
  BY <1>10 DEF Elements
<1> QED
  BY <1>8, <1>10, <1>11, <1>12 DEF SortedList, r

\* What is left of s from i on.
From(s, i) == {s[k] : k \in i .. Len(s)}

LEMMA FromNext ==
    ASSUME NEW s, NEW ops, SortedList(s, ops)
    PROVE  /\ s \in Seq(T!Operation) /\ Len(s) \in Nat
           /\ \A i \in 1 .. Len(s) : s[i] \in T!Operation
           /\ From(s, 1) = ops /\ From(s, Len(s) + 1) = {}
           /\ \A i \in 1 .. Len(s) : From(s, i) = From(s, i + 1) \cup {s[i]}
           /\ \A i \in 1 .. Len(s) + 1 : From(s, i) \in SUBSET ops
           /\ \A i \in 1 .. Len(s) : \A x \in From(s, i + 1) : Key(s[i]) < Key(x)
<1>1. s \in Seq(T!Operation) /\ Len(s) \in Nat /\ \A i \in 1 .. Len(s) : s[i] \in T!Operation
  BY DEF SortedList
<1>2. From(s, 1) = ops /\ From(s, Len(s) + 1) = {}
  BY <1>1 DEF SortedList, Elements, From
<1>3. \A i \in 1 .. Len(s) : From(s, i) = From(s, i + 1) \cup {s[i]}
  BY <1>1 DEF From
<1>4. \A i \in 1 .. Len(s) + 1 : From(s, i) \in SUBSET ops
  BY <1>1, <1>2 DEF From
<1>5. \A i \in 1 .. Len(s) : \A x \in From(s, i + 1) : Key(s[i]) < Key(x)
  <2> SUFFICES ASSUME NEW i \in 1 .. Len(s), NEW k \in i + 1 .. Len(s)
               PROVE  Key(s[i]) < Key(s[k])
    BY DEF From
  <2> QED
    BY <1>1 DEF SortedList
<1> QED
  BY <1>1, <1>2, <1>3, <1>4, <1>5

LEMMA RestSorted ==
    ASSUME NEW s, NEW ops, SortedList(s, ops), NEW i \in 1 .. Len(s) + 1
    PROVE  SortedList(SubSeq(s, i, Len(s)), From(s, i))
<1> DEFINE r == SubSeq(s, i, Len(s))
<1>1. s \in Seq(T!Operation) /\ Len(s) \in Nat /\ \A k \in 1 .. Len(s) : s[k] \in T!Operation
  BY FromNext
<1>2. PICK n \in Nat : n = Len(s)
  BY <1>1
<1>3. Len(r) = n - i + 1 /\ n - i + 1 \in Nat /\ \A k \in 1 .. n - i + 1 : r[k] = s[i + k - 1]
  BY <1>1, <1>2
<1>4. r \in Seq(T!Operation)
  BY <1>1, <1>2
<1> HIDE DEF r
<1>5. Elements(r) = From(s, i)
  <2>1. DOMAIN r = 1 .. n - i + 1
    BY <1>3, <1>4
  <2>2. \A k \in 1 .. n - i + 1 : r[k] \in From(s, i)
    <3> SUFFICES ASSUME NEW k \in 1 .. n - i + 1
                 PROVE  s[i + k - 1] \in From(s, i)
      BY <1>3
    <3>1. i + k - 1 \in i .. Len(s)
      BY <1>2
    <3> QED
      BY <3>1 DEF From
  <2>3. \A k \in i .. n : s[k] \in Elements(r)
    <3> SUFFICES ASSUME NEW k \in i .. n
                 PROVE  s[k] \in Elements(r)
      OBVIOUS
    <3>1. PICK j \in 1 .. n - i + 1 : j = k - i + 1 /\ i + j - 1 = k
      OBVIOUS
    <3>2. r[j] = s[k]
      BY <1>3, <3>1
    <3> QED
      BY <2>1, <3>1, <3>2 DEF Elements
  <2> QED
    BY <1>2, <2>1, <2>2, <2>3 DEF Elements, From
<1>6. ASSUME NEW j \in 1 .. Len(r), NEW k \in 1 .. Len(r), j < k
      PROVE  Key(r[j]) < Key(r[k])
  <2>0. j \in 1 .. n - i + 1 /\ k \in 1 .. n - i + 1 /\ i \in 1 .. n + 1
    BY <1>2, <1>3
  <2>1. PICK x \in 1 .. n, y \in 1 .. n : x = i + j - 1 /\ y = i + k - 1 /\ x < y
    <3>1. i + j - 1 \in 1 .. n /\ i + k - 1 \in 1 .. n /\ i + j - 1 < i + k - 1
      BY <1>6, <2>0
    <3> QED
      BY <3>1
  <2>2. r[j] = s[x] /\ r[k] = s[y]
    BY <1>3, <2>0, <2>1
  <2> QED
    BY <1>2, <2>1, <2>2 DEF SortedList
<1> QED
  BY <1>4, <1>5, <1>6 DEF SortedList, r

LEMMA ConsSorted ==
    ASSUME NEW s, NEW ops, SortedList(s, ops), NEW o \in T!Operation,
           \A x \in ops : Key(o) < Key(x)
    PROVE  SortedList(<<o>> \o s, ops \cup {o})
<1> DEFINE r == <<o>> \o s
<1>1. s \in Seq(T!Operation) /\ Len(s) \in Nat /\ \A k \in 1 .. Len(s) : s[k] \in T!Operation
  BY FromNext
<1>2. PICK n \in Nat : n = Len(s)
  BY <1>1
<1>3. /\ r \in Seq(T!Operation) /\ Len(r) = n + 1 /\ r[1] = o
      /\ \A k \in 2 .. n + 1 : r[k] = s[k - 1]
  BY <1>1, <1>2
<1> HIDE DEF r
<1>4. DOMAIN r = 1 .. n + 1 /\ DOMAIN s = 1 .. n
  BY <1>1, <1>2, <1>3
<1>5. Elements(s) = ops
  BY DEF SortedList
<1>6. Elements(r) = ops \cup {o}
  <2>1. \A k \in 1 .. n + 1 : r[k] \in ops \cup {o}
    <3> SUFFICES ASSUME NEW k \in 1 .. n + 1, k # 1
                 PROVE  r[k] \in ops
      BY <1>3
    <3>1. PICK j \in 1 .. n : j = k - 1
      OBVIOUS
    <3>2. r[k] = s[j]
      BY <1>3, <3>1
    <3> QED
      BY <1>4, <1>5, <3>2 DEF Elements
  <2>2. \A j \in 1 .. n : s[j] \in Elements(r)
    <3> SUFFICES ASSUME NEW j \in 1 .. n
                 PROVE  s[j] \in Elements(r)
      OBVIOUS
    <3>1. PICK k \in 2 .. n + 1 : k = j + 1 /\ k - 1 = j
      OBVIOUS
    <3>2. r[k] = s[j] /\ k \in 1 .. n + 1
      BY <1>3, <3>1
    <3> QED
      BY <1>4, <3>2 DEF Elements
  <2>3. o \in Elements(r)
    BY <1>3, <1>4 DEF Elements
  <2> QED
    BY <1>4, <1>5, <2>1, <2>2, <2>3 DEF Elements
<1>7. ASSUME NEW j \in 1 .. Len(r), NEW k \in 1 .. Len(r), j < k
      PROVE  Key(r[j]) < Key(r[k])
  <2>1. PICK y \in 1 .. n : y = k - 1
    BY <1>3, <1>7
  <2>2. r[k] = s[y]
    BY <1>3, <1>7, <2>1
  <2>3. CASE j = 1
    <3>1. s[y] \in ops
      BY <1>4, <1>5 DEF Elements
    <3> QED
      BY <1>3, <2>2, <2>3, <3>1
  <2>4. CASE j # 1
    <3>1. PICK x \in 1 .. n : x = j - 1 /\ x < y
      BY <1>3, <1>7, <2>1, <2>4
    <3>2. r[j] = s[x]
      BY <1>3, <2>4, <3>1
    <3> QED
      BY <1>2, <2>2, <3>1, <3>2 DEF SortedList
  <2> QED
    BY <2>3, <2>4
<1> QED
  BY <1>3, <1>6, <1>7 DEF SortedList, r

\* The recursion of MergeTwoLists: the lists from two positions on.
Ends(p, q) == (1 .. Len(p) + 1) \X (1 .. Len(q) + 1)

ListStep(g, p, q, c) ==
    CASE c[1] > Len(p) -> SubSeq(q, c[2], Len(q))
      [] c[1] <= Len(p) /\ c[2] > Len(q) -> SubSeq(p, c[1], Len(p))
      [] OTHER -> IF T!CompareOperations(p[c[1]], q[c[2]]) <= 0
                  THEN <<p[c[1]]>> \o g[<<c[1] + 1, c[2]>>]
                  ELSE <<q[c[2]]>> \o g[<<c[1], c[2] + 1>>]

FixedMerge(g, p, q) == g = [c \in Ends(p, q) |-> ListStep(g, p, q, c)]

\* v is what MergeTwoLists makes of p from i and q from j on.
MergesTo(v, g, p, q, i, j) ==
    /\ i > Len(p) => v = SubSeq(q, j, Len(q))
    /\ i <= Len(p) /\ j > Len(q) => v = SubSeq(p, i, Len(p))
    /\ i <= Len(p) /\ j <= Len(q) =>
        v = IF T!CompareOperations(p[i], q[j]) <= 0
            THEN <<p[i]>> \o g[<<i + 1, j>>] ELSE <<q[j]>> \o g[<<i, j + 1>>]

LEMMA MergeCases ==
    ASSUME NEW p, Len(p) \in Nat, NEW q, Len(q) \in Nat, NEW c \in Ends(p, q)
    PROVE  \E i \in 1 .. Len(p) + 1, j \in 1 .. Len(q) + 1 :
               /\ i = c[1] /\ j = c[2] /\ c = <<i, j>>
               /\ \A g : MergesTo(ListStep(g, p, q, c), g, p, q, i, j)
               /\ i <= Len(p) => <<i + 1, j>> \in Ends(p, q)
               /\ j <= Len(q) => <<i, j + 1>> \in Ends(p, q)
<1>1. PICK i \in 1 .. Len(p) + 1, j \in 1 .. Len(q) + 1 : i = c[1] /\ j = c[2] /\ c = <<i, j>>
  BY DEF Ends
<1>2. (i > Len(p) <=> ~(i <= Len(p))) /\ (j > Len(q) <=> ~(j <= Len(q)))
  OBVIOUS
<1>3. ASSUME NEW g
      PROVE  MergesTo(ListStep(g, p, q, c), g, p, q, i, j)
  <2>1. i > Len(p) => ListStep(g, p, q, c) = SubSeq(q, j, Len(q))
    BY <1>1, <1>2, Zenon DEF ListStep
  <2>2. i <= Len(p) /\ j > Len(q) => ListStep(g, p, q, c) = SubSeq(p, i, Len(p))
    BY <1>1, <1>2, Zenon DEF ListStep
  <2>3. i <= Len(p) /\ j <= Len(q) =>
          ListStep(g, p, q, c) = IF T!CompareOperations(p[i], q[j]) <= 0
                                  THEN <<p[i]>> \o g[<<i + 1, j>>]
                                  ELSE <<q[j]>> \o g[<<i, j + 1>>]
    BY <1>1, <1>2, Zenon DEF ListStep
  <2> QED
    BY <2>1, <2>2, <2>3, Zenon DEF MergesTo
<1>4. i <= Len(p) => <<i + 1, j>> \in Ends(p, q)
  <2>1. i <= Len(p) => i + 1 \in 1 .. Len(p) + 1
    OBVIOUS
  <2> QED
    BY <2>1 DEF Ends
<1>5. j <= Len(q) => <<i, j + 1>> \in Ends(p, q)
  <2>1. j <= Len(q) => j + 1 \in 1 .. Len(q) + 1
    OBVIOUS
  <2> QED
    BY <2>1 DEF Ends
<1> QED
  BY <1>1, <1>3, <1>4, <1>5

\* How much is left of both lists.
Left(p, q) == [c \in Ends(p, q) |-> (Len(p) + 1 - c[1]) + (Len(q) + 1 - c[2])]

LEMMA LeftFalls ==
    ASSUME NEW p, Len(p) \in Nat, NEW q, Len(q) \in Nat
    PROVE  /\ Left(p, q) \in [Ends(p, q) -> 0 .. Len(p) + Len(q)]
           /\ \A c \in Ends(p, q) :
                /\ c[1] <= Len(p) => Left(p, q)[<<c[1] + 1, c[2]>>] < Left(p, q)[c]
                /\ c[2] <= Len(q) => Left(p, q)[<<c[1], c[2] + 1>>] < Left(p, q)[c]
<1>1. \A i \in 1 .. Len(p) + 1, j \in 1 .. Len(q) + 1 :
          /\ <<i, j>> \in Ends(p, q)
          /\ Left(p, q)[<<i, j>>] = (Len(p) + 1 - i) + (Len(q) + 1 - j)
  BY DEF Left, Ends
<1>2. ASSUME NEW c \in Ends(p, q)
      PROVE  /\ Left(p, q)[c] \in 0 .. Len(p) + Len(q)
             /\ c[1] <= Len(p) => Left(p, q)[<<c[1] + 1, c[2]>>] < Left(p, q)[c]
             /\ c[2] <= Len(q) => Left(p, q)[<<c[1], c[2] + 1>>] < Left(p, q)[c]
  <2>1. PICK i \in 1 .. Len(p) + 1, j \in 1 .. Len(q) + 1 : c = <<i, j>>
    BY DEF Ends
  <2>2. PICK m \in Nat, n \in Nat : m = Len(p) /\ n = Len(q)
    OBVIOUS
  <2>3. Left(p, q)[c] = (m + 1 - i) + (n + 1 - j) /\ c[1] = i /\ c[2] = j
    BY <1>1, <2>1, <2>2
  <2>4. (m + 1 - i) + (n + 1 - j) \in 0 .. m + n
    BY <2>2
  <2>5. i <= m => Left(p, q)[<<i + 1, j>>] = (m + 1 - (i + 1)) + (n + 1 - j)
    BY <1>1, <2>2
  <2>6. j <= n => Left(p, q)[<<i, j + 1>>] = (m + 1 - i) + (n + 1 - (j + 1))
    BY <1>1, <2>2
  <2>7. /\ (m + 1 - (i + 1)) + (n + 1 - j) < (m + 1 - i) + (n + 1 - j)
        /\ (m + 1 - i) + (n + 1 - (j + 1)) < (m + 1 - i) + (n + 1 - j)
    BY <2>2
  <2> QED
    BY <2>2, <2>3, <2>4, <2>5, <2>6, <2>7
<1>3. Left(p, q) = [c \in Ends(p, q) |-> Left(p, q)[c]]
  BY DEF Left
<1> QED
  BY <1>2, <1>3

LEMMA MergeExists ==
    ASSUME NEW p, NEW X, SortedList(p, X), NEW q, NEW Y, SortedList(q, Y)
    PROVE  \E g : FixedMerge(g, p, q)
<1> DEFINE D == Ends(p, q)
           V == Seq(T!Operation)
           F == [D -> V]
           step == [x \in D \X F |-> ListStep(x[2], p, q, x[1])]
<1>1. /\ p \in V /\ q \in V /\ Len(p) \in Nat /\ Len(q) \in Nat
      /\ (\A i \in 1 .. Len(p) : p[i] \in T!Operation) /\ (\A j \in 1 .. Len(q) : q[j] \in T!Operation)
  BY FromNext
<1>2. \A c \in D : \A f \in F : step[<<c, f>>] = ListStep(f, p, q, c)
  OBVIOUS
<1>3. ASSUME NEW c \in D, NEW f \in F
      PROVE  ListStep(f, p, q, c) \in V
  <2>0. PICK i \in 1 .. Len(p) + 1, j \in 1 .. Len(q) + 1 :
            /\ \A g : MergesTo(ListStep(g, p, q, c), g, p, q, i, j)
            /\ i <= Len(p) => <<i + 1, j>> \in Ends(p, q)
            /\ j <= Len(q) => <<i, j + 1>> \in Ends(p, q)
    BY <1>1, MergeCases
  <2>1. MergesTo(ListStep(f, p, q, c), f, p, q, i, j)
    BY <2>0
  <2>2. CASE i > Len(p)
    <3>1. SubSeq(q, j, Len(q)) \in V
      BY <1>1
    <3> QED
      BY <2>1, <2>2, <3>1 DEF MergesTo
  <2>3. CASE i <= Len(p) /\ j > Len(q)
    <3>1. SubSeq(p, i, Len(p)) \in V
      BY <1>1
    <3> QED
      BY <2>1, <2>3, <3>1 DEF MergesTo
  <2>4. CASE i <= Len(p) /\ j <= Len(q)
    <3>1. f[<<i + 1, j>>] \in V /\ f[<<i, j + 1>>] \in V
      BY <2>0, <2>4
    <3>2. PICK s \in V, t \in V : s = f[<<i + 1, j>>] /\ t = f[<<i, j + 1>>]
      BY <3>1
    <3>3. p[i] \in T!Operation /\ q[j] \in T!Operation
      BY <1>1, <2>4
    <3>4. <<p[i]>> \o s \in V /\ <<q[j]>> \o t \in V
      BY <3>3
    <3> QED
      BY <2>1, <2>4, <3>2, <3>4 DEF MergesTo
  <2> QED
    BY <1>1, <2>2, <2>3, <2>4
<1>4. step \in [D \X F -> V]
  <2>1. \A x \in D \X F : ListStep(x[2], p, q, x[1]) \in V
    <3> SUFFICES ASSUME NEW x \in D \X F PROVE ListStep(x[2], p, q, x[1]) \in V
      OBVIOUS
    <3>1. x[1] \in D /\ x[2] \in F
      OBVIOUS
    <3> QED
      BY <1>3, <3>1
  <2> HIDE DEF D, F, V
  <2> QED
    BY <2>1
<1> HIDE DEF step, D, V
<1>5. AsksBelow(D, Left(p, q), F, step)
  <2> SUFFICES ASSUME NEW c \in D, NEW f \in F, NEW g \in F,
                      \A e \in D : Left(p, q)[e] < Left(p, q)[c] => f[e] = g[e]
               PROVE  step[<<c, f>>] = step[<<c, g>>]
    BY DEF AsksBelow
  <2>1. step[<<c, f>>] = ListStep(f, p, q, c) /\ step[<<c, g>>] = ListStep(g, p, q, c)
    BY <1>2
  <2>2. c \in Ends(p, q)
    BY DEF D
  <2>3. PICK i \in 1 .. Len(p) + 1, j \in 1 .. Len(q) + 1 :
            /\ i = c[1] /\ j = c[2] /\ c = <<i, j>>
            /\ \A e : MergesTo(ListStep(e, p, q, c), e, p, q, i, j)
            /\ i <= Len(p) => <<i + 1, j>> \in Ends(p, q)
            /\ j <= Len(q) => <<i, j + 1>> \in Ends(p, q)
    BY <1>1, <2>2, MergeCases
  <2>4. /\ i <= Len(p) => Left(p, q)[<<i + 1, j>>] < Left(p, q)[c]
        /\ j <= Len(q) => Left(p, q)[<<i, j + 1>>] < Left(p, q)[c]
    BY <1>1, <2>2, <2>3, LeftFalls
  <2>5. /\ i <= Len(p) => f[<<i + 1, j>>] = g[<<i + 1, j>>]
        /\ j <= Len(q) => f[<<i, j + 1>>] = g[<<i, j + 1>>]
    BY <2>3, <2>4 DEF D
  <2>6. /\ MergesTo(ListStep(f, p, q, c), f, p, q, i, j)
        /\ MergesTo(ListStep(g, p, q, c), g, p, q, i, j)
    BY <2>3
  <2>7. (i > Len(p)) \/ (i <= Len(p) /\ j > Len(q)) \/ (i <= Len(p) /\ j <= Len(q))
    BY <1>1
  <2> QED
    BY <2>1, <2>5, <2>6, <2>7 DEF MergesTo
<1>6. Recursion(D, V, Len(p) + Len(q), Left(p, q), step)
  <2>1. V # {} /\ Len(p) + Len(q) \in Nat
    BY <1>1
  <2>2. Left(p, q) \in [D -> 0 .. Len(p) + Len(q)]
    BY <1>1, LeftFalls DEF D
  <2> QED
    BY <1>4, <1>5, <2>1, <2>2 DEF Recursion
<1>7. PICK h \in F : \A c \in D : h[c] = step[<<c, h>>]
  BY <1>6, RecursionByDepth DEF Solvable
<1>8. h = [c \in D |-> h[c]]
  OBVIOUS
<1>9. \A c \in D : h[c] = ListStep(h, p, q, c)
  BY <1>2, <1>7
<1> HIDE DEF F
<1>10. h = [c \in D |-> ListStep(h, p, q, c)]
  BY <1>8, <1>9
<1> QED
  BY <1>10 DEF FixedMerge, D

\* Merging two sorted lists without a common operation makes a sorted list of both.
LEMMA MergeSorts ==
    ASSUME NEW p, NEW X, SortedList(p, X), NEW q, NEW Y, SortedList(q, Y), X \cap Y = {}
    PROVE  SortedList(T!MergeTwoLists(p, q), X \cup Y)
<1> DEFINE D == Ends(p, q)
           g == CHOOSE f : FixedMerge(f, p, q)
           U == {c \in D : SortedList(g[c], From(p, c[1]) \cup From(q, c[2]))}
<1>1. T!MergeTwoLists(p, q) = g[<<1, 1>>]
  BY DEF T!MergeTwoLists, FixedMerge, ListStep, Ends
<1>2. FixedMerge(g, p, q)
  BY MergeExists
<1> HIDE DEF g
<1>3. \A c \in D : g[c] = ListStep(g, p, q, c)
  BY <1>2 DEF FixedMerge
<1>4. /\ Len(p) \in Nat /\ Len(q) \in Nat
      /\ \A i \in 1 .. Len(p) : p[i] \in T!Operation /\ p[i] \in X
      /\ \A j \in 1 .. Len(q) : q[j] \in T!Operation /\ q[j] \in Y
      /\ From(p, 1) = X /\ From(p, Len(p) + 1) = {} /\ From(q, 1) = Y /\ From(q, Len(q) + 1) = {}
      /\ \A i \in 1 .. Len(p) : From(p, i) = From(p, i + 1) \cup {p[i]}
      /\ \A j \in 1 .. Len(q) : From(q, j) = From(q, j + 1) \cup {q[j]}
      /\ \A i \in 1 .. Len(p) : \A x \in From(p, i + 1) : Key(p[i]) < Key(x)
      /\ \A j \in 1 .. Len(q) : \A y \in From(q, j + 1) : Key(q[j]) < Key(y)
  <2>1. /\ Len(p) \in Nat /\ Len(q) \in Nat
        /\ \A i \in 1 .. Len(p) : p[i] \in T!Operation
        /\ \A j \in 1 .. Len(q) : q[j] \in T!Operation
        /\ From(p, 1) = X /\ From(p, Len(p) + 1) = {} /\ From(q, 1) = Y /\ From(q, Len(q) + 1) = {}
        /\ \A i \in 1 .. Len(p) : From(p, i) = From(p, i + 1) \cup {p[i]}
        /\ \A j \in 1 .. Len(q) : From(q, j) = From(q, j + 1) \cup {q[j]}
        /\ \A i \in 1 .. Len(p) + 1 : From(p, i) \in SUBSET X
        /\ \A j \in 1 .. Len(q) + 1 : From(q, j) \in SUBSET Y
        /\ \A i \in 1 .. Len(p) : \A x \in From(p, i + 1) : Key(p[i]) < Key(x)
        /\ \A j \in 1 .. Len(q) : \A y \in From(q, j + 1) : Key(q[j]) < Key(y)
    BY FromNext
  <2>2. \A i \in 1 .. Len(p) : p[i] \in X
    <3> SUFFICES ASSUME NEW i \in 1 .. Len(p) PROVE p[i] \in X
      OBVIOUS
    <3>1. i \in 1 .. Len(p) + 1
      BY <2>1
    <3> QED
      BY <2>1, <3>1
  <2>3. \A j \in 1 .. Len(q) : q[j] \in Y
    <3> SUFFICES ASSUME NEW j \in 1 .. Len(q) PROVE q[j] \in Y
      OBVIOUS
    <3>1. j \in 1 .. Len(q) + 1
      BY <2>1
    <3> QED
      BY <2>1, <3>1
  <2> QED
    BY <2>1, <2>2, <2>3
<1>5. X \in SUBSET T!Operation /\ Y \in SUBSET T!Operation
  BY DEF SortedList, Elements
<1>6. ASSUME NEW c \in D, \A e \in D : Left(p, q)[e] < Left(p, q)[c] => e \in U
      PROVE  SortedList(g[c], From(p, c[1]) \cup From(q, c[2]))
  <2>0. c \in Ends(p, q) /\ g[c] = ListStep(g, p, q, c)
    BY <1>3
  <2>1. PICK i \in 1 .. Len(p) + 1, j \in 1 .. Len(q) + 1 :
            /\ i = c[1] /\ j = c[2] /\ c = <<i, j>>
            /\ \A f : MergesTo(ListStep(f, p, q, c), f, p, q, i, j)
            /\ i <= Len(p) => <<i + 1, j>> \in Ends(p, q)
            /\ j <= Len(q) => <<i, j + 1>> \in Ends(p, q)
    BY <1>4, <2>0, MergeCases
  <2>5. MergesTo(g[c], g, p, q, i, j)
    BY <2>0, <2>1
  <2>2. CASE i > Len(p)
    <3>1. g[c] = SubSeq(q, j, Len(q))
      BY <2>2, <2>5 DEF MergesTo
    <3>2. i = Len(p) + 1
      BY <1>4, <2>2
    <3>3. From(p, i) \cup From(q, j) = From(q, j)
      BY <1>4, <3>2
    <3>4. SortedList(SubSeq(q, j, Len(q)), From(q, j))
      BY RestSorted
    <3> QED
      BY <2>1, <3>1, <3>3, <3>4
  <2>3. CASE i <= Len(p) /\ j > Len(q)
    <3>1. g[c] = SubSeq(p, i, Len(p))
      BY <2>3, <2>5 DEF MergesTo
    <3>2. j = Len(q) + 1
      BY <1>4, <2>3
    <3>3. From(p, i) \cup From(q, j) = From(p, i)
      BY <1>4, <3>2
    <3>4. SortedList(SubSeq(p, i, Len(p)), From(p, i))
      BY RestSorted
    <3> QED
      BY <2>1, <3>1, <3>3, <3>4
  <2>4. CASE i <= Len(p) /\ j <= Len(q)
    <3>0. i \in 1 .. Len(p) /\ j \in 1 .. Len(q)
      BY <2>4
    <3>1. g[c] = IF T!CompareOperations(p[i], q[j]) <= 0
                 THEN <<p[i]>> \o g[<<i + 1, j>>] ELSE <<q[j]>> \o g[<<i, j + 1>>]
      BY <2>4, <2>5 DEF MergesTo
    <3>2. /\ <<i + 1, j>> \in D /\ <<i, j + 1>> \in D
          /\ Left(p, q)[<<i + 1, j>>] < Left(p, q)[c] /\ Left(p, q)[<<i, j + 1>>] < Left(p, q)[c]
      BY <1>4, <2>0, <2>1, <2>4, LeftFalls
    <3>3. <<i + 1, j>> \in U /\ <<i, j + 1>> \in U
      BY <1>6, <3>2
    <3>4. PICK s, t : s = g[<<i + 1, j>>] /\ t = g[<<i, j + 1>>]
      OBVIOUS
    <3>5. SortedList(s, From(p, i + 1) \cup From(q, j)) /\ SortedList(t, From(p, i) \cup From(q, j + 1))
      BY <3>3, <3>4
    <3>6. PICK a \in T!Operation, b \in T!Operation : a = p[i] /\ b = q[j] /\ a # b
      BY <1>4, <3>0
    <3>7. /\ From(p, i) = From(p, i + 1) \cup {a} /\ From(q, j) = From(q, j + 1) \cup {b}
          /\ (\A x \in From(p, i + 1) : Key(a) < Key(x)) /\ (\A y \in From(q, j + 1) : Key(b) < Key(y))
      BY <1>4, <3>0, <3>6
    <3>8. \A x \in From(p, i) \cup From(q, j) : Key(x) \in Nat
      <4>1. From(p, i) \in SUBSET X /\ From(q, j) \in SUBSET Y
        BY FromNext
      <4> QED
        BY <1>5, <4>1, OperationKeys
    <3>9. Key(a) \in Nat /\ Key(b) \in Nat /\ Key(a) # Key(b)
      BY <3>6, OperationKeys
    <3>10. CASE T!CompareOperations(a, b) <= 0
      <4>1. Key(a) < Key(b)
        BY <3>9, <3>10, OperationKeys
      <4>2. \A x \in From(p, i + 1) \cup From(q, j) : Key(a) < Key(x)
        <5> SUFFICES ASSUME NEW y \in From(q, j) PROVE Key(a) < Key(y)
          BY <3>7
        <5>1. y = b \/ Key(b) < Key(y)
          BY <3>7
        <5>2. Key(y) \in Nat
          BY <3>8
        <5> QED
          BY <3>9, <4>1, <5>1, <5>2
      <4>3. SortedList(<<a>> \o s, (From(p, i + 1) \cup From(q, j)) \cup {a})
        BY <3>5, <4>2, ConsSorted
      <4>4. (From(p, i + 1) \cup From(q, j)) \cup {a} = From(p, i) \cup From(q, j)
        BY <3>7
      <4>5. g[c] = <<a>> \o s
        BY <3>1, <3>4, <3>6, <3>10
      <4> QED
        BY <2>1, <4>3, <4>4, <4>5
    <3>11. CASE ~(T!CompareOperations(a, b) <= 0)
      <4>1. Key(b) < Key(a)
        <5>1. ~(Key(a) <= Key(b))
          BY <3>11, OperationKeys
        <5> QED
          BY <3>9, <5>1
      <4>2. \A x \in From(p, i) \cup From(q, j + 1) : Key(b) < Key(x)
        <5> SUFFICES ASSUME NEW y \in From(p, i) PROVE Key(b) < Key(y)
          BY <3>7
        <5>1. y = a \/ Key(a) < Key(y)
          BY <3>7
        <5>2. Key(y) \in Nat
          BY <3>8
        <5> QED
          BY <3>9, <4>1, <5>1, <5>2
      <4>3. SortedList(<<b>> \o t, (From(p, i) \cup From(q, j + 1)) \cup {b})
        BY <3>5, <4>2, ConsSorted
      <4>4. (From(p, i) \cup From(q, j + 1)) \cup {b} = From(p, i) \cup From(q, j)
        BY <3>7
      <4>5. g[c] = <<b>> \o t
        BY <3>1, <3>4, <3>6, <3>11
      <4> QED
        BY <2>1, <4>3, <4>4, <4>5
    <3> QED
      BY <3>6, <3>10, <3>11
  <2> QED
    BY <1>4, <2>2, <2>3, <2>4
<1>7. \A c \in D : c \in U
  <2>1. Left(p, q) \in [D -> Nat]
    BY <1>4, LeftFalls
  <2>2. \A c \in D : (\A e \in D : Left(p, q)[e] < Left(p, q)[c] => e \in U) => c \in U
    BY <1>6
  <2> HIDE DEF D, U
  <2> QED
    BY <2>1, <2>2, DepthInduction
<1>8. <<1, 1>> \in D /\ <<1, 1>>[1] = 1 /\ <<1, 1>>[2] = 1
  BY <1>4 DEF Ends
<1> QED
  BY <1>1, <1>4, <1>7, <1>8

\* One step of groupOperationsByTx.
GroupStep(groups, op) ==
    LET isNew == groups = <<>> \/ T!Last(groups).TxID # op.TxID
        txOp == IF isNew THEN [HasRead |-> FALSE, HasWrite |-> FALSE] ELSE T!Last(groups)
        seen == [TxID     |-> op.TxID,
                 HasRead  |-> txOp.HasRead \/ op.Type = 0,
                 HasWrite |-> txOp.HasWrite \/ op.Type = 1]
    IN  Append(IF isNew THEN groups ELSE T!Front(groups), seen)

Group == [TxID : TableTxs, HasRead : BOOLEAN, HasWrite : BOOLEAN]

\* The group of a transaction after its operation op, where before tells of those
\* that came earlier.
GroupWith(op, reads, writes) ==
    [TxID |-> op.TxID, HasRead |-> reads \/ op.Type = 0, HasWrite |-> writes \/ op.Type = 1]

LEMMA GroupStarts ==
    ASSUME NEW r \in Seq(Group), NEW op \in T!Operation, r = <<>> \/ r[Len(r)].TxID # op.TxID
    PROVE  GroupStep(r, op) = Append(r, GroupWith(op, FALSE, FALSE))
<1>1. r = <<>> \/ T!Last(r).TxID # op.TxID
  BY DEF T!Last
<1>2. GroupWith(op, [HasRead |-> FALSE, HasWrite |-> FALSE].HasRead, [HasRead |-> FALSE, HasWrite |-> FALSE].HasWrite)
      = GroupWith(op, FALSE, FALSE)
  BY DEF GroupWith
<1>3. GroupStep(r, op)
      = Append(r, GroupWith(op, [HasRead |-> FALSE, HasWrite |-> FALSE].HasRead, [HasRead |-> FALSE, HasWrite |-> FALSE].HasWrite))
  BY <1>1, Zenon DEF GroupStep, GroupWith
<1> QED
  BY <1>2, <1>3

LEMMA GroupContinues ==
    ASSUME NEW r \in Seq(Group), NEW op \in T!Operation, r # <<>>, r[Len(r)].TxID = op.TxID
    PROVE  GroupStep(r, op) = Append(SubSeq(r, 1, Len(r) - 1),
                                     GroupWith(op, r[Len(r)].HasRead, r[Len(r)].HasWrite))
<1>1. T!Last(r) = r[Len(r)] /\ T!Front(r) = SubSeq(r, 1, Len(r) - 1)
  BY DEF T!Last, T!Front
<1>2. ~(r = <<>> \/ T!Last(r).TxID # op.TxID)
  BY <1>1
<1>3. GroupStep(r, op) = Append(T!Front(r), GroupWith(op, T!Last(r).HasRead, T!Last(r).HasWrite))
  BY <1>2, Zenon DEF GroupStep, GroupWith
<1> QED
  BY <1>1, <1>3

\* One of the first i operations of s is one of type t of the transaction x.
Has(s, i, x, t) == \E m \in 1 .. i : s[m].TxID = x /\ s[m].Type = t

Marked(r, s, i) ==
    \A k \in 1 .. Len(r) : /\ r[k].HasRead <=> Has(s, i, r[k].TxID, 0)
                           /\ r[k].HasWrite <=> Has(s, i, r[k].TxID, 1)

\* The groups of the first i operations of s: in the order of the transactions, one
\* for each, which tells whether it reads and whether it writes.
Grouped(r, s, i) ==
    /\ r \in Seq(Group)
    /\ \A j, k \in 1 .. Len(r) : j < k => r[j].TxID < r[k].TxID
    /\ \A k \in 1 .. Len(r) : \E m \in 1 .. i : s[m].TxID = r[k].TxID
    /\ \A m \in 1 .. i : \E k \in 1 .. Len(r) : r[k].TxID = s[m].TxID
    /\ i > 0 => Len(r) > 0 /\ r[Len(r)].TxID = s[i].TxID
    /\ Marked(r, s, i)

LEMMA GroupKeeps ==
    ASSUME NEW s, NEW ops, SortedList(s, ops), NEW i \in 1 .. Len(s), NEW r, Grouped(r, s, i - 1)
    PROVE  Grouped(GroupStep(r, s[i]), s, i)
<1> DEFINE op == s[i]
<1>1. s \in Seq(T!Operation) /\ Len(s) \in Nat /\ \A k \in 1 .. Len(s) : s[k] \in T!Operation
  BY FromNext
<1>2. PICK l \in Nat : l = i - 1 /\ i = l + 1 /\ 1 .. i = (1 .. l) \cup {i}
  OBVIOUS
<1>3. r \in Seq(Group)
  BY DEF Grouped
<1>4. PICK n \in Nat : n = Len(r) /\ DOMAIN r = 1 .. n /\ \A k \in 1 .. n : r[k] \in Group
  BY <1>3
<1>10. \A j, k \in 1 .. n : j < k => r[j].TxID < r[k].TxID
  BY <1>4 DEF Grouped
<1>11. /\ \A k \in 1 .. n : \E m \in 1 .. l : s[m].TxID = r[k].TxID
       /\ \A m \in 1 .. l : \E k \in 1 .. n : r[k].TxID = s[m].TxID
  BY <1>2, <1>4 DEF Grouped
<1>12. \A k \in 1 .. n : /\ r[k].HasRead <=> Has(s, l, r[k].TxID, 0)
                         /\ r[k].HasWrite <=> Has(s, l, r[k].TxID, 1)
  BY <1>2, <1>4 DEF Grouped, Marked
<1>5. /\ op \in T!Operation /\ op.TxID \in TableTxs /\ op.TxID \in Nat /\ op.Type \in {0, 1}
      /\ TableTxs \in SUBSET Nat
      /\ \A m \in 1 .. l : s[m].TxID \in Nat
      /\ \A k \in 1 .. n : r[k].TxID \in Nat
  <2>1. op \in T!Operation
    BY <1>1
  <2>2. TableTxs \in SUBSET Nat
    BY Assumptions DEF T!TxsAssumption
  <2>3. \A k \in 1 .. n : r[k].TxID \in Nat
    BY <1>4, <2>2 DEF Group
  <2>4. \A m \in 1 .. l : m \in 1 .. Len(s)
    BY <1>2
  <2> QED
    BY <1>1, <2>1, <2>2, <2>3, <2>4, OperationKeys
<1>6. \A m \in 1 .. l : s[m].TxID <= op.TxID
  <2> SUFFICES ASSUME NEW m \in 1 .. l PROVE s[m].TxID <= op.TxID
    OBVIOUS
  <2>1. m \in 1 .. Len(s) /\ m < i
    BY <1>1, <1>2
  <2>2. Key(s[m]) < Key(op) /\ s[m] \in T!Operation
    BY <1>1, <2>1 DEF SortedList
  <2>3. s[m].TxID < op.TxID \/ s[m].TxID = op.TxID
    BY <1>5, <2>2, OperationKeys
  <2> QED
    BY <1>5, <2>3
<1> HIDE DEF op
<1>7. \A x, t : Has(s, i, x, t) <=> Has(s, l, x, t) \/ (op.TxID = x /\ op.Type = t)
  BY <1>2 DEF op, Has
<1>8. CASE r = <<>> \/ r[Len(r)].TxID # op.TxID
  <2>1. PICK g \in Group : g = GroupWith(op, FALSE, FALSE)
    <3>1. GroupWith(op, FALSE, FALSE) \in Group
      BY <1>5 DEF GroupWith, Group
    <3> QED
      BY <3>1
  <2>2. /\ g.TxID = op.TxID
        /\ g.HasRead <=> op.Type = 0
        /\ g.HasWrite <=> op.Type = 1
    BY <2>1 DEF GroupWith
  <2>3. PICK u : u = GroupStep(r, op) /\ u = Append(r, g)
    BY <1>3, <1>5, <1>8, <2>1, GroupStarts
  <2>4. u \in Seq(Group) /\ Len(u) = n + 1 /\ u[n + 1] = g /\ \A k \in 1 .. n : u[k] = r[k]
    BY <1>3, <1>4, <2>3
  <2>5. \A k \in 1 .. n : r[k].TxID < op.TxID
    <3> SUFFICES ASSUME NEW k \in 1 .. n PROVE r[k].TxID < op.TxID
      OBVIOUS
    <3>1. n \in 1 .. n /\ n # 0
      OBVIOUS
    <3>2. r[n].TxID # op.TxID
      BY <1>4, <1>8, <3>1
    <3>3. \A j \in 1 .. n : r[j].TxID <= op.TxID
      BY <1>6, <1>11
    <3>4. r[n].TxID < op.TxID
      BY <1>5, <3>1, <3>2, <3>3
    <3>5. k = n \/ r[k].TxID < r[n].TxID
      BY <1>10, <3>1
    <3> QED
      BY <1>5, <3>1, <3>4, <3>5
  <2>6. \A m \in 1 .. l : s[m].TxID # op.TxID
    <3> SUFFICES ASSUME NEW m \in 1 .. l PROVE s[m].TxID # op.TxID
      OBVIOUS
    <3>1. PICK k \in 1 .. n : r[k].TxID = s[m].TxID
      BY <1>11
    <3> QED
      BY <1>5, <2>5, <3>1
  <2>7. \A j, k \in 1 .. Len(u) : j < k => u[j].TxID < u[k].TxID
    <3> SUFFICES ASSUME NEW j \in 1 .. n + 1, NEW k \in 1 .. n + 1, j < k
                 PROVE  u[j].TxID < u[k].TxID
      BY <2>4
    <3>1. CASE k = n + 1
      <4>1. j \in 1 .. n
        BY <3>1
      <4> QED
        BY <2>2, <2>4, <2>5, <3>1, <4>1
    <3>2. CASE k # n + 1
      <4>1. j \in 1 .. n /\ k \in 1 .. n
        BY <3>2
      <4> QED
        BY <1>10, <2>4, <4>1
    <3> QED
      BY <3>1, <3>2
  <2>8. \A k \in 1 .. Len(u) : \E m \in 1 .. i : s[m].TxID = u[k].TxID
    <3> SUFFICES ASSUME NEW k \in 1 .. n + 1
                 PROVE  \E m \in 1 .. i : s[m].TxID = u[k].TxID
      BY <2>4
    <3>1. CASE k = n + 1
      BY <2>2, <2>4, <3>1 DEF op
    <3>2. CASE k \in 1 .. n
      <4>1. PICK m \in 1 .. l : s[m].TxID = r[k].TxID
        BY <1>11, <3>2
      <4> QED
        BY <1>2, <2>4, <3>2, <4>1
    <3> QED
      BY <3>1, <3>2
  <2>9. \A m \in 1 .. i : \E k \in 1 .. Len(u) : u[k].TxID = s[m].TxID
    <3> SUFFICES ASSUME NEW m \in 1 .. i
                 PROVE  \E k \in 1 .. n + 1 : u[k].TxID = s[m].TxID
      BY <2>4
    <3>1. CASE m = i
      BY <2>2, <2>4, <3>1 DEF op
    <3>2. CASE m \in 1 .. l
      <4>1. PICK k \in 1 .. n : r[k].TxID = s[m].TxID
        BY <1>11, <3>2
      <4>2. k \in 1 .. n + 1
        OBVIOUS
      <4> QED
        BY <2>4, <4>1, <4>2
    <3> QED
      BY <1>2, <3>1, <3>2
  <2>10. Marked(u, s, i)
    <3> SUFFICES ASSUME NEW k \in 1 .. n + 1
                 PROVE  /\ u[k].HasRead <=> Has(s, i, u[k].TxID, 0)
                        /\ u[k].HasWrite <=> Has(s, i, u[k].TxID, 1)
      BY <2>4 DEF Marked
    <3>1. CASE k = n + 1
      <4>1. ~Has(s, l, op.TxID, 0) /\ ~Has(s, l, op.TxID, 1)
        BY <2>6 DEF Has
      <4>2. u[k] = g
        BY <2>4, <3>1
      <4> QED
        BY <1>7, <2>2, <4>1, <4>2
    <3>2. CASE k \in 1 .. n
      <4>1. r[k].TxID # op.TxID
        BY <1>5, <2>5, <3>2
      <4> QED
        BY <1>7, <1>12, <2>4, <3>2, <4>1
    <3> QED
      BY <3>1, <3>2
  <2>11. Len(u) > 0 /\ u[Len(u)].TxID = s[i].TxID
    BY <2>2, <2>4 DEF op
  <2>12. u \in Seq(Group)
    BY <2>4
  <2>13. Grouped(u, s, i)
    BY <2>7, <2>8, <2>9, <2>10, <2>11, <2>12, Zenon DEF Grouped
  <2>14. u = GroupStep(r, s[i])
    BY <2>3 DEF op
  <2> QED
    BY <2>13, <2>14
<1>9. CASE r # <<>> /\ r[Len(r)].TxID = op.TxID
  <2>0. n \in 1 .. n /\ n # 0 /\ n - 1 \in Nat /\ r[n].TxID = op.TxID /\ r[n] \in Group
    BY <1>3, <1>4, <1>9
  <2>1. PICK g \in Group : g = GroupWith(op, r[n].HasRead, r[n].HasWrite)
    <3>1. GroupWith(op, r[n].HasRead, r[n].HasWrite) \in Group
      BY <1>5, <2>0 DEF GroupWith, Group
    <3> QED
      BY <3>1
  <2>2. /\ g.TxID = op.TxID
        /\ g.HasRead <=> r[n].HasRead \/ op.Type = 0
        /\ g.HasWrite <=> r[n].HasWrite \/ op.Type = 1
    BY <2>1 DEF GroupWith
  <2>3. PICK u : u = GroupStep(r, op) /\ u = Append(SubSeq(r, 1, n - 1), g)
    BY <1>3, <1>4, <1>5, <1>9, <2>1, GroupContinues
  <2>4. u \in Seq(Group) /\ Len(u) = n /\ u[n] = g /\ \A k \in 1 .. n : k # n => u[k] = r[k]
    BY <1>3, <1>4, <2>0, <2>3
  <2>5. \A k \in 1 .. n : u[k].TxID = r[k].TxID
    BY <2>0, <2>2, <2>4
  <2>6. \A k \in 1 .. n : k # n => r[k].TxID # op.TxID
    <3> SUFFICES ASSUME NEW k \in 1 .. n, k # n PROVE r[k].TxID # op.TxID
      OBVIOUS
    <3>1. k < n
      OBVIOUS
    <3>2. r[k].TxID < r[n].TxID
      BY <1>10, <2>0, <3>1
    <3> QED
      BY <1>5, <2>0, <3>2
  <2>7. \A j, k \in 1 .. Len(u) : j < k => u[j].TxID < u[k].TxID
    BY <1>10, <2>4, <2>5
  <2>8. \A k \in 1 .. Len(u) : \E m \in 1 .. i : s[m].TxID = u[k].TxID
    <3> SUFFICES ASSUME NEW k \in 1 .. n
                 PROVE  \E m \in 1 .. i : s[m].TxID = u[k].TxID
      BY <2>4
    <3>1. PICK m \in 1 .. l : s[m].TxID = r[k].TxID
      BY <1>11
    <3> QED
      BY <1>2, <2>5, <3>1
  <2>9. \A m \in 1 .. i : \E k \in 1 .. Len(u) : u[k].TxID = s[m].TxID
    <3> SUFFICES ASSUME NEW m \in 1 .. i
                 PROVE  \E k \in 1 .. n : u[k].TxID = s[m].TxID
      BY <2>4
    <3>1. CASE m = i
      <4>1. n \in 1 .. n /\ u[n].TxID = op.TxID
        BY <2>0, <2>2, <2>4
      <4>2. s[m] = op
        BY <3>1 DEF op
      <4> QED
        BY <4>1, <4>2
    <3>2. CASE m \in 1 .. l
      <4>1. PICK k \in 1 .. n : r[k].TxID = s[m].TxID
        BY <1>11, <3>2
      <4> QED
        BY <2>5, <4>1
    <3> QED
      BY <1>2, <3>1, <3>2
  <2>10. Marked(u, s, i)
    <3> SUFFICES ASSUME NEW k \in 1 .. n
                 PROVE  /\ u[k].HasRead <=> Has(s, i, u[k].TxID, 0)
                        /\ u[k].HasWrite <=> Has(s, i, u[k].TxID, 1)
      BY <2>4 DEF Marked
    <3>1. CASE k = n
      <4>1. u[k] = g /\ r[n].TxID = op.TxID
        BY <2>0, <2>4, <3>1
      <4>2. (r[n].HasRead <=> Has(s, l, op.TxID, 0)) /\ (r[n].HasWrite <=> Has(s, l, op.TxID, 1))
        BY <1>12, <2>0
      <4> QED
        BY <1>7, <2>2, <4>1, <4>2
    <3>2. CASE k # n
      <4>1. u[k] = r[k] /\ r[k].TxID # op.TxID
        BY <2>4, <2>6, <3>2
      <4> QED
        BY <1>7, <1>12, <4>1
    <3> QED
      BY <3>1, <3>2
  <2>11. Len(u) > 0 /\ u[Len(u)].TxID = s[i].TxID
    BY <2>0, <2>2, <2>4 DEF op
  <2>12. u \in Seq(Group)
    BY <2>4
  <2>13. Grouped(u, s, i)
    BY <2>7, <2>8, <2>9, <2>10, <2>11, <2>12, Zenon DEF Grouped
  <2>14. u = GroupStep(r, s[i])
    BY <2>3 DEF op
  <2> QED
    BY <2>13, <2>14
<1> QED
  BY <1>8, <1>9

\* The fold of groupOperationsByTx.
FixedGroups(g, s) ==
    g = [x \in SUBSET DOMAIN s |->
            IF x = {} THEN <<>> ELSE GroupStep(g[x \ {T!Max(x)}], s[T!Max(x)])]

LEMMA TableMax == \A x : T!Max(x) = Highest(x)
BY DEF T!Max, Highest

LEMMA GroupsExist ==
    ASSUME NEW s, NEW ops, SortedList(s, ops)
    PROVE  \E g : FixedGroups(g, s)
<1> DEFINE n == Len(s)
           V == Seq(Group)
           step == [p \in (1 .. n) \X V |-> GroupStep(p[2], s[p[1]])]
<1>1. n \in Nat /\ DOMAIN s = 1 .. n /\ \A i \in 1 .. n : s[i] \in T!Operation
  BY FromNext
<1> HIDE DEF n
<1>2. ASSUME NEW i \in 1 .. n, NEW c \in V
      PROVE  GroupStep(c, s[i]) \in V
  <2>1. PICK op \in T!Operation : op = s[i] /\ op.TxID \in TableTxs
    BY <1>1, OperationKeys
  <2>2. CASE c = <<>> \/ c[Len(c)].TxID # op.TxID
    <3>1. PICK e : e = GroupWith(op, FALSE, FALSE)
      OBVIOUS
    <3>2. e \in Group
      BY <2>1, <3>1 DEF GroupWith, Group
    <3>3. Append(c, e) \in V
      BY <3>2
    <3> QED
      BY <2>1, <2>2, <3>1, <3>3, GroupStarts
  <2>3. CASE c # <<>> /\ c[Len(c)].TxID = op.TxID
    <3>1. PICK e : e = GroupWith(op, c[Len(c)].HasRead, c[Len(c)].HasWrite)
      OBVIOUS
    <3>2. e \in Group
      BY <2>1, <3>1 DEF GroupWith, Group
    <3>3. PICK d \in V : d = SubSeq(c, 1, Len(c) - 1)
      <4>1. SubSeq(c, 1, Len(c) - 1) \in V
        BY <2>3
      <4> QED
        BY <4>1
    <3>4. Append(d, e) \in V
      BY <3>2
    <3> QED
      BY <2>1, <2>3, <3>1, <3>3, <3>4, GroupContinues
  <2> QED
    BY <2>2, <2>3
<1>3. \A i \in 1 .. n : \A c \in V : step[<<i, c>>] = GroupStep(c, s[i])
  OBVIOUS
<1>4. step \in [(1 .. n) \X V -> V]
  <2>1. \A p \in (1 .. n) \X V : GroupStep(p[2], s[p[1]]) \in V
    <3> SUFFICES ASSUME NEW p \in (1 .. n) \X V PROVE GroupStep(p[2], s[p[1]]) \in V
      OBVIOUS
    <3>1. p[1] \in 1 .. n /\ p[2] \in V
      OBVIOUS
    <3> HIDE DEF V
    <3> QED
      BY <1>2, <3>1
  <2> HIDE DEF V
  <2> QED
    BY <2>1
<1>5. <<>> \in V
  OBVIOUS
<1> HIDE DEF step, V
<1>6. PICK h \in [SUBSET (1 .. n) -> V] : FoldsUp(h, n, <<>>, step)
  BY <1>1, <1>4, <1>5, FoldExists
<1>7. ASSUME NEW x \in SUBSET (1 .. n)
      PROVE  h[x] = IF x = {} THEN <<>> ELSE GroupStep(h[x \ {T!Max(x)}], s[T!Max(x)])
  <2>1. CASE x = {}
    BY <1>6, <2>1 DEF FoldsUp
  <2>2. CASE x # {}
    <3>1. Highest(x) \in 1 .. n /\ x \ {Highest(x)} \in SUBSET (1 .. n)
      BY <1>1, <2>2, LastOf
    <3>2. h[x \ {Highest(x)}] \in V
      BY <3>1
    <3>3. h[x] = step[<<Highest(x), h[x \ {Highest(x)}]>>]
      BY <1>6, <2>2 DEF FoldsUp
    <3>4. h[x] = GroupStep(h[x \ {Highest(x)}], s[Highest(x)])
      BY <1>3, <3>1, <3>2, <3>3
    <3> QED
      BY <2>2, <3>4, TableMax
  <2> QED
    BY <2>1, <2>2
<1>8. h = [x \in SUBSET (1 .. n) |-> h[x]]
  OBVIOUS
<1> QED
  BY <1>1, <1>7, <1>8 DEF FixedGroups

LEMMA GroupsOf ==
    ASSUME NEW s, NEW ops, SortedList(s, ops)
    PROVE  Grouped(T!GroupOperationsByTx(s), s, Len(s))
<1> DEFINE iter == CHOOSE g : FixedGroups(g, s)
           n == Len(s)
<1>1. T!GroupOperationsByTx(s) = iter[DOMAIN s]
  BY DEF T!GroupOperationsByTx, T!FoldLeft, T!MapThenFoldSet, FixedGroups, GroupStep
<1>2. FixedGroups(iter, s)
  BY GroupsExist
<1> HIDE DEF iter
<1>3. n \in Nat /\ DOMAIN s = 1 .. n
  BY FromNext
<1> HIDE DEF n
<1>4. \A x \in SUBSET (1 .. n) :
          iter[x] = IF x = {} THEN <<>> ELSE GroupStep(iter[x \ {Highest(x)}], s[Highest(x)])
  BY <1>2, <1>3, TableMax DEF FixedGroups
<1>5. 1 .. 0 = {} /\ iter[1 .. 0] = <<>>
  <2>1. 1 .. 0 = {} /\ {} \in SUBSET (1 .. n)
    OBVIOUS
  <2>2. iter[{}] = <<>>
    BY <1>4, <2>1
  <2> QED
    BY <2>1, <2>2
<1>6. ASSUME NEW i \in 1 .. n
      PROVE  iter[1 .. i] = GroupStep(iter[1 .. i - 1], s[i])
  <2>1. 1 .. i \in SUBSET (1 .. n) /\ Highest(1 .. i) = i /\ (1 .. i) \ {Highest(1 .. i)} = 1 .. i - 1
    BY <1>3, LastOfInterval
  <2>2. 1 .. i # {}
    OBVIOUS
  <2>3. iter[1 .. i] = GroupStep(iter[(1 .. i) \ {Highest(1 .. i)}], s[Highest(1 .. i)])
    BY <1>4, <2>1, <2>2
  <2> QED
    BY <2>1, <2>3
<1> DEFINE U == {i \in Nat : i <= n => Grouped(iter[1 .. i], s, i)}
<1>7. 0 \in U
  <2>1. Grouped(<<>>, s, 0)
    BY DEF Grouped, Marked
  <2> QED
    BY <1>5, <2>1
<1>8. ASSUME NEW m \in U
      PROVE  m + 1 \in U
  <2> SUFFICES ASSUME m + 1 <= n
               PROVE  Grouped(iter[1 .. m + 1], s, m + 1)
    OBVIOUS
  <2>1. PICK i \in 1 .. n : i = m + 1 /\ i - 1 = m /\ m <= n
    BY <1>3
  <2>2. PICK r : r = iter[1 .. i - 1]
    OBVIOUS
  <2>3. Grouped(r, s, i - 1)
    BY <2>1, <2>2
  <2>4. Grouped(GroupStep(r, s[i]), s, i)
    BY <2>3, GroupKeeps DEF n
  <2> QED
    BY <1>6, <2>1, <2>2, <2>4
<1> HIDE DEF U
<1>9. n \in U
  <2>1. U \in SUBSET Nat
    BY DEF U
  <2> QED
    BY <1>3, <1>7, <1>8, <2>1, AllNumbers
<1>10. Grouped(iter[1 .. n], s, n)
  BY <1>3, <1>9 DEF U
<1> QED
  BY <1>1, <1>3, <1>10 DEF n

\* The entry of transaction t.
Entry(t, reads, writes) == [TxID |-> t, HasRead |-> reads, HasWrite |-> writes]

LEMMA EntryOf ==
    ASSUME NEW e \in Group, NEW x \in BOOLEAN, NEW y \in BOOLEAN, e.HasRead = x, e.HasWrite = y
    PROVE  e = Entry(e.TxID, x, y)
BY DEF Group, Entry

\* One entry for each transaction of the list, which tells of its operations.
LEMMA GroupsExact ==
    ASSUME NEW s, NEW ops, SortedList(s, ops), NEW r, r = T!GroupOperationsByTx(s)
    PROVE  /\ Len(r) = T!Cardinality({r[k].TxID : k \in DOMAIN r})
           /\ T!ToSet(r) = {Entry(t, [TxID |-> t, Type |-> 0] \in ops, [TxID |-> t, Type |-> 1] \in ops) :
                            t \in {o.TxID : o \in ops}}
<1>1. Grouped(r, s, Len(s))
  BY GroupsOf
<1>2. PICK n \in Nat : n = Len(r) /\ DOMAIN r = 1 .. n /\ \A k \in 1 .. n : r[k] \in Group
  BY <1>1 DEF Grouped
<1>3. /\ ops = {s[m] : m \in 1 .. Len(s)}
      /\ \A m \in 1 .. Len(s) : s[m] \in T!Operation
  BY FromNext DEF SortedList, Elements
<1>4. \A t, x : Has(s, Len(s), t, x) <=> \E o \in ops : o.TxID = t /\ o.Type = x
  BY <1>3 DEF Has
<1>5. \A t, x : Has(s, Len(s), t, x) <=> [TxID |-> t, Type |-> x] \in ops
  <2>1. \A o \in ops : o = [TxID |-> o.TxID, Type |-> o.Type]
    BY <1>3, OperationKeys
  <2> QED
    BY <1>4, <2>1
<1>6. \A t : t \in {o.TxID : o \in ops} <=> \E k \in 1 .. n : r[k].TxID = t
  <2>1. ASSUME NEW o \in ops
        PROVE  \E k \in 1 .. n : r[k].TxID = o.TxID
    <3>1. PICK m \in 1 .. Len(s) : s[m] = o
      BY <1>3
    <3>2. \A i \in 1 .. Len(s) : \E k \in 1 .. Len(r) : r[k].TxID = s[i].TxID
      BY <1>1 DEF Grouped
    <3>3. PICK k \in 1 .. Len(r) : r[k].TxID = s[m].TxID
      BY <3>2
    <3> QED
      BY <1>2, <3>1, <3>3
  <2>2. ASSUME NEW k \in 1 .. n
        PROVE  \E o \in ops : r[k].TxID = o.TxID
    <3>1. PICK m \in 1 .. Len(s) : s[m].TxID = r[k].TxID
      BY <1>1, <1>2 DEF Grouped
    <3> QED
      BY <1>3, <3>1
  <2> QED
    BY <2>1, <2>2
<1>7. Len(r) = T!Cardinality({r[k].TxID : k \in DOMAIN r})
  <2> DEFINE ids == [k \in 1 .. n |-> r[k].TxID]
  <2>1. ids \in Seq({r[k].TxID : k \in 1 .. n}) /\ Len(ids) = n
    OBVIOUS
  <2>2. Elements(ids) = {r[k].TxID : k \in 1 .. n}
    BY DEF Elements
  <2>3. Distinct(ids)
    <3> SUFFICES ASSUME NEW j \in 1 .. n, NEW k \in 1 .. n, r[j].TxID = r[k].TxID
                 PROVE  j = k
      BY DEF Distinct
    <3>1. \A i \in 1 .. n : r[i].TxID \in Nat
      BY <1>2, Assumptions DEF Group, T!TxsAssumption
    <3>2. (j < k => r[j].TxID < r[k].TxID) /\ (k < j => r[k].TxID < r[j].TxID)
      BY <1>1, <1>2 DEF Grouped
    <3> QED
      BY <3>1, <3>2
  <2> HIDE DEF ids
  <2>4. Cardinality(Elements(ids)) = n
    BY <2>1, <2>3, DistinctSize
  <2>5. T!Cardinality({r[k].TxID : k \in 1 .. n}) = Cardinality({r[k].TxID : k \in 1 .. n})
    BY DEF T!Cardinality, Cardinality
  <2> QED
    BY <1>2, <2>2, <2>4, <2>5
<1> DEFINE entry(t) == Entry(t, [TxID |-> t, Type |-> 0] \in ops, [TxID |-> t, Type |-> 1] \in ops)
<1>8. ASSUME NEW k \in 1 .. n
      PROVE  r[k] = entry(r[k].TxID)
  <2>1. PICK e \in Group : e = r[k]
    BY <1>2
  <2>2. /\ e.HasRead <=> [TxID |-> e.TxID, Type |-> 0] \in ops
        /\ e.HasWrite <=> [TxID |-> e.TxID, Type |-> 1] \in ops
    BY <1>1, <1>2, <1>5, <2>1 DEF Grouped, Marked
  <2>3. PICK x \in BOOLEAN, y \in BOOLEAN : x = e.HasRead /\ y = e.HasWrite
    BY DEF Group
  <2>4. /\ x = ([TxID |-> e.TxID, Type |-> 0] \in ops)
        /\ y = ([TxID |-> e.TxID, Type |-> 1] \in ops)
    BY <2>2, <2>3
  <2>5. e = Entry(e.TxID, x, y)
    BY <2>3, EntryOf
  <2> QED
    BY <2>1, <2>4, <2>5
<1> HIDE DEF entry
<1>9. T!ToSet(r) = {entry(t) : t \in {o.TxID : o \in ops}}
  <2>1. T!ToSet(r) = {r[k] : k \in 1 .. n}
    BY <1>2 DEF T!ToSet
  <2>2. ASSUME NEW k \in 1 .. n
        PROVE  r[k] \in {entry(t) : t \in {o.TxID : o \in ops}}
    <3>1. r[k].TxID \in {o.TxID : o \in ops}
      BY <1>6
    <3> QED
      BY <1>8, <3>1
  <2>3. ASSUME NEW t \in {o.TxID : o \in ops}
        PROVE  entry(t) \in {r[k] : k \in 1 .. n}
    <3>1. PICK k \in 1 .. n : r[k].TxID = t
      BY <1>6
    <3>2. r[k] = entry(t)
      BY <1>8, <3>1
    <3> QED
      BY <3>2
  <2> QED
    BY <2>1, <2>2, <2>3
<1> QED
  BY <1>7, <1>9 DEF entry

\* What the transactions c write.
Written(c) == UNION {rwSets[x].WriteSet : x \in c}

\* The operations of two groups of transactions: together, and apart when the
\* groups are.
LEMMA OperationsIn ==
    ASSUME NEW a, NEW c \in SUBSET TableTxs
    PROVE  /\ T!OperationsOn(a, c) \in SUBSET T!Operation
           /\ IsFiniteSet(T!OperationsOn(a, c))
           /\ \A o \in T!OperationsOn(a, c) : o.TxID \in c
<1> DEFINE reading == {x \in c : a \in rwSets[x].ReadSet}
           writing == {x \in c : a \in rwSets[x].WriteSet}
           reads == {[TxID |-> x, Type |-> 0] : x \in reading}
           writes == {[TxID |-> x, Type |-> 1] : x \in writing}
<1>1. T!OperationsOn(a, c) = reads \cup writes
  BY DEF T!OperationsOn
<1>2. IsFiniteSet(reading) /\ IsFiniteSet(writing)
  <2>1. IsFiniteSet(TableTxs)
    BY Assumptions DEF T!TxsAssumption, T!IsFiniteSet, IsFiniteSet
  <2>2. reading \in SUBSET TableTxs /\ writing \in SUBSET TableTxs
    OBVIOUS
  <2> QED
    BY <2>1, <2>2, FS_Subset
<1>3. IsFiniteSet(reads)
  <2> DEFINE f == [x \in reading |-> [TxID |-> x, Type |-> 0]]
  <2>1. f \in Surjection(reading, reads)
    BY DEF Surjection
  <2> QED
    BY <1>2, <2>1, FS_Surjection
<1>4. IsFiniteSet(writes)
  <2> DEFINE f == [x \in writing |-> [TxID |-> x, Type |-> 1]]
  <2>1. f \in Surjection(writing, writes)
    BY DEF Surjection
  <2> QED
    BY <1>2, <2>1, FS_Surjection
<1>5. /\ reads \cup writes \in SUBSET T!Operation
      /\ \A o \in reads \cup writes : o.TxID \in c
  BY DEF T!Operation
<1> HIDE DEF reads, writes
<1>6. IsFiniteSet(reads \cup writes)
  BY <1>3, <1>4, FS_Union
<1> QED
  BY <1>1, <1>5, <1>6

LEMMA OperationsOfAll ==
    ASSUME NEW a, NEW c \in SUBSET TableTxs, NEW d \in SUBSET TableTxs
    PROVE  /\ T!OperationsOn(a, c \cup d) = T!OperationsOn(a, c) \cup T!OperationsOn(a, d)
           /\ c \cap d = {} => T!OperationsOn(a, c) \cap T!OperationsOn(a, d) = {}
           /\ Written(c \cup d) = Written(c) \cup Written(d)
<1>1. T!OperationsOn(a, c \cup d) = T!OperationsOn(a, c) \cup T!OperationsOn(a, d)
  BY DEF T!OperationsOn
<1>2. ASSUME c \cap d = {}
      PROVE  T!OperationsOn(a, c) \cap T!OperationsOn(a, d) = {}
  <2>1. /\ \A o \in T!OperationsOn(a, c) : o.TxID \in c
        /\ \A o \in T!OperationsOn(a, d) : o.TxID \in d
    BY OperationsIn
  <2> QED
    BY <1>2, <2>1
<1>3. Written(c \cup d) = Written(c) \cup Written(d)
  BY DEF Written
<1> QED
  BY <1>1, <1>2, <1>3

\* Which operations there are, and where.
LEMMA OperationsWhere ==
    ASSUME rwSets \in TableWorkloads, NEW c \in SUBSET TableTxs
    PROVE  /\ \A a, x : [TxID |-> x, Type |-> 0] \in T!OperationsOn(a, c) <=> x \in c /\ a \in rwSets[x].ReadSet
           /\ \A a, x : [TxID |-> x, Type |-> 1] \in T!OperationsOn(a, c) <=> x \in c /\ a \in rwSets[x].WriteSet
           /\ \A a : T!OperationsOn(a, c) # {} <=> \E x \in c : a \in rwSets[x].ReadSet \cup rwSets[x].WriteSet
           /\ \A x \in c : rwSets[x].ReadSet \in SUBSET TableAddrs /\ rwSets[x].WriteSet \in SUBSET TableAddrs
<1>1. rwSets \in [TableTxs -> [ReadSet : SUBSET TableAddrs, WriteSet : SUBSET TableAddrs]]
  BY Assumptions DEF T!WorkloadsAssumption
<1>2. \A x \in c : rwSets[x].ReadSet \in SUBSET TableAddrs /\ rwSets[x].WriteSet \in SUBSET TableAddrs
  BY <1>1
<1>3. ASSUME NEW a, NEW x
      PROVE  [TxID |-> x, Type |-> 0] \in T!OperationsOn(a, c) <=> x \in c /\ a \in rwSets[x].ReadSet
  <2>1. \A y, m : [TxID |-> x, Type |-> 0] = [TxID |-> y, Type |-> m] => x = y /\ m = 0
    <3>1. /\ \A y, m : [TxID |-> y, Type |-> m].TxID = y
          /\ \A y, m : [TxID |-> y, Type |-> m].Type = m
      OBVIOUS
    <3> QED
      BY <3>1
  <2>2. \A o : o \in T!OperationsOn(a, c)
            <=> \/ \E y \in c : a \in rwSets[y].ReadSet /\ o = [TxID |-> y, Type |-> 0]
                \/ \E y \in c : a \in rwSets[y].WriteSet /\ o = [TxID |-> y, Type |-> 1]
    BY DEF T!OperationsOn
  <2> QED
    BY <2>1, <2>2
<1>4. ASSUME NEW a, NEW x
      PROVE  [TxID |-> x, Type |-> 1] \in T!OperationsOn(a, c) <=> x \in c /\ a \in rwSets[x].WriteSet
  <2>1. \A y, m : [TxID |-> x, Type |-> 1] = [TxID |-> y, Type |-> m] => x = y /\ m = 1
    <3>1. /\ \A y, m : [TxID |-> y, Type |-> m].TxID = y
          /\ \A y, m : [TxID |-> y, Type |-> m].Type = m
      OBVIOUS
    <3> QED
      BY <3>1
  <2>2. \A o : o \in T!OperationsOn(a, c)
            <=> \/ \E y \in c : a \in rwSets[y].ReadSet /\ o = [TxID |-> y, Type |-> 0]
                \/ \E y \in c : a \in rwSets[y].WriteSet /\ o = [TxID |-> y, Type |-> 1]
    BY DEF T!OperationsOn
  <2> QED
    BY <2>1, <2>2
<1>5. ASSUME NEW a
      PROVE  T!OperationsOn(a, c) # {} <=> \E x \in c : a \in rwSets[x].ReadSet \cup rwSets[x].WriteSet
  BY DEF T!OperationsOn
<1> QED
  BY <1>2, <1>3, <1>4, <1>5

\* The table t is that of the transactions c.
TableOf(t, c) ==
    /\ DOMAIN t.stateTables = {a \in TableAddrs : T!OperationsOn(a, c) # {}}
    /\ \A a \in DOMAIN t.stateTables : SortedList(t.stateTables[a], T!OperationsOn(a, c))
    /\ T!WritesOf(t) = Written(c)
    /\ t # T!None

LEMMA TableFields ==
    /\ \A f, x : T!Table(f, x).stateTables = f /\ T!Table(f, x).writeSet = x
    /\ T!Nil.stateTables = T!EmptyMap /\ DOMAIN T!EmptyMap = {} /\ T!WritesOf(T!Nil) = {}
    /\ T!Nil # T!None
    /\ \A f, x : f # T!EmptyMap => T!Table(f, x) # T!Nil /\ T!Table(f, x) # T!None
<1>1. \A f, x : T!Table(f, x).stateTables = f /\ T!Table(f, x).writeSet = x
  BY DEF T!Table
<1>2. T!Nil.stateTables = T!EmptyMap /\ T!None.stateTables = T!EmptyMap
  BY <1>1 DEF T!Nil, T!None
<1>3. DOMAIN T!EmptyMap = {} /\ T!WritesOf(T!Nil) = {}
  BY DEF T!EmptyMap, T!WritesOf
<1>4. T!Nil # T!None
  <2>1. T!Nil.writeSet = {"nil"} /\ T!None.writeSet = {"none"}
    BY <1>1 DEF T!Nil, T!None
  <2>2. {"nil"} # {"none"}
    OBVIOUS
  <2> QED
    BY <2>1, <2>2
<1> QED
  BY <1>1, <1>2, <1>3, <1>4

\* What a worker builds is the table of the transactions it listed.
LEMMA BuildsTable ==
    ASSUME rwSets \in TableWorkloads, NEW c \in SUBSET TableTxs, NEW t,
           t = IF c = {} THEN T!Nil
               ELSE T!Table([a \in UNION {rwSets[x].ReadSet \cup rwSets[x].WriteSet : x \in c} |->
                                T!Sorted(T!OperationsOn(a, c))],
                            UNION {rwSets[x].WriteSet : x \in c})
    PROVE  TableOf(t, c)
<1> DEFINE touched == UNION {rwSets[x].ReadSet \cup rwSets[x].WriteSet : x \in c}
           lists == [a \in touched |-> T!Sorted(T!OperationsOn(a, c))]
<1>1. touched = {a \in TableAddrs : T!OperationsOn(a, c) # {}}
  <2>1. /\ \A a : T!OperationsOn(a, c) # {} <=> \E x \in c : a \in rwSets[x].ReadSet \cup rwSets[x].WriteSet
        /\ \A x \in c : rwSets[x].ReadSet \in SUBSET TableAddrs /\ rwSets[x].WriteSet \in SUBSET TableAddrs
    BY OperationsWhere
  <2>2. \A a : a \in touched <=> \E x \in c : a \in rwSets[x].ReadSet \cup rwSets[x].WriteSet
    OBVIOUS
  <2>3. \A a \in touched : a \in TableAddrs
    BY <2>1, <2>2
  <2> HIDE DEF touched
  <2> QED
    BY <2>1, <2>2, <2>3
<1>2. CASE c = {}
  <2>1. t = T!Nil
    BY <1>2
  <2>2. \A a : T!OperationsOn(a, c) = {}
    BY <1>2, OperationsWhere
  <2>3. Written(c) = {}
    BY <1>2 DEF Written
  <2> QED
    BY <2>1, <2>2, <2>3, TableFields DEF TableOf
<1>3. CASE c # {}
  <2>1. t = T!Table(lists, Written(c))
    BY <1>3 DEF Written
  <2>2. Written(c) \in SUBSET touched
    BY DEF Written
  <2>3. DOMAIN lists = touched /\ \A a \in touched : lists[a] = T!Sorted(T!OperationsOn(a, c))
    OBVIOUS
  <2> HIDE DEF lists, touched
  <2>4. t.stateTables = lists /\ t.writeSet = Written(c)
    BY <2>1, TableFields
  <2>5. \A a \in touched : SortedList(lists[a], T!OperationsOn(a, c))
    <3> SUFFICES ASSUME NEW a \in touched PROVE SortedList(lists[a], T!OperationsOn(a, c))
      OBVIOUS
    <3>1. PICK ops \in SUBSET T!Operation : ops = T!OperationsOn(a, c) /\ IsFiniteSet(ops)
      BY OperationsIn
    <3>2. SortedList(T!Sorted(ops), ops)
      BY <3>1, SortedSorts
    <3> QED
      BY <2>3, <3>1, <3>2
  <2>6. t # T!Nil /\ t # T!None
    <3>1. ASSUME lists = T!EmptyMap
          PROVE  t.writeSet = {}
      <4>1. touched = {}
        BY <2>3, <3>1, TableFields
      <4> QED
        BY <2>2, <2>4, <4>1
    <3>2. T!Nil.writeSet # {} /\ T!None.writeSet # {}
      BY TableFields DEF T!Nil, T!None
    <3>3. CASE lists = T!EmptyMap
      BY <3>1, <3>2, <3>3
    <3>4. CASE lists # T!EmptyMap
      BY <2>1, <3>4, TableFields
    <3> QED
      BY <3>3, <3>4
  <2>7. T!WritesOf(t) = Written(c)
    BY <2>4, <2>6 DEF T!WritesOf
  <2> QED
    BY <1>1, <2>3, <2>4, <2>5, <2>6, <2>7 DEF TableOf
<1> QED
  BY <1>2, <1>3

\* The list of an address in the merged table.
MergedList(f, g, a) ==
    IF a \notin DOMAIN g THEN f[a]
    ELSE IF a \notin DOMAIN f THEN g[a] ELSE T!MergeTwoLists(f[a], g[a])

LEMMA MergedLists ==
    ASSUME NEW f, NEW g
    PROVE  /\ DOMAIN T!MergedTables(f, g) = DOMAIN f \cup DOMAIN g
           /\ \A a \in DOMAIN f \cup DOMAIN g : T!MergedTables(f, g)[a] = MergedList(f, g, a)
<1> DEFINE list(a) == CASE a \notin DOMAIN g -> f[a]
                        [] a \notin DOMAIN f -> g[a]
                        [] OTHER -> T!MergeTwoLists(f[a], g[a])
<1>1. T!MergedTables(f, g) = [a \in DOMAIN f \cup DOMAIN g |-> list(a)]
  BY DEF T!MergedTables
<1>2. ASSUME NEW a \in DOMAIN f \cup DOMAIN g
      PROVE  list(a) = MergedList(f, g, a)
  <2>1. CASE a \notin DOMAIN g
    <3>1. ~(a \notin DOMAIN f)
      BY <1>2, <2>1
    <3> QED
      BY <2>1, <3>1 DEF MergedList
  <2>2. CASE a \in DOMAIN g /\ a \notin DOMAIN f
    <3>1. ~(a \notin DOMAIN g) /\ a \notin DOMAIN f
      BY <2>2
    <3> QED
      BY <3>1 DEF MergedList
  <2>3. CASE a \in DOMAIN g /\ a \in DOMAIN f
    <3>1. ~(a \notin DOMAIN g) /\ ~(a \notin DOMAIN f)
      BY <2>3
    <3> QED
      BY <3>1 DEF MergedList
  <2> QED
    BY <2>1, <2>2, <2>3
<1> HIDE DEF list
<1> QED
  BY <1>1, <1>2

\* The tables of transactions apart make that of both groups together.
LEMMA MergesTables ==
    ASSUME rwSets \in TableWorkloads, NEW c \in SUBSET TableTxs, NEW d \in SUBSET TableTxs,
           c \cap d = {}, NEW t, NEW u, TableOf(t, c), TableOf(u, d)
    PROVE  TableOf(T!Merge(t, u), c \cup d)
<1> DEFINE lists == T!MergedTables(t.stateTables, u.stateTables)
           merged == T!Merge(t, u)
<1>1. /\ DOMAIN t.stateTables = {a \in TableAddrs : T!OperationsOn(a, c) # {}}
      /\ DOMAIN u.stateTables = {a \in TableAddrs : T!OperationsOn(a, d) # {}}
      /\ \A a \in DOMAIN t.stateTables : SortedList(t.stateTables[a], T!OperationsOn(a, c))
      /\ \A a \in DOMAIN u.stateTables : SortedList(u.stateTables[a], T!OperationsOn(a, d))
      /\ T!WritesOf(t) = Written(c) /\ T!WritesOf(u) = Written(d)
  BY DEF TableOf
<1>2. /\ \A a : T!OperationsOn(a, c \cup d) = T!OperationsOn(a, c) \cup T!OperationsOn(a, d)
      /\ \A a : T!OperationsOn(a, c) \cap T!OperationsOn(a, d) = {}
      /\ Written(c \cup d) = Written(c) \cup Written(d)
  <2>1. ASSUME NEW a
        PROVE  /\ T!OperationsOn(a, c \cup d) = T!OperationsOn(a, c) \cup T!OperationsOn(a, d)
               /\ T!OperationsOn(a, c) \cap T!OperationsOn(a, d) = {}
               /\ Written(c \cup d) = Written(c) \cup Written(d)
    BY OperationsOfAll
  <2> QED
    BY <2>1
<1>3. DOMAIN lists = {a \in TableAddrs : T!OperationsOn(a, c \cup d) # {}}
  <2>1. DOMAIN lists = DOMAIN t.stateTables \cup DOMAIN u.stateTables
    BY MergedLists
  <2> QED
    BY <1>1, <1>2, <2>1
<1>4. ASSUME NEW a \in DOMAIN lists
      PROVE  SortedList(lists[a], T!OperationsOn(a, c \cup d))
  <2>1. a \in DOMAIN t.stateTables \cup DOMAIN u.stateTables
    BY MergedLists
  <2>2. lists[a] = MergedList(t.stateTables, u.stateTables, a)
    BY <2>1, MergedLists
  <2> HIDE DEF lists
  <2>3. CASE a \notin DOMAIN u.stateTables
    <3>1. a \in TableAddrs /\ a \in DOMAIN t.stateTables
      BY <1>1, <2>1, <2>3
    <3>2. lists[a] = t.stateTables[a] /\ T!OperationsOn(a, d) = {}
      BY <1>1, <2>2, <2>3, <3>1 DEF MergedList
    <3>3. T!OperationsOn(a, c \cup d) = T!OperationsOn(a, c)
      BY <1>2, <3>2
    <3> QED
      BY <1>1, <3>1, <3>2, <3>3
  <2>4. CASE a \in DOMAIN u.stateTables /\ a \notin DOMAIN t.stateTables
    <3>1. a \in TableAddrs
      BY <1>1, <2>4
    <3>2. lists[a] = u.stateTables[a] /\ T!OperationsOn(a, c) = {}
      BY <1>1, <2>2, <2>4, <3>1 DEF MergedList
    <3>3. T!OperationsOn(a, c \cup d) = T!OperationsOn(a, d)
      BY <1>2, <3>2
    <3> QED
      BY <1>1, <2>4, <3>2, <3>3
  <2>5. CASE a \in DOMAIN u.stateTables /\ a \in DOMAIN t.stateTables
    <3>1. PICK p, q, X, Y : /\ p = t.stateTables[a] /\ q = u.stateTables[a]
                            /\ X = T!OperationsOn(a, c) /\ Y = T!OperationsOn(a, d)
      OBVIOUS
    <3>2. SortedList(p, X) /\ SortedList(q, Y) /\ X \cap Y = {}
      BY <1>1, <1>2, <2>5, <3>1
    <3>3. SortedList(T!MergeTwoLists(p, q), X \cup Y)
      BY <3>2, MergeSorts
    <3>4. lists[a] = T!MergeTwoLists(p, q)
      BY <2>2, <2>5, <3>1 DEF MergedList
    <3> QED
      BY <1>2, <3>1, <3>3, <3>4
  <2> QED
    BY <2>3, <2>4, <2>5
<1>5. merged = IF lists = T!EmptyMap THEN T!Nil ELSE T!Table(lists, T!WritesOf(t) \cup T!WritesOf(u))
  BY DEF T!Merge, T!ListsOf
<1> HIDE DEF lists, merged
<1>6. CASE lists = T!EmptyMap
  <2>1. merged = T!Nil /\ DOMAIN lists = {}
    BY <1>5, <1>6, TableFields
  <2>2. Written(c \cup d) = {}
    <3>1. \A a \in TableAddrs : T!OperationsOn(a, c \cup d) = {}
      BY <1>3, <2>1
    <3>2. c \cup d \in SUBSET TableTxs
      OBVIOUS
    <3>3. ASSUME NEW x \in c \cup d, NEW a \in rwSets[x].WriteSet
          PROVE  FALSE
      <4>1. a \in TableAddrs /\ T!OperationsOn(a, c \cup d) # {}
        BY <3>2, OperationsWhere
      <4> QED
        BY <3>1, <4>1
    <3> QED
      BY <3>3 DEF Written
  <2>3. DOMAIN merged.stateTables = {} /\ T!WritesOf(merged) = {} /\ merged # T!None
    BY <2>1, TableFields
  <2> QED
    BY <1>3, <2>1, <2>2, <2>3 DEF TableOf, merged
<1>7. CASE lists # T!EmptyMap
  <2>1. merged = T!Table(lists, Written(c \cup d))
    BY <1>1, <1>2, <1>5, <1>7
  <2>2. /\ merged.stateTables = lists /\ merged.writeSet = Written(c \cup d)
        /\ merged # T!Nil /\ merged # T!None
    BY <1>7, <2>1, TableFields
  <2>3. T!WritesOf(merged) = Written(c \cup d)
    BY <2>2 DEF T!WritesOf
  <2> QED
    BY <1>3, <1>4, <2>2, <2>3 DEF TableOf, merged
<1> QED
  BY <1>6, <1>7

Apart(f) == \A v, w \in TableWorkers : v # w => f[v] \cap f[w] = {}

\* Every table is that of the transactions gathered in it; each transaction is
\* in one table, or still listed by a worker that has not built its own.
TablesState(un, ts, gs) ==
    /\ un \subseteq TableWorkers
    /\ listed \in [TableWorkers -> SUBSET TableTxs] /\ Apart(listed)
    /\ gs \in [TableWorkers -> SUBSET TableTxs] /\ Apart(gs)
    /\ ts = [w \in TableWorkers |-> ts[w]]
    /\ \A w \in TableWorkers : /\ ts[w] = T!None => gs[w] = {}
                               /\ ts[w] # T!None => TableOf(ts[w], gs[w])
    /\ \A w \in un : ts[w] = T!None
    /\ \A w \in un, v \in TableWorkers : listed[w] \cap gs[v] = {}
    /\ \A x \in TableTxs : \/ \E w \in un : x \in listed[w]
                           \/ \E w \in TableWorkers : x \in gs[w]

\* What is published is the table of all transactions.
TablesShown(ss, ws, nil, dn) ==
    /\ nil = FALSE
    /\ dn => /\ ws = Written(TableTxs)
             /\ DOMAIN ss = {a \in TableAddrs : T!OperationsOn(a, TableTxs) # {}}
             /\ \A a \in DOMAIN ss : SortedList(ss[a], T!OperationsOn(a, TableTxs))

TablesIInv ==
    /\ rwSets \in TableWorkloads
    /\ TablesState(unbuilt, threadTables, gathered)
    /\ TablesShown(stateTables, writeSet, isNil, done)

TablesInv == stage = "tables" => TablesIInv

\* What a step that changes only the tables must show.
LEMMA TablesKept ==
    ASSUME TablesIInv, UNCHANGED <<rwSets, listed>>,
           TablesState(unbuilt', threadTables', gathered'),
           TablesShown(stateTables', writeSet', isNil', done')
    PROVE  TablesIInv'
<1>1. \A a, c : T!OperationsOn(a, c)' = T!OperationsOn(a, c)
  BY DEF T!OperationsOn
<1>2. \A c : Written(c)' = Written(c)
  BY DEF Written
<1>3. \A t, c : TableOf(t, c)' <=> TableOf(t, c)
  BY <1>1, <1>2 DEF TableOf
<1>4. TablesState(unbuilt, threadTables, gathered)'
  BY <1>3 DEF TablesState, Apart
<1>5. TablesShown(stateTables, writeSet, isNil, done)'
  BY <1>1, <1>2 DEF TablesShown
<1> QED
  BY <1>4, <1>5 DEF TablesIInv

LEMMA BuildTableKeeps ==
    ASSUME TablesIInv, NEW w \in TableWorkers, T!BuildStateTable(w)
    PROVE  TablesIInv'
<1> DEFINE txs1 == listed[w]
           built == IF txs1 = {} THEN T!Nil
                    ELSE T!Table([a \in UNION {rwSets[x].ReadSet \cup rwSets[x].WriteSet : x \in txs1} |->
                                      T!Sorted(T!OperationsOn(a, txs1))],
                                 UNION {rwSets[x].WriteSet : x \in txs1})
<1>1. /\ rwSets \in TableWorkloads /\ TablesState(unbuilt, threadTables, gathered)
      /\ TablesShown(stateTables, writeSet, isNil, done)
  BY DEF TablesIInv
<1>2. /\ w \in unbuilt /\ unbuilt' = unbuilt \ {w}
      /\ threadTables' = [threadTables EXCEPT ![w] = built]
      /\ gathered' = [gathered EXCEPT ![w] = txs1]
      /\ UNCHANGED <<rwSets, listed, stateTables, writeSet, isNil, done>>
  BY DEF T!BuildStateTable, T!published
<1>3. txs1 \in SUBSET TableTxs
  BY <1>1 DEF TablesState
<1>4. TableOf(built, txs1)
  BY <1>1, <1>3, BuildsTable
<1> HIDE DEF built
<1>5. PICK un, ts, gs : un = unbuilt' /\ ts = threadTables' /\ gs = gathered'
  OBVIOUS
<1>6. /\ ts = [v \in TableWorkers |-> ts[v]] /\ ts[w] = built
      /\ \A v \in TableWorkers : v # w => ts[v] = threadTables[v]
  BY <1>1, <1>2, <1>5 DEF TablesState
<1>7. /\ gs \in [TableWorkers -> SUBSET TableTxs] /\ gs[w] = listed[w]
      /\ \A v \in TableWorkers : v # w => gs[v] = gathered[v]
  BY <1>1, <1>2, <1>3, <1>5 DEF TablesState
<1>8. un = unbuilt \ {w} /\ w \in unbuilt
  BY <1>2, <1>5
<1>9. Apart(gs)
  <2> SUFFICES ASSUME NEW u \in TableWorkers, NEW v \in TableWorkers, u # v
               PROVE  gs[u] \cap gs[v] = {}
    BY DEF Apart
  <2>1. \A v1 \in TableWorkers : listed[w] \cap gathered[v1] = {}
    BY <1>1, <1>8 DEF TablesState
  <2>2. gathered[u] \cap gathered[v] = {}
    BY <1>1 DEF TablesState, Apart
  <2> QED
    BY <1>7, <2>1, <2>2
<1>10. ASSUME NEW v \in TableWorkers
       PROVE  /\ ts[v] = T!None => gs[v] = {}
              /\ ts[v] # T!None => TableOf(ts[v], gs[v])
  <2>1. CASE v = w
    BY <1>4, <1>6, <1>7, <2>1 DEF TableOf
  <2>2. CASE v # w
    BY <1>1, <1>6, <1>7, <2>2 DEF TablesState
  <2> QED
    BY <2>1, <2>2
<1>11. un \subseteq TableWorkers /\ \A v \in un : ts[v] = T!None
  BY <1>1, <1>6, <1>8 DEF TablesState
<1>12. ASSUME NEW u \in un, NEW v \in TableWorkers
       PROVE  listed[u] \cap gs[v] = {}
  <2>1. u # w /\ u \in unbuilt /\ u \in TableWorkers
    BY <1>1, <1>8 DEF TablesState
  <2>2. listed[u] \cap listed[w] = {} /\ listed[u] \cap gathered[v] = {}
    BY <1>1, <2>1 DEF TablesState, Apart
  <2> QED
    BY <1>7, <2>2
<1>13. ASSUME NEW x \in TableTxs
       PROVE  (\E u \in un : x \in listed[u]) \/ (\E u \in TableWorkers : x \in gs[u])
  <2>1. (\E u \in unbuilt : x \in listed[u]) \/ (\E u \in TableWorkers : x \in gathered[u])
    BY <1>1 DEF TablesState
  <2>2. CASE \E u \in unbuilt : x \in listed[u]
    BY <1>7, <1>8, <2>2
  <2>3. ASSUME NEW u \in TableWorkers, x \in gathered[u]
        PROVE  u # w
    BY <1>1, <1>8, <2>3 DEF TablesState
  <2> QED
    BY <1>7, <2>1, <2>2, <2>3
<1>14. TablesState(un, ts, gs)
  BY <1>1, <1>6, <1>7, <1>9, <1>10, <1>11, <1>12, <1>13 DEF TablesState
<1> QED
  BY <1>1, <1>2, <1>5, <1>14, TablesKept

LEMMA MergeTablesKeep ==
    ASSUME TablesIInv, NEW w \in TableWorkers, NEW v \in TableWorkers, T!MergeStateTables(w, v)
    PROVE  TablesIInv'
<1> DEFINE merged == T!Merge(threadTables[w], threadTables[v])
<1>1. /\ rwSets \in TableWorkloads /\ TablesState(unbuilt, threadTables, gathered)
      /\ TablesShown(stateTables, writeSet, isNil, done)
  BY DEF TablesIInv
<1>2. /\ w # v /\ threadTables[w] # T!None /\ threadTables[v] # T!None
      /\ threadTables' = [threadTables EXCEPT ![w] = merged, ![v] = T!None]
      /\ gathered' = [gathered EXCEPT ![w] = gathered[w] \cup gathered[v], ![v] = {}]
      /\ unbuilt' = unbuilt
      /\ UNCHANGED <<rwSets, listed, stateTables, writeSet, isNil, done>>
  BY DEF T!MergeStateTables, T!published
<1>3. /\ gathered[w] \in SUBSET TableTxs /\ gathered[v] \in SUBSET TableTxs
      /\ gathered[w] \cap gathered[v] = {}
      /\ TableOf(threadTables[w], gathered[w]) /\ TableOf(threadTables[v], gathered[v])
      /\ gathered \in [TableWorkers -> SUBSET TableTxs]
      /\ threadTables = [k \in TableWorkers |-> threadTables[k]]
  BY <1>1, <1>2 DEF TablesState, Apart
<1>4. PICK c, d, t, u : /\ c = gathered[w] /\ d = gathered[v]
                        /\ t = threadTables[w] /\ u = threadTables[v]
  OBVIOUS
<1>5. TableOf(T!Merge(t, u), c \cup d)
  BY <1>1, <1>3, <1>4, MergesTables
<1>6. TableOf(merged, gathered[w] \cup gathered[v])
  BY <1>4, <1>5
<1> HIDE DEF merged
<1>7. PICK ts, gs : ts = threadTables' /\ gs = gathered'
  OBVIOUS
<1>8. /\ ts = [k \in TableWorkers |-> ts[k]] /\ ts[w] = merged /\ ts[v] = T!None
      /\ \A k \in TableWorkers : k # w /\ k # v => ts[k] = threadTables[k]
  BY <1>2, <1>3, <1>7
<1>9. /\ gs \in [TableWorkers -> SUBSET TableTxs]
      /\ gs[w] = gathered[w] \cup gathered[v] /\ gs[v] = {}
      /\ \A k \in TableWorkers : k # w /\ k # v => gs[k] = gathered[k]
  BY <1>2, <1>3, <1>7
<1>10. Apart(gs)
  <2> SUFFICES ASSUME NEW j \in TableWorkers, NEW k \in TableWorkers, j # k
               PROVE  gs[j] \cap gs[k] = {}
    BY DEF Apart
  <2>1. \A m, n \in TableWorkers : m # n => gathered[m] \cap gathered[n] = {}
    BY <1>1 DEF TablesState, Apart
  <2>2. CASE j = v \/ k = v
    BY <1>9, <2>2
  <2>3. CASE j # v /\ k # v /\ j = w
    <3>1. gathered[w] \cap gathered[k] = {} /\ gathered[v] \cap gathered[k] = {}
      BY <2>1, <2>3
    <3> QED
      BY <1>9, <2>3, <3>1
  <2>4. CASE j # v /\ k # v /\ k = w
    <3>1. gathered[j] \cap gathered[w] = {} /\ gathered[j] \cap gathered[v] = {}
      BY <2>1, <2>4
    <3> QED
      BY <1>9, <2>4, <3>1
  <2>5. CASE j # v /\ k # v /\ j # w /\ k # w
    BY <1>9, <2>1, <2>5
  <2> QED
    BY <2>2, <2>3, <2>4, <2>5
<1>11. ASSUME NEW k \in TableWorkers
       PROVE  /\ ts[k] = T!None => gs[k] = {}
              /\ ts[k] # T!None => TableOf(ts[k], gs[k])
  <2>1. CASE k = w
    BY <1>6, <1>8, <1>9, <2>1 DEF TableOf
  <2>2. CASE k = v
    BY <1>8, <1>9, <2>2
  <2>3. CASE k # w /\ k # v
    BY <1>1, <1>8, <1>9, <2>3 DEF TablesState
  <2> QED
    BY <2>1, <2>2, <2>3
<1>12. ASSUME NEW k \in unbuilt
       PROVE  ts[k] = T!None /\ k \in TableWorkers
  <2>1. k # w /\ k # v /\ threadTables[k] = T!None /\ k \in TableWorkers
    BY <1>1, <1>2 DEF TablesState
  <2> QED
    BY <1>8, <2>1
<1>13. ASSUME NEW j \in unbuilt, NEW k \in TableWorkers
       PROVE  listed[j] \cap gs[k] = {}
  <2>1. \A m \in TableWorkers : listed[j] \cap gathered[m] = {}
    BY <1>1 DEF TablesState
  <2>2. gs[k] = gathered[k] \/ gs[k] = {} \/ gs[k] = gathered[w] \cup gathered[v]
    BY <1>9
  <2> QED
    BY <2>1, <2>2
<1>14. ASSUME NEW x \in TableTxs
       PROVE  (\E k \in unbuilt : x \in listed[k]) \/ (\E k \in TableWorkers : x \in gs[k])
  <2>1. (\E k \in unbuilt : x \in listed[k]) \/ (\E k \in TableWorkers : x \in gathered[k])
    BY <1>1 DEF TablesState
  <2>2. ASSUME NEW k \in TableWorkers, x \in gathered[k]
        PROVE  \E m \in TableWorkers : x \in gs[m]
    <3>1. CASE k = w \/ k = v
      BY <1>9, <2>2, <3>1
    <3>2. CASE k # w /\ k # v
      BY <1>9, <2>2, <3>2
    <3> QED
      BY <3>1, <3>2
  <2> QED
    BY <2>1, <2>2
<1>15. unbuilt \subseteq TableWorkers /\ listed \in [TableWorkers -> SUBSET TableTxs] /\ Apart(listed)
  BY <1>1 DEF TablesState
<1>16. TablesState(unbuilt, ts, gs)
  BY <1>8, <1>9, <1>10, <1>11, <1>12, <1>13, <1>14, <1>15 DEF TablesState
<1> QED
  BY <1>1, <1>2, <1>7, <1>16, TablesKept

LEMMA PublishTableKeeps ==
    ASSUME TablesIInv, NEW w \in TableWorkers, T!Publish(w)
    PROVE  TablesIInv'
<1>1. /\ rwSets \in TableWorkloads /\ TablesState(unbuilt, threadTables, gathered)
      /\ TablesShown(stateTables, writeSet, isNil, done)
  BY DEF TablesIInv
<1>2. /\ ~done /\ unbuilt = {} /\ threadTables[w] # T!None
      /\ \A v \in TableWorkers \ {w} : threadTables[v] = T!None
      /\ UNCHANGED <<rwSets, listed, unbuilt, threadTables, gathered>>
      /\ threadTables[w] # T!Nil => /\ stateTables' = threadTables[w].stateTables
                                    /\ writeSet' = threadTables[w].writeSet
                                    /\ isNil' = isNil
  BY DEF T!Publish
<1>3. PICK t : t = threadTables[w]
  OBVIOUS
<1>4. gathered[w] = TableTxs
  <2>1. gathered[w] \in SUBSET TableTxs
    BY <1>1 DEF TablesState
  <2>2. \A v \in TableWorkers : v # w => gathered[v] = {}
    BY <1>1, <1>2 DEF TablesState
  <2>3. \A x \in TableTxs : \E v \in TableWorkers : x \in gathered[v]
    BY <1>1, <1>2 DEF TablesState
  <2> QED
    BY <2>1, <2>2, <2>3
<1>5. TableOf(t, TableTxs)
  BY <1>1, <1>2, <1>3, <1>4 DEF TablesState
<1>6. t # T!Nil
  <2>1. PICK x \in TableTxs : rwSets[x].ReadSet \cup rwSets[x].WriteSet # {}
    BY <1>1, Assumptions DEF T!WorkloadsAssumption
  <2>2. TableTxs \in SUBSET TableTxs
    OBVIOUS
  <2>3. PICK a : a \in rwSets[x].ReadSet \cup rwSets[x].WriteSet
    BY <2>1
  <2>4. a \in TableAddrs /\ T!OperationsOn(a, TableTxs) # {}
    BY <1>1, <2>2, <2>3, OperationsWhere
  <2>5. DOMAIN t.stateTables # {}
    BY <1>5, <2>4 DEF TableOf
  <2> QED
    BY <2>5, TableFields
<1>7. T!WritesOf(t) = t.writeSet
  BY <1>6 DEF T!WritesOf
<1>8. PICK ss, ws : ss = t.stateTables /\ ws = t.writeSet
  OBVIOUS
<1>9. /\ ws = Written(TableTxs)
      /\ DOMAIN ss = {a \in TableAddrs : T!OperationsOn(a, TableTxs) # {}}
      /\ \A a \in DOMAIN ss : SortedList(ss[a], T!OperationsOn(a, TableTxs))
  BY <1>5, <1>7, <1>8 DEF TableOf
<1>10. isNil = FALSE
  BY <1>1 DEF TablesShown
<1>11. TablesShown(ss, ws, isNil, done')
  BY <1>9, <1>10 DEF TablesShown
<1>12. stateTables' = ss /\ writeSet' = ws /\ isNil' = isNil
  BY <1>2, <1>3, <1>6, <1>8
<1>13. TablesShown(stateTables', writeSet', isNil', done')
  BY <1>11, <1>12
<1>14. TablesState(unbuilt', threadTables', gathered')
  BY <1>1, <1>2
<1> QED
  BY <1>2, <1>13, <1>14, TablesKept

LEMMA TablesStutter ==
    ASSUME TablesIInv, UNCHANGED T!vars
    PROVE  TablesIInv'
<1>1. /\ UNCHANGED <<rwSets, listed>>
      /\ TablesState(unbuilt', threadTables', gathered')
      /\ TablesShown(stateTables', writeSet', isNil', done')
  BY DEF TablesIInv, T!vars, T!published
<1> QED
  BY <1>1, TablesKept

LEMMA TablesNext ==
    ASSUME TablesIInv, T!Next
    PROVE  TablesIInv'
<1>1. ASSUME NEW w \in TableWorkers, T!BuildStateTable(w)
      PROVE  TablesIInv'
  BY <1>1, BuildTableKeeps
<1>2. ASSUME NEW w \in TableWorkers, NEW v \in TableWorkers, T!MergeStateTables(w, v)
      PROVE  TablesIInv'
  BY <1>2, MergeTablesKeep
<1>3. ASSUME NEW w \in TableWorkers, T!Publish(w)
      PROVE  TablesIInv'
  BY <1>3, PublishTableKeeps
<1>4. CASE UNCHANGED T!vars
  BY <1>4, TablesStutter
<1> QED
  BY <1>1, <1>2, <1>3, <1>4 DEF T!Next, T!Terminated

LEMMA TablesInit ==
    ASSUME T!Init
    PROVE  TablesIInv
<1>1. /\ rwSets \in TableWorkloads /\ listed \in [TableWorkers -> SUBSET TableTxs]
      /\ UNION {listed[w] : w \in TableWorkers} = TableTxs
      /\ \A v, w \in TableWorkers : v # w => listed[v] \cap listed[w] = {}
      /\ unbuilt = TableWorkers /\ threadTables = [w \in TableWorkers |-> T!None]
      /\ gathered = [w \in TableWorkers |-> {}] /\ isNil = FALSE /\ done = FALSE
  BY DEF T!Init
<1>2. PICK none : none = T!None
  OBVIOUS
<1>3. threadTables = [w \in TableWorkers |-> none]
  BY <1>1, <1>2
<1>4. \A w \in TableWorkers : threadTables[w] = none /\ gathered[w] = {}
  BY <1>1, <1>3
<1>5. threadTables = [w \in TableWorkers |-> threadTables[w]]
  BY <1>3
<1>6. \A x \in TableTxs : \E w \in unbuilt : x \in listed[w]
  BY <1>1
<1>7. Apart(gathered) /\ Apart(listed) /\ gathered \in [TableWorkers -> SUBSET TableTxs]
  BY <1>1, <1>4 DEF Apart
<1>8. TablesState(unbuilt, threadTables, gathered)
  BY <1>1, <1>2, <1>4, <1>5, <1>6, <1>7 DEF TablesState
<1>9. TablesShown(stateTables, writeSet, isNil, done)
  BY <1>1 DEF TablesShown
<1> QED
  BY <1>1, <1>8, <1>9 DEF TablesIInv

\* For any batch, addresses, workers and way to list the transactions, in any order
\* of building and merging: every table has, for each address its transactions touch,
\* the list of their operations on it, each once and in order, and what they write;
\* no transaction is lost or in two tables, and the published table is that of all.
THEOREM TablesInvariance == Spec => []TablesInv
<1>1. Init => TablesInv
  BY TablesInit DEF Init, TablesInv
<1>2. ASSUME TablesInv, [Next]_vars
      PROVE  TablesInv'
  <2>1. CASE UNCHANGED vars
    <3>1. stage' = stage /\ UNCHANGED T!vars
      BY <2>1 DEF vars, tableVars, T!vars, T!published
    <3> QED
      BY <1>2, <3>1, TablesStutter DEF TablesInv
  <2>2. CASE Next
    <3>1. stage' = stage /\ (stage = "tables" => T!Next)
      BY <2>2 DEF Next
    <3> QED
      BY <1>2, <3>1, TablesNext DEF TablesInv
  <2> QED
    BY <1>2, <2>1, <2>2
<1> QED
  BY <1>1, <1>2, PTL DEF Spec

\* The groups of a published list are what the conflict graph starts from.
LEMMA PublishedGroups ==
    ASSUME rwSets \in TableWorkloads, NEW a, NEW s, SortedList(s, T!OperationsOn(a, TableTxs)),
           NEW r, r = T!GroupOperationsByTx(s)
    PROVE  /\ Len(r) = T!Cardinality({r[i].TxID : i \in DOMAIN r})
           /\ T!ToSet(r) = {[TxID     |-> t,
                             HasRead  |-> a \in rwSets[t].ReadSet,
                             HasWrite |-> a \in rwSets[t].WriteSet] :
                            t \in {u \in TableTxs : a \in rwSets[u].ReadSet \cup rwSets[u].WriteSet}}
<1>0. PICK ops : ops = T!OperationsOn(a, TableTxs)
  OBVIOUS
<1> DEFINE ids == {o.TxID : o \in ops}
           known == {u \in TableTxs : a \in rwSets[u].ReadSet \cup rwSets[u].WriteSet}
           entry(t) == Entry(t, a \in rwSets[t].ReadSet, a \in rwSets[t].WriteSet)
           found(t) == Entry(t, [TxID |-> t, Type |-> 0] \in ops, [TxID |-> t, Type |-> 1] \in ops)
<1>1. /\ Len(r) = T!Cardinality({r[k].TxID : k \in DOMAIN r})
      /\ T!ToSet(r) = {found(t) : t \in ids}
  <2>1. SortedList(s, ops)
    BY <1>0
  <2>2. Len(r) = T!Cardinality({r[k].TxID : k \in DOMAIN r})
    BY <2>1, GroupsExact
  <2>3. T!ToSet(r) = {Entry(t, [TxID |-> t, Type |-> 0] \in ops, [TxID |-> t, Type |-> 1] \in ops) :
                      t \in {o.TxID : o \in ops}}
    BY <2>1, GroupsExact, Zenon
  <2> QED
    BY <2>2, <2>3, Zenon
<1>2. TableTxs \in SUBSET TableTxs
  OBVIOUS
<1>3. /\ \A x : [TxID |-> x, Type |-> 0] \in ops <=> x \in TableTxs /\ a \in rwSets[x].ReadSet
      /\ \A x : [TxID |-> x, Type |-> 1] \in ops <=> x \in TableTxs /\ a \in rwSets[x].WriteSet
  BY <1>0, <1>2, OperationsWhere
<1>4. ids = known
  <2>1. \A o \in ops : o \in T!Operation /\ o.TxID \in TableTxs
    BY <1>0, <1>2, OperationsIn
  <2>2. ASSUME NEW o \in ops
        PROVE  o.TxID \in known
    <3>1. o = [TxID |-> o.TxID, Type |-> o.Type] /\ o.Type \in {0, 1} /\ o.TxID \in TableTxs
      BY <2>1, OperationKeys
    <3>2. PICK x \in TableTxs, n \in {0, 1} : x = o.TxID /\ n = o.Type /\ o = [TxID |-> x, Type |-> n]
      BY <3>1
    <3>3. CASE n = 0
      BY <1>3, <2>1, <3>2, <3>3
    <3>4. CASE n = 1
      BY <1>3, <2>1, <3>2, <3>4
    <3> QED
      BY <3>2, <3>3, <3>4
  <2>3. ASSUME NEW x \in known
        PROVE  x \in ids
    <3>1. [TxID |-> x, Type |-> 0].TxID = x /\ [TxID |-> x, Type |-> 1].TxID = x
      OBVIOUS
    <3>2. [TxID |-> x, Type |-> 0] \in ops \/ [TxID |-> x, Type |-> 1] \in ops
      BY <1>3
    <3> QED
      BY <3>1, <3>2
  <2> HIDE DEF known
  <2> QED
    BY <2>2, <2>3
<1>5. ASSUME NEW t \in known
      PROVE  found(t) = entry(t)
  <2>1. /\ [TxID |-> t, Type |-> 0] \in ops <=> a \in rwSets[t].ReadSet
        /\ [TxID |-> t, Type |-> 1] \in ops <=> a \in rwSets[t].WriteSet
    BY <1>3
  <2>2. /\ ([TxID |-> t, Type |-> 0] \in ops) = (a \in rwSets[t].ReadSet)
        /\ ([TxID |-> t, Type |-> 1] \in ops) = (a \in rwSets[t].WriteSet)
    BY <2>1
  <2> QED
    BY <2>2, Zenon
<1>6. {entry(t) : t \in known} = {[TxID     |-> t,
                                   HasRead  |-> a \in rwSets[t].ReadSet,
                                   HasWrite |-> a \in rwSets[t].WriteSet] : t \in known}
  BY DEF Entry
<1> HIDE DEF entry, found, ids, known
<1>7. T!ToSet(r) = {entry(t) : t \in known}
  BY <1>1, <1>4, <1>5
<1> QED
  BY <1>1, <1>6, <1>7 DEF known

\* For any batch, addresses and workers: every table is sorted and has exactly the
\* operations of its transactions, the published write set is that of the batch, there
\* is a table to publish, and its lists group into one entry for each transaction.
THEOREM ListsExactCorrect == Spec => []ListsExact
<1>1. TablesInv => ListsExact
  <2> SUFFICES ASSUME TablesIInv
               PROVE  T!ListsExact /\ T!WriteSetExact /\ T!GroupedOnce
    BY DEF TablesInv, ListsExact
  <2>1. /\ rwSets \in TableWorkloads /\ TablesState(unbuilt, threadTables, gathered)
        /\ TablesShown(stateTables, writeSet, isNil, done)
    BY DEF TablesIInv
  <2>2. T!ListsExact
    <3> SUFFICES ASSUME NEW w \in TableWorkers, threadTables[w] # T!None, NEW a \in TableAddrs,
                        NEW lists, lists = threadTables[w].stateTables,
                        NEW ops, ops = IF a \in DOMAIN lists THEN lists[a] ELSE <<>>
                 PROVE  /\ T!ToSet(ops) = T!OperationsOn(a, gathered[w])
                        /\ \A i, j \in DOMAIN ops :
                             i < j => \/ ops[i].TxID < ops[j].TxID
                                      \/ ops[i].TxID = ops[j].TxID /\ ops[i].Type < ops[j].Type
      BY DEF T!ListsExact, T!ListsOf
    <3>1. TableOf(threadTables[w], gathered[w])
      BY <2>1 DEF TablesState
    <3>2. CASE a \in DOMAIN lists
      <4>1. SortedList(ops, T!OperationsOn(a, gathered[w]))
        BY <3>1, <3>2 DEF TableOf
      <4>2. /\ ops \in Seq(T!Operation) /\ Elements(ops) = T!OperationsOn(a, gathered[w])
            /\ \A i, j \in 1 .. Len(ops) : i < j => Key(ops[i]) < Key(ops[j])
        BY <4>1 DEF SortedList
      <4>3. T!ToSet(ops) = T!OperationsOn(a, gathered[w])
        BY <4>2 DEF Elements, T!ToSet
      <4>4. DOMAIN ops = 1 .. Len(ops) /\ \A i \in 1 .. Len(ops) : ops[i] \in T!Operation
        BY <4>2
      <4>5. ASSUME NEW i \in DOMAIN ops, NEW j \in DOMAIN ops, i < j
            PROVE  \/ ops[i].TxID < ops[j].TxID
                   \/ ops[i].TxID = ops[j].TxID /\ ops[i].Type < ops[j].Type
        <5>1. PICK o \in T!Operation, p \in T!Operation : o = ops[i] /\ p = ops[j]
          BY <4>4
        <5>2. Key(o) < Key(p)
          BY <4>2, <4>4, <4>5, <5>1
        <5> QED
          BY <5>1, <5>2, OperationKeys
      <4> QED
        BY <4>3, <4>5
    <3>3. CASE a \notin DOMAIN lists
      <4>1. ops = <<>> /\ T!OperationsOn(a, gathered[w]) = {}
        BY <3>1, <3>3 DEF TableOf
      <4> QED
        BY <4>1 DEF T!ToSet
    <3> QED
      BY <3>2, <3>3
  <2>3. T!WriteSetExact
    BY <2>1 DEF T!WriteSetExact, TablesShown, Written
  <2>4. T!GroupedOnce
    <3> SUFFICES ASSUME done, NEW a \in DOMAIN stateTables,
                        NEW groups, groups = T!GroupOperationsByTx(stateTables[a])
                 PROVE  /\ Len(groups) = T!Cardinality({groups[i].TxID : i \in DOMAIN groups})
                        /\ T!ToSet(groups) =
                             {[TxID     |-> t,
                               HasRead  |-> a \in rwSets[t].ReadSet,
                               HasWrite |-> a \in rwSets[t].WriteSet] :
                              t \in {u \in TableTxs : a \in rwSets[u].ReadSet \cup rwSets[u].WriteSet}}
      BY DEF T!GroupedOnce
    <3>1. SortedList(stateTables[a], T!OperationsOn(a, TableTxs))
      BY <2>1 DEF TablesShown
    <3> QED
      BY <2>1, <3>1, PublishedGroups
  <2> QED
    BY <2>2, <2>3, <2>4
<1> QED
  BY <1>1, TablesInvariance, PTL
=============================================================================
