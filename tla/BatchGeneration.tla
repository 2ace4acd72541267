-------------------------- MODULE BatchGeneration --------------------------
(***************************************************************************)
(* How GenerateBatches cuts the transactions of a block into batches.  A   *)
(* batch ends at the transaction, its watermark, with which it has enough  *)
(* long transactions or enough transactions of either kind.                *)
(***************************************************************************)
EXTENDS Integers, Sequences

CONSTANTS
    CpuCores,           \* the number of threads the generator is made for
    WaterMarkAlpha,     \* alpha and beta, in tenths
    WaterMarkBeta,
    MaxTxs              \* bound: the longest block

\* What is assumed of the constants, by BatchStages.
CoresAssumption == CpuCores \in Nat \ {0}
WaterMarkAssumption ==
    /\ WaterMarkAlpha \in Nat
    /\ WaterMarkBeta \in Nat
    /\ CpuCores * WaterMarkAlpha >= 10
    /\ CpuCores * WaterMarkBeta >= 10
MaxTxsAssumption == MaxTxs \in Nat

Kinds == {"long", "short"}

\* int() of the product drops the fraction.
longTxThreshold == (CpuCores * WaterMarkAlpha) \div 10
totalTxThreshold == (CpuCores * WaterMarkBeta) \div 10

VARIABLES
    txs,            \* the kind of every transaction of the block
    txIdx,          \* how many of them are batched
    batches,        \* the batches that are complete
    currentBatch,
    longTxCount,
    totalTxCount,
    done

vars == <<txs, txIdx, batches, currentBatch, longTxCount, totalTxCount, done>>

\* A batch that has no transaction yet; WatermarkID is 0 until it is set.
NewBatch(id) == [ID |-> id, LongTxs |-> <<>>, ShortTxs |-> <<>>, AllTxs |-> <<>>,
                 WatermarkID |-> 0]

BatchType == [ID : Nat, LongTxs : Seq(Nat), ShortTxs : Seq(Nat), AllTxs : Seq(Nat),
              WatermarkID : Nat]

TypeOK ==
    /\ txs \in Seq(Kinds)
    /\ txIdx \in 0 .. Len(txs)
    /\ batches \in Seq(BatchType)
    /\ currentBatch \in BatchType
    /\ longTxCount \in 0 .. longTxThreshold
    /\ totalTxCount \in 0 .. totalTxThreshold
    /\ done \in BOOLEAN

Init ==
    /\ txs \in UNION {[1 .. n -> Kinds] : n \in 0 .. MaxTxs}
    /\ txIdx = 0
    /\ batches = <<>>
    /\ currentBatch = NewBatch(0)
    /\ longTxCount = 0
    /\ totalTxCount = 0
    /\ done = FALSE

\* Variant: only long transactions end a batch.
LongOnly(long, total) == long >= longTxThreshold

ShouldEndBatch(long, total) == long >= longTxThreshold \/ total >= totalTxThreshold

\* One turn of the loop.  After the last transaction no new batch is begun.
AddTx ==
    /\ txIdx < Len(txs)
    /\ LET isLongTx == txs[txIdx + 1] = "long"
           long  == IF isLongTx THEN longTxCount + 1 ELSE longTxCount
           total == totalTxCount + 1
           grown == [currentBatch EXCEPT
                        !.AllTxs = Append(@, txIdx),
                        !.LongTxs = IF isLongTx THEN Append(@, txIdx) ELSE @,
                        !.ShortTxs = IF isLongTx THEN @ ELSE Append(@, txIdx),
                        !.WatermarkID = IF ShouldEndBatch(long, total) THEN txIdx ELSE @]
       IN  IF ShouldEndBatch(long, total) /\ txIdx < Len(txs) - 1
           THEN /\ batches' = Append(batches, grown)
                /\ currentBatch' = NewBatch(currentBatch.ID + 1)
                /\ longTxCount' = 0
                /\ totalTxCount' = 0
           ELSE /\ currentBatch' = grown
                /\ longTxCount' = long
                /\ totalTxCount' = total
                /\ UNCHANGED batches
    /\ txIdx' = txIdx + 1
    /\ UNCHANGED <<txs, done>>

\* Variant: the last batch is added with the watermark it happens to have.
AddLastBatchAsIs ==
    /\ ~done
    /\ txIdx = Len(txs)
    /\ batches' = IF currentBatch.AllTxs # <<>> THEN Append(batches, currentBatch) ELSE batches
    /\ done' = TRUE
    /\ UNCHANGED <<txs, txIdx, currentBatch, longTxCount, totalTxCount>>

AddLastBatch ==
    /\ ~done
    /\ txIdx = Len(txs)
    /\ batches' = IF currentBatch.AllTxs # <<>>
                  THEN Append(batches, [currentBatch EXCEPT !.WatermarkID = Len(txs) - 1])
                  ELSE batches
    /\ done' = TRUE
    /\ UNCHANGED <<txs, txIdx, currentBatch, longTxCount, totalTxCount>>

Terminated ==
    /\ done
    /\ UNCHANGED vars

Next == AddTx \/ AddLastBatch \/ Terminated

Spec == Init /\ [][Next]_vars

----------------------------------------------------------------------------
(* Properties *)

\* Where batch i begins: after the watermark of the one before it.
First(i) == IF i = 1 THEN 0 ELSE batches[i - 1].WatermarkID + 1

\* s holds the transactions of S, each once and in block order.
Lists(s, S) ==
    /\ {s[i] : i \in DOMAIN s} = S
    /\ \A i, j \in DOMAIN s : i < j => s[i] < s[j]

\* The watermarks cut the block into consecutive pieces: every batch holds the
\* transactions after the watermark before it up to its own, in block order, each
\* in the queue of its kind, and together they are the whole block.
WatermarksCut ==
    /\ \A i \in DOMAIN batches :
        LET b == batches[i]
            piece == First(i) .. b.WatermarkID
        IN  /\ b.ID = i - 1
            /\ piece # {}
            /\ Lists(b.AllTxs, piece)
            /\ Lists(b.LongTxs, {t \in piece : txs[t + 1] = "long"})
            /\ Lists(b.ShortTxs, {t \in piece : txs[t + 1] = "short"})
    /\ done /\ batches # <<>> => batches[Len(batches)].WatermarkID = Len(txs) - 1
    /\ done /\ batches = <<>> => txs = <<>>

\* No batch exceeds a threshold, and only the last one may fall short of both.
BatchesFull ==
    \A i \in DOMAIN batches :
        LET long == Len(batches[i].LongTxs)
            total == Len(batches[i].AllTxs)
        IN  /\ long <= longTxThreshold
            /\ total <= totalTxThreshold
            /\ long = longTxThreshold \/ total = totalTxThreshold \/ (done /\ i = Len(batches))
=============================================================================
