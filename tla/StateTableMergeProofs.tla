----------------------- MODULE StateTableMergeProofs -----------------------
(***************************************************************************)
(* Theorems about StateTableMerge, for any finite set of workers.          *)
(*                                                                         *)
(* The argument counts.  A merging worker holds two tables and a queued    *)
(* table is one; MergeInv relates them to the merge counter and to the     *)
(* number of pairs handed out, so that the last merge of all is known to   *)
(* leave nothing but its own result.                                       *)
(***************************************************************************)
EXTENDS StateTableMerge, FiniteSetTheorems, SequenceTheorems, TLAPS

Executing == {w \in Workers : phase[w] = "execute"}

\* Every worker is executing, went ahead, or was given a pair.
CountInv ==
    /\ Cardinality(Executing) + Len(CompletionOrder) + pairIndex = numThreads
    /\ Len(CompletionOrder) <= AheadCount
    /\ pairIndex > 0 => Len(CompletionOrder) = AheadCount

\* The table without a partner is queued by one worker, once, and only with an
\* odd number of threads.
LoneInv ==
    /\ \A w \in Workers : phase[w] \in {"lone", "merge"} => pairIndex > 0
    /\ \A w \in Workers : phase[w] = "lone" => numThreads % 2 = 1
    /\ \A v, w \in Workers : phase[v] = "lone" /\ phase[w] = "lone" => v = w

\* Merges, held tables and queued tables against the tables handed out.
MergeInv ==
    ~crashed =>
        completedMergeCount + 2 * Cardinality(Merging) + Len(stateTablesQueue)
            = 2 * pairIndex + loneQueued

\* The merge that counts totalMerges is the last: its table is alone.
LastInv ==
    /\ \A w \in Workers : phase[w] = "publish" =>
        /\ completedMergeCount >= totalMerges
        /\ Waits(completedMergeCount)
        /\ pairIndex > 0
        /\ ~done
    /\ \A v, w \in Workers : phase[v] = "publish" /\ phase[w] = "publish" => v = w
    /\ done =>
        /\ completedMergeCount >= totalMerges
        /\ Waits(completedMergeCount)
        /\ pairIndex > 0

IInv == TypeOK /\ CountInv /\ LoneInv /\ MergeInv /\ QueueShape /\ LastInv

----------------------------------------------------------------------------
(* Arithmetic of the thread count, and cardinalities *)

\* How many workers queue and how many pair, from the number of threads.
LEMMA ThreadFacts ==
    /\ numThreads \in Nat
    /\ numThreads \div 2 \in Nat
    /\ numThreads % 2 \in {0, 1}
    /\ numThreads = 2 * (numThreads \div 2) + (numThreads % 2)
    /\ AheadCount = numThreads \div 2 + (numThreads % 2)
    /\ waitFlag = 1 - (numThreads % 2)
<1>1. numThreads \in Nat
  BY FS_CardinalityType, WorkersAssumption DEF numThreads
<1> QED
  BY <1>1 DEF AheadCount, waitFlag

\* A set of workers is finite.
LEMMA SubsetsFinite ==
    ASSUME NEW S \in SUBSET Workers
    PROVE  IsFiniteSet(S) /\ Cardinality(S) \in Nat
BY FS_Subset, FS_CardinalityType, WorkersAssumption

\* One more merge changes the parity.
LEMMA ParityStep ==
    ASSUME NEW n \in Nat
    PROVE  n % 2 \in {0, 1} /\ (n + 1) % 2 = 1 - (n % 2)
OBVIOUS

\* The lone pair's table is queued, or not, as a number.
LEMMA LoneFacts ==
    /\ loneQueued \in {0, 1}
    /\ loneQueued = 1 <=> LoneQueued
BY DEF loneQueued

\* A worker that changes its phase from p to q moves between the sets the
\* phases define.
LEMMA Moves ==
    ASSUME TypeOK, NEW w \in Workers, NEW p \in Phases, Goto(w, p)
    PROVE  /\ Executing' = IF p = "execute" THEN Executing \cup {w}
                           ELSE Executing \ {w}
           /\ Merging' = IF p \in {"lone", "merge"} THEN Merging \cup {w}
                         ELSE Merging \ {w}
BY DEF TypeOK, Goto, Executing, Merging

\* A worker leaves a set: one less.
LEMMA Leaves ==
    ASSUME NEW S \in SUBSET Workers, NEW w \in S
    PROVE  /\ Cardinality(S \ {w}) = Cardinality(S) - 1
           /\ Cardinality(S) \in Nat
           /\ Cardinality(S) > 0
<1>1. IsFiniteSet(S) /\ Cardinality(S) \in Nat /\ Cardinality(S \ {w}) \in Nat
  BY SubsetsFinite
<1>2. Cardinality(S \ {w}) = Cardinality(S) - 1
  BY <1>1, FS_RemoveElement
<1> QED
  BY <1>1, <1>2

\* A worker enters a set: one more.
LEMMA Enters ==
    ASSUME NEW S \in SUBSET Workers, NEW w \in Workers, w \notin S
    PROVE  /\ Cardinality(S \cup {w}) = Cardinality(S) + 1
           /\ Cardinality(S) \in Nat
<1>1. IsFiniteSet(S) /\ Cardinality(S) \in Nat
  BY SubsetsFinite
<1> QED
  BY <1>1, FS_AddElement

\* The sets the counters count.
LEMMA PhaseSets ==
    /\ Executing \in SUBSET Workers /\ Merging \in SUBSET Workers
    /\ Cardinality(Executing) \in Nat /\ Cardinality(Merging) \in Nat
    /\ Cardinality(Executing) = 0 => Executing = {}
    /\ Cardinality(Merging) = 0 => Merging = {}
<1>1. Executing \in SUBSET Workers /\ Merging \in SUBSET Workers
  BY DEF Executing, Merging
<1> QED
  BY <1>1, SubsetsFinite, FS_EmptySet

----------------------------------------------------------------------------
(* What the last merge leaves behind *)

\* The last merge leaves one table, and nobody executes or merges.
LEMMA LastFacts ==
    ASSUME IInv, ~crashed, done \/ \E v \in Workers : phase[v] = "publish"
    PROVE  /\ Executing = {} /\ Merging = {}
           /\ pairIndex = numThreads \div 2
           /\ Len(CompletionOrder) = AheadCount
           /\ Len(stateTablesQueue) = 1
           /\ LoneQueued <=> numThreads % 2 = 1
<1> DEFINE h == numThreads \div 2
           c == completedMergeCount
<1>1. c \in Nat /\ pairIndex \in Nat /\ Len(stateTablesQueue) \in Nat
  BY DEF IInv, TypeOK
<1>2. c >= totalMerges /\ Waits(c) /\ pairIndex > 0
  BY DEF IInv, LastInv
<1>3. Len(CompletionOrder) = AheadCount
  BY <1>2 DEF IInv, CountInv
<1>4. Cardinality(Executing) + pairIndex = h
  BY <1>3, <1>1, ThreadFacts, PhaseSets DEF IInv, CountInv
<1>5. c + 2 * Cardinality(Merging) + Len(stateTablesQueue)
        = 2 * pairIndex + loneQueued
  BY DEF IInv, MergeInv
<1>6. c % 2 = 1 - (numThreads % 2) /\ c >= numThreads - 1
  BY <1>2, ThreadFacts DEF Waits, totalMerges
<1>7. CASE numThreads % 2 = 0
  <2>1. ~LoneQueued /\ loneQueued = 0
    BY <1>7 DEF LoneQueued, loneQueued
  <2>2. Len(stateTablesQueue) = 1
    BY <1>1, <1>6, <1>7, ThreadFacts DEF IInv, QueueShape
  <2>3. c + 2 * Cardinality(Merging) + 1 = 2 * pairIndex /\ c >= 2 * h - 1
    BY <1>5, <1>6, <1>7, <2>1, <2>2, <1>1, PhaseSets, ThreadFacts
  <2>4. Cardinality(Executing) = 0 /\ Cardinality(Merging) = 0 /\ pairIndex = h
    BY <2>3, <1>1, <1>4, PhaseSets, ThreadFacts
  <2> QED
    BY <2>1, <2>2, <2>4, <1>3, <1>7, PhaseSets
<1>8. CASE numThreads % 2 = 1
  <2>1. Len(stateTablesQueue) = loneQueued
    BY <1>1, <1>6, <1>8, ThreadFacts, LoneFacts DEF IInv, QueueShape
  <2>2. c + 2 * Cardinality(Merging) = 2 * pairIndex /\ c >= 2 * h
    BY <1>5, <1>6, <1>8, <2>1, <1>1, PhaseSets, ThreadFacts
  <2>3. Cardinality(Executing) = 0 /\ Cardinality(Merging) = 0 /\ pairIndex = h
    BY <2>2, <1>1, <1>4, PhaseSets, ThreadFacts
  <2>4. Executing = {} /\ Merging = {}
    BY <2>3, PhaseSets
  <2>5. LoneQueued
    BY <2>4, <1>2, <1>8 DEF LoneQueued, Merging
  <2> QED
    BY <2>1, <2>3, <2>4, <2>5, <1>3, <1>8 DEF loneQueued
<1> QED
  BY <1>7, <1>8, ThreadFacts

----------------------------------------------------------------------------
(* Every step keeps the invariant *)

\* A worker of the first half ends its execution.
LEMMA FinishAheadStep ==
    ASSUME IInv, NEW w \in Workers, FinishAhead(w)
    PROVE  IInv'
<1> USE DEF IInv
<1>1. PICK p \in {"preexecute", "wait"} : Goto(w, p)
  BY DEF FinishAhead
<1>2. phase[w] = "execute" /\ w \in Executing /\ w \notin Merging
  BY DEF FinishAhead, CountFinished, Executing, Merging
<1>3. Executing' = Executing \ {w} /\ Merging' = Merging
  BY <1>1, <1>2, Moves DEF Phases
<1>4. pairIndex = 0 /\ pairIndex' = 0
  BY DEF FinishAhead, CountInv, TypeOK
<1>5. ~LoneQueued /\ ~LoneQueued' /\ loneQueued' = loneQueued
  BY <1>4 DEF LoneQueued, loneQueued
<1>6. TypeOK'
  BY <1>1 DEF FinishAhead, CountFinished, TypeOK, Goto, Phases
<1>7. CountInv'
  <2>1. Cardinality(Executing') = Cardinality(Executing) - 1
    BY <1>2, <1>3, PhaseSets, Leaves
  <2>2. Len(CompletionOrder') = Len(CompletionOrder) + 1
        /\ Len(CompletionOrder) < AheadCount /\ Len(CompletionOrder) \in Nat
    BY DEF FinishAhead, TypeOK
  <2> QED
    BY <2>1, <2>2, <1>4, PhaseSets, ThreadFacts DEF CountInv
<1>8. LoneInv'
  BY <1>1, <1>4 DEF LoneInv, Goto, TypeOK
<1>9. MergeInv' /\ QueueShape'
  BY <1>3, <1>4, <1>5 DEF MergeInv, QueueShape, FinishAhead
<1>10. LastInv'
  BY <1>1, <1>4 DEF LastInv, FinishAhead, Goto, TypeOK
<1> QED
  BY <1>6, <1>7, <1>8, <1>9, <1>10

\* Some worker still executes, so a pair is left for it.
LEMMA PairLeft ==
    ASSUME IInv, NEW w \in Workers, FinishPaired(w)
    PROVE  /\ pairIndex < numThreads \div 2
           /\ Len(CompletionOrder) = AheadCount
           /\ pairIndex + 1 \in 1 .. Len(CompletionOrder)
<1>1. Len(CompletionOrder) = AheadCount /\ pairIndex \in Nat
  BY ThreadFacts DEF IInv, CountInv, FinishPaired, TypeOK
<1>2. w \in Executing
  BY DEF FinishPaired, CountFinished, Executing
<1>3. Cardinality(Executing) > 0
  BY <1>2, PhaseSets, Leaves
<1> QED
  BY <1>1, <1>3, ThreadFacts, PhaseSets DEF IInv, CountInv

\* A worker of the second half ends its execution and takes a pair.
LEMMA FinishPairedStep ==
    ASSUME IInv, NEW w \in Workers, FinishPaired(w)
    PROVE  IInv'
<1> USE DEF IInv
<1> DEFINE p == IF LoneFirst THEN "lone" ELSE "merge"
<1>1. /\ Goto(w, p) /\ pairIndex' = pairIndex + 1 /\ pairIndex \in Nat
      /\ table' = [table EXCEPT ![w] = {w}]
      /\ pair' = [pair EXCEPT ![w] = {CompletionOrder[pairIndex + 1]}]
      /\ pairIndex + 1 \in 1 .. Len(CompletionOrder)
      /\ Len(CompletionOrder) = AheadCount
  BY PairLeft, ThreadFacts DEF FinishPaired, TypeOK
<1>2. phase[w] = "execute" /\ w \in Executing /\ w \notin Merging /\ ~crashed
  BY DEF FinishPaired, CountFinished, Executing, Merging
<1>3. Executing' = Executing \ {w} /\ Merging' = Merging \cup {w}
  BY <1>1, <1>2, Moves DEF Phases
<1>4. UNCHANGED <<CompletionOrder, stateTablesQueue, completedMergeCount,
                  published, done, crashed>>
  BY DEF FinishPaired
<1>5. LoneQueued' = LoneQueued
  <2>1. CASE pairIndex = 0 /\ numThreads % 2 = 1
    <3>1. phase'[w] = "lone"
      BY <1>1, <2>1 DEF Goto, TypeOK, LoneFirst
    <3> QED
      BY <3>1, <2>1 DEF LoneQueued
  <2>2. CASE numThreads % 2 = 0
    BY <2>2 DEF LoneQueued
  <2>3. CASE pairIndex > 0
    <3>1. \A v \in Workers : phase'[v] = "lone" <=> phase[v] = "lone"
      BY <1>1, <1>2, <2>3 DEF Goto, TypeOK, LoneFirst
    <3> QED
      BY <3>1, <2>3, <1>1 DEF LoneQueued
  <2> QED
    BY <2>1, <2>2, <2>3, <1>1, ThreadFacts
<1>6. loneQueued' = loneQueued
  BY <1>5 DEF loneQueued
<1>7. TypeOK'
  <2>1. CompletionOrder[pairIndex + 1] \in Workers
    BY <1>1 DEF TypeOK
  <2>2. phase' \in [Workers -> Phases] /\ table' \in [Workers -> Tables]
        /\ pair' \in [Workers -> Tables]
    BY <1>1, <2>1 DEF TypeOK, Goto, Phases, Tables
  <2> QED
    BY <1>1, <1>4, <2>2 DEF FinishPaired, CountFinished, TypeOK
<1>8. CountInv'
  <2>1. Cardinality(Executing') = Cardinality(Executing) - 1
        /\ Cardinality(Executing) \in Nat
    BY <1>2, <1>3, PhaseSets, Leaves
  <2>2. Cardinality(Executing) + Len(CompletionOrder) + pairIndex = numThreads
        /\ Len(CompletionOrder) \in Nat
    BY DEF CountInv, TypeOK
  <2>3. pairIndex' = pairIndex + 1 /\ pairIndex \in Nat /\ CompletionOrder' = CompletionOrder
        /\ Len(CompletionOrder) = AheadCount
    BY <1>1, <1>4
  <2>4. Cardinality(Executing') + Len(CompletionOrder') + pairIndex' = numThreads
    BY <2>1, <2>2, <2>3
  <2> QED
    BY <2>2, <2>3, <2>4 DEF CountInv
<1>9. LoneInv'
  <2>1. \A v \in Workers : phase[v] = "lone" => pairIndex > 0
    BY DEF LoneInv
  <2> QED
    BY <2>1, <1>1 DEF LoneInv, Goto, TypeOK, LoneFirst
<1>10. MergeInv'
  <2>1. Cardinality(Merging') = Cardinality(Merging) + 1
    BY <1>2, <1>3, PhaseSets, Enters
  <2>2. completedMergeCount + 2 * Cardinality(Merging) + Len(stateTablesQueue)
            = 2 * pairIndex + loneQueued
    BY <1>2 DEF MergeInv
  <2>3. completedMergeCount \in Nat /\ Len(stateTablesQueue) \in Nat
    BY DEF TypeOK
  <2>4. pairIndex' = pairIndex + 1 /\ pairIndex \in Nat
    BY <1>1
  <2>5. Cardinality(Merging) \in Nat /\ loneQueued \in {0, 1}
    BY PhaseSets, LoneFacts
  <2>6. completedMergeCount + 2 * Cardinality(Merging') + Len(stateTablesQueue)
            = 2 * pairIndex' + loneQueued
    BY <2>1, <2>2, <2>3, <2>4, <2>5
  <2> QED
    BY <2>6, <1>4, <1>6 DEF MergeInv
<1>11. QueueShape'
  BY <1>4, <1>6 DEF QueueShape
<1>12. LastInv'
  BY <1>1, <1>4 DEF LastInv, Goto, TypeOK
<1> QED
  BY <1>7, <1>8, <1>9, <1>10, <1>11, <1>12

\* The last pair of an odd number of threads is one table.
LEMMA QueueLoneStep ==
    ASSUME IInv, NEW w \in Workers, QueueLone(w)
    PROVE  IInv'
<1> USE DEF IInv
<1>1. /\ Goto(w, "merge") /\ phase[w] = "lone" /\ ~crashed
      /\ UNCHANGED <<CompletionOrder, finishedTreadNum, executionDone, pairIndex,
                     table, pair, completedMergeCount, published, done, crashed>>
  BY DEF QueueLone
<1>2. w \in Merging /\ w \notin Executing
  BY <1>1 DEF Merging, Executing
<1>3. Executing' = Executing /\ Merging' = Merging
  BY <1>1, <1>2, Moves DEF Phases
<1>4. pairIndex > 0 /\ numThreads % 2 = 1
  BY <1>1 DEF LoneInv
<1>5. \A v \in Workers : phase'[v] # "lone"
  BY <1>1 DEF LoneInv, Goto, TypeOK
<1>6. ~LoneQueued /\ LoneQueued' /\ loneQueued = 0 /\ loneQueued' = 1
  BY <1>1, <1>4, <1>5 DEF LoneQueued, loneQueued
<1>7. Len(CompletionOrder) = AheadCount /\ AheadCount > 0
  BY <1>4, ThreadFacts DEF CountInv
<1>8. Len(stateTablesQueue') = Len(stateTablesQueue) + 1
      /\ stateTablesQueue' \in Seq(Tables)
  <2>1. CompletionOrder[Len(CompletionOrder)] \in Workers
    BY <1>7, ThreadFacts DEF TypeOK
  <2> QED
    BY <2>1 DEF QueueLone, TypeOK, Tables
<1>9. TypeOK'
  BY <1>1, <1>8 DEF TypeOK, Goto, Phases
<1>10. CountInv'
  BY <1>1, <1>3 DEF CountInv
<1>11. LoneInv'
  BY <1>1, <1>4, <1>5 DEF LoneInv
<1>12. MergeInv'
  <2>1. completedMergeCount + 2 * Cardinality(Merging) + Len(stateTablesQueue)
            = 2 * pairIndex + loneQueued
    BY <1>1 DEF MergeInv
  <2>2. completedMergeCount \in Nat /\ Len(stateTablesQueue) \in Nat
        /\ pairIndex \in Nat
    BY DEF TypeOK
  <2>3. completedMergeCount + 2 * Cardinality(Merging) + Len(stateTablesQueue')
            = 2 * pairIndex + 1
    BY <2>1, <2>2, <1>6, <1>8, PhaseSets
  <2> QED
    BY <2>3, <1>1, <1>3, <1>6 DEF MergeInv
<1>13. QueueShape'
  <2>1. Len(stateTablesQueue) = 0 - (completedMergeCount % 2)
    BY <1>1, <1>4, <1>6 DEF QueueShape
  <2>2. Len(stateTablesQueue') = 1 - (completedMergeCount % 2)
    BY <2>1, <1>8, ParityStep DEF TypeOK
  <2> QED
    BY <2>2, <1>1, <1>4, <1>6 DEF QueueShape
<1>14. LastInv'
  BY <1>1 DEF LastInv, Goto, TypeOK
<1> QED
  BY <1>9, <1>10, <1>11, <1>12, <1>13, <1>14

\* While someone merges, the last merge is still to come.
LEMMA NotLastYet ==
    ASSUME IInv, ~crashed, Merging # {}
    PROVE  ~done /\ \A v \in Workers : phase[v] # "publish"
BY LastFacts, Zenon

\* A merged table is queued.
LEMMA MergeAndQueueStep ==
    ASSUME IInv, NEW w \in Workers, MergeAndQueue(w)
    PROVE  IInv'
<1> USE DEF IInv
<1> DEFINE p == IF completedMergeCount' < totalMerges THEN "wait" ELSE "publish"
<1>1. /\ Goto(w, p) /\ phase[w] = "merge" /\ ~crashed
      /\ completedMergeCount' = completedMergeCount + 1
      /\ Waits(completedMergeCount')
      /\ completedMergeCount \in Nat /\ Len(stateTablesQueue) \in Nat
      /\ pairIndex \in Nat
      /\ UNCHANGED <<CompletionOrder, finishedTreadNum, executionDone, pairIndex,
                     table, pair, published, done, crashed>>
  BY DEF MergeAndQueue, CountMerge, TypeOK
<1>2. w \in Merging /\ w \notin Executing
  BY <1>1 DEF Merging, Executing
<1>3. Executing' = Executing /\ Merging' = Merging \ {w}
  BY <1>1, <1>2, Moves DEF Phases
<1>4. ~done /\ \A v \in Workers : phase[v] # "publish"
  BY <1>1, <1>2, NotLastYet
<1>5. pairIndex > 0
  BY <1>1 DEF LoneInv
<1>6. LoneQueued' = LoneQueued /\ loneQueued' = loneQueued
  <2>1. \A v \in Workers : phase'[v] = "lone" <=> phase[v] = "lone"
    BY <1>1 DEF Goto, TypeOK
  <2> QED
    BY <2>1, <1>1 DEF LoneQueued, loneQueued
<1>7. Len(stateTablesQueue') = Len(stateTablesQueue) + 1
      /\ stateTablesQueue' \in Seq(Tables)
  <2>1. Merged(w) \in Tables
    BY DEF Merged, TypeOK, Tables
  <2> QED
    BY <2>1 DEF MergeAndQueue, TypeOK
<1>8. TypeOK'
  BY <1>1, <1>7 DEF TypeOK, Goto, Phases
<1>9. CountInv'
  BY <1>1, <1>3 DEF CountInv
<1>10. LoneInv'
  BY <1>1, <1>5 DEF LoneInv, Goto, TypeOK
<1>11. MergeInv'
  <2>1. completedMergeCount + 2 * Cardinality(Merging) + Len(stateTablesQueue)
            = 2 * pairIndex + loneQueued
    BY <1>1 DEF MergeInv
  <2>2. Cardinality(Merging') = Cardinality(Merging) - 1
    BY <1>2, <1>3, PhaseSets, Leaves
  <2>3. completedMergeCount' + 2 * Cardinality(Merging') + Len(stateTablesQueue')
            = 2 * pairIndex + loneQueued
    BY <2>1, <2>2, <1>1, <1>7, PhaseSets, LoneFacts
  <2> QED
    BY <2>3, <1>1, <1>6 DEF MergeInv
<1>12. QueueShape'
  <2>1. completedMergeCount' % 2 = 1 - (numThreads % 2)
        /\ completedMergeCount % 2 = numThreads % 2
    BY <1>1, ThreadFacts, ParityStep DEF Waits
  <2>2. CASE numThreads % 2 = 0
    BY <2>1, <2>2, <1>1, <1>7 DEF QueueShape
  <2>3. CASE numThreads % 2 = 1
    <3>1. Len(stateTablesQueue) = loneQueued - 1
      BY <2>1, <2>3, <1>1 DEF QueueShape
    <3>2. Len(stateTablesQueue') = loneQueued - 0
      BY <3>1, <1>7, <1>1, LoneFacts
    <3> QED
      BY <3>2, <2>1, <2>3, <1>6 DEF QueueShape
  <2> QED
    BY <2>2, <2>3, ThreadFacts
<1>13. LastInv'
  <2>1. \A v \in Workers : phase'[v] = "publish" =>
            v = w /\ ~(completedMergeCount' < totalMerges)
    BY <1>1, <1>4 DEF Goto, TypeOK
  <2>2. totalMerges \in Int
    BY ThreadFacts DEF totalMerges
  <2> QED
    BY <2>1, <2>2, <1>1, <1>4, <1>5 DEF LastInv
<1> QED
  BY <1>8, <1>9, <1>10, <1>11, <1>12, <1>13

\* A merged table is kept, and the queued one taken to merge with it.
LEMMA MergeAndTakeStep ==
    ASSUME IInv, NEW w \in Workers, MergeAndTake(w)
    PROVE  IInv'
<1> USE DEF IInv
<1>1. /\ phase[w] = "merge" /\ ~crashed
      /\ completedMergeCount' = completedMergeCount + 1
      /\ ~Waits(completedMergeCount')
      /\ completedMergeCount \in Nat
      /\ UNCHANGED <<phase, CompletionOrder, finishedTreadNum, executionDone,
                     pairIndex, published, done, crashed>>
  BY DEF MergeAndTake, CountMerge, TypeOK
<1>2. w \in Merging
  BY <1>1 DEF Merging
<1>3. Executing' = Executing /\ Merging' = Merging
      /\ LoneQueued' = LoneQueued /\ loneQueued' = loneQueued
  BY <1>1 DEF Executing, Merging, LoneQueued, loneQueued
<1>4. ~done /\ \A v \in Workers : phase[v] # "publish"
  BY <1>1, <1>2, NotLastYet
<1>5. /\ Len(stateTablesQueue') = Len(stateTablesQueue) - 1
      /\ Len(stateTablesQueue) \in Nat
      /\ stateTablesQueue' \in Seq(Tables)
      /\ Head(stateTablesQueue) \in Tables
  BY DEF MergeAndTake, TypeOK
<1>6. TypeOK'
  <2>1. Merged(w) \in Tables
    BY DEF Merged, TypeOK, Tables
  <2>2. table' \in [Workers -> Tables] /\ pair' \in [Workers -> Tables]
    BY <2>1, <1>5 DEF MergeAndTake, TypeOK
  <2> QED
    BY <2>2, <1>1, <1>5 DEF TypeOK
<1>7. CountInv' /\ LoneInv'
  BY <1>1, <1>3 DEF CountInv, LoneInv
<1>8. MergeInv'
  <2>1. completedMergeCount + 2 * Cardinality(Merging) + Len(stateTablesQueue)
            = 2 * pairIndex + loneQueued
    BY <1>1 DEF MergeInv
  <2>2. completedMergeCount' + 2 * Cardinality(Merging) + Len(stateTablesQueue')
            = 2 * pairIndex + loneQueued
    BY <2>1, <1>1, <1>5, PhaseSets
  <2> QED
    BY <2>2, <1>1, <1>3 DEF MergeInv
<1>9. QueueShape'
  <2>1. completedMergeCount' % 2 = numThreads % 2
        /\ completedMergeCount % 2 = 1 - (numThreads % 2)
    BY <1>1, ThreadFacts, ParityStep DEF Waits
  <2>2. CASE numThreads % 2 = 0
    BY <2>1, <2>2, <1>1, <1>5 DEF QueueShape
  <2>3. CASE numThreads % 2 = 1
    <3>1. Len(stateTablesQueue) = loneQueued - 0
      BY <2>1, <2>3, <1>1 DEF QueueShape
    <3>2. Len(stateTablesQueue') = loneQueued - 1
      BY <3>1, <1>5, LoneFacts
    <3> QED
      BY <3>2, <2>1, <2>3, <1>3 DEF QueueShape
  <2> QED
    BY <2>2, <2>3, ThreadFacts
<1>10. LastInv'
  BY <1>1, <1>4 DEF LastInv
<1> QED
  BY <1>6, <1>7, <1>8, <1>9, <1>10

\* The take from an empty queue.
LEMMA MergeAndCrashStep ==
    ASSUME IInv, NEW w \in Workers, MergeAndCrash(w)
    PROVE  IInv'
<1> USE DEF IInv
<1>1. /\ phase[w] = "merge" /\ ~crashed /\ crashed'
      /\ completedMergeCount' = completedMergeCount + 1
      /\ crashed' \in BOOLEAN
      /\ UNCHANGED <<phase, CompletionOrder, finishedTreadNum, executionDone,
                     pairIndex, table, pair, stateTablesQueue, published, done>>
  BY DEF MergeAndCrash, CountMerge
<1>2. ~done /\ \A v \in Workers : phase[v] # "publish"
  <2>1. w \in Merging
    BY <1>1 DEF Merging
  <2> QED
    BY <2>1, <1>1, NotLastYet
<1>3. TypeOK'
  BY <1>1 DEF TypeOK
<1>4. CountInv' /\ LoneInv'
  BY <1>1 DEF CountInv, LoneInv, Executing
<1>5. MergeInv' /\ QueueShape'
  BY <1>1 DEF MergeInv, QueueShape
<1>6. LastInv'
  BY <1>1, <1>2 DEF LastInv
<1> QED
  BY <1>3, <1>4, <1>5, <1>6

\* The result of the last merge is published; the counters stay.
LEMMA PublishStep ==
    ASSUME IInv, NEW w \in Workers, Publish(w)
    PROVE  IInv'
<1> USE DEF IInv
<1>1. /\ Goto(w, "wait") /\ phase[w] = "publish" /\ ~crashed
      /\ published' = Head(stateTablesQueue) /\ done' = TRUE
      /\ UNCHANGED <<CompletionOrder, finishedTreadNum, executionDone, pairIndex,
                     table, pair, stateTablesQueue, completedMergeCount, crashed>>
  BY DEF Publish
<1>2. w \notin Executing /\ w \notin Merging
  BY <1>1 DEF Executing, Merging
<1>3. Executing' = Executing /\ Merging' = Merging
  BY <1>1, <1>2, Moves DEF Phases
<1>4. LoneQueued' = LoneQueued /\ loneQueued' = loneQueued
  BY <1>1 DEF LoneQueued, loneQueued, Goto, TypeOK
<1>5. TypeOK'
  <2>1. Len(stateTablesQueue) = 1
    BY <1>1, LastFacts
  <2>2. Head(stateTablesQueue) \in Tables
    <3>1. stateTablesQueue \in Seq(Tables)
      BY DEF TypeOK
    <3>2. stateTablesQueue # <<>>
      BY <2>1, <3>1, EmptySeq
    <3> QED
      BY <3>1, <3>2, HeadTailProperties
  <2> QED
    BY <1>1, <2>2 DEF TypeOK, Goto, Phases
<1>6. CountInv'
  BY <1>1, <1>3 DEF CountInv
<1>7. LoneInv'
  BY <1>1 DEF LoneInv, Goto, TypeOK
<1>8. MergeInv' /\ QueueShape'
  BY <1>1, <1>3, <1>4 DEF MergeInv, QueueShape
<1>9. LastInv'
  BY <1>1 DEF LastInv, Goto, TypeOK
<1> QED
  BY <1>5, <1>6, <1>7, <1>8, <1>9

\* LeavePreExecute and StartConstruct move one worker and change nothing else.
LEMMA MoveOnStep ==
    ASSUME IInv, NEW w \in Workers, LeavePreExecute(w) \/ StartConstruct(w)
    PROVE  IInv'
<1> USE DEF IInv
<1>1. PICK p \in {"wait", "construct"} :
        /\ Goto(w, p) /\ phase[w] \in {"preexecute", "wait"}
        /\ UNCHANGED <<CompletionOrder, finishedTreadNum, executionDone, pairIndex,
                       table, pair, stateTablesQueue, completedMergeCount,
                       published, done, crashed>>
  BY DEF LeavePreExecute, StartConstruct
<1>2. w \notin Executing /\ w \notin Merging
  BY <1>1 DEF Executing, Merging
<1>3. Executing' = Executing /\ Merging' = Merging
  BY <1>1, <1>2, Moves DEF Phases
<1>4. LoneQueued' = LoneQueued /\ loneQueued' = loneQueued
  BY <1>1 DEF LoneQueued, loneQueued, Goto, TypeOK
<1>5. TypeOK'
  BY <1>1 DEF TypeOK, Goto, Phases
<1>6. CountInv'
  BY <1>1, <1>3 DEF CountInv
<1>7. LoneInv'
  BY <1>1 DEF LoneInv, Goto, TypeOK
<1>8. MergeInv' /\ QueueShape'
  BY <1>1, <1>3, <1>4 DEF MergeInv, QueueShape
<1>9. LastInv'
  BY <1>1 DEF LastInv, Goto, TypeOK
<1> QED
  BY <1>5, <1>6, <1>7, <1>8, <1>9

\* The invariant holds when the stage starts.
LEMMA InitIInv == Init => IInv
<1> SUFFICES ASSUME Init PROVE IInv
  OBVIOUS
<1>1. TypeOK
  <2>1. <<>> \in Seq(Workers) /\ <<>> \in Seq(Tables)
    OBVIOUS
  <2>2. phase \in [Workers -> Phases] /\ table \in [Workers -> Tables]
        /\ pair \in [Workers -> Tables]
    BY DEF Init, Phases, Tables
  <2> QED
    BY <2>1, <2>2 DEF Init, TypeOK, Tables
<1>2. Executing = Workers /\ Merging = {}
  BY DEF Init, Executing, Merging
<1>3. Cardinality(Merging) = 0 /\ loneQueued = 0 /\ Len(stateTablesQueue) = 0
      /\ completedMergeCount = 0 /\ pairIndex = 0 /\ Len(CompletionOrder) = 0
  BY <1>2, FS_EmptySet DEF Init, loneQueued, LoneQueued
<1>4. CountInv
  <2>1. Cardinality(Executing) = numThreads
    BY <1>2 DEF numThreads
  <2> QED
    BY <2>1, <1>3, ThreadFacts DEF CountInv
<1>5. LoneInv /\ LastInv
  BY DEF Init, LoneInv, LastInv
<1>6. MergeInv /\ QueueShape
  BY <1>3 DEF MergeInv, QueueShape
<1> QED
  BY <1>1, <1>4, <1>5, <1>6 DEF IInv

\* Every step keeps it.
LEMMA NextIInv == IInv /\ [Next]_vars => IInv'
<1> SUFFICES ASSUME IInv, [Next]_vars PROVE IInv'
  OBVIOUS
<1>1. CASE UNCHANGED vars
  BY <1>1 DEF vars, IInv, TypeOK, CountInv, LoneInv, MergeInv, QueueShape, LastInv,
       Executing, Merging, LoneQueued, loneQueued, Waits
<1>2. ASSUME NEW w \in Workers, Step(w) PROVE IInv'
  BY <1>2, FinishAheadStep, FinishPairedStep, QueueLoneStep, MergeAndQueueStep,
     MergeAndTakeStep, MergeAndCrashStep, PublishStep, MoveOnStep DEF Step
<1> QED
  BY <1>1, <1>2 DEF Next, Terminated

\* The conjunction the other theorems rest on holds in every reachable state.
THEOREM Invariance == Spec => []IInv
BY InitIInv, NextIInv, PTL DEF Spec

\* The state of the stage stays within its types.
THEOREM TypeCorrect == Spec => []TypeOK
BY Invariance, PTL DEF IInv

\* The length of stateTablesQueue is fixed by the merge counter, for every
\* number of threads.
THEOREM QueueShapeCorrect == Spec => []QueueShape
BY Invariance, PTL DEF IInv

----------------------------------------------------------------------------
(* Who may take from the queue *)

\* A take from an empty queue needs the lone pair's worker to be behind.
LEMMA NothingToTake ==
    ASSUME IInv, NEW w \in Workers, MergeAndCrash(w)
    PROVE  numThreads % 2 = 1 /\ numThreads >= 5
<1> USE DEF IInv
<1> DEFINE c == completedMergeCount
<1>1. /\ phase[w] = "merge" /\ ~crashed /\ c \in Nat /\ pairIndex \in Nat
      /\ c % 2 = 1 - (numThreads % 2) /\ Len(stateTablesQueue) = 0
      /\ w \in Merging
  <2>1. c \in Nat /\ pairIndex \in Nat /\ phase[w] = "merge" /\ ~crashed
        /\ ~Waits(c + 1) /\ stateTablesQueue = <<>>
    BY DEF MergeAndCrash, CountMerge, TypeOK
  <2> QED
    BY <2>1, ThreadFacts, ParityStep, EmptySeq DEF Waits, Merging
<1>2. numThreads % 2 = 1
  <2>1. CASE numThreads % 2 = 0
    BY <1>1, <2>1 DEF QueueShape
  <2> QED
    BY <2>1, ThreadFacts
<1>3. loneQueued = 0 /\ ~LoneQueued
  BY <1>1, <1>2, LoneFacts DEF QueueShape
<1>4. PICK v \in Workers : phase[v] = "lone"
  BY <1>1, <1>2, <1>3 DEF LoneQueued, LoneInv
<1>5. Cardinality(Merging) >= 2
  <2>1. v \in Merging \ {w} /\ Merging \ {w} \in SUBSET Workers
    BY <1>1, <1>4 DEF Merging
  <2>2. Cardinality(Merging \ {w}) = Cardinality(Merging) - 1
        /\ Cardinality(Merging \ {w}) > 0
    BY <1>1, <2>1, PhaseSets, Leaves
  <2> QED
    BY <2>2, PhaseSets
<1>6. pairIndex >= 2
  <2>1. c + 2 * Cardinality(Merging) + 0 = 2 * pairIndex + 0
    BY <1>1, <1>3 DEF MergeInv
  <2> QED
    BY <2>1, <1>1, <1>5, PhaseSets
<1>7. Len(CompletionOrder) = AheadCount
  BY <1>1, <1>6 DEF CountInv
<1> QED
  BY <1>1, <1>2, <1>6, <1>7, ThreadFacts, PhaseSets DEF CountInv

\* With an even number of threads, or with fewer than five, no worker ever
\* takes from an empty stateTablesQueue: the defect needs an odd number of
\* threads and a second pairing worker.
THEOREM NoEmptyTakeCorrect ==
    ASSUME numThreads % 2 = 0 \/ numThreads < 5
    PROVE  Spec => []NoEmptyTake
<1>1. Init => NoEmptyTake
  BY DEF Init, NoEmptyTake
<1>2. IInv /\ NoEmptyTake /\ [Next]_vars => NoEmptyTake'
  <2> SUFFICES ASSUME IInv, NoEmptyTake, [Next]_vars PROVE NoEmptyTake'
    OBVIOUS
  <2>1. ASSUME NEW w \in Workers, MergeAndCrash(w) PROVE FALSE
    <3>1. numThreads % 2 = 1 /\ numThreads >= 5
      BY <2>1, NothingToTake
    <3> QED
      BY <3>1, ThreadFacts
  <2>2. CASE UNCHANGED vars
    BY <2>2 DEF vars, NoEmptyTake
  <2>3. ASSUME NEW w \in Workers, Step(w) PROVE UNCHANGED crashed
    BY <2>1, <2>3 DEF Step, FinishAhead, FinishPaired, QueueLone, MergeAndQueue,
         MergeAndTake, Publish, LeavePreExecute, StartConstruct
  <2> QED
    BY <2>2, <2>3 DEF Next, Terminated, vars, NoEmptyTake
<1> QED
  BY <1>1, <1>2, Invariance, PTL DEF Spec

----------------------------------------------------------------------------
(* Where the tables are *)

\* CompletionOrder holds different workers, all of them past execution.
OrderInv ==
    /\ \A i, j \in DOMAIN CompletionOrder :
        CompletionOrder[i] = CompletionOrder[j] => i = j
    /\ \A i \in DOMAIN CompletionOrder : phase[CompletionOrder[i]] # "execute"

TableInv == OrderInv /\ NoTableLost /\ NoTableTwice

\* While no worker has crashed the queue holds at most one table.
LEMMA QueueContents ==
    ASSUME IInv, ~crashed
    PROVE  /\ stateTablesQueue \in Seq(Tables)
           /\ Len(stateTablesQueue) \in {0, 1}
           /\ Len(stateTablesQueue) = 0 => stateTablesQueue = <<>> /\ Queued = {}
           /\ Len(stateTablesQueue) = 1 => Queued = Head(stateTablesQueue)
<1>1. stateTablesQueue \in Seq(Tables) /\ completedMergeCount \in Nat
  BY DEF IInv, TypeOK
<1>2. Len(stateTablesQueue) \in {0, 1}
  <2>1. Len(stateTablesQueue) \in Nat
    BY <1>1
  <2>2. completedMergeCount % 2 \in {0, 1}
    BY <1>1, ParityStep
  <2>3. CASE numThreads % 2 = 0
    BY <2>2, <2>3 DEF IInv, QueueShape
  <2>4. CASE numThreads % 2 = 1
    <3>1. Len(stateTablesQueue) = loneQueued - (completedMergeCount % 2)
      BY <2>4 DEF IInv, QueueShape
    <3> QED
      BY <3>1, <2>1, <2>2, LoneFacts
  <2> QED
    BY <2>3, <2>4, ThreadFacts
<1>3. ASSUME Len(stateTablesQueue) = 0
      PROVE  stateTablesQueue = <<>> /\ Queued = {}
  BY <1>1, <1>3, EmptySeq DEF Queued
<1>4. ASSUME Len(stateTablesQueue) = 1
      PROVE  Queued = Head(stateTablesQueue)
  <2>1. DOMAIN stateTablesQueue = {1}
    BY <1>1, <1>4
  <2>2. Queued = stateTablesQueue[1]
    BY <2>1 DEF Queued
  <2> QED
    BY <2>2, <1>1, <1>4
<1> QED
  BY <1>1, <1>2, <1>3, <1>4

\* A queue of one table, seen as the set it holds.
LEMMA OneQueued ==
    ASSUME NEW q \in Seq(Tables), Len(q) = 0, NEW t \in Tables
    PROVE  UNION {Append(q, t)[i] : i \in DOMAIN Append(q, t)} = t
<1>1. DOMAIN Append(q, t) = {1} /\ Append(q, t)[1] = t
  OBVIOUS
<1> QED
  BY <1>1

\* An empty queue, seen as the set it holds.
LEMMA NoneQueued ==
    ASSUME NEW q \in Seq(Tables), Len(q) = 1
    PROVE  UNION {Tail(q)[i] : i \in DOMAIN Tail(q)} = {}
<1>1. DOMAIN Tail(q) = {}
  OBVIOUS
<1> QED
  BY <1>1

\* A step that leaves the three places where tables are.
LEMMA TablesStay ==
    ASSUME TableInv, OrderInv', Unpaired' = Unpaired, Queued' = Queued,
           Merging' = Merging,
           \A v \in Merging : table'[v] = table[v] /\ pair'[v] = pair[v]
    PROVE  TableInv'
<1>1. \A v \in Workers : Held'[v] = Held[v]
  BY DEF Held, Merged
<1>2. NoTableLost'
  BY <1>1 DEF TableInv, NoTableLost
<1>3. NoTableTwice'
  BY <1>1 DEF TableInv, NoTableTwice
<1> QED
  BY <1>2, <1>3 DEF TableInv

\* A first-half worker's table becomes available.
LEMMA FinishAheadTables ==
    ASSUME IInv, TableInv, NEW w \in Workers, FinishAhead(w)
    PROVE  TableInv'
<1>1. PICK p \in {"preexecute", "wait"} : Goto(w, p)
  BY DEF FinishAhead
<1>2. /\ phase[w] = "execute" /\ phase \in [Workers -> Phases]
      /\ CompletionOrder \in Seq(Workers)
      /\ CompletionOrder' = Append(CompletionOrder, w)
      /\ pairIndex = 0 /\ pairIndex' = 0
      /\ UNCHANGED <<table, pair, stateTablesQueue>>
  BY DEF FinishAhead, CountFinished, IInv, TypeOK, CountInv
<1>3. Merging' = Merging /\ Queued' = Queued
  BY <1>1, <1>2 DEF Merging, Queued, Goto
<1>4. loneQueued = 0 /\ loneQueued' = 0
  BY <1>2 DEF loneQueued, LoneQueued
<1>5. OrderInv'
  <2>1. \A i \in DOMAIN CompletionOrder : CompletionOrder[i] # w
    BY <1>2 DEF TableInv, OrderInv
  <2> QED
    BY <2>1, <1>1, <1>2 DEF TableInv, OrderInv, Goto
<1>6. Unpaired' = Unpaired
  <2>1. Unpaired = Executing \cup {CompletionOrder[i] : i \in 1 .. Len(CompletionOrder)}
    BY <1>2, <1>4 DEF Unpaired, Executing
  <2>2. Unpaired' = Executing' \cup {CompletionOrder'[i] : i \in 1 .. Len(CompletionOrder')}
    BY <1>2, <1>4 DEF Unpaired, Executing
  <2>3. {CompletionOrder'[i] : i \in 1 .. Len(CompletionOrder')}
          = {CompletionOrder[i] : i \in 1 .. Len(CompletionOrder)} \cup {w}
    BY <1>2
  <2>4. Executing' = Executing \ {w} /\ w \in Executing
    BY <1>1, <1>2 DEF Executing, Goto
  <2> QED
    BY <2>1, <2>2, <2>3, <2>4
<1> QED
  BY <1>2, <1>3, <1>5, <1>6, TablesStay

\* A pair of tables goes to the worker that takes it.
LEMMA FinishPairedTables ==
    ASSUME IInv, TableInv, NEW w \in Workers, FinishPaired(w)
    PROVE  TableInv'
<1> DEFINE x == CompletionOrder[pairIndex + 1]
<1>1. /\ pairIndex < numThreads \div 2 /\ Len(CompletionOrder) = AheadCount
      /\ pairIndex + 1 \in DOMAIN CompletionOrder
      /\ pairIndex \in Nat /\ Len(CompletionOrder) \in Nat
      /\ phase[w] = "execute" /\ phase \in [Workers -> Phases]
      /\ table \in [Workers -> Tables] /\ pair \in [Workers -> Tables]
      /\ CompletionOrder \in Seq(Workers) /\ x \in Workers /\ ~crashed
  BY PairLeft DEF FinishPaired, CountFinished, IInv, TypeOK
<1>2. PICK p \in {"lone", "merge"} : Goto(w, p)
  BY <1>1, ThreadFacts DEF FinishPaired
<1>3. /\ table' = [table EXCEPT ![w] = {w}] /\ pair' = [pair EXCEPT ![w] = {x}]
      /\ pairIndex' = pairIndex + 1
      /\ UNCHANGED <<CompletionOrder, stateTablesQueue>>
  BY <1>1, ThreadFacts DEF FinishPaired
<1>4. loneQueued' = loneQueued
  <2>1. IInv'
    BY FinishPairedStep
  <2>2. CASE pairIndex = 0 /\ numThreads % 2 = 1
    <3>1. phase'[w] = "lone"
      BY <2>2, <1>1, ThreadFacts DEF FinishPaired, Goto, LoneFirst
    <3> QED
      BY <3>1, <2>2 DEF loneQueued, LoneQueued
  <2>3. CASE pairIndex > 0 \/ numThreads % 2 = 0
    <3>1. phase'[w] = "merge"
      BY <2>3, <1>1, ThreadFacts DEF FinishPaired, Goto, LoneFirst
    <3>2. \A v \in Workers : phase'[v] = "lone" <=> phase[v] = "lone"
      BY <3>1, <1>1, <1>2 DEF Goto
    <3> QED
      BY <3>2, <2>3, <1>1, <1>3 DEF loneQueued, LoneQueued
  <2> QED
    BY <2>2, <2>3, <1>1, ThreadFacts
<1>5. OrderInv'
  BY <1>1, <1>2, <1>3 DEF TableInv, OrderInv, Goto
<1>6. /\ w \in Unpaired /\ x \in Unpaired /\ w # x
      /\ Unpaired' = Unpaired \ {w, x}
  <2> DEFINE last == Len(CompletionOrder) - loneQueued
  <2>1. w # x
    BY <1>1 DEF TableInv, OrderInv
  <2>2. pairIndex + 1 \in (pairIndex + 1) .. last /\ last \in Nat
    <3>1. loneQueued = 0 \/ numThreads % 2 = 1
      BY LoneFacts DEF LoneQueued
    <3> QED
      BY <3>1, <1>1, LoneFacts, ThreadFacts
  <2>3. Unpaired = Executing \cup {CompletionOrder[i] : i \in (pairIndex + 1) .. last}
    BY DEF Unpaired, Executing
  <2>4. Unpaired' = Executing' \cup {CompletionOrder[i] : i \in (pairIndex + 2) .. last}
    BY <1>1, <1>3, <1>4 DEF Unpaired, Executing
  <2>5. Executing' = Executing \ {w} /\ w \in Executing
    BY <1>1, <1>2 DEF Executing, Goto
  <2>6. \A i \in (pairIndex + 1) .. last :
          /\ i \in DOMAIN CompletionOrder
          /\ CompletionOrder[i] # w
          /\ CompletionOrder[i] = x => i = pairIndex + 1
    BY <1>1, <2>2, LoneFacts DEF TableInv, OrderInv
  <2>7. x \notin Executing
    BY <1>1 DEF TableInv, OrderInv, Executing
  <2>8. {CompletionOrder[i] : i \in (pairIndex + 2) .. last}
          = {CompletionOrder[i] : i \in (pairIndex + 1) .. last} \ {x}
    BY <1>1, <2>2, <2>6
  <2>9. w \notin {CompletionOrder[i] : i \in (pairIndex + 1) .. last}
    BY <2>6
  <2> QED
    BY <2>1, <2>2, <2>3, <2>4, <2>5, <2>7, <2>8, <2>9
<1>7. Held'[w] = {w, x} /\ Held[w] = {}
  BY <1>1, <1>2, <1>3 DEF Held, Merged, Merging, Goto
<1>8. \A v \in Workers \ {w} :
        /\ Held'[v] = Held[v]
        /\ v \in Merging' <=> v \in Merging
        /\ table'[v] = table[v] /\ pair'[v] = pair[v]
  BY <1>1, <1>2, <1>3 DEF Held, Merged, Merging, Goto
<1>9. Queued' = Queued
  BY <1>3 DEF Queued
<1>10. NoTableLost'
  <2>1. Workers = Unpaired \cup Queued \cup UNION {Held[v] : v \in Workers}
    BY DEF TableInv, NoTableLost
  <2>2. UNION {Held'[v] : v \in Workers}
          = (UNION {Held[v] : v \in Workers}) \cup {w, x}
    BY <1>7, <1>8
  <2>3. Workers = Unpaired' \cup Queued' \cup UNION {Held'[v] : v \in Workers}
    BY <2>1, <2>2, <1>6, <1>9
  <2> QED
    BY <2>3 DEF NoTableLost
<1>11. NoTableTwice'
  <2>1. /\ \A u, v \in Workers : v # u => Held[v] \cap Held[u] = {}
        /\ \A v \in Workers : Held[v] \cap (Unpaired \cup Queued) = {}
        /\ Unpaired \cap Queued = {}
        /\ \A v \in Merging : table[v] \cap pair[v] = {}
    BY DEF TableInv, NoTableTwice
  <2>2. \A v \in Merging' : table'[v] \cap pair'[v] = {}
    <3>1. table'[w] = {w} /\ pair'[w] = {x}
      BY <1>1, <1>3
    <3>2. Merging' \in SUBSET Workers
      BY DEF Merging
    <3> QED
      BY <3>1, <3>2, <2>1, <1>6, <1>8
  <2>3. \A u, v \in Workers : v # u => Held'[v] \cap Held'[u] = {}
    BY <2>1, <1>6, <1>7, <1>8
  <2>4. \A v \in Workers : Held'[v] \cap (Unpaired' \cup Queued') = {}
    BY <2>1, <1>6, <1>7, <1>8, <1>9
  <2> QED
    BY <2>1, <2>2, <2>3, <2>4, <1>6, <1>9 DEF NoTableTwice
<1> QED
  BY <1>5, <1>10, <1>11 DEF TableInv

\* The table without partner goes to the queue.
LEMMA QueueLoneTables ==
    ASSUME IInv, TableInv, NEW w \in Workers, QueueLone(w)
    PROVE  TableInv'
<1> DEFINE n == Len(CompletionOrder)
           x == CompletionOrder[n]
<1>1. /\ phase[w] = "lone" /\ phase \in [Workers -> Phases] /\ ~crashed
      /\ pairIndex \in Nat /\ pairIndex > 0 /\ numThreads % 2 = 1
      /\ CompletionOrder \in Seq(Workers) /\ n \in Nat /\ n = AheadCount
      /\ UNCHANGED <<CompletionOrder, pairIndex, table, pair>>
      /\ Goto(w, "merge")
  BY DEF QueueLone, IInv, TypeOK, LoneInv, CountInv
<1>2. n > 0 /\ n \in DOMAIN CompletionOrder /\ x \in Workers /\ pairIndex + 1 <= n
  BY <1>1, ThreadFacts, PhaseSets DEF IInv, CountInv
<1>3. loneQueued = 0 /\ loneQueued' = 1
  <2>1. \A v \in Workers : phase'[v] # "lone"
    BY <1>1 DEF IInv, LoneInv, Goto
  <2> QED
    BY <1>1, <2>1 DEF loneQueued, LoneQueued
<1>4. Merging' = Merging /\ Executing' = Executing
  BY <1>1 DEF Merging, Executing, Goto
<1>5. Held' = Held
  BY <1>1, <1>4 DEF Held, Merged
<1>6. OrderInv'
  BY <1>1 DEF TableInv, OrderInv, Goto
<1>7. Queued = {} /\ Queued' = {x}
  <2>1. stateTablesQueue \in Seq(Tables) /\ Len(stateTablesQueue) = 0 /\ Queued = {}
    <3>1. Len(stateTablesQueue) = 0 - (completedMergeCount % 2)
      BY <1>1, <1>3 DEF IInv, QueueShape
    <3>2. completedMergeCount % 2 \in {0, 1}
      BY ParityStep DEF IInv, TypeOK
    <3>3. Len(stateTablesQueue) = 0
      BY <1>1, <3>1, <3>2, QueueContents
    <3> QED
      BY <1>1, <3>3, QueueContents
  <2>2. stateTablesQueue' = Append(stateTablesQueue, {x}) /\ {x} \in Tables
    BY <1>2 DEF QueueLone, Tables
  <2> QED
    BY <2>1, <2>2, OneQueued DEF Queued
<1>8. x \in Unpaired /\ Unpaired' = Unpaired \ {x}
  <2>1. Unpaired = Executing \cup {CompletionOrder[i] : i \in (pairIndex + 1) .. n}
    BY <1>1, <1>3 DEF Unpaired, Executing
  <2>2. Unpaired' = Executing' \cup {CompletionOrder[i] : i \in (pairIndex + 1) .. (n - 1)}
    BY <1>1, <1>3 DEF Unpaired, Executing
  <2>3. \A i \in (pairIndex + 1) .. n : CompletionOrder[i] = x => i = n
    BY <1>1, <1>2 DEF TableInv, OrderInv
  <2>4. x \notin Executing
    BY <1>2 DEF TableInv, OrderInv, Executing
  <2>5. {CompletionOrder[i] : i \in (pairIndex + 1) .. (n - 1)}
          = {CompletionOrder[i] : i \in (pairIndex + 1) .. n} \ {x}
    BY <1>1, <1>2, <2>3
  <2>6. n \in (pairIndex + 1) .. n
    BY <1>1, <1>2
  <2> HIDE DEF n
  <2>7. x \in {CompletionOrder[i] : i \in (pairIndex + 1) .. n}
    BY <2>6
  <2> HIDE DEF x
  <2>8. Executing' = Executing
    BY <1>4
  <2> QED
    BY <2>1, <2>2, <2>4, <2>5, <2>7, <2>8
<1>9. NoTableLost'
  BY <1>5, <1>7, <1>8 DEF TableInv, NoTableLost
<1>10. NoTableTwice'
  BY <1>1, <1>4, <1>5, <1>7, <1>8 DEF TableInv, NoTableTwice
<1> QED
  BY <1>6, <1>9, <1>10 DEF TableInv

\* A merged table goes to the queue.
LEMMA MergeAndQueueTables ==
    ASSUME IInv, TableInv, NEW w \in Workers, MergeAndQueue(w)
    PROVE  TableInv'
<1>1. /\ phase[w] = "merge" /\ phase \in [Workers -> Phases] /\ ~crashed
      /\ completedMergeCount \in Nat /\ Waits(completedMergeCount + 1)
      /\ UNCHANGED <<CompletionOrder, pairIndex, table, pair>>
      /\ stateTablesQueue' = Append(stateTablesQueue, Merged(w))
      /\ Merged(w) \in Tables
  BY DEF MergeAndQueue, CountMerge, Merged, Tables, IInv, TypeOK
<1>2. PICK p \in {"wait", "publish"} : Goto(w, p)
  BY DEF MergeAndQueue
<1>3. /\ w \in Merging /\ Merging' = Merging \ {w} /\ Executing' = Executing
  BY <1>1, <1>2 DEF Merging, Executing, Goto
<1>4. loneQueued' = loneQueued
  <2>1. \A v \in Workers : phase'[v] = "lone" <=> phase[v] = "lone"
    BY <1>1, <1>2 DEF Goto
  <2> QED
    BY <2>1, <1>1 DEF loneQueued, LoneQueued
<1>5. OrderInv'
  BY <1>1, <1>2 DEF TableInv, OrderInv, Goto
<1>6. Unpaired' = Unpaired
  <2>1. Unpaired = Executing \cup
            {CompletionOrder[i] : i \in (pairIndex + 1) .. Len(CompletionOrder) - loneQueued}
    BY DEF Unpaired, Executing
  <2>2. Unpaired' = Executing' \cup
            {CompletionOrder[i] : i \in (pairIndex + 1) .. Len(CompletionOrder) - loneQueued}
    BY <1>1, <1>4 DEF Unpaired, Executing
  <2> QED
    BY <1>3, <2>1, <2>2
<1>7. Queued = {} /\ Queued' = Held[w]
  <2>1. completedMergeCount % 2 = numThreads % 2
    BY <1>1, ThreadFacts, ParityStep DEF Waits
  <2>2. Len(stateTablesQueue) = 0
    <3>1. CASE numThreads % 2 = 0
      BY <1>1, <2>1, <3>1 DEF IInv, QueueShape
    <3>2. CASE numThreads % 2 = 1
      <4>1. Len(stateTablesQueue) = loneQueued - 1
        BY <1>1, <2>1, <3>2 DEF IInv, QueueShape
      <4> QED
        BY <1>1, <4>1, LoneFacts, QueueContents
    <3> QED
      BY <3>1, <3>2, ThreadFacts
  <2>3. stateTablesQueue \in Seq(Tables) /\ Queued = {}
    BY <1>1, <2>2, QueueContents
  <2>4. Queued' = Merged(w)
    BY <1>1, <2>2, <2>3, OneQueued DEF Queued
  <2> QED
    BY <1>3, <2>3, <2>4 DEF Held
<1>8. Held' = [Held EXCEPT ![w] = {}]
  BY <1>1, <1>3 DEF Held, Merged
<1>9. \A v \in Workers : Held'[v] = IF v = w THEN {} ELSE Held[v]
  BY <1>8 DEF Held
<1>10. NoTableLost'
  <2>1. (UNION {Held'[v] : v \in Workers}) \cup Held[w] = UNION {Held[v] : v \in Workers}
    BY <1>9
  <2> QED
    BY <1>6, <1>7, <2>1 DEF TableInv, NoTableLost
<1>11. NoTableTwice'
  BY <1>1, <1>3, <1>6, <1>7, <1>9 DEF TableInv, NoTableTwice
<1> QED
  BY <1>5, <1>10, <1>11 DEF TableInv

\* The queued table goes to the worker that takes it.
LEMMA MergeAndTakeTables ==
    ASSUME IInv, TableInv, NEW w \in Workers, MergeAndTake(w)
    PROVE  TableInv'
<1>1. /\ phase[w] = "merge" /\ ~crashed
      /\ UNCHANGED <<phase, CompletionOrder, pairIndex>>
      /\ table \in [Workers -> Tables] /\ pair \in [Workers -> Tables]
      /\ table' = [table EXCEPT ![w] = Merged(w)]
      /\ pair' = [pair EXCEPT ![w] = Head(stateTablesQueue)]
      /\ stateTablesQueue' = Tail(stateTablesQueue) /\ stateTablesQueue # <<>>
  BY DEF MergeAndTake, CountMerge, IInv, TypeOK
<1>2. w \in Merging /\ Merging' = Merging /\ Unpaired' = Unpaired /\ OrderInv'
  BY <1>1 DEF Merging, Unpaired, loneQueued, LoneQueued, TableInv, OrderInv
<1>3. Queued = Head(stateTablesQueue) /\ Queued' = {}
  <2>1. stateTablesQueue \in Seq(Tables) /\ Len(stateTablesQueue) = 1
        /\ Queued = Head(stateTablesQueue)
    BY <1>1, QueueContents
  <2> QED
    BY <1>1, <2>1, NoneQueued DEF Queued
<1>4. /\ Held[w] = Merged(w)
      /\ table'[w] = Held[w] /\ pair'[w] = Queued
      /\ \A v \in Workers \ {w} : table'[v] = table[v] /\ pair'[v] = pair[v]
  BY <1>1, <1>2, <1>3 DEF Held
<1>5. \A v \in Workers : Held'[v] = IF v = w THEN Held[w] \cup Queued ELSE Held[v]
  BY <1>2, <1>4 DEF Held, Merged
<1>6. NoTableLost'
  <2>1. UNION {Held'[v] : v \in Workers} = (UNION {Held[v] : v \in Workers}) \cup Queued
    BY <1>5
  <2> QED
    BY <1>2, <1>3, <2>1 DEF TableInv, NoTableLost
<1>7. NoTableTwice'
  <2>1. Merging \in SUBSET Workers
    BY DEF Merging
  <2> QED
    BY <1>2, <1>3, <1>4, <1>5, <2>1 DEF TableInv, NoTableTwice
<1> QED
  BY <1>2, <1>6, <1>7 DEF TableInv

\* The other steps move no table.
LEMMA OtherTables ==
    ASSUME IInv, TableInv, NEW w \in Workers,
           \/ MergeAndCrash(w) \/ Publish(w) \/ LeavePreExecute(w) \/ StartConstruct(w)
    PROVE  TableInv'
<1>1. PICK p \in Phases \ {"execute", "lone", "merge"} :
        \/ UNCHANGED phase
        \/ Goto(w, p) /\ phase[w] \notin {"execute", "lone", "merge"}
  BY DEF MergeAndCrash, Publish, LeavePreExecute, StartConstruct, Phases
<1>2. /\ UNCHANGED <<CompletionOrder, pairIndex, table, pair, stateTablesQueue>>
      /\ phase \in [Workers -> Phases]
  BY DEF MergeAndCrash, Publish, LeavePreExecute, StartConstruct, IInv, TypeOK
<1>3. \A v \in Workers : \A q \in {"execute", "lone", "merge"} :
        phase'[v] = q <=> phase[v] = q
  BY <1>1, <1>2 DEF Goto
<1>4. Merging' = Merging /\ Queued' = Queued /\ Executing' = Executing
  BY <1>2, <1>3 DEF Merging, Queued, Executing
<1>5. loneQueued' = loneQueued
  BY <1>2, <1>3 DEF loneQueued, LoneQueued
<1>6. OrderInv'
  BY <1>2, <1>3 DEF TableInv, OrderInv, IInv, TypeOK
<1>7. Unpaired' = Unpaired
  <2>1. Unpaired = Executing \cup
            {CompletionOrder[i] : i \in (pairIndex + 1) .. Len(CompletionOrder) - loneQueued}
    BY DEF Unpaired, Executing
  <2>2. Unpaired' = Executing' \cup
            {CompletionOrder[i] : i \in (pairIndex + 1) .. Len(CompletionOrder) - loneQueued}
    BY <1>2, <1>5 DEF Unpaired, Executing
  <2> QED
    BY <1>4, <2>1, <2>2
<1> QED
  BY <1>2, <1>4, <1>6, <1>7, TablesStay

\* No table has been produced when the stage starts.
LEMMA InitTableInv == Init => TableInv
<1> SUFFICES ASSUME Init PROVE TableInv
  OBVIOUS
<1>1. Executing = Workers /\ Merging = {}
  BY DEF Init, Executing, Merging
<1>2. loneQueued = 0 /\ Len(CompletionOrder) = 0 /\ pairIndex = 0
      /\ DOMAIN CompletionOrder = {} /\ DOMAIN stateTablesQueue = {}
  BY DEF Init, loneQueued, LoneQueued
<1>3. Unpaired = Workers /\ Queued = {}
  <2>1. Unpaired = Executing \cup {CompletionOrder[i] : i \in 1 .. 0}
    BY <1>2 DEF Unpaired, Executing
  <2>2. 1 .. 0 = {}
    OBVIOUS
  <2> QED
    BY <1>1, <1>2, <2>1, <2>2 DEF Queued
<1>4. \A v \in Workers : Held[v] = {}
  BY <1>1 DEF Held
<1> QED
  BY <1>1, <1>2, <1>3, <1>4 DEF TableInv, OrderInv, NoTableLost, NoTableTwice

\* Every step keeps the tables together.
LEMMA NextTableInv == IInv /\ TableInv /\ [Next]_vars => TableInv'
<1> SUFFICES ASSUME IInv, TableInv, [Next]_vars PROVE TableInv'
  OBVIOUS
<1>1. CASE UNCHANGED vars
  BY <1>1 DEF vars, TableInv, OrderInv, NoTableLost, NoTableTwice, Unpaired, Queued,
       Merging, Held, Merged, loneQueued, LoneQueued
<1>2. ASSUME NEW w \in Workers, Step(w) PROVE TableInv'
  BY <1>2, FinishAheadTables, FinishPairedTables, QueueLoneTables,
     MergeAndQueueTables, MergeAndTakeTables, OtherTables DEF Step
<1> QED
  BY <1>1, <1>2 DEF Next, Terminated

\* Every table is always somewhere, and in one place.
THEOREM TableInvariance == Spec => []TableInv
BY InitTableInv, NextTableInv, Invariance, PTL DEF Spec

\* No state table is dropped by the merge, for any number of threads.
THEOREM NoTableLostCorrect == Spec => []NoTableLost
BY TableInvariance, PTL DEF TableInv

\* No state table enters the merge twice, for any number of threads.
THEOREM NoTableTwiceCorrect == Spec => []NoTableTwice
BY TableInvariance, PTL DEF TableInv

----------------------------------------------------------------------------
(* What is published *)

\* When the last merge is counted, its result holds every table.
LEMMA AllQueued ==
    ASSUME IInv, TableInv, ~crashed, done \/ \E v \in Workers : phase[v] = "publish"
    PROVE  Queued = Workers
<1>1. /\ Executing = {} /\ Merging = {} /\ pairIndex = numThreads \div 2
      /\ Len(CompletionOrder) = AheadCount
      /\ LoneQueued <=> numThreads % 2 = 1
  BY LastFacts
<1>2. Len(CompletionOrder) - loneQueued < pairIndex + 1
      /\ Len(CompletionOrder) - loneQueued \in Int
  <2>1. loneQueued = numThreads % 2
    BY <1>1, LoneFacts, ThreadFacts
  <2> QED
    BY <1>1, <2>1, ThreadFacts
<1>3. (pairIndex + 1) .. Len(CompletionOrder) - loneQueued = {}
  BY <1>2 DEF IInv, TypeOK
<1>4. Unpaired = {}
  BY <1>1, <1>3 DEF Unpaired, Executing
<1>5. \A v \in Workers : Held[v] = {}
  BY <1>1 DEF Held
<1> QED
  BY <1>4, <1>5 DEF TableInv, NoTableLost

\* The published table is made of the tables of all workers, whatever their
\* number: tryConstructDAG never starts from a partial state table.
THEOREM PublishedCompleteCorrect == Spec => []PublishedComplete
<1>1. Init => PublishedComplete
  BY DEF Init, PublishedComplete
<1>2. IInv /\ TableInv /\ PublishedComplete /\ [Next]_vars => PublishedComplete'
  <2> SUFFICES ASSUME IInv, TableInv, PublishedComplete, [Next]_vars
               PROVE  PublishedComplete'
    OBVIOUS
  <2>1. ASSUME NEW w \in Workers, Publish(w) PROVE published' = Workers
    <3>1. ~crashed /\ phase[w] = "publish" /\ published' = Head(stateTablesQueue)
      BY <2>1 DEF Publish
    <3>2. Queued = Workers
      BY <3>1, AllQueued
    <3>3. Len(stateTablesQueue) = 1
      BY <3>1, LastFacts
    <3> QED
      BY <3>1, <3>2, <3>3, QueueContents
  <2>2. CASE UNCHANGED <<published, done>>
    BY <2>2 DEF PublishedComplete
  <2>3. ASSUME NEW w \in Workers, Step(w), ~Publish(w)
        PROVE  UNCHANGED <<published, done>>
    BY <2>3 DEF Step, FinishAhead, FinishPaired, QueueLone, MergeAndQueue,
         MergeAndTake, MergeAndCrash, LeavePreExecute, StartConstruct
  <2> QED
    BY <2>1, <2>2, <2>3 DEF Next, Terminated, vars, PublishedComplete
<1> QED
  BY <1>1, <1>2, Invariance, TableInvariance, PTL DEF Spec

\* A step of the merge is a step of GatherAll, or invisible to it.
THEOREM Refinement == Spec => ImplementsGatherAll
<1> DEFINE joined == {w \in Workers : phase[w] # "execute"}
<1>1. Init => Gather!Init
  BY DEF Init, Gather!Init
<1>2. IInv /\ TableInv /\ [Next]_vars => [Gather!Next]_(Gather!vars)
  <2> SUFFICES ASSUME IInv, TableInv, [Next]_vars
               PROVE  [Gather!Next]_(Gather!vars)
    OBVIOUS
  <2>1. phase \in [Workers -> Phases]
    BY DEF IInv, TypeOK
  <2>2. CASE UNCHANGED vars
    BY <2>2 DEF vars, Gather!vars
  <2>3. ASSUME NEW w \in Workers, Publish(w)
        PROVE  Gather!Publish
    <3>1. ~crashed /\ phase[w] = "publish" /\ published' = Head(stateTablesQueue)
          /\ done' = TRUE /\ ~done /\ Goto(w, "wait")
      BY <2>3 DEF Publish, IInv, LastInv
    <3>2. joined = Workers
      BY <3>1, LastFacts DEF Executing
    <3>3. joined' = joined
      BY <3>1, <2>1 DEF Goto
    <3>4. published' = Workers
      BY <3>1, AllQueued, LastFacts, QueueContents
    <3> QED
      BY <3>1, <3>2, <3>3, <3>4 DEF Gather!Publish
  <2>4. ASSUME NEW w \in Workers, FinishAhead(w) \/ FinishPaired(w)
        PROVE  Gather!Join({w})
    <3>1. phase[w] = "execute" /\ UNCHANGED <<published, done>>
      BY <2>4 DEF FinishAhead, FinishPaired, CountFinished
    <3>2. PICK p \in Phases \ {"execute"} : Goto(w, p)
      BY <2>4, PairLeft, ThreadFacts DEF FinishAhead, FinishPaired, Phases, IInv, TypeOK
    <3>3. joined' = joined \cup {w} /\ w \notin joined
      BY <3>1, <3>2, <2>1 DEF Goto
    <3> QED
      BY <3>1, <3>3 DEF Gather!Join
  <2>5. ASSUME NEW w \in Workers,
               \/ QueueLone(w) \/ MergeAndQueue(w) \/ MergeAndTake(w)
               \/ MergeAndCrash(w) \/ LeavePreExecute(w) \/ StartConstruct(w)
        PROVE  UNCHANGED Gather!vars
    <3>1. UNCHANGED <<published, done>>
      BY <2>5 DEF QueueLone, MergeAndQueue, MergeAndTake, MergeAndCrash,
           LeavePreExecute, StartConstruct
    <3>2. joined' = joined
      BY <2>1, <2>5 DEF QueueLone, MergeAndQueue, MergeAndTake, MergeAndCrash,
           LeavePreExecute, StartConstruct, CountMerge, Goto
    <3> QED
      BY <3>1, <3>2 DEF Gather!vars
  <2>6. ASSUME NEW w \in Workers, Gather!Join({w}) PROVE Gather!Next
    BY <2>6 DEF Gather!Next
  <2> QED
    BY <2>2, <2>3, <2>4, <2>5, <2>6 DEF Next, Terminated, Step, Gather!Next
<1> QED
  BY <1>1, <1>2, Invariance, TableInvariance, PTL DEF Spec, Gather!Spec, ImplementsGatherAll
=============================================================================
