--------------------------- MODULE PipelineProofs ---------------------------
(***************************************************************************)
(* Theorems about Pipeline, for any finite set of two or more workers and  *)
(* any sequence of blocks.                                                 *)
(*                                                                         *)
(* At every moment at most one batch is under way: the one that            *)
(* currentBlockID and currentBatchID name while the caller waits.  Those   *)
(* before it are finished, those after it untouched.  A worker reads the   *)
(* two ids and the entry at different times, but it joins a batch only if  *)
(* it has not executed it, so that the batch is not finished; and when the *)
(* block ids agree at the end, the batch id it read is not from another    *)
(* block.  The batch it joins is then the one under way.                   *)
(***************************************************************************)
EXTENDS Pipeline, FiniteSetTheorems, SequenceTheorems, TLAPS

\* The batch id is cleared, the slice replaced and the block published only
\* between two blocks.
Between == callerAt \in {"clear", "allocate", "fill", "join", "end"}

\* The batch under way, and those before it.
UnderWay(s) == callerAt = "wait" /\ s = Current
Past(s) ==
    \/ s[1] < currentBlockID
    \/ s[1] = currentBlockID /\ (Between \/ (callerAt = "wait" /\ s[2] < currentBatchID))

\* How the caller's place, the ids and the entries of batchStates go together.
CallerInv ==
    /\ Between => currentBlockID = BlockIDAfter(submitted)
    /\ callerAt \in {"allocate", "fill", "open", "wait"} => submitted < Len(BatchCounts)
    /\ callerAt \in {"allocate", "fill", "open"} => currentBatchID = -1
    /\ callerAt = "fill" =>
        /\ Len(batchStates) = BatchCount
        /\ \A i \in DOMAIN batchStates : batchStates[i] \in {NoBlock, currentBlockID + 1}
    /\ callerAt \in {"open", "wait"} =>
        /\ BatchCount > 0
        /\ currentBlockID = BlockIDAfter(submitted + 1)
    /\ callerAt = "wait" => currentBatchID \in 0 .. BatchCount

\* No entry of batchStates is of a batch that its block does not have.
EntryInv ==
    \A i \in DOMAIN batchStates : batchStates[i] # NoBlock =>
        batchStates[i] \in BlockIDs /\ i <= Numbered[batchStates[i]]

\* The workers between the change of the batch id and their completion.
Completing == {w \in Workers : at[w] = "complete"}

\* The completions on their way to the caller.
CountInv ==
    /\ received + completeChan + Cardinality(Completing) =
           IF callerAt = "wait" THEN currentBatchID ELSE 0
    /\ \A v, w \in Workers : at[v] = "moveOn" /\ at[w] = "moveOn" => v = w

\* Past batches are finished, later ones untouched.
BatchInv ==
    \A s \in BatchIds :
        /\ Past(s) => finished[s]
        /\ ~Past(s) /\ ~UnderWay(s) => joined[s] = {} /\ ~finished[s]
        /\ UnderWay(s) /\ finished[s] => \E w \in Workers : at[w] = "moveOn"

\* What the stage of a batch says of it.
StageInv ==
    \A s \in BatchIds :
        /\ stage[s] = "merge" => ~noConflict[s] /\ ~finished[s]
        /\ stage[s] # "merge" => joined[s] = Workers
        /\ stage[s] = "construct" => ~noConflict[s]
        /\ finished[s] => stage[s] = "over" \/ noConflict[s]
        /\ working[s] = {w \in Workers : at[w] \in {"merge", "work"} /\ state[w] = s}

InBatch == {"merge", "preExecute", "arrive", "take", "work", "await", "end", "moveOn",
            "complete"}
AtHead == {"block", "batch", "bounds", "index", "recheck"}

\* A worker in a batch has executed it, and goes through its stages in their order.
InsideOf(w) ==
    /\ at[w] \in InBatch \cup {"execute"} =>
        state[w] \in BatchIds /\ state[w] = <<CurrentBlockID[w], lastBatchID[w]>>
    /\ at[w] \in InBatch => w \in joined[state[w]]
    /\ at[w] = "execute" => UnderWay(state[w]) /\ w \notin joined[state[w]]
    /\ at[w] = "merge" => stage[state[w]] = "merge"
    /\ at[w] \in {"arrive", "take", "work"} => Phase[w] \in {"construct", "commit", "reexecute"}
    /\ at[w] = "take" => Rank[stage[state[w]]] >= Rank[Phase[w]]
    /\ at[w] = "work" => stage[state[w]] = Phase[w]
    /\ \/ at[w] = "await"
       \/ at[w] = "arrive" /\ Phase[w] = "reexecute"
       \/ at[w] \in {"take", "work"} /\ Phase[w] # "construct"
       => stage[state[w]] \notin {"merge", "construct"} /\ ~noConflict[state[w]]
    /\ at[w] = "end" => stage[state[w]] = "over" \/ noConflict[state[w]]
    /\ at[w] = "moveOn" => UnderWay(state[w]) /\ finished[state[w]]

\* Batch id i is one that the block of the worker has reached.
Reached(i) == i <= currentBatchID \/ (currentBatchID = -1 /\ callerAt # "open")

\* The batches that a worker has executed, and what it read at the head of its loop.
HeadOf(w) ==
    /\ CurrentBlockID[w] <= currentBlockID
    /\ \A s \in BatchIds : w \in joined[s] =>
        \/ s[1] < CurrentBlockID[w]
        \/ /\ s[1] = CurrentBlockID[w]
           /\ s[2] <= lastBatchID[w]
           /\ Phase[w] = "execute" /\ at[w] \in AtHead => s[2] < lastBatchID[w]
    /\ CurrentBlockID[w] = currentBlockID => Reached(lastBatchID[w])
    /\ at[w] = "bounds" /\ CurrentBlockID[w] = currentBlockID =>
        stateID[w] = -1 \/ (stateID[w] >= lastBatchID[w] /\ Reached(stateID[w]))
    /\ at[w] = "bounds" => stateID[w] \in Nat \cup {-1}
    /\ at[w] \in {"index", "recheck"} => stateID[w] \in Nat
    /\ at[w] \in {"index", "recheck"} /\ CurrentBlockID[w] = currentBlockID =>
        stateID[w] = lastBatchID[w]
    /\ at[w] = "recheck" => state[w] \in BatchIds /\ state[w][2] = stateID[w]
    /\ at[w] \in AtHead /\ Phase[w] = "construct" =>
        \E s \in BatchIds : s = <<CurrentBlockID[w], lastBatchID[w]>> /\ w \in joined[s]

IInv ==
    /\ TypeOK /\ CallerInv /\ EntryInv /\ CountInv /\ BatchInv /\ StageInv
    /\ \A w \in Workers : InsideOf(w)
    /\ \A w \in Workers : HeadOf(w)

----------------------------------------------------------------------------
(* Block ids and stages *)

LEMMA BlockIDType ==
    ASSUME NEW n \in Nat
    PROVE  BlockIDAfter(n) \in Nat /\ IsFiniteSet(Nonempty \cap 1 .. n)
<1>1. IsFiniteSet(1 .. n)
  BY FS_Interval
<1>2. IsFiniteSet(Nonempty \cap 1 .. n)
  BY <1>1, FS_Subset
<1> QED
  BY <1>2, FS_CardinalityType DEF BlockIDAfter

\* The id grows with every block that has batches.
LEMMA BlockIDStep ==
    ASSUME NEW n \in Nat, n < Len(BatchCounts)
    PROVE  /\ BatchCounts[n + 1] \in Nat
           /\ BlockIDAfter(n + 1) = BlockIDAfter(n) + (IF BatchCounts[n + 1] > 0 THEN 1 ELSE 0)
<1>1. n + 1 \in DOMAIN BatchCounts /\ BatchCounts[n + 1] \in Nat
  BY BatchCountsAssumption
<1>2. IsFiniteSet(Nonempty \cap 1 .. n)
  BY BlockIDType
<1>3. CASE BatchCounts[n + 1] > 0
  <2>1. n + 1 \notin Nonempty \cap 1 .. n
    OBVIOUS
  <2>2. Nonempty \cap 1 .. (n + 1) = (Nonempty \cap 1 .. n) \cup {n + 1}
    <3>1. n + 1 \in Nonempty
      BY <1>1, <1>3 DEF Nonempty
    <3>2. 1 .. (n + 1) = (1 .. n) \cup {n + 1}
      OBVIOUS
    <3> QED
      BY <3>1, <3>2
  <2>3. Cardinality(Nonempty \cap 1 .. (n + 1)) = Cardinality(Nonempty \cap 1 .. n) + 1
    BY <1>2, <2>1, <2>2, FS_AddElement
  <2> QED
    BY <1>1, <1>3, <2>3 DEF BlockIDAfter
<1>4. CASE ~(BatchCounts[n + 1] > 0)
  <2>1. Nonempty \cap 1 .. (n + 1) = Nonempty \cap 1 .. n
    <3>1. n + 1 \notin Nonempty
      BY <1>4 DEF Nonempty
    <3>2. 1 .. (n + 1) = (1 .. n) \cup {n + 1}
      OBVIOUS
    <3> QED
      BY <3>1, <3>2
  <2>2. BlockIDAfter(n + 1) = BlockIDAfter(n)
    BY <2>1 DEF BlockIDAfter
  <2>3. BlockIDAfter(n) \in Nat
    BY BlockIDType
  <2> QED
    BY <1>1, <1>4, <2>2, <2>3
<1> QED
  BY <1>3, <1>4

\* Two blocks with batches have different ids.
LEMMA BlockIDGrows ==
    ASSUME NEW m \in Nonempty, NEW n \in Nonempty, m < n
    PROVE  BlockIDAfter(m) # BlockIDAfter(n)
<1>1. m \in Nat /\ n \in Nat
  BY BatchCountsAssumption DEF Nonempty
<1>2. IsFiniteSet(Nonempty \cap 1 .. n)
  BY <1>1, BlockIDType
<1>3. Nonempty \cap 1 .. m \in SUBSET (Nonempty \cap 1 .. n)
  BY <1>1
<1>4. n \in Nonempty \cap 1 .. n /\ n \notin Nonempty \cap 1 .. m
  BY <1>1, BatchCountsAssumption DEF Nonempty
<1> QED
  BY <1>2, <1>3, <1>4, FS_Subset DEF BlockIDAfter

\* The block id finds its block.
LEMMA NumberedBlock ==
    ASSUME NEW n \in Nonempty
    PROVE  BlockIDAfter(n) \in BlockIDs /\ Numbered[BlockIDAfter(n)] = BatchCounts[n]
<1> DEFINE m == CHOOSE k \in Nonempty : BlockIDAfter(k) = BlockIDAfter(n)
<1>1. m \in Nonempty /\ BlockIDAfter(m) = BlockIDAfter(n)
  OBVIOUS
<1>2. m \in Nat /\ n \in Nat
  BY <1>1, BatchCountsAssumption DEF Nonempty
<1>3. BlockIDAfter(n) \in BlockIDs /\ Numbered[BlockIDAfter(n)] = BatchCounts[m]
  BY DEF BlockIDs, Numbered
<1> HIDE DEF m
<1>4. m = n
  BY <1>1, <1>2, BlockIDGrows
<1> QED
  BY <1>3, <1>4

LEMMA BlockIDsType ==
    ASSUME NEW b \in BlockIDs
    PROVE  b \in Nat \ {0} /\ Numbered[b] \in Nat \ {0}
<1>1. PICK n \in Nonempty : b = BlockIDAfter(n)
  BY DEF BlockIDs
<1>2. n \in Nat \ {0} /\ BatchCounts[n] \in Nat \ {0}
  BY BatchCountsAssumption DEF Nonempty
<1>3. n \in Nonempty \cap 1 .. n
  BY <1>2
<1>4. Nonempty \cap 1 .. n # {} /\ IsFiniteSet(Nonempty \cap 1 .. n)
  BY <1>2, <1>3, BlockIDType
<1>5. Cardinality(Nonempty \cap 1 .. n) # 0
  BY <1>4, FS_EmptySet
<1> QED
  BY <1>1, <1>2, <1>5, BlockIDType, NumberedBlock DEF BlockIDAfter

\* The block that is submitted next, if it has batches.
LEMMA NextBlockID ==
    ASSUME NEW n \in Nat, n < Len(BatchCounts), BatchCounts[n + 1] > 0
    PROVE  /\ BlockIDAfter(n + 1) \in BlockIDs
           /\ Numbered[BlockIDAfter(n + 1)] = BatchCounts[n + 1]
<1>1. n + 1 \in Nonempty
  BY BatchCountsAssumption DEF Nonempty
<1> QED
  BY <1>1, NumberedBlock

\* A batch is a pair of a block id and an index.
LEMMA BatchIdsType ==
    /\ \A s \in BatchIds :
        /\ s = <<s[1], s[2]>> /\ s[1] \in BlockIDs /\ s[1] \in Nat \ {0}
        /\ s[2] \in Nat /\ s[2] < Numbered[s[1]] /\ Numbered[s[1]] \in Nat
    /\ \A b \in BlockIDs : \A i \in Nat : i < Numbered[b] => <<b, i>> \in BatchIds
<1>1. ASSUME NEW s \in BatchIds
      PROVE  /\ s = <<s[1], s[2]>> /\ s[1] \in BlockIDs /\ s[1] \in Nat \ {0}
             /\ s[2] \in Nat /\ s[2] < Numbered[s[1]] /\ Numbered[s[1]] \in Nat
  <2>1. PICK b \in BlockIDs : s \in {b} \X (0 .. Numbered[b] - 1)
    BY DEF BatchIds
  <2>2. b \in Nat \ {0} /\ Numbered[b] \in Nat
    BY BlockIDsType
  <2> QED
    BY <2>1, <2>2
<1>2. ASSUME NEW b \in BlockIDs, NEW i \in Nat, i < Numbered[b]
      PROVE  <<b, i>> \in BatchIds
  <2>1. Numbered[b] \in Nat
    BY BlockIDsType
  <2>2. <<b, i>> \in {b} \X (0 .. Numbered[b] - 1)
    BY <1>2, <2>1
  <2> QED
    BY <2>2 DEF BatchIds
<1> QED
  BY <1>1, <1>2

LEMMA StageOrder ==
    /\ Stages = {"merge", "construct", "commit", "reexecute", "over"}
    /\ After("merge") = "construct" /\ After("construct") = "commit"
    /\ After("commit") = "reexecute" /\ After("reexecute") = "over"
    /\ Rank["merge"] = 1 /\ Rank["construct"] = 2 /\ Rank["commit"] = 3
    /\ Rank["reexecute"] = 4 /\ Rank["over"] = 5
<1>1. /\ Stages = {"merge", "construct", "commit", "reexecute", "over"}
      /\ Rank["merge"] = 1 /\ Rank["construct"] = 2 /\ Rank["commit"] = 3
      /\ Rank["reexecute"] = 4 /\ Rank["over"] = 5
  BY DEF Stages, Rank
<1> QED
  BY <1>1 DEF After

\* There are workers, finitely many.
LEMMA SomeWorkers == Workers # {} /\ IsFiniteSet(Workers)
  BY WorkersAssumption, FS_EmptySet

----------------------------------------------------------------------------
(* A step of one worker *)

\* Nothing of worker v changes.
Untouched(v) ==
    /\ at'[v] = at[v] /\ state'[v] = state[v] /\ stateID'[v] = stateID[v]
    /\ CurrentBlockID'[v] = CurrentBlockID[v] /\ lastBatchID'[v] = lastBatchID[v]
    /\ Phase'[v] = Phase[v]

WorkerTypes ==
    /\ at \in [Workers -> {"block", "batch", "bounds", "index", "recheck", "execute",
                           "merge", "preExecute", "arrive", "take", "work", "await",
                           "end", "moveOn", "complete", "exit"}]
    /\ CurrentBlockID \in [Workers -> BlockIDs \cup {-1, 0}]
    /\ lastBatchID \in [Workers -> Int]
    /\ Phase \in [Workers -> {"waiting", "execute", "construct", "commit", "reexecute"}]
    /\ stateID \in [Workers -> Int]
    /\ state \in [Workers -> BatchIds \cup {<<>>}]

BatchTypes ==
    /\ joined \in [BatchIds -> SUBSET Workers]
    /\ stage \in [BatchIds -> Stages]
    /\ open \in [BatchIds -> BOOLEAN]
    /\ working \in [BatchIds -> SUBSET Workers]
    /\ noConflict \in [BatchIds -> BOOLEAN]
    /\ finished \in [BatchIds -> BOOLEAN]

EngineTypes ==
    /\ callerAt \in {"clear", "allocate", "fill", "open", "wait", "join", "end"}
    /\ submitted \in 0 .. Len(BatchCounts)
    /\ received \in Nat
    /\ completeChan \in Nat
    /\ stopChan \in BOOLEAN
    /\ allowEarlyNextBatchExecution \in BOOLEAN
    /\ currentBlockID \in BlockIDs \cup {0}
    /\ currentBatchID \in Nat \cup {-1}
    /\ batchStates \in Seq(BlockIDs \cup {NoBlock})
    /\ crashed \in BOOLEAN

LEMMA Types == TypeOK <=> WorkerTypes /\ BatchTypes /\ EngineTypes
  BY DEF TypeOK, WorkerTypes, BatchTypes, EngineTypes

\* The caller, the engine and the batches do not depend on a worker that is not
\* at work in a batch.
LEMMA BatchesStay ==
    ASSUME IInv, NEW w \in Workers,
           \A v \in Workers : v # w => Untouched(v),
           at[w] \notin {"merge", "work", "moveOn", "complete"},
           at'[w] \notin {"merge", "work", "moveOn", "complete"},
           UNCHANGED <<callerVars, completeChan, engineVars, batchVars>>
    PROVE  CallerInv' /\ EntryInv' /\ CountInv' /\ BatchInv' /\ StageInv'
<1>1. \A v \in Workers : \A p \in {"merge", "work", "moveOn", "complete"} :
        at'[v] = p <=> at[v] = p
  BY DEF Untouched
<1>2. CallerInv' /\ EntryInv'
  BY DEF IInv, CallerInv, EntryInv, Between, BatchCount, callerVars, engineVars
<1>3. Completing' = Completing
  BY <1>1 DEF Completing
<1>4. CountInv'
  BY <1>1, <1>3 DEF IInv, CountInv, callerVars, engineVars
<1>5. \A s : (Past(s)' <=> Past(s)) /\ (UnderWay(s)' <=> UnderWay(s))
  BY DEF Past, UnderWay, Between, Current, callerVars, engineVars
<1>6. BatchInv'
  BY <1>1, <1>5 DEF IInv, BatchInv, batchVars
<1>7. \A v \in Workers : \A s :
        (at'[v] \in {"merge", "work"} /\ state'[v] = s) <=> (at[v] \in {"merge", "work"} /\ state[v] = s)
  BY <1>1 DEF Untouched
<1>8. StageInv'
  <2> SUFFICES ASSUME NEW s \in BatchIds
               PROVE  /\ stage[s] = "merge" => ~noConflict[s] /\ ~finished[s]
                      /\ stage[s] # "merge" => joined[s] = Workers
                      /\ stage[s] = "construct" => ~noConflict[s]
                      /\ finished[s] => stage[s] = "over" \/ noConflict[s]
                      /\ working[s] = {v \in Workers : at'[v] \in {"merge", "work"} /\ state'[v] = s}
    BY DEF StageInv, batchVars
  <2>1. working[s] = {v \in Workers : at[v] \in {"merge", "work"} /\ state[v] = s}
    BY DEF IInv, StageInv
  <2>2. working[s] = {v \in Workers : at'[v] \in {"merge", "work"} /\ state'[v] = s}
    BY <1>7, <2>1
  <2> QED
    BY <2>2 DEF IInv, StageInv
<1> QED
  BY <1>2, <1>4, <1>6, <1>8

\* Nor do the other workers.
LEMMA OthersStay ==
    ASSUME IInv, NEW v \in Workers, Untouched(v),
           UNCHANGED <<callerVars, engineVars, batchVars>>
    PROVE  InsideOf(v)' /\ HeadOf(v)'
<1>1. InsideOf(v) /\ HeadOf(v)
  BY DEF IInv
<1>2. InsideOf(v)'
  BY <1>1 DEF InsideOf, Untouched, UnderWay, Current, callerVars, engineVars, batchVars
<1>3. HeadOf(v)'
  BY <1>1 DEF HeadOf, Untouched, Reached, callerVars, engineVars, batchVars
<1> QED
  BY <1>2, <1>3

\* A batch that a worker has yet to execute is under way, if the worker has its
\* block and has reached it.
LEMMA NotExecuted ==
    ASSUME IInv, NEW w \in Workers, NEW s \in BatchIds, w \notin joined[s]
    PROVE  ~finished[s] /\ stage[s] = "merge" /\ ~Past(s)
BY DEF IInv, StageInv, BatchInv

\* A batch that was begun and is not finished is under way.
LEMMA BegunUnderWay ==
    ASSUME IInv, NEW s \in BatchIds, joined[s] # {}, ~finished[s]
    PROVE  UnderWay(s)
BY DEF IInv, BatchInv

----------------------------------------------------------------------------
(* The head of the loop *)

\* A step that changes the worker and nothing else.
LEMMA QuietStep ==
    ASSUME IInv, NEW w \in Workers, WorkerTypes',
           \A v \in Workers : v # w => Untouched(v),
           at[w] \notin {"merge", "work", "moveOn", "complete"},
           at'[w] \notin {"merge", "work", "moveOn", "complete"},
           UNCHANGED <<callerVars, completeChan, stopChan, allowEarlyNextBatchExecution,
                       engineVars, batchVars>>,
           crashed' \in BOOLEAN,
           InsideOf(w)', HeadOf(w)'
    PROVE  IInv'
<1>1. CallerInv' /\ EntryInv' /\ CountInv' /\ BatchInv' /\ StageInv'
  BY BatchesStay
<1>2. \A v \in Workers : InsideOf(v)' /\ HeadOf(v)'
  BY OthersStay
<1>3. TypeOK
  BY DEF IInv
<1>4. BatchTypes' /\ EngineTypes'
  BY <1>3, Types DEF BatchTypes, EngineTypes, batchVars, callerVars, engineVars
<1>5. TypeOK'
  <2>1. (WorkerTypes /\ BatchTypes /\ EngineTypes => TypeOK)'
    BY Types, PTL
  <2> QED
    BY <1>4, <2>1
<1> QED
  BY <1>1, <1>2, <1>5 DEF IInv

\* What is unchanged by a step at the head of the loop.
LEMMA HeadFrame ==
    ASSUME NEW w \in Workers, Worker(w), Synchronize(w)
    PROVE  UNCHANGED <<callerVars, completeChan, stopChan, allowEarlyNextBatchExecution,
                       engineVars, batchVars>>
BY DEF Worker, Synchronize

LEMMA ExitStep ==
    ASSUME IInv, NEW w \in Workers, Worker(w), Synchronize(w), Exit(w)
    PROVE  IInv'
<1>1. UNCHANGED <<callerVars, completeChan, stopChan, allowEarlyNextBatchExecution,
                  engineVars, batchVars>>
  BY HeadFrame
<1>2. WorkerTypes /\ crashed \in BOOLEAN /\ InsideOf(w) /\ HeadOf(w)
  BY Types DEF IInv, EngineTypes
<1>3. /\ at[w] = "block" /\ at' = [at EXCEPT ![w] = "exit"]
      /\ UNCHANGED <<statsVars, stateID, state, crashed>>
  BY DEF Exit, Goto
<1>4. WorkerTypes'
  BY <1>2, <1>3 DEF WorkerTypes, statsVars
<1>5. at'[w] = "exit" /\ \A v \in Workers : v # w => Untouched(v)
  BY <1>2, <1>3 DEF WorkerTypes, Untouched, statsVars
<1>6. InsideOf(w)'
  BY <1>5 DEF InsideOf, InBatch
<1>7. HeadOf(w)'
  BY <1>1, <1>2, <1>3, <1>5
  DEF HeadOf, AtHead, Reached, callerVars, engineVars, batchVars, statsVars
<1> QED
  BY <1>1, <1>2, <1>3, <1>4, <1>5, <1>6, <1>7, QuietStep DEF AtHead

\* The batches that a worker has executed, all of earlier blocks, when it turns
\* to the current block.
LEMMA TurnKeeps ==
    ASSUME IInv, NEW w \in Workers, CurrentBlockID[w] # currentBlockID,
           NEW s \in BatchIds, w \in joined[s]
    PROVE  s[1] < currentBlockID
<1>1. HeadOf(w) /\ WorkerTypes /\ EngineTypes
  BY Types DEF IInv
<1>2. CurrentBlockID[w] \in Int /\ currentBlockID \in Int
  <2>1. CurrentBlockID[w] \in BlockIDs \cup {-1, 0} /\ currentBlockID \in BlockIDs \cup {0}
    BY <1>1 DEF WorkerTypes, EngineTypes
  <2> QED
    BY <2>1, BlockIDsType
<1>3. s[1] \in Int
  BY BatchIdsType
<1> QED
  BY <1>1, <1>2, <1>3 DEF HeadOf

LEMMA ReadBlockIDStep ==
    ASSUME IInv, NEW w \in Workers, Worker(w), Synchronize(w), ReadBlockID(w)
    PROVE  IInv'
<1>1. UNCHANGED <<callerVars, completeChan, stopChan, allowEarlyNextBatchExecution,
                  engineVars, batchVars>>
  BY HeadFrame
<1>2. WorkerTypes /\ EngineTypes /\ InsideOf(w) /\ HeadOf(w)
  BY Types DEF IInv
<1>3. at[w] = "block" /\ UNCHANGED <<stateID, state, crashed>>
  BY DEF ReadBlockID
<1>4. CASE currentBlockID # CurrentBlockID[w]
  <2>1. /\ CurrentBlockID' = [CurrentBlockID EXCEPT ![w] = currentBlockID]
        /\ lastBatchID' = [lastBatchID EXCEPT ![w] = -1]
        /\ Phase' = [Phase EXCEPT ![w] = "waiting"]
        /\ at' = at
    BY <1>4 DEF ReadBlockID, TurnToBlock
  <2>2. WorkerTypes'
    BY <1>2, <1>3, <2>1 DEF WorkerTypes, EngineTypes
  <2>3. /\ CurrentBlockID'[w] = currentBlockID /\ lastBatchID'[w] = -1 /\ Phase'[w] = "waiting"
        /\ at'[w] = "block"
        /\ \A v \in Workers : v # w => Untouched(v)
    BY <1>2, <1>3, <2>1 DEF WorkerTypes, Untouched
  <2>4. InsideOf(w)'
    BY <2>3 DEF InsideOf, InBatch
  <2>5. HeadOf(w)'
    <3>1. currentBlockID' = currentBlockID /\ joined' = joined /\ currentBatchID' = currentBatchID
      BY <1>1 DEF engineVars, batchVars
    <3>2. currentBlockID \in Int /\ currentBatchID \in Nat \cup {-1}
      BY <1>2, BlockIDsType DEF EngineTypes
    <3>3. Reached(-1)'
      BY <3>1, <3>2 DEF Reached
    <3> QED
      BY <1>4, <2>3, <3>1, <3>2, <3>3, TurnKeeps DEF HeadOf
  <2> QED
    BY <1>1, <1>2, <1>3, <2>2, <2>3, <2>4, <2>5, QuietStep DEF AtHead, EngineTypes
<1>5. CASE currentBlockID = CurrentBlockID[w]
  <2>1. at' = [at EXCEPT ![w] = "batch"] /\ UNCHANGED statsVars
    BY <1>5 DEF ReadBlockID, Goto
  <2>2. WorkerTypes'
    BY <1>2, <1>3, <2>1 DEF WorkerTypes, statsVars
  <2>3. at'[w] = "batch" /\ \A v \in Workers : v # w => Untouched(v)
    BY <1>2, <1>3, <2>1 DEF WorkerTypes, Untouched, statsVars
  <2>4. InsideOf(w)'
    BY <2>3 DEF InsideOf, InBatch
  <2>5. HeadOf(w)'
    BY <1>1, <1>2, <1>3, <2>1, <2>3
    DEF HeadOf, AtHead, Reached, callerVars, engineVars, batchVars, statsVars
  <2> QED
    BY <1>1, <1>2, <1>3, <2>2, <2>3, <2>4, <2>5, QuietStep DEF AtHead, EngineTypes
<1> QED
  BY <1>4, <1>5

LEMMA ReadBatchIDStep ==
    ASSUME IInv, NEW w \in Workers, Worker(w), Synchronize(w), ReadBatchID(w)
    PROVE  IInv'
<1>1. UNCHANGED <<callerVars, completeChan, stopChan, allowEarlyNextBatchExecution,
                  engineVars, batchVars>>
  BY HeadFrame
<1>2. WorkerTypes /\ EngineTypes /\ InsideOf(w) /\ HeadOf(w)
  BY Types DEF IInv
<1>3. /\ at[w] = "batch" /\ at' = [at EXCEPT ![w] = "bounds"]
      /\ stateID' = [stateID EXCEPT ![w] = currentBatchID]
      /\ UNCHANGED <<statsVars, state, crashed>>
  BY DEF ReadBatchID, Goto
<1>4. currentBatchID \in Nat \cup {-1}
  BY <1>2 DEF EngineTypes
<1>5. WorkerTypes'
  BY <1>2, <1>3, <1>4 DEF WorkerTypes, statsVars
<1>6. at'[w] = "bounds" /\ stateID'[w] = currentBatchID
      /\ \A v \in Workers : v # w => Untouched(v)
  BY <1>2, <1>3 DEF WorkerTypes, Untouched, statsVars
<1>7. InsideOf(w)'
  BY <1>6 DEF InsideOf, InBatch
<1>8. HeadOf(w)'
  <2>1. lastBatchID[w] \in Int
    BY <1>2 DEF WorkerTypes
  <2>2. CurrentBlockID[w] = currentBlockID =>
            stateID'[w] = -1 \/ (stateID'[w] >= lastBatchID[w] /\ Reached(stateID'[w]))
    BY <1>2, <1>4, <1>6, <2>1 DEF HeadOf, Reached
  <2> QED
    BY <1>1, <1>2, <1>3, <1>4, <1>6, <2>2
    DEF HeadOf, AtHead, Reached, callerVars, engineVars, batchVars, statsVars
<1> QED
  BY <1>1, <1>2, <1>3, <1>5, <1>6, <1>7, <1>8, QuietStep DEF AtHead, EngineTypes

\* Back to the head of the loop, in the same block and phase.
LEMMA AgainStep ==
    ASSUME IInv, NEW w \in Workers, at[w] \in AtHead, Again(w),
           UNCHANGED <<callerVars, completeChan, stopChan, allowEarlyNextBatchExecution,
                       engineVars, batchVars, statsVars>>,
           crashed' \in BOOLEAN
    PROVE  IInv'
<1>1. WorkerTypes /\ InsideOf(w) /\ HeadOf(w)
  BY Types DEF IInv
<1>2. /\ at' = [at EXCEPT ![w] = "block"]
      /\ stateID' = [stateID EXCEPT ![w] = -1]
      /\ state' = [state EXCEPT ![w] = <<>>]
  BY DEF Again, Goto
<1>3. WorkerTypes'
  BY <1>1, <1>2 DEF WorkerTypes, statsVars
<1>4. at'[w] = "block" /\ \A v \in Workers : v # w => Untouched(v)
  BY <1>1, <1>2 DEF WorkerTypes, Untouched, statsVars
<1>5. InsideOf(w)'
  BY <1>4 DEF InsideOf, InBatch
<1>6. HeadOf(w)'
  BY <1>1, <1>4 DEF HeadOf, AtHead, Reached, callerVars, engineVars, batchVars, statsVars
<1> QED
  BY <1>3, <1>4, <1>5, <1>6, QuietStep DEF AtHead

LEMMA CheckBoundsStep ==
    ASSUME IInv, NEW w \in Workers, Worker(w), Synchronize(w), CheckBounds(w)
    PROVE  IInv'
<1>1. UNCHANGED <<callerVars, completeChan, stopChan, allowEarlyNextBatchExecution,
                  engineVars, batchVars>>
  BY HeadFrame
<1>2. WorkerTypes /\ EngineTypes /\ InsideOf(w) /\ HeadOf(w)
  BY Types DEF IInv
<1>3. at[w] = "bounds" /\ crashed' = crashed
  BY DEF CheckBounds
<1>4. lastBatchID[w] \in Int /\ stateID[w] \in Nat \cup {-1}
      /\ currentBatchID \in Nat \cup {-1}
  BY <1>2, <1>3 DEF WorkerTypes, EngineTypes, HeadOf
<1>5. CASE stateID[w] >= Len(batchStates) \/ stateID[w] = -1
  <2>1. Again(w) /\ UNCHANGED statsVars
    BY <1>5 DEF CheckBounds
  <2> QED
    BY <1>1, <1>2, <1>3, <2>1, AgainStep DEF EngineTypes, AtHead
<1>6. CASE stateID[w] # -1 /\ ~(stateID[w] >= Len(batchStates))
  <2>1. at' = [at EXCEPT ![w] = "index"] /\ UNCHANGED <<stateID, state, CurrentBlockID>>
    BY <1>6 DEF CheckBounds, Goto, statsVars
  <2>2. CASE stateID[w] > lastBatchID[w]
    <3>1. /\ lastBatchID' = [lastBatchID EXCEPT ![w] = stateID[w]]
          /\ Phase' = [Phase EXCEPT ![w] = "execute"]
      BY <1>6, <2>2 DEF CheckBounds
    <3>2. WorkerTypes'
      BY <1>2, <1>4, <2>1, <3>1 DEF WorkerTypes
    <3>3. /\ at'[w] = "index" /\ stateID'[w] = stateID[w] /\ CurrentBlockID'[w] = CurrentBlockID[w]
          /\ lastBatchID'[w] = stateID[w] /\ Phase'[w] = "execute"
          /\ \A v \in Workers : v # w => Untouched(v)
      BY <1>2, <2>1, <3>1 DEF WorkerTypes, Untouched
    <3>4. InsideOf(w)'
      BY <3>3 DEF InsideOf, InBatch
    <3>5. HeadOf(w)'
      <4>1. currentBlockID' = currentBlockID /\ joined' = joined
            /\ \A i : Reached(i)' <=> Reached(i)
        BY <1>1 DEF engineVars, batchVars, callerVars, Reached
      <4>2. \A s \in BatchIds : w \in joined[s] =>
                \/ s[1] < CurrentBlockID[w]
                \/ s[1] = CurrentBlockID[w] /\ s[2] <= stateID[w] /\ s[2] < stateID[w]
        BY <1>2, <1>4, <2>2, BatchIdsType DEF HeadOf
      <4>3. CurrentBlockID[w] = currentBlockID => Reached(stateID[w])
        BY <1>2, <1>3, <1>6 DEF HeadOf
      <4> QED
        BY <1>2, <1>4, <1>6, <3>3, <4>1, <4>2, <4>3 DEF HeadOf
    <3> QED
      BY <1>1, <1>2, <1>3, <3>2, <3>3, <3>4, <3>5, QuietStep DEF AtHead, EngineTypes
  <2>3. CASE ~(stateID[w] > lastBatchID[w])
    <3>1. UNCHANGED statsVars
      BY <1>6, <2>3 DEF CheckBounds
    <3>2. WorkerTypes'
      BY <1>2, <2>1, <3>1 DEF WorkerTypes, statsVars
    <3>3. at'[w] = "index" /\ \A v \in Workers : v # w => Untouched(v)
      BY <1>2, <2>1, <3>1 DEF WorkerTypes, Untouched, statsVars
    <3>4. InsideOf(w)'
      BY <3>3 DEF InsideOf, InBatch
    <3>5. HeadOf(w)'
      <4>1. stateID[w] \in Nat
        BY <1>4, <1>6
      <4>2. CurrentBlockID[w] = currentBlockID => stateID[w] = lastBatchID[w]
        BY <1>2, <1>3, <1>4, <1>6, <2>3 DEF HeadOf
      <4> QED
        BY <1>1, <1>2, <1>3, <2>1, <3>1, <3>3, <4>1, <4>2
        DEF HeadOf, AtHead, Reached, callerVars, engineVars, batchVars, statsVars
    <3> QED
      BY <1>1, <1>2, <1>3, <3>2, <3>3, <3>4, <3>5, QuietStep DEF AtHead, EngineTypes
  <2> QED
    BY <2>2, <2>3
<1> QED
  BY <1>5, <1>6

LEMMA ReadBatchStateStep ==
    ASSUME IInv, NEW w \in Workers, Worker(w), Synchronize(w), ReadBatchState(w)
    PROVE  IInv'
<1>1. UNCHANGED <<callerVars, completeChan, stopChan, allowEarlyNextBatchExecution,
                  engineVars, batchVars>>
  BY HeadFrame
<1>2. WorkerTypes /\ EngineTypes /\ InsideOf(w) /\ HeadOf(w)
  BY Types DEF IInv
<1>3. at[w] = "index" /\ UNCHANGED statsVars
  BY DEF ReadBatchState
<1>4. stateID[w] \in Nat /\ batchStates \in Seq(BlockIDs \cup {NoBlock})
  BY <1>2, <1>3 DEF HeadOf, EngineTypes
<1>5. CASE stateID[w] >= Len(batchStates)
  <2>1. crashed' = TRUE /\ UNCHANGED <<at, stateID, state>>
    BY <1>5 DEF ReadBatchState
  <2>2. WorkerTypes' /\ \A v \in Workers : Untouched(v)
    BY <1>2, <1>3, <2>1 DEF WorkerTypes, Untouched, statsVars
  <2>3. InsideOf(w)' /\ HeadOf(w)'
    BY <1>1, <2>2, OthersStay
  <2>4. at'[w] = "index"
    BY <1>3, <2>1
  <2> QED
    BY <1>1, <1>3, <2>1, <2>2, <2>3, <2>4, QuietStep DEF AtHead
<1>6. CASE ~(stateID[w] >= Len(batchStates)) /\ batchStates[stateID[w] + 1] = NoBlock
  <2>1. Again(w) /\ crashed' = crashed
    BY <1>6 DEF ReadBatchState
  <2> QED
    BY <1>1, <1>2, <1>3, <2>1, AgainStep DEF EngineTypes, AtHead
<1>7. CASE ~(stateID[w] >= Len(batchStates)) /\ batchStates[stateID[w] + 1] # NoBlock
  <2> DEFINE s == <<batchStates[stateID[w] + 1], stateID[w]>>
  <2>1. /\ state' = [state EXCEPT ![w] = s]
        /\ at' = [at EXCEPT ![w] = "recheck"] /\ UNCHANGED stateID /\ crashed' = crashed
    BY <1>7 DEF ReadBatchState, Goto
  <2>2. s \in BatchIds
    <3>1. stateID[w] + 1 \in DOMAIN batchStates
      BY <1>4, <1>7
    <3>2. batchStates[stateID[w] + 1] \in BlockIDs
          /\ stateID[w] + 1 <= Numbered[batchStates[stateID[w] + 1]]
      BY <1>7, <3>1 DEF IInv, EntryInv
    <3>3. stateID[w] < Numbered[batchStates[stateID[w] + 1]]
      BY <1>4, <3>2, BlockIDsType
    <3> QED
      BY <1>4, <3>2, <3>3, BatchIdsType
  <2>3. s[2] = stateID[w]
    OBVIOUS
  <2> HIDE DEF s
  <2>4. WorkerTypes'
    BY <1>2, <1>3, <2>1, <2>2 DEF WorkerTypes, statsVars
  <2>5. at'[w] = "recheck" /\ state'[w] = s /\ \A v \in Workers : v # w => Untouched(v)
    BY <1>2, <1>3, <2>1 DEF WorkerTypes, Untouched, statsVars
  <2>6. InsideOf(w)'
    BY <2>5 DEF InsideOf, InBatch
  <2>7. HeadOf(w)'
    BY <1>1, <1>2, <1>3, <1>4, <2>1, <2>2, <2>3, <2>5
    DEF HeadOf, AtHead, Reached, callerVars, engineVars, batchVars, statsVars
  <2> QED
    BY <1>1, <1>2, <1>3, <2>1, <2>4, <2>5, <2>6, <2>7, QuietStep DEF AtHead, EngineTypes
<1> QED
  BY <1>5, <1>6, <1>7

LEMMA RecheckBlockIDStep ==
    ASSUME IInv, NEW w \in Workers, Worker(w), Synchronize(w), RecheckBlockID(w)
    PROVE  IInv'
<1>1. UNCHANGED <<callerVars, completeChan, stopChan, allowEarlyNextBatchExecution,
                  engineVars, batchVars>>
  BY HeadFrame
<1>2. WorkerTypes /\ EngineTypes /\ InsideOf(w) /\ HeadOf(w)
  BY Types DEF IInv
<1>3. at[w] = "recheck" /\ crashed' = crashed
  BY DEF RecheckBlockID
<1>4. CASE currentBlockID # CurrentBlockID[w]
  <2>1. TurnToBlock(w, currentBlockID) /\ Again(w)
    BY <1>4 DEF RecheckBlockID
  <2>2. /\ CurrentBlockID' = [CurrentBlockID EXCEPT ![w] = currentBlockID]
        /\ lastBatchID' = [lastBatchID EXCEPT ![w] = -1]
        /\ Phase' = [Phase EXCEPT ![w] = "waiting"]
        /\ at' = [at EXCEPT ![w] = "block"]
        /\ stateID' = [stateID EXCEPT ![w] = -1]
        /\ state' = [state EXCEPT ![w] = <<>>]
    BY <2>1 DEF TurnToBlock, Again, Goto
  <2>3. WorkerTypes'
    BY <1>2, <2>2 DEF WorkerTypes, EngineTypes
  <2>4. /\ CurrentBlockID'[w] = currentBlockID /\ lastBatchID'[w] = -1 /\ Phase'[w] = "waiting"
        /\ at'[w] = "block"
        /\ \A v \in Workers : v # w => Untouched(v)
    BY <1>2, <2>2 DEF WorkerTypes, Untouched
  <2>5. InsideOf(w)'
    BY <2>4 DEF InsideOf, InBatch
  <2>6. HeadOf(w)'
    <3>1. currentBlockID' = currentBlockID /\ joined' = joined /\ currentBatchID' = currentBatchID
      BY <1>1 DEF engineVars, batchVars
    <3>2. currentBlockID \in Int /\ currentBatchID \in Nat \cup {-1}
      BY <1>2, BlockIDsType DEF EngineTypes
    <3>3. Reached(-1)'
      BY <3>1, <3>2 DEF Reached
    <3> QED
      BY <1>4, <2>4, <3>1, <3>2, <3>3, TurnKeeps DEF HeadOf
  <2> QED
    BY <1>1, <1>2, <1>3, <2>3, <2>4, <2>5, <2>6, QuietStep DEF AtHead, EngineTypes
<1>5. CASE currentBlockID = CurrentBlockID[w] /\ state[w][1] # currentBlockID
  <2>1. Again(w) /\ UNCHANGED statsVars
    BY <1>5 DEF RecheckBlockID
  <2> QED
    BY <1>1, <1>2, <1>3, <2>1, AgainStep DEF EngineTypes, AtHead
<1>6. CASE currentBlockID = CurrentBlockID[w] /\ state[w][1] = currentBlockID
  <2>1. Dispatch(w) /\ UNCHANGED statsVars
    BY <1>6 DEF RecheckBlockID
  <2>2. state[w] \in BatchIds /\ state[w] = <<CurrentBlockID[w], lastBatchID[w]>>
        /\ lastBatchID[w] \in Nat /\ Reached(lastBatchID[w])
    BY <1>2, <1>3, <1>6, BatchIdsType DEF HeadOf
  <2>3. CASE Phase[w] \notin {"execute", "construct"}
    <3>1. Again(w)
      BY <2>1, <2>3 DEF Dispatch
    <3> QED
      BY <1>1, <1>2, <1>3, <2>1, <3>1, AgainStep DEF EngineTypes, AtHead
  <2>4. CASE Phase[w] = "execute"
    <3>1. at' = [at EXCEPT ![w] = "execute"] /\ UNCHANGED <<stateID, state>>
      BY <2>1, <2>4 DEF Dispatch, Goto
    <3>2. WorkerTypes'
      BY <1>2, <2>1, <3>1 DEF WorkerTypes, statsVars
    <3>3. at'[w] = "execute" /\ \A v \in Workers : v # w => Untouched(v)
      BY <1>2, <2>1, <3>1 DEF WorkerTypes, Untouched, statsVars
    <3>4. w \notin joined[state[w]]
      <4>1. \A s \in BatchIds : w \in joined[s] /\ s[1] = CurrentBlockID[w] => s[2] < lastBatchID[w]
        <5>1. CurrentBlockID[w] \in Int
          BY <1>2, BlockIDsType DEF WorkerTypes
        <5> QED
          BY <1>2, <1>3, <2>4, <5>1 DEF HeadOf, AtHead
      <4> QED
        BY <2>2, <4>1
    <3>5. UnderWay(state[w])
      <4>1. ~Past(state[w])
        BY <2>2, <3>4, NotExecuted
      <4>2. callerAt \in {"open", "wait"}
        BY <1>2, <1>6, <4>1 DEF Past, Between, EngineTypes
      <4>3. callerAt = "open" => currentBatchID = -1
        BY DEF IInv, CallerInv
      <4>4. callerAt = "wait"
        BY <2>2, <4>2, <4>3 DEF Reached
      <4>5. currentBatchID \in Nat /\ lastBatchID[w] <= currentBatchID
        BY <1>2, <2>2, <4>4 DEF Reached, EngineTypes, IInv, CallerInv
      <4>6. ~(lastBatchID[w] < currentBatchID)
        BY <1>6, <2>2, <4>1, <4>4 DEF Past
      <4>7. lastBatchID[w] = currentBatchID
        BY <2>2, <4>5, <4>6
      <4> QED
        BY <1>6, <2>2, <4>4, <4>7 DEF UnderWay, Current
    <3>6. InsideOf(w)'
      <4>1. state'[w] \in BatchIds /\ state'[w] = <<CurrentBlockID'[w], lastBatchID'[w]>>
        BY <2>1, <2>2, <3>1 DEF statsVars
      <4>2. UnderWay(state[w])' /\ w \notin joined'[state'[w]]
        BY <1>1, <3>1, <3>4, <3>5 DEF UnderWay, Current, callerVars, engineVars, batchVars
      <4>3. state' = state
        BY <3>1
      <4> QED
        BY <3>3, <4>1, <4>2, <4>3 DEF InsideOf, InBatch
    <3>7. HeadOf(w)'
      BY <1>1, <1>2, <1>3, <2>1, <3>1, <3>3
      DEF HeadOf, AtHead, Reached, callerVars, engineVars, batchVars, statsVars
    <3> QED
      BY <1>1, <1>2, <1>3, <3>2, <3>3, <3>6, <3>7, QuietStep DEF AtHead, EngineTypes
  <2>5. CASE Phase[w] = "construct"
    <3>1. at' = [at EXCEPT ![w] = "arrive"] /\ UNCHANGED <<stateID, state>>
      BY <2>1, <2>5 DEF Dispatch, Goto
    <3>2. WorkerTypes'
      BY <1>2, <2>1, <3>1 DEF WorkerTypes, statsVars
    <3>3. at'[w] = "arrive" /\ Phase'[w] = "construct"
          /\ \A v \in Workers : v # w => Untouched(v)
      BY <1>2, <2>1, <2>5, <3>1 DEF WorkerTypes, Untouched, statsVars
    <3>4. w \in joined[state[w]]
      BY <1>2, <1>3, <2>2, <2>5 DEF HeadOf, AtHead
    <3>5. InsideOf(w)'
      <4>1. state'[w] \in BatchIds /\ state'[w] = <<CurrentBlockID'[w], lastBatchID'[w]>>
        BY <2>1, <2>2, <3>1 DEF statsVars
      <4>2. w \in joined'[state'[w]]
        BY <1>1, <3>1, <3>4 DEF batchVars
      <4> QED
        BY <3>3, <4>1, <4>2 DEF InsideOf, InBatch
    <3>6. HeadOf(w)'
      BY <1>1, <1>2, <1>3, <2>1, <3>1, <3>3
      DEF HeadOf, AtHead, Reached, callerVars, engineVars, batchVars, statsVars
    <3> QED
      BY <1>1, <1>2, <1>3, <3>2, <3>3, <3>5, <3>6, QuietStep DEF AtHead, EngineTypes
  <2> QED
    BY <2>3, <2>4, <2>5
<1> QED
  BY <1>4, <1>5, <1>6

----------------------------------------------------------------------------
(* Inside a batch *)

\* What is unchanged by a step inside a batch.
LEMMA InsideFrame ==
    ASSUME NEW w \in Workers, Worker(w), Inside(w)
    PROVE  UNCHANGED <<callerVars, completeChan, stopChan, allowEarlyNextBatchExecution,
                       engineVars, crashed>>
BY DEF Worker, Inside

\* A step that is not between the end of a batch and its completion leaves the
\* caller and the engine alone.
LEMMA EngineStays ==
    ASSUME IInv, NEW w \in Workers,
           \A v \in Workers : v # w => Untouched(v),
           at[w] \notin {"moveOn", "complete"}, at'[w] \notin {"moveOn", "complete"},
           UNCHANGED <<callerVars, completeChan, engineVars>>
    PROVE  /\ CallerInv' /\ EntryInv' /\ CountInv'
           /\ \A s : (Past(s)' <=> Past(s)) /\ (UnderWay(s)' <=> UnderWay(s))
           /\ \A v \in Workers : at'[v] = "moveOn" <=> at[v] = "moveOn"
<1>1. \A v \in Workers : \A p \in {"moveOn", "complete"} : at'[v] = p <=> at[v] = p
  BY DEF Untouched
<1>2. CallerInv' /\ EntryInv'
  BY DEF IInv, CallerInv, EntryInv, Between, BatchCount, callerVars, engineVars
<1>3. Completing' = Completing
  BY <1>1 DEF Completing
<1>4. CountInv'
  BY <1>1, <1>3 DEF IInv, CountInv, callerVars, engineVars
<1>5. \A s : (Past(s)' <=> Past(s)) /\ (UnderWay(s)' <=> UnderWay(s))
  BY DEF Past, UnderWay, Between, Current, callerVars, engineVars
<1> QED
  BY <1>1, <1>2, <1>4, <1>5

\* The batch stays in its stage or goes on to the next; a batch without a
\* conflict is found at the end of its construction.
Onward(t) ==
    \/ stage'[t] = stage[t] /\ noConflict'[t] = noConflict[t]
    \/ /\ stage[t] \in {"merge", "construct", "commit", "reexecute"}
       /\ stage'[t] = After(stage[t])
       /\ noConflict[t] => noConflict'[t]
       /\ stage[t] # "construct" => noConflict'[t] = noConflict[t]

\* Worker w may have begun to execute the batch.
JoinedBy(w, t) ==
    \/ joined'[t] = joined[t]
    \/ UnderWay(t) /\ joined'[t] = joined[t] \cup {w}

\* A batch that goes on does not disturb a worker that has no work of it.
LEMMA OthersGoOn ==
    ASSUME IInv, NEW v \in Workers, NEW w \in Workers, v # w, Untouched(v), BatchTypes',
           UNCHANGED <<callerVars, engineVars, finished>>,
           \A t \in BatchIds : JoinedBy(w, t) /\ Onward(t),
           \A t \in BatchIds : stage'[t] # stage[t] =>
               ~(at[v] \in {"merge", "work"} /\ state[v] = t)
    PROVE  InsideOf(v)' /\ HeadOf(v)'
<1>1. InsideOf(v) /\ HeadOf(v) /\ BatchTypes
  BY Types DEF IInv
<1>2. \A t \in BatchIds : v \in joined'[t] <=> v \in joined[t]
  BY DEF JoinedBy
<1>3. HeadOf(v)'
  BY <1>1, <1>2 DEF HeadOf, Untouched, Reached, callerVars, engineVars
<1>4. \A t \in BatchIds :
        /\ Rank[stage'[t]] >= Rank[stage[t]]
        /\ stage[t] \notin {"merge", "construct"} =>
              stage'[t] \notin {"merge", "construct"} /\ noConflict'[t] = noConflict[t]
        /\ stage[t] = "over" \/ noConflict[t] => stage'[t] = "over" \/ noConflict'[t]
  <2> SUFFICES ASSUME NEW t \in BatchIds
               PROVE  /\ Rank[stage'[t]] >= Rank[stage[t]]
                      /\ stage[t] \notin {"merge", "construct"} =>
                            stage'[t] \notin {"merge", "construct"} /\ noConflict'[t] = noConflict[t]
                      /\ stage[t] = "over" \/ noConflict[t] => stage'[t] = "over" \/ noConflict'[t]
    OBVIOUS
  <2>1. stage[t] \in {"merge", "construct", "commit", "reexecute", "over"}
    BY <1>1, StageOrder DEF BatchTypes
  <2>2. Onward(t)
    OBVIOUS
  <2> QED
    BY <2>1, <2>2, StageOrder DEF Onward
<1>5. \A t \in BatchIds : \A p \in {"construct", "commit", "reexecute"} :
        Rank[stage[t]] >= Rank[p] => Rank[stage'[t]] >= Rank[p]
  <2> SUFFICES ASSUME NEW t \in BatchIds, NEW p \in {"construct", "commit", "reexecute"},
                      Rank[stage[t]] >= Rank[p]
               PROVE  Rank[stage'[t]] >= Rank[p]
    OBVIOUS
  <2>1. Rank[stage[t]] \in Int /\ Rank[stage'[t]] \in Int /\ Rank[p] \in Int
    BY <1>1, StageOrder DEF BatchTypes
  <2> QED
    BY <1>4, <2>1
<1>6. at'[v] = at[v] /\ state'[v] = state[v] /\ Phase'[v] = Phase[v]
      /\ CurrentBlockID'[v] = CurrentBlockID[v] /\ lastBatchID'[v] = lastBatchID[v]
  BY DEF Untouched
<1>7. \A s : (UnderWay(s)' <=> UnderWay(s))
  BY DEF UnderWay, Current, callerVars, engineVars
<1>8. InsideOf(v)'
  <2>1. CASE at[v] \notin InBatch \cup {"execute"}
    BY <1>6, <2>1 DEF InsideOf, InBatch
  <2>2. CASE at[v] \in InBatch \cup {"execute"}
    <3> DEFINE t == state[v]
    <3>1. t \in BatchIds
      BY <1>1, <2>2 DEF InsideOf
    <3>2. at[v] \in {"merge", "work"} => stage'[t] = stage[t]
      BY <3>1
    <3>3. state'[v] = t
      BY <1>6
    <3> HIDE DEF t
    <3>4. finished' = finished
      OBVIOUS
    <3>5. InsideOf(v) /\ state[v] = t
      BY <1>1 DEF t
    <3>6. (at[v] \in {"await"} \/ (at[v] = "arrive" /\ Phase[v] = "reexecute")
           \/ (at[v] \in {"take", "work"} /\ Phase[v] # "construct")) =>
              stage'[t] \notin {"merge", "construct"} /\ ~noConflict'[t]
      BY <1>4, <3>1, <3>5 DEF InsideOf
    <3>7. at[v] = "take" => Rank[stage'[t]] >= Rank[Phase[v]]
      BY <1>5, <3>1, <3>5 DEF InsideOf
    <3>8. at[v] = "end" => stage'[t] = "over" \/ noConflict'[t]
      BY <1>4, <3>1, <3>5 DEF InsideOf
    <3> QED
      BY <1>2, <1>6, <1>7, <3>1, <3>2, <3>3, <3>4, <3>5, <3>6, <3>7, <3>8 DEF InsideOf
  <2> QED
    BY <2>1, <2>2
<1> QED
  BY <1>3, <1>8

\* A step that joins a batch, takes or finishes work of it.
LEMMA WorkStep ==
    ASSUME IInv, NEW w \in Workers, WorkerTypes', BatchTypes',
           \A v \in Workers : v # w => Untouched(v),
           at[w] \notin {"moveOn", "complete"}, at'[w] \notin {"moveOn", "complete"},
           UNCHANGED <<callerVars, completeChan, stopChan, allowEarlyNextBatchExecution,
                       engineVars, crashed, finished>>,
           \A t \in BatchIds : JoinedBy(w, t) /\ Onward(t),
           \A t \in BatchIds :
               stage'[t] # stage[t] => working'[t] = {} /\ joined'[t] = Workers,
           \A t \in BatchIds :
               working'[t] = {v \in Workers : at'[v] \in {"merge", "work"} /\ state'[v] = t},
           InsideOf(w)', HeadOf(w)'
    PROVE  IInv'
<1>1. /\ CallerInv' /\ EntryInv' /\ CountInv'
      /\ \A s : (Past(s)' <=> Past(s)) /\ (UnderWay(s)' <=> UnderWay(s))
      /\ \A v \in Workers : at'[v] = "moveOn" <=> at[v] = "moveOn"
  BY EngineStays
<1>2. BatchTypes /\ EngineTypes
  BY Types DEF IInv
<1>3. TypeOK'
  <2>1. EngineTypes'
    BY <1>2 DEF EngineTypes, callerVars, engineVars
  <2>2. (WorkerTypes /\ BatchTypes /\ EngineTypes => TypeOK)'
    BY Types, PTL
  <2> QED
    BY <2>1, <2>2
<1>4. BatchInv'
  <2> SUFFICES ASSUME NEW s \in BatchIds
               PROVE  /\ Past(s) => finished[s]
                      /\ ~Past(s) /\ ~UnderWay(s) => joined'[s] = {} /\ ~finished[s]
                      /\ UnderWay(s) /\ finished[s] => \E v \in Workers : at'[v] = "moveOn"
    BY <1>1 DEF BatchInv
  <2>1. JoinedBy(w, s)
    OBVIOUS
  <2> QED
    BY <1>1, <2>1 DEF IInv, BatchInv, JoinedBy
<1>5. StageInv'
  <2> SUFFICES ASSUME NEW s \in BatchIds
               PROVE  /\ stage'[s] = "merge" => ~noConflict'[s] /\ ~finished[s]
                      /\ stage'[s] # "merge" => joined'[s] = Workers
                      /\ stage'[s] = "construct" => ~noConflict'[s]
                      /\ finished[s] => stage'[s] = "over" \/ noConflict'[s]
    BY DEF StageInv
  <2>1. Onward(s) /\ JoinedBy(w, s)
    OBVIOUS
  <2>2. stage[s] \in {"merge", "construct", "commit", "reexecute", "over"}
        /\ joined[s] \subseteq Workers
    BY <1>2, StageOrder DEF BatchTypes
  <2>3. /\ stage[s] = "merge" => ~noConflict[s] /\ ~finished[s]
        /\ stage[s] # "merge" => joined[s] = Workers
        /\ stage[s] = "construct" => ~noConflict[s]
        /\ finished[s] => stage[s] = "over" \/ noConflict[s]
    BY DEF IInv, StageInv
  <2>4. stage'[s] # "merge" => joined'[s] = Workers
    BY <2>1, <2>3 DEF JoinedBy
  <2>5. CASE stage'[s] = stage[s] /\ noConflict'[s] = noConflict[s]
    BY <2>3, <2>4, <2>5
  <2>6. CASE /\ stage[s] \in {"merge", "construct", "commit", "reexecute"}
             /\ stage'[s] = After(stage[s])
             /\ noConflict[s] => noConflict'[s]
             /\ stage[s] # "construct" => noConflict'[s] = noConflict[s]
    BY <2>3, <2>4, <2>6, StageOrder
  <2> QED
    BY <2>1, <2>5, <2>6 DEF Onward
<1>6. \A v \in Workers : v # w => InsideOf(v)' /\ HeadOf(v)'
  <2> SUFFICES ASSUME NEW v \in Workers, v # w
               PROVE  InsideOf(v)' /\ HeadOf(v)'
    OBVIOUS
  <2>1. \A t \in BatchIds : stage'[t] # stage[t] =>
            ~(at[v] \in {"merge", "work"} /\ state[v] = t)
    <3> SUFFICES ASSUME NEW t \in BatchIds, stage'[t] # stage[t],
                        at[v] \in {"merge", "work"}, state[v] = t
                 PROVE  FALSE
      OBVIOUS
    <3>1. v \in working'[t]
      BY DEF Untouched
    <3> QED
      BY <3>1
  <2> QED
    BY <2>1, OthersGoOn
<1> QED
  BY <1>1, <1>3, <1>4, <1>5, <1>6 DEF IInv

\* What worker w knows of the batches, when it stays in its block and batch.
LEMMA HeadKept ==
    ASSUME IInv, NEW w \in Workers,
           UNCHANGED <<callerVars, engineVars>>,
           CurrentBlockID'[w] = CurrentBlockID[w], lastBatchID'[w] = lastBatchID[w],
           \A t \in BatchIds :
               w \in joined'[t] => w \in joined[t] \/ t = <<CurrentBlockID[w], lastBatchID[w]>>,
           \/ at'[w] \notin AtHead
           \/ at'[w] = "block" /\ Phase'[w] = "waiting"
           \/ /\ at'[w] = "block" /\ Phase'[w] = "construct"
              /\ \E t \in BatchIds : t = <<CurrentBlockID[w], lastBatchID[w]>> /\ w \in joined'[t]
    PROVE  HeadOf(w)'
<1>1. HeadOf(w) /\ WorkerTypes
  BY Types DEF IInv
<1>2. currentBlockID' = currentBlockID /\ \A i : Reached(i)' <=> Reached(i)
  BY DEF callerVars, engineVars, Reached
<1>3. lastBatchID[w] \in Int
  BY <1>1 DEF WorkerTypes
<1>4. \A t \in BatchIds : w \in joined'[t] =>
        \/ t[1] < CurrentBlockID[w]
        \/ /\ t[1] = CurrentBlockID[w]
           /\ t[2] <= lastBatchID[w]
  <2> SUFFICES ASSUME NEW t \in BatchIds, w \in joined'[t]
               PROVE  \/ t[1] < CurrentBlockID[w]
                      \/ t[1] = CurrentBlockID[w] /\ t[2] <= lastBatchID[w]
    OBVIOUS
  <2>1. CASE w \in joined[t]
    BY <1>1, <2>1 DEF HeadOf
  <2>2. CASE t = <<CurrentBlockID[w], lastBatchID[w]>>
    BY <1>3, <2>2
  <2> QED
    BY <2>1, <2>2
<1>5. ~(Phase'[w] = "execute" /\ at'[w] \in AtHead)
      /\ at'[w] \notin {"bounds", "index", "recheck"}
  BY DEF AtHead
<1>6. at'[w] \in AtHead /\ Phase'[w] = "construct" =>
        \E t \in BatchIds : t = <<CurrentBlockID[w], lastBatchID[w]>> /\ w \in joined'[t]
  OBVIOUS
<1> QED
  BY <1>1, <1>2, <1>4, <1>5, <1>6 DEF HeadOf

\* A worker that leaves its batch, or the head of the loop, for the head of the
\* loop, without a change of the batches.
LEMMA BackStep ==
    ASSUME IInv, NEW w \in Workers, at[w] \in {"preExecute", "arrive", "end"},
           NEW p \in {"waiting", "construct"},
           Phase' = [Phase EXCEPT ![w] = p], Again(w),
           UNCHANGED <<callerVars, completeChan, stopChan, allowEarlyNextBatchExecution,
                       engineVars, batchVars, crashed, CurrentBlockID, lastBatchID>>
    PROVE  IInv'
<1>1. WorkerTypes /\ EngineTypes /\ InsideOf(w)
  BY Types DEF IInv
<1>2. /\ at' = [at EXCEPT ![w] = "block"]
      /\ stateID' = [stateID EXCEPT ![w] = -1]
      /\ state' = [state EXCEPT ![w] = <<>>]
  BY DEF Again, Goto
<1>3. WorkerTypes'
  BY <1>1, <1>2 DEF WorkerTypes
<1>4. at'[w] = "block" /\ Phase'[w] = p /\ \A v \in Workers : v # w => Untouched(v)
  BY <1>1, <1>2 DEF WorkerTypes, Untouched
<1>5. InsideOf(w)'
  BY <1>4 DEF InsideOf, InBatch
<1>6. state[w] \in BatchIds /\ state[w] = <<CurrentBlockID[w], lastBatchID[w]>>
      /\ w \in joined[state[w]]
  BY <1>1 DEF InsideOf, InBatch
<1>7. joined' = joined
  BY DEF batchVars
<1>8. HeadOf(w)'
  BY <1>4, <1>6, <1>7, HeadKept
<1>9. crashed' \in BOOLEAN
  BY <1>1 DEF EngineTypes
<1> QED
  BY <1>3, <1>4, <1>5, <1>8, <1>9, QuietStep

\* The facts about a worker in a batch that a step needs.
LEMMA InBatchFacts ==
    ASSUME IInv, NEW w \in Workers, at[w] \in InBatch
    PROVE  /\ WorkerTypes /\ BatchTypes /\ EngineTypes /\ InsideOf(w)
           /\ state[w] \in BatchIds /\ state[w] = <<CurrentBlockID[w], lastBatchID[w]>>
           /\ w \in joined[state[w]]
BY Types DEF IInv, InsideOf

LEMMA FinishPreExecuteStep ==
    ASSUME IInv, NEW w \in Workers, Worker(w), Inside(w), FinishPreExecute(w)
    PROVE  IInv'
<1>1. UNCHANGED <<callerVars, completeChan, stopChan, allowEarlyNextBatchExecution,
                  engineVars, crashed>>
  BY InsideFrame
<1>2. at[w] = "preExecute" /\ UNCHANGED batchVars
  BY DEF FinishPreExecute
<1>3. CASE Leave(w)
  BY <1>1, <1>2, <1>3, BackStep DEF Leave
<1>4. CASE Phase' = [Phase EXCEPT ![w] = "construct"] /\ Again(w)
           /\ UNCHANGED <<CurrentBlockID, lastBatchID>>
  BY <1>1, <1>2, <1>4, BackStep
<1> QED
  BY <1>3, <1>4 DEF FinishPreExecute

\* A worker that goes on in its batch, without a change of the batches.
LEMMA QuietInside ==
    ASSUME IInv, NEW w \in Workers, at[w] \in {"arrive", "take", "await"},
           NEW a \in {"arrive", "take", "await", "end"},
           NEW p \in {"construct", "commit", "reexecute"},
           Goto(w, a), Phase' = [Phase EXCEPT ![w] = p],
           UNCHANGED <<callerVars, completeChan, stopChan, allowEarlyNextBatchExecution,
                       engineVars, batchVars, crashed, CurrentBlockID, lastBatchID,
                       stateID, state>>,
           a = "take" => Rank[stage[state[w]]] >= Rank[p],
           \/ a = "await"
           \/ a = "arrive" /\ p = "reexecute"
           \/ a = "take" /\ p # "construct"
           => stage[state[w]] \notin {"merge", "construct"} /\ ~noConflict[state[w]],
           a = "end" => stage[state[w]] = "over" \/ noConflict[state[w]]
    PROVE  IInv'
<1>1. /\ WorkerTypes /\ BatchTypes /\ EngineTypes /\ InsideOf(w)
      /\ state[w] \in BatchIds /\ state[w] = <<CurrentBlockID[w], lastBatchID[w]>>
      /\ w \in joined[state[w]]
  BY InBatchFacts DEF InBatch
<1>2. at' = [at EXCEPT ![w] = a]
  BY DEF Goto
<1>3. WorkerTypes'
  BY <1>1, <1>2 DEF WorkerTypes
<1>4. at'[w] = a /\ Phase'[w] = p /\ state'[w] = state[w]
      /\ CurrentBlockID'[w] = CurrentBlockID[w] /\ lastBatchID'[w] = lastBatchID[w]
      /\ \A v \in Workers : v # w => Untouched(v)
  BY <1>1, <1>2 DEF WorkerTypes, Untouched
<1>5. joined' = joined /\ stage' = stage /\ noConflict' = noConflict /\ finished' = finished
  BY DEF batchVars
<1>6. InsideOf(w)'
  BY <1>1, <1>4, <1>5 DEF InsideOf
<1>7. HeadOf(w)'
  BY <1>4, <1>5, HeadKept DEF AtHead
<1>8. crashed' \in BOOLEAN
  BY <1>1 DEF EngineTypes
<1> QED
  BY <1>3, <1>4, <1>6, <1>7, <1>8, QuietStep

LEMMA ArriveStep ==
    ASSUME IInv, NEW w \in Workers, Worker(w), Inside(w), Arrive(w)
    PROVE  IInv'
<1>1. UNCHANGED <<callerVars, completeChan, stopChan, allowEarlyNextBatchExecution,
                  engineVars, crashed>>
  BY InsideFrame
<1>2. at[w] = "arrive" /\ Rank[stage[state[w]]] >= Rank[Phase[w]] /\ UNCHANGED batchVars
  BY DEF Arrive
<1>3. WorkerTypes /\ BatchTypes /\ InsideOf(w) /\ state[w] \in BatchIds
  BY <1>2, InBatchFacts DEF InBatch
<1>4. Phase[w] \in {"construct", "commit", "reexecute"} /\ Phase = [Phase EXCEPT ![w] = Phase[w]]
  BY <1>2, <1>3 DEF InsideOf, WorkerTypes
<1>5. CASE finished[state[w]]
  <2>1. Leave(w)
    BY <1>5 DEF Arrive
  <2> QED
    BY <1>1, <1>2, <2>1, BackStep DEF Leave
<1>6. CASE ~finished[state[w]] /\ Phase[w] = "commit" /\ noConflict[state[w]]
  <2>1. Goto(w, "end") /\ UNCHANGED <<statsVars, stateID, state>>
    BY <1>6 DEF Arrive, Stay
  <2>2. Phase' = [Phase EXCEPT ![w] = Phase[w]] /\ UNCHANGED <<CurrentBlockID, lastBatchID>>
    BY <1>4, <2>1 DEF statsVars
  <2> QED
    BY <1>1, <1>2, <1>4, <1>6, <2>1, <2>2, QuietInside
<1>7. CASE ~finished[state[w]] /\ ~(Phase[w] = "commit" /\ noConflict[state[w]])
  <2>1. Goto(w, "take") /\ UNCHANGED <<statsVars, stateID, state>>
    BY <1>7 DEF Arrive, Stay
  <2>2. Phase' = [Phase EXCEPT ![w] = Phase[w]] /\ UNCHANGED <<CurrentBlockID, lastBatchID>>
    BY <1>4, <2>1 DEF statsVars
  <2>3. Phase[w] # "construct" =>
            stage[state[w]] \notin {"merge", "construct"} /\ ~noConflict[state[w]]
    BY <1>2, <1>3, <1>4, <1>7, StageOrder DEF InsideOf
  <2> QED
    BY <1>1, <1>2, <1>4, <2>1, <2>2, <2>3, QuietInside
<1> QED
  BY <1>5, <1>6, <1>7

\* Where a worker goes after its part in a stage.
LEMMA GoOnTo ==
    ASSUME IInv, NEW w \in Workers, at[w] \in {"take", "work"}, GoOn(w)
    PROVE  \E a \in {"arrive", "await"}, p \in {"commit", "reexecute"} :
             /\ Goto(w, a) /\ Phase' = [Phase EXCEPT ![w] = p]
             /\ UNCHANGED <<CurrentBlockID, lastBatchID, stateID, state>>
             /\ Phase[w] = "construct" => a = "arrive" /\ p = "commit"
<1>1. WorkerTypes
  BY Types DEF IInv
<1>2. CASE Phase[w] = "construct" /\ Enter(w, "commit")
  BY <1>2 DEF Enter
<1>3. CASE Phase[w] = "commit" /\ Enter(w, "reexecute")
  BY <1>3 DEF Enter
<1>4. CASE Phase[w] = "reexecute" /\ Stay(w, "await")
  <2>1. Phase' = [Phase EXCEPT ![w] = "reexecute"]
    BY <1>1, <1>4 DEF Stay, statsVars, WorkerTypes
  <2> QED
    BY <1>4, <2>1 DEF Stay, statsVars
<1> QED
  BY <1>2, <1>3, <1>4 DEF GoOn

LEMMA PassByStep ==
    ASSUME IInv, NEW w \in Workers, Worker(w), Inside(w), PassBy(w)
    PROVE  IInv'
<1>1. UNCHANGED <<callerVars, completeChan, stopChan, allowEarlyNextBatchExecution,
                  engineVars, crashed>>
  BY InsideFrame
<1>2. at[w] = "take" /\ GoOn(w) /\ UNCHANGED batchVars
  BY DEF PassBy
<1>3. InsideOf(w)
  BY DEF IInv
<1>4. PICK a \in {"arrive", "await"}, p \in {"commit", "reexecute"} :
        /\ Goto(w, a) /\ Phase' = [Phase EXCEPT ![w] = p]
        /\ UNCHANGED <<CurrentBlockID, lastBatchID, stateID, state>>
        /\ Phase[w] = "construct" => a = "arrive" /\ p = "commit"
  BY <1>2, GoOnTo
<1>5. Phase[w] # "construct" =>
        stage[state[w]] \notin {"merge", "construct"} /\ ~noConflict[state[w]]
  BY <1>2, <1>3 DEF InsideOf
<1> QED
  BY <1>1, <1>2, <1>4, <1>5, QuietInside

LEMMA AwaitStep ==
    ASSUME IInv, NEW w \in Workers, Worker(w), Inside(w), Await(w)
    PROVE  IInv'
<1>1. UNCHANGED <<callerVars, completeChan, stopChan, allowEarlyNextBatchExecution,
                  engineVars, crashed>>
  BY InsideFrame
<1>2. at[w] = "await" /\ stage[state[w]] = "over" /\ Goto(w, "end")
      /\ UNCHANGED <<batchVars, statsVars, stateID, state>>
  BY DEF Await, Stay
<1>3. WorkerTypes /\ InsideOf(w)
  BY Types DEF IInv
<1>4. at'[w] = "end" /\ at' = [at EXCEPT ![w] = "end"]
  BY <1>2, <1>3 DEF Goto, WorkerTypes
<1>5. WorkerTypes'
  BY <1>2, <1>3, <1>4 DEF WorkerTypes, statsVars
<1>6. \A v \in Workers : v # w => Untouched(v)
  BY <1>2, <1>3, <1>4 DEF WorkerTypes, Untouched, statsVars
<1>7. InsideOf(w)'
  BY <1>2, <1>3, <1>4 DEF InsideOf, InBatch, batchVars, statsVars
<1>8. HeadOf(w)'
  BY <1>1, <1>2, <1>4, HeadKept DEF AtHead, batchVars, statsVars
<1>9. crashed' \in BOOLEAN
  BY <1>1, Types DEF IInv, EngineTypes
<1> QED
  BY <1>1, <1>2, <1>4, <1>5, <1>6, <1>7, <1>8, <1>9, QuietStep

\* The workers that have work of a batch are those in working.
LEMMA WorkingAdd ==
    ASSUME IInv, NEW w \in Workers, NEW s \in BatchIds,
           \A v \in Workers : v # w => Untouched(v),
           at[w] \notin {"merge", "work"}, at'[w] \in {"merge", "work"}, state'[w] = s,
           working' = [working EXCEPT ![s] = @ \cup {w}]
    PROVE  \A t \in BatchIds :
             working'[t] = {v \in Workers : at'[v] \in {"merge", "work"} /\ state'[v] = t}
<1> SUFFICES ASSUME NEW t \in BatchIds
             PROVE  working'[t] = {v \in Workers : at'[v] \in {"merge", "work"} /\ state'[v] = t}
  OBVIOUS
<1>1. working[t] = {v \in Workers : at[v] \in {"merge", "work"} /\ state[v] = t}
  BY DEF IInv, StageInv
<1>2. working'[t] = IF t = s THEN working[t] \cup {w} ELSE working[t]
  BY Types DEF IInv, BatchTypes
<1>3. \A v \in Workers :
        (at'[v] \in {"merge", "work"} /\ state'[v] = t)
        <=> (at[v] \in {"merge", "work"} /\ state[v] = t) \/ (v = w /\ t = s)
  BY DEF Untouched
<1> QED
  BY <1>1, <1>2, <1>3

LEMMA WorkingDrop ==
    ASSUME IInv, NEW w \in Workers, NEW s \in BatchIds,
           \A v \in Workers : v # w => Untouched(v),
           at[w] \in {"merge", "work"}, state[w] = s, at'[w] \notin {"merge", "work"},
           working' = [working EXCEPT ![s] = @ \ {w}]
    PROVE  \A t \in BatchIds :
             working'[t] = {v \in Workers : at'[v] \in {"merge", "work"} /\ state'[v] = t}
<1> SUFFICES ASSUME NEW t \in BatchIds
             PROVE  working'[t] = {v \in Workers : at'[v] \in {"merge", "work"} /\ state'[v] = t}
  OBVIOUS
<1>1. working[t] = {v \in Workers : at[v] \in {"merge", "work"} /\ state[v] = t}
  BY DEF IInv, StageInv
<1>2. working'[t] = IF t = s THEN working[t] \ {w} ELSE working[t]
  BY Types DEF IInv, BatchTypes
<1>3. \A v \in Workers :
        (at'[v] \in {"merge", "work"} /\ state'[v] = t)
        <=> (at[v] \in {"merge", "work"} /\ state[v] = t) /\ ~(v = w)
  BY DEF Untouched
<1>4. t # s => w \notin working[t]
  BY <1>1
<1> QED
  BY <1>1, <1>2, <1>3, <1>4

LEMMA WorkingKept ==
    ASSUME IInv, NEW w \in Workers,
           \A v \in Workers : v # w => Untouched(v),
           at[w] \notin {"merge", "work"}, at'[w] \notin {"merge", "work"},
           working' = working
    PROVE  \A t \in BatchIds :
             working'[t] = {v \in Workers : at'[v] \in {"merge", "work"} /\ state'[v] = t}
<1> SUFFICES ASSUME NEW t \in BatchIds
             PROVE  working[t] = {v \in Workers : at'[v] \in {"merge", "work"} /\ state'[v] = t}
  OBVIOUS
<1>1. working[t] = {v \in Workers : at[v] \in {"merge", "work"} /\ state[v] = t}
  BY DEF IInv, StageInv
<1>2. \A v \in Workers :
        (at'[v] \in {"merge", "work"} /\ state'[v] = t)
        <=> (at[v] \in {"merge", "work"} /\ state[v] = t)
  BY DEF Untouched
<1> QED
  BY <1>1, <1>2

LEMMA ExecuteStep ==
    ASSUME IInv, NEW w \in Workers, Worker(w), Inside(w), Execute(w)
    PROVE  IInv'
<1>1. UNCHANGED <<callerVars, completeChan, stopChan, allowEarlyNextBatchExecution,
                  engineVars, crashed>>
  BY InsideFrame
<1>2. at[w] = "execute" /\ UNCHANGED <<stage, open, noConflict, finished>>
      /\ joined' = [joined EXCEPT ![state[w]] = @ \cup {w}]
  BY DEF Execute
<1>3. /\ WorkerTypes /\ BatchTypes
      /\ state[w] \in BatchIds /\ state[w] = <<CurrentBlockID[w], lastBatchID[w]>>
      /\ UnderWay(state[w]) /\ w \notin joined[state[w]]
  BY <1>2, Types DEF IInv, InsideOf
<1>4. stage[state[w]] = "merge"
  BY <1>3, NotExecuted
<1>5. BatchTypes' <=> working' \in [BatchIds -> SUBSET Workers]
  BY <1>2, <1>3 DEF BatchTypes
<1>6. \A t \in BatchIds : JoinedBy(w, t) /\ Onward(t) /\ stage'[t] = stage[t]
  BY <1>2, <1>3 DEF JoinedBy, Onward, BatchTypes
<1>7. w \in joined'[state[w]]
      /\ \A t \in BatchIds : w \in joined'[t] => w \in joined[t] \/ t = state[w]
  BY <1>2, <1>3 DEF BatchTypes
<1>8. \E a \in {"merge", "preExecute", "arrive"} :
        /\ Goto(w, a) /\ UNCHANGED <<CurrentBlockID, lastBatchID, stateID, state>>
        /\ \/ a = "merge" /\ working' = [working EXCEPT ![state[w]] = @ \cup {w}]
           \/ a # "merge" /\ working' = working
        /\ \/ a # "arrive" /\ Phase' = Phase
           \/ a = "arrive" /\ Phase' = [Phase EXCEPT ![w] = "construct"]
  BY DEF Execute, Stay, Enter, statsVars
<1>9. PICK a \in {"merge", "preExecute", "arrive"} :
        /\ Goto(w, a) /\ UNCHANGED <<CurrentBlockID, lastBatchID, stateID, state>>
        /\ \/ a = "merge" /\ working' = [working EXCEPT ![state[w]] = @ \cup {w}]
           \/ a # "merge" /\ working' = working
        /\ \/ a # "arrive" /\ Phase' = Phase
           \/ a = "arrive" /\ Phase' = [Phase EXCEPT ![w] = "construct"]
  BY <1>8
<1>10. WorkerTypes' /\ BatchTypes'
  <2>1. WorkerTypes'
    BY <1>3, <1>9 DEF WorkerTypes, Goto
  <2>2. CASE working' = working
    BY <1>3, <1>5, <2>1, <2>2 DEF BatchTypes
  <2>3. CASE working' = [working EXCEPT ![state[w]] = @ \cup {w}]
    BY <1>3, <1>5, <2>1, <2>3 DEF BatchTypes
  <2> QED
    BY <1>9, <2>2, <2>3
<1>11. at'[w] = a /\ (a = "arrive" => Phase'[w] = "construct")
       /\ \A v \in Workers : v # w => Untouched(v)
  BY <1>3, <1>9 DEF WorkerTypes, Untouched, Goto
<1>12. \A t \in BatchIds :
         working'[t] = {v \in Workers : at'[v] \in {"merge", "work"} /\ state'[v] = t}
  <2>1. CASE a = "merge"
    BY <1>2, <1>3, <1>9, <1>11, <2>1, WorkingAdd
  <2>2. CASE a # "merge"
    BY <1>2, <1>9, <1>11, <2>2, WorkingKept
  <2> QED
    BY <2>1, <2>2
<1>13. InsideOf(w)'
  BY <1>2, <1>3, <1>4, <1>7, <1>9, <1>11 DEF InsideOf
<1>14. HeadOf(w)'
  BY <1>1, <1>3, <1>7, <1>9, <1>11, HeadKept DEF AtHead
<1> QED
  BY <1>1, <1>2, <1>6, <1>9, <1>10, <1>11, <1>12, <1>13, <1>14, WorkStep

LEMMA FinishMergeStep ==
    ASSUME IInv, NEW w \in Workers, Worker(w), Inside(w), FinishMerge(w)
    PROVE  IInv'
<1> DEFINE s == state[w]
<1>1. UNCHANGED <<callerVars, completeChan, stopChan, allowEarlyNextBatchExecution,
                  engineVars, crashed>>
  BY InsideFrame
<1>2. /\ at[w] = "merge" /\ UNCHANGED <<joined, open, noConflict, finished>>
      /\ working' = [working EXCEPT ![s] = @ \ {w}]
      /\ stage' = [stage EXCEPT ![s] =
            IF joined[s] = Workers /\ working'[s] = {} THEN After(@) ELSE @]
      /\ at' = [at EXCEPT ![w] = "arrive"] /\ Phase' = [Phase EXCEPT ![w] = "construct"]
      /\ UNCHANGED <<CurrentBlockID, lastBatchID, stateID, state>>
  BY DEF FinishMerge, Enter, Goto
<1>3. /\ WorkerTypes /\ BatchTypes /\ InsideOf(w)
      /\ s \in BatchIds /\ s = <<CurrentBlockID[w], lastBatchID[w]>> /\ w \in joined[s]
      /\ stage[s] = "merge"
  BY <1>2, InBatchFacts DEF InBatch, InsideOf
<1>4. WorkerTypes' /\ at'[w] = "arrive" /\ Phase'[w] = "construct"
      /\ \A v \in Workers : v # w => Untouched(v)
  BY <1>2, <1>3 DEF WorkerTypes, Untouched
<1>5. BatchTypes'
  BY <1>2, <1>3, StageOrder DEF BatchTypes
<1>6. \A t \in BatchIds : JoinedBy(w, t) /\ Onward(t)
  BY <1>2, <1>3 DEF JoinedBy, Onward, BatchTypes
<1>7. \A t \in BatchIds : stage'[t] # stage[t] => working'[t] = {} /\ joined'[t] = Workers
  BY <1>2, <1>3 DEF BatchTypes
<1>8. \A t \in BatchIds :
        working'[t] = {v \in Workers : at'[v] \in {"merge", "work"} /\ state'[v] = t}
  BY <1>2, <1>3, <1>4, WorkingDrop
<1>9. InsideOf(w)'
  BY <1>2, <1>3, <1>4 DEF InsideOf
<1>10. HeadOf(w)'
  BY <1>1, <1>2, <1>3, <1>4, HeadKept DEF AtHead
<1> QED
  BY <1>1, <1>2, <1>4, <1>5, <1>6, <1>7, <1>8, <1>9, <1>10, WorkStep

LEMMA TakeWorkStep ==
    ASSUME IInv, NEW w \in Workers, Worker(w), Inside(w), TakeWork(w)
    PROVE  IInv'
<1> DEFINE s == state[w]
<1>1. UNCHANGED <<callerVars, completeChan, stopChan, allowEarlyNextBatchExecution,
                  engineVars, crashed>>
  BY InsideFrame
<1>2. /\ at[w] = "take" /\ UNCHANGED <<joined, stage, open, noConflict, finished>>
      /\ stage[s] = Phase[w]
      /\ working' = [working EXCEPT ![s] = @ \cup {w}]
      /\ at' = [at EXCEPT ![w] = "work"]
      /\ UNCHANGED <<statsVars, stateID, state>>
  BY DEF TakeWork, Stay, Goto
<1>3. /\ WorkerTypes /\ BatchTypes /\ InsideOf(w)
      /\ s \in BatchIds /\ s = <<CurrentBlockID[w], lastBatchID[w]>> /\ w \in joined[s]
  BY <1>2, InBatchFacts DEF InBatch
<1>4. WorkerTypes' /\ at'[w] = "work" /\ \A v \in Workers : v # w => Untouched(v)
  BY <1>2, <1>3 DEF WorkerTypes, Untouched, statsVars
<1>5. BatchTypes'
  BY <1>2, <1>3 DEF BatchTypes
<1>6. \A t \in BatchIds : JoinedBy(w, t) /\ Onward(t)
  BY <1>2 DEF JoinedBy, Onward
<1>7. \A t \in BatchIds :
        working'[t] = {v \in Workers : at'[v] \in {"merge", "work"} /\ state'[v] = t}
  BY <1>2, <1>3, <1>4, WorkingAdd
<1>8. InsideOf(w)'
  BY <1>2, <1>3, <1>4 DEF InsideOf, InBatch, statsVars
<1>9. HeadOf(w)'
  BY <1>1, <1>2, <1>4, HeadKept DEF AtHead, statsVars
<1> QED
  BY <1>1, <1>2, <1>4, <1>5, <1>6, <1>7, <1>8, <1>9, WorkStep

LEMMA FinishWorkStep ==
    ASSUME IInv, NEW w \in Workers, Worker(w), Inside(w), FinishWork(w)
    PROVE  IInv'
<1> DEFINE s == state[w]
<1>1. UNCHANGED <<callerVars, completeChan, stopChan, allowEarlyNextBatchExecution,
                  engineVars, crashed>>
  BY InsideFrame
<1>2. /\ at[w] = "work" /\ UNCHANGED <<joined, finished>> /\ GoOn(w)
      /\ working' = [working EXCEPT ![s] = @ \ {w}]
  BY DEF FinishWork
<1>3. /\ WorkerTypes /\ BatchTypes /\ InsideOf(w)
      /\ s \in BatchIds /\ s = <<CurrentBlockID[w], lastBatchID[w]>> /\ w \in joined[s]
      /\ stage[s] = Phase[w] /\ Phase[w] \in {"construct", "commit", "reexecute"}
      /\ Phase[w] # "construct" => ~noConflict[s]
  BY <1>2, InBatchFacts DEF InBatch, InsideOf
<1>4. joined[s] = Workers
  BY <1>3 DEF IInv, StageInv
<1>5. PICK a \in {"arrive", "await"}, p \in {"commit", "reexecute"} :
        /\ Goto(w, a) /\ Phase' = [Phase EXCEPT ![w] = p]
        /\ UNCHANGED <<CurrentBlockID, lastBatchID, stateID, state>>
        /\ Phase[w] = "construct" => a = "arrive" /\ p = "commit"
  BY <1>2, GoOnTo
<1>6. WorkerTypes' /\ at'[w] = a /\ Phase'[w] = p /\ \A v \in Workers : v # w => Untouched(v)
  BY <1>3, <1>5 DEF WorkerTypes, Untouched, Goto
<1>7. /\ stage' \in [BatchIds -> Stages] /\ noConflict' \in [BatchIds -> BOOLEAN]
      /\ open' \in [BatchIds -> BOOLEAN]
      /\ \A t \in BatchIds : t # s => stage'[t] = stage[t] /\ noConflict'[t] = noConflict[t]
      /\ \/ stage'[s] = stage[s] /\ noConflict'[s] = noConflict[s]
         \/ /\ working'[s] = {} /\ stage'[s] = After(stage[s])
            /\ noConflict[s] => noConflict'[s]
            /\ stage[s] # "construct" => noConflict'[s] = noConflict[s]
  <2>1. CASE working'[s] = {}
    <3>1. /\ stage' = [stage EXCEPT ![s] = After(@)]
          /\ open' = [open EXCEPT ![s] = TRUE]
      BY <2>1 DEF FinishWork
    <3>2. PICK none \in BOOLEAN :
            /\ none => Phase[w] = "construct"
            /\ noConflict' = [noConflict EXCEPT ![s] = @ \/ none]
      BY <2>1 DEF FinishWork
    <3>3. After(stage[s]) \in Stages
      BY <1>3, StageOrder
    <3>4. stage' \in [BatchIds -> Stages] /\ stage'[s] = After(stage[s])
          /\ \A t \in BatchIds : t # s => stage'[t] = stage[t]
      BY <1>3, <3>1, <3>3 DEF BatchTypes
    <3>5. open' \in [BatchIds -> BOOLEAN]
      BY <1>3, <3>1 DEF BatchTypes
    <3>6. noConflict' \in [BatchIds -> BOOLEAN] /\ noConflict'[s] = (noConflict[s] \/ none)
          /\ \A t \in BatchIds : t # s => noConflict'[t] = noConflict[t]
      BY <1>3, <3>2 DEF BatchTypes
    <3>7. stage[s] # "construct" => noConflict'[s] = noConflict[s]
      <4>1. noConflict[s] \in BOOLEAN
        BY <1>3 DEF BatchTypes
      <4> QED
        BY <1>3, <3>2, <3>6, <4>1
    <3> QED
      BY <2>1, <3>4, <3>5, <3>6, <3>7
  <2>2. CASE working'[s] # {}
    <3>1. open' = [open EXCEPT ![s] = FALSE] /\ UNCHANGED <<stage, noConflict>>
      BY <2>2 DEF FinishWork
    <3> QED
      BY <1>3, <3>1 DEF BatchTypes
  <2> QED
    BY <2>1, <2>2
<1>8. BatchTypes'
  BY <1>2, <1>3, <1>7 DEF BatchTypes
<1>9. \A t \in BatchIds : JoinedBy(w, t) /\ Onward(t)
  BY <1>2, <1>3, <1>7 DEF JoinedBy, Onward
<1>10. \A t \in BatchIds : stage'[t] # stage[t] => working'[t] = {} /\ joined'[t] = Workers
  BY <1>2, <1>4, <1>7
<1>11. \A t \in BatchIds :
         working'[t] = {v \in Workers : at'[v] \in {"merge", "work"} /\ state'[v] = t}
  BY <1>2, <1>3, <1>6, WorkingDrop
<1>12. InsideOf(w)'
  <2>1. state'[w] = s /\ s = <<CurrentBlockID'[w], lastBatchID'[w]>> /\ w \in joined'[s]
    BY <1>2, <1>3, <1>5
  <2>2. Phase[w] # "construct" => stage'[s] \notin {"merge", "construct"} /\ ~noConflict'[s]
    BY <1>3, <1>7, StageOrder
  <2>3. a = "await" \/ p = "reexecute" => Phase[w] # "construct"
    BY <1>5
  <2> HIDE DEF s
  <2> QED
    BY <1>3, <1>6, <2>1, <2>2, <2>3 DEF InsideOf, InBatch
<1>13. HeadOf(w)'
  BY <1>1, <1>2, <1>5, <1>6, HeadKept DEF AtHead
<1> QED
  BY <1>1, <1>2, <1>6, <1>8, <1>9, <1>10, <1>11, <1>12, <1>13, WorkStep

----------------------------------------------------------------------------
(* The end of a batch *)

LEMMA EndBatchStep ==
    ASSUME IInv, NEW w \in Workers, Worker(w), TryEntryNextBatch(w), EndBatch(w)
    PROVE  IInv'
<1> DEFINE s == state[w]
<1>1. UNCHANGED <<callerVars, completeChan, stopChan, allowEarlyNextBatchExecution,
                  engineVars, crashed>>
  BY DEF Worker, TryEntryNextBatch, EndBatch, engineVars
<1>2. /\ at[w] = "end" /\ UNCHANGED <<joined, stage, open, working, noConflict>>
      /\ finished' = [finished EXCEPT ![s] = TRUE]
  BY DEF EndBatch
<1>3. /\ WorkerTypes /\ BatchTypes /\ EngineTypes /\ InsideOf(w)
      /\ s \in BatchIds /\ s = <<CurrentBlockID[w], lastBatchID[w]>> /\ w \in joined[s]
      /\ stage[s] = "over" \/ noConflict[s]
  BY <1>2, InBatchFacts DEF InBatch, InsideOf
<1>4. CASE finished[s]
  <2>1. Leave(w)
    BY <1>4 DEF EndBatch
  <2>2. finished' = finished
    BY <1>2, <1>3, <1>4 DEF BatchTypes
  <2> QED
    BY <1>1, <1>2, <2>1, <2>2, BackStep DEF Leave, batchVars
<1>5. CASE ~finished[s]
  <2>1. at' = [at EXCEPT ![w] = "moveOn"] /\ UNCHANGED <<statsVars, stateID, state>>
    BY <1>5 DEF EndBatch, Stay, Goto
  <2>2. WorkerTypes' /\ at'[w] = "moveOn" /\ \A v \in Workers : v # w => Untouched(v)
    BY <1>2, <1>3, <2>1 DEF WorkerTypes, Untouched, statsVars
  <2>3. BatchTypes'
    BY <1>2, <1>3 DEF BatchTypes
  <2>4. UnderWay(s)
    BY <1>3, <1>5, BegunUnderWay
  <2>5. finished'[s] /\ \A t \in BatchIds : t # s => finished'[t] = finished[t]
    BY <1>2, <1>3 DEF BatchTypes
  <2>6. \A v \in Workers : at[v] # "moveOn"
    <3> SUFFICES ASSUME NEW v \in Workers, at[v] = "moveOn"
                 PROVE  FALSE
      OBVIOUS
    <3>1. UnderWay(state[v]) /\ finished[state[v]]
      BY DEF IInv, InsideOf
    <3>2. state[v] = s
      BY <2>4, <3>1 DEF UnderWay
    <3> QED
      BY <1>5, <3>1, <3>2
  <2>7. TypeOK'
    <3>1. EngineTypes'
      BY <1>1, <1>3 DEF EngineTypes, callerVars, engineVars
    <3>2. (WorkerTypes /\ BatchTypes /\ EngineTypes => TypeOK)'
      BY Types, PTL
    <3> QED
      BY <2>2, <2>3, <3>1, <3>2
  <2>8. CallerInv' /\ EntryInv'
    BY <1>1 DEF IInv, CallerInv, EntryInv, Between, BatchCount, callerVars, engineVars
  <2>9. CountInv'
    <3>1. Completing' = Completing
      BY <1>2, <2>2 DEF Completing, Untouched
    <3>2. \A u, v \in Workers : at'[u] = "moveOn" /\ at'[v] = "moveOn" => u = v
      BY <2>2, <2>6 DEF Untouched
    <3> QED
      BY <1>1, <3>1, <3>2 DEF IInv, CountInv, callerVars, engineVars
  <2>10. \A t : (Past(t)' <=> Past(t)) /\ (UnderWay(t)' <=> UnderWay(t))
    BY <1>1 DEF Past, UnderWay, Between, Current, callerVars, engineVars
  <2>11. BatchInv'
    <3> SUFFICES ASSUME NEW t \in BatchIds
                 PROVE  /\ Past(t) => finished'[t]
                        /\ ~Past(t) /\ ~UnderWay(t) => joined[t] = {} /\ ~finished'[t]
                        /\ UnderWay(t) /\ finished'[t] => \E v \in Workers : at'[v] = "moveOn"
      BY <1>2, <2>10 DEF BatchInv
    <3> HIDE DEF s
    <3> QED
      BY <2>2, <2>4, <2>5 DEF IInv, BatchInv
  <2>12. StageInv'
    <3> SUFFICES ASSUME NEW t \in BatchIds
                 PROVE  /\ stage[t] = "merge" => ~noConflict[t] /\ ~finished'[t]
                        /\ stage[t] # "merge" => joined[t] = Workers
                        /\ stage[t] = "construct" => ~noConflict[t]
                        /\ finished'[t] => stage[t] = "over" \/ noConflict[t]
                        /\ working[t] = {v \in Workers : at'[v] \in {"merge", "work"} /\ state'[v] = t}
      BY <1>2 DEF StageInv
    <3>1. working'[t] = {v \in Workers : at'[v] \in {"merge", "work"} /\ state'[v] = t}
      BY <1>2, <2>2, WorkingKept
    <3> HIDE DEF s
    <3>2. /\ stage[t] = "merge" => ~noConflict[t] /\ ~finished[t]
          /\ stage[t] # "merge" => joined[t] = Workers
          /\ stage[t] = "construct" => ~noConflict[t]
          /\ finished[t] => stage[t] = "over" \/ noConflict[t]
      BY DEF IInv, StageInv
    <3>3. working[t] = {v \in Workers : at'[v] \in {"merge", "work"} /\ state'[v] = t}
      BY <1>2, <3>1
    <3> QED
      BY <1>3, <2>5, <3>2, <3>3
  <2>13. \A v \in Workers : InsideOf(v)' /\ HeadOf(v)'
    <3>1. InsideOf(w)'
      BY <1>2, <1>3, <2>1, <2>2, <2>4, <2>5, <2>10 DEF InsideOf, statsVars
    <3>2. HeadOf(w)'
      BY <1>1, <1>2, <2>1, <2>2, HeadKept DEF AtHead, statsVars
    <3>3. ASSUME NEW v \in Workers, v # w
          PROVE  InsideOf(v)' /\ HeadOf(v)'
      <4>1. InsideOf(v) /\ HeadOf(v) /\ Untouched(v)
        BY <2>2, <3>3 DEF IInv
      <4>2. HeadOf(v)'
        BY <1>1, <1>2, <4>1 DEF HeadOf, Untouched, Reached, callerVars, engineVars
      <4>3. InsideOf(v)'
        BY <1>2, <2>6, <2>10, <4>1 DEF InsideOf, Untouched
      <4> QED
        BY <4>2, <4>3
    <3> QED
      BY <3>1, <3>2, <3>3
  <2> QED
    BY <2>7, <2>8, <2>9, <2>11, <2>12, <2>13 DEF IInv
<1> QED
  BY <1>4, <1>5

\* The completions that are due are a finite number.
LEMMA CompletingFinite ==
    /\ IsFiniteSet(Completing) /\ Cardinality(Completing) \in Nat
    /\ Completing = {} <=> Cardinality(Completing) = 0
<1>1. Completing \subseteq Workers
  BY DEF Completing
<1>2. IsFiniteSet(Completing)
  BY <1>1, SomeWorkers, FS_Subset
<1> QED
  BY <1>2, FS_CardinalityType, FS_EmptySet

LEMMA MoveOnStep ==
    ASSUME IInv, NEW w \in Workers, Worker(w), TryEntryNextBatch(w), MoveOn(w)
    PROVE  IInv'
<1> DEFINE s == state[w]
<1>1. /\ UNCHANGED <<callerVars, completeChan, stopChan, allowEarlyNextBatchExecution,
                     currentBlockID, batchStates, crashed, batchVars>>
      /\ currentBatchID' = currentBatchID + 1
  BY DEF Worker, TryEntryNextBatch, MoveOn
<1>2. at[w] = "moveOn" /\ at' = [at EXCEPT ![w] = "complete"]
      /\ UNCHANGED <<statsVars, stateID, state>>
  BY DEF MoveOn, Stay, Goto
<1>3. /\ WorkerTypes /\ BatchTypes /\ EngineTypes /\ InsideOf(w)
      /\ s \in BatchIds /\ s = <<CurrentBlockID[w], lastBatchID[w]>> /\ w \in joined[s]
      /\ UnderWay(s) /\ finished[s]
  BY <1>2, InBatchFacts DEF InBatch, InsideOf
<1>4. callerAt = "wait" /\ s = <<currentBlockID, currentBatchID>>
      /\ currentBatchID \in Nat /\ s[1] = currentBlockID /\ s[2] = currentBatchID
  BY <1>3 DEF UnderWay, Current, IInv, CallerInv
<1> HIDE DEF s
<1>5. joined[s] = Workers
  BY <1>3 DEF IInv, StageInv
<1>6. WorkerTypes' /\ at'[w] = "complete" /\ \A v \in Workers : v # w => Untouched(v)
  BY <1>2, <1>3 DEF WorkerTypes, Untouched, statsVars
<1>7. TypeOK'
  <2>1. BatchTypes' /\ EngineTypes'
    BY <1>1, <1>3, <1>4 DEF BatchTypes, EngineTypes, callerVars, batchVars
  <2>2. (WorkerTypes /\ BatchTypes /\ EngineTypes => TypeOK)'
    BY Types, PTL
  <2> QED
    BY <1>6, <2>1, <2>2
<1>8. CallerInv' /\ EntryInv'
  <2>1. submitted \in Nat /\ submitted < Len(BatchCounts) /\ BatchCount > 0
        /\ currentBlockID = BlockIDAfter(submitted + 1)
    BY <1>3, <1>4 DEF IInv, CallerInv, EngineTypes
  <2>2. Numbered[currentBlockID] = BatchCount
    BY <2>1, NextBlockID DEF BatchCount
  <2>3. currentBatchID < BatchCount /\ BatchCount \in Nat
    BY <1>3, <1>4, <2>2, BatchIdsType
  <2>4. currentBatchID' \in 0 .. BatchCount
    BY <1>1, <1>4, <2>3
  <2>5. callerAt' = "wait" /\ ~Between' /\ BatchCount' = BatchCount
    BY <1>1, <1>4 DEF callerVars, Between, BatchCount
  <2>6. CallerInv'
    BY <1>1, <2>1, <2>4, <2>5 DEF CallerInv, callerVars
  <2>7. EntryInv'
    BY <1>1 DEF IInv, EntryInv
  <2> QED
    BY <2>6, <2>7
<1>9. CountInv'
  <2>1. Completing' = Completing \cup {w} /\ w \notin Completing
    BY <1>2, <1>6 DEF Completing, Untouched
  <2>2. Cardinality(Completing') = Cardinality(Completing) + 1
    BY <2>1, CompletingFinite, FS_AddElement
  <2>3. received + completeChan + Cardinality(Completing) = currentBatchID
    BY <1>4 DEF IInv, CountInv
  <2>4. received' = received /\ completeChan' = completeChan /\ callerAt' = "wait"
        /\ currentBatchID' = currentBatchID + 1
    BY <1>1, <1>4 DEF callerVars
  <2>5. received \in Nat /\ completeChan \in Nat
    BY <1>3 DEF EngineTypes
  <2>6. received' + completeChan' + Cardinality(Completing') = currentBatchID'
    BY <1>4, <2>2, <2>3, <2>4, <2>5, CompletingFinite
  <2>7. \A u, v \in Workers : at'[u] = "moveOn" /\ at'[v] = "moveOn" => u = v
    BY <1>6 DEF IInv, CountInv, Untouched
  <2> QED
    BY <2>4, <2>6, <2>7 DEF CountInv
<1>10. \A t \in BatchIds : /\ Past(t)' <=> Past(t) \/ t = s
                           /\ UnderWay(t)' => ~Past(t) /\ ~UnderWay(t)
                           /\ UnderWay(t) <=> t = s
  <2> SUFFICES ASSUME NEW t \in BatchIds
               PROVE  /\ Past(t)' <=> Past(t) \/ t = s
                      /\ UnderWay(t)' => ~Past(t) /\ ~UnderWay(t)
                      /\ UnderWay(t) <=> t = s
    OBVIOUS
  <2>1. t = <<t[1], t[2]>> /\ t[1] \in Nat /\ t[2] \in Nat
    BY BatchIdsType
  <2>2. callerAt' = "wait" /\ currentBlockID' = currentBlockID
        /\ currentBatchID' = currentBatchID + 1
    BY <1>1, <1>4 DEF callerVars
  <2>3. currentBlockID \in Int
    BY <1>3, BlockIDsType DEF EngineTypes
  <2>4. t = s <=> t[1] = currentBlockID /\ t[2] = currentBatchID
    BY <1>4, <2>1
  <2>5. UnderWay(t) <=> t = s
    BY <1>4 DEF UnderWay, Current
  <2>6. Past(t) <=> t[1] < currentBlockID \/ (t[1] = currentBlockID /\ t[2] < currentBatchID)
    BY <1>4 DEF Past, Between
  <2>7. Past(t)' <=> t[1] < currentBlockID \/ (t[1] = currentBlockID /\ t[2] < currentBatchID + 1)
    BY <2>2 DEF Past, Between
  <2>8. UnderWay(t)' => t[1] = currentBlockID /\ t[2] = currentBatchID + 1
    BY <2>2 DEF UnderWay, Current
  <2> QED
    BY <1>4, <2>1, <2>3, <2>4, <2>5, <2>6, <2>7, <2>8
<1>11. BatchInv'
  <2>1. joined' = joined /\ finished' = finished
    BY <1>1 DEF batchVars
  <2> QED
    BY <1>3, <1>10, <2>1 DEF IInv, BatchInv
<1>12. StageInv'
  <2>1. joined' = joined /\ finished' = finished /\ stage' = stage /\ noConflict' = noConflict
        /\ working' = working
    BY <1>1 DEF batchVars
  <2>2. \A t \in BatchIds :
          working'[t] = {v \in Workers : at'[v] \in {"merge", "work"} /\ state'[v] = t}
    BY <1>2, <1>6, <2>1, WorkingKept
  <2> QED
    BY <2>1, <2>2 DEF IInv, StageInv
<1>13. \A i \in Int : Reached(i) => Reached(i)'
  BY <1>1, <1>4 DEF Reached, callerVars
<1>14. \A v \in Workers : InsideOf(v)'
  <2> SUFFICES ASSUME NEW v \in Workers
               PROVE  InsideOf(v)'
    OBVIOUS
  <2>1. CASE v = w
    BY <1>1, <1>2, <1>3, <1>6, <2>1 DEF InsideOf, batchVars, statsVars, s
  <2>2. CASE v # w
    <3>1. InsideOf(v) /\ Untouched(v)
      BY <1>6, <2>2 DEF IInv
    <3>2. at[v] # "moveOn"
      BY <1>2, <2>2 DEF IInv, CountInv
    <3>3. at[v] # "execute"
      <4>1. at[v] = "execute" => state[v] = s /\ v \notin joined[state[v]]
        BY <1>10, <3>1 DEF InsideOf
      <4> QED
        BY <1>5, <4>1
    <3> QED
      BY <1>1, <3>1, <3>2, <3>3 DEF InsideOf, Untouched, batchVars
  <2> QED
    BY <2>1, <2>2
<1>15. \A v \in Workers : HeadOf(v)'
  <2> SUFFICES ASSUME NEW v \in Workers
               PROVE  HeadOf(v)'
    OBVIOUS
  <2>1. HeadOf(v)
    BY DEF IInv
  <2>2. currentBlockID' = currentBlockID /\ joined' = joined
    BY <1>1 DEF batchVars
  <2>3. lastBatchID[v] \in Int /\ stateID[v] \in Int
    BY <1>3 DEF WorkerTypes
  <2>4. CurrentBlockID'[v] = CurrentBlockID[v] /\ lastBatchID'[v] = lastBatchID[v]
        /\ stateID'[v] = stateID[v] /\ state'[v] = state[v] /\ Phase'[v] = Phase[v]
    BY <1>2 DEF statsVars
  <2>5. \/ at'[v] = at[v]
        \/ at'[v] = "complete"
    BY <1>6 DEF Untouched
  <2> QED
    BY <1>13, <2>1, <2>2, <2>3, <2>4, <2>5 DEF HeadOf, AtHead
<1> QED
  BY <1>7, <1>8, <1>9, <1>11, <1>12, <1>14, <1>15 DEF IInv

LEMMA CompleteStep ==
    ASSUME IInv, NEW w \in Workers, Worker(w), TryEntryNextBatch(w), Complete(w)
    PROVE  IInv'
<1>1. /\ UNCHANGED <<callerVars, stopChan, allowEarlyNextBatchExecution, engineVars, crashed,
                     batchVars, CurrentBlockID, lastBatchID>>
      /\ completeChan' = completeChan + 1
  BY DEF Worker, TryEntryNextBatch, Complete, Leave, engineVars
<1>2. /\ at[w] = "complete" /\ at' = [at EXCEPT ![w] = "block"]
      /\ Phase' = [Phase EXCEPT ![w] = "waiting"]
      /\ stateID' = [stateID EXCEPT ![w] = -1]
      /\ state' = [state EXCEPT ![w] = <<>>]
  BY DEF Complete, Leave, Again, Goto
<1>3. WorkerTypes /\ BatchTypes /\ EngineTypes
  BY Types DEF IInv
<1>4. WorkerTypes' /\ at'[w] = "block" /\ Phase'[w] = "waiting"
      /\ \A v \in Workers : v # w => Untouched(v)
  BY <1>1, <1>2, <1>3 DEF WorkerTypes, Untouched
<1>5. TypeOK'
  <2>1. BatchTypes' /\ EngineTypes'
    BY <1>1, <1>3 DEF BatchTypes, EngineTypes, callerVars, engineVars, batchVars
  <2>2. (WorkerTypes /\ BatchTypes /\ EngineTypes => TypeOK)'
    BY Types, PTL
  <2> QED
    BY <1>4, <2>1, <2>2
<1>6. CallerInv' /\ EntryInv'
  BY <1>1 DEF IInv, CallerInv, EntryInv, Between, BatchCount, callerVars, engineVars
<1>7. CountInv'
  <2>1. Completing' = Completing \ {w} /\ w \in Completing
    BY <1>2, <1>4 DEF Completing, Untouched
  <2>2. Cardinality(Completing') = Cardinality(Completing) - 1
    BY <2>1, CompletingFinite, FS_RemoveElement
  <2>3. received' = received /\ callerAt' = callerAt /\ currentBatchID' = currentBatchID
    BY <1>1 DEF callerVars, engineVars
  <2>4. received \in Nat /\ completeChan \in Nat /\ Cardinality(Completing) \in Nat
    BY <1>3, CompletingFinite DEF EngineTypes
  <2>5. received' + completeChan' + Cardinality(Completing')
          = received + completeChan + Cardinality(Completing)
    BY <1>1, <2>2, <2>3, <2>4
  <2>6. \A u, v \in Workers : at'[u] = "moveOn" /\ at'[v] = "moveOn" => u = v
    BY <1>4 DEF IInv, CountInv, Untouched
  <2> QED
    BY <2>3, <2>5, <2>6 DEF IInv, CountInv
<1>8. \A t : (Past(t)' <=> Past(t)) /\ (UnderWay(t)' <=> UnderWay(t))
  BY <1>1 DEF Past, UnderWay, Between, Current, callerVars, engineVars
<1>9. BatchInv'
  <2>1. \A v \in Workers : at'[v] = "moveOn" <=> at[v] = "moveOn"
    BY <1>2, <1>4 DEF Untouched
  <2>2. joined' = joined /\ finished' = finished
    BY <1>1 DEF batchVars
  <2> QED
    BY <1>8, <2>1, <2>2 DEF IInv, BatchInv
<1>10. StageInv'
  <2>1. joined' = joined /\ finished' = finished /\ stage' = stage /\ noConflict' = noConflict
        /\ working' = working
    BY <1>1 DEF batchVars
  <2>2. \A t \in BatchIds :
          working'[t] = {v \in Workers : at'[v] \in {"merge", "work"} /\ state'[v] = t}
    BY <1>2, <1>4, <2>1, WorkingKept
  <2> QED
    BY <2>1, <2>2 DEF IInv, StageInv
<1>11. \A v \in Workers : InsideOf(v)' /\ HeadOf(v)'
  <2>1. InsideOf(w)'
    BY <1>4 DEF InsideOf, InBatch
  <2>2. joined' = joined
    BY <1>1 DEF batchVars
  <2>3. HeadOf(w)'
    BY <1>1, <1>4, <2>2, HeadKept
  <2> QED
    BY <1>1, <1>4, <2>1, <2>3, OthersStay
<1> QED
  BY <1>5, <1>6, <1>7, <1>9, <1>10, <1>11 DEF IInv

----------------------------------------------------------------------------
(* The caller *)

\* A step of the caller changes no batch and no worker.
LEMMA CallerFrame ==
    ASSUME Caller
    PROVE  UNCHANGED <<allowEarlyNextBatchExecution, crashed, batchVars, at, statsVars,
                       stateID, state>>
BY DEF Caller

\* Whatever the caller does, the past batches stay those before the current one.
LEMMA CallerStep ==
    ASSUME IInv, Caller, EngineTypes', CallerInv', EntryInv',
           received' + completeChan' + Cardinality(Completing)
               = IF callerAt' = "wait" THEN currentBatchID' ELSE 0,
           \A s \in BatchIds : (Past(s)' <=> Past(s)) /\ (UnderWay(s) => UnderWay(s)'),
           currentBlockID' = currentBlockID \/ currentBlockID' = currentBlockID + 1,
           currentBlockID' = currentBlockID => \A i \in Int : Reached(i) => Reached(i)'
    PROVE  IInv'
<1>1. UNCHANGED <<allowEarlyNextBatchExecution, crashed, batchVars, at, statsVars,
                  stateID, state>>
  BY CallerFrame
<1>2. WorkerTypes /\ BatchTypes /\ EngineTypes
  BY Types DEF IInv
<1>3. TypeOK'
  <2>1. WorkerTypes' /\ BatchTypes'
    BY <1>1, <1>2 DEF WorkerTypes, BatchTypes, batchVars, statsVars
  <2>2. (WorkerTypes /\ BatchTypes /\ EngineTypes => TypeOK)'
    BY Types, PTL
  <2> QED
    BY <2>1, <2>2
<1>4. CountInv'
  <2>1. Completing' = Completing
    BY <1>1 DEF Completing
  <2> QED
    BY <1>1, <2>1 DEF IInv, CountInv
<1>5. joined' = joined /\ finished' = finished /\ stage' = stage /\ noConflict' = noConflict
      /\ working' = working
  BY <1>1 DEF batchVars
<1>6. BatchInv'
  <2> SUFFICES ASSUME NEW s \in BatchIds
               PROVE  /\ Past(s)' => finished[s]
                      /\ ~Past(s)' /\ ~UnderWay(s)' => joined[s] = {} /\ ~finished[s]
                      /\ UnderWay(s)' /\ finished[s] => \E w \in Workers : at[w] = "moveOn"
    BY <1>1, <1>5 DEF BatchInv
  <2>1. (Past(s)' <=> Past(s)) /\ (UnderWay(s) => UnderWay(s)')
    OBVIOUS
  <2>2. UnderWay(s)' => ~Past(s)'
    <3>1. s[1] \in Nat /\ s[2] \in Nat
      BY BatchIdsType
    <3>2. UnderWay(s)' => /\ s[1] = currentBlockID' /\ s[2] = currentBatchID'
                          /\ callerAt' = "wait" /\ ~Between'
      BY DEF UnderWay, Current, Between
    <3> QED
      BY <3>1, <3>2 DEF Past
  <2> QED
    BY <2>1, <2>2 DEF IInv, BatchInv
<1>7. StageInv'
  BY <1>1, <1>5 DEF IInv, StageInv
<1>8. \A w \in Workers : InsideOf(w)'
  <2> SUFFICES ASSUME NEW w \in Workers
               PROVE  InsideOf(w)'
    OBVIOUS
  <2>1. InsideOf(w)
    BY DEF IInv
  <2>2. at[w] \in {"execute", "moveOn"} => state[w] \in BatchIds
    BY <2>1 DEF InsideOf, InBatch
  <2>3. at[w] \in {"execute", "moveOn"} => (UnderWay(state[w]))'
    <3>1. state' = state
      BY <1>1
    <3>2. at[w] \in {"execute", "moveOn"} => UnderWay(state[w])
      BY <2>1 DEF InsideOf
    <3>3. ASSUME UnderWay(state[w]), state[w] \in BatchIds
          PROVE  callerAt' = "wait" /\ state[w] = Current'
      <4>1. PICK s \in BatchIds : s = state[w]
        BY <3>3
      <4>2. UnderWay(s)'
        BY <3>3, <4>1
      <4> QED
        BY <4>1, <4>2 DEF UnderWay
    <3> QED
      BY <2>2, <3>1, <3>2, <3>3 DEF UnderWay
  <2>4. at' = at /\ state' = state /\ CurrentBlockID' = CurrentBlockID
        /\ lastBatchID' = lastBatchID /\ Phase' = Phase
    BY <1>1 DEF statsVars
  <2> QED
    BY <1>5, <2>1, <2>3, <2>4 DEF InsideOf
<1>9. \A w \in Workers : HeadOf(w)'
  <2> SUFFICES ASSUME NEW w \in Workers
               PROVE  HeadOf(w)'
    OBVIOUS
  <2>1. HeadOf(w)
    BY DEF IInv
  <2>2. at' = at /\ state' = state /\ stateID' = stateID /\ CurrentBlockID' = CurrentBlockID
        /\ lastBatchID' = lastBatchID /\ Phase' = Phase
    BY <1>1 DEF statsVars
  <2>3. lastBatchID[w] \in Int /\ stateID[w] \in Int
    BY <1>2 DEF WorkerTypes
  <2>4. CurrentBlockID[w] \in Int /\ currentBlockID \in Int
    <3>1. CurrentBlockID[w] \in BlockIDs \cup {-1, 0} /\ currentBlockID \in BlockIDs \cup {0}
      BY <1>2 DEF WorkerTypes, EngineTypes
    <3> QED
      BY <3>1, BlockIDsType
  <2>5. CASE currentBlockID' = currentBlockID
    BY <1>5, <2>1, <2>2, <2>3, <2>5 DEF HeadOf
  <2>6. CASE currentBlockID' = currentBlockID + 1
    <3>1. CurrentBlockID[w] <= currentBlockID' /\ CurrentBlockID[w] # currentBlockID'
      BY <2>1, <2>4, <2>6 DEF HeadOf
    <3> QED
      BY <1>5, <2>1, <2>2, <3>1 DEF HeadOf
  <2> QED
    BY <2>5, <2>6
<1> QED
  BY <1>3, <1>4, <1>6, <1>7, <1>8, <1>9 DEF IInv

\* What is known while the caller is between two blocks.
LEMMA BetweenFacts ==
    ASSUME IInv
    PROVE  /\ EngineTypes /\ CallerInv /\ EntryInv
           /\ submitted \in Nat /\ submitted <= Len(BatchCounts)
           /\ currentBlockID \in Int
           /\ callerAt # "wait" => \A s \in BatchIds : ~UnderWay(s)
           /\ received + completeChan + Cardinality(Completing)
                = IF callerAt = "wait" THEN currentBatchID ELSE 0
           /\ submitted < Len(BatchCounts) => BatchCount \in Nat
<1>1. EngineTypes
  BY Types DEF IInv
<1>2. submitted \in Nat /\ submitted <= Len(BatchCounts)
  BY <1>1, BatchCountsAssumption DEF EngineTypes
<1>3. currentBlockID \in Int
  BY <1>1, BlockIDsType DEF EngineTypes
<1>4. submitted < Len(BatchCounts) => BatchCount \in Nat
  BY <1>2, BlockIDStep DEF BatchCount
<1> QED
  BY <1>1, <1>2, <1>3, <1>4 DEF IInv, CountInv, UnderWay

LEMMA ClearBatchIDStep ==
    ASSUME IInv, Caller, ClearBatchID, UNCHANGED <<completeChan, stopChan>>
    PROVE  IInv'
<1>1. /\ callerAt = "clear" /\ submitted < Len(BatchCounts) /\ currentBatchID' = -1
      /\ callerAt' = "allocate"
      /\ UNCHANGED <<submitted, received, currentBlockID, batchStates, completeChan, stopChan>>
      /\ UNCHANGED <<allowEarlyNextBatchExecution, crashed>>
  BY CallerFrame DEF ClearBatchID
<1>2. EngineTypes'
  BY <1>1, BetweenFacts DEF EngineTypes
<1>3. CallerInv'
  BY <1>1, BetweenFacts DEF CallerInv, Between
<1>4. EntryInv'
  BY <1>1, BetweenFacts DEF EntryInv
<1>5. \A s \in BatchIds : (Past(s)' <=> Past(s)) /\ (UnderWay(s) => UnderWay(s)')
  BY <1>1, BetweenFacts DEF Past, Between
<1>6. \A i \in Int : Reached(i)'
  BY <1>1 DEF Reached
<1>7. received' + completeChan' + Cardinality(Completing)
        = IF callerAt' = "wait" THEN currentBatchID' ELSE 0
  BY <1>1, BetweenFacts
<1> QED
  BY <1>1, <1>2, <1>3, <1>4, <1>5, <1>6, <1>7, CallerStep

LEMMA AllocateBatchStatesStep ==
    ASSUME IInv, Caller, AllocateBatchStates, UNCHANGED <<completeChan, stopChan>>
    PROVE  IInv'
<1>1. /\ callerAt = "allocate" /\ callerAt' = "fill"
      /\ batchStates' = [i \in 1 .. BatchCount |-> NoBlock]
      /\ UNCHANGED <<submitted, received, currentBlockID, currentBatchID, completeChan, stopChan>>
      /\ UNCHANGED <<allowEarlyNextBatchExecution, crashed>>
  BY CallerFrame DEF AllocateBatchStates
<1>2. BatchCount \in Nat /\ BatchCount' = BatchCount
  BY <1>1, BetweenFacts DEF CallerInv, BatchCount
<1>3. /\ batchStates' \in Seq(BlockIDs \cup {NoBlock}) /\ Len(batchStates') = BatchCount
      /\ \A i \in DOMAIN batchStates' : batchStates'[i] = NoBlock
  BY <1>1, <1>2
<1>4. EngineTypes'
  BY <1>1, <1>3, BetweenFacts DEF EngineTypes
<1>5. CallerInv'
  BY <1>1, <1>2, <1>3, BetweenFacts DEF CallerInv, Between
<1>6. EntryInv'
  BY <1>3 DEF EntryInv
<1>7. \A s \in BatchIds : (Past(s)' <=> Past(s)) /\ (UnderWay(s) => UnderWay(s)')
  BY <1>1, BetweenFacts DEF Past, Between
<1>8. \A i \in Int : Reached(i)'
  BY <1>1, BetweenFacts DEF Reached, CallerInv
<1>9. received' + completeChan' + Cardinality(Completing)
        = IF callerAt' = "wait" THEN currentBatchID' ELSE 0
  BY <1>1, BetweenFacts
<1> QED
  BY <1>1, <1>4, <1>5, <1>6, <1>7, <1>8, <1>9, CallerStep

\* The id that the entries get is that of the block that is submitted.
LEMMA NextBlock ==
    ASSUME IInv, callerAt = "fill", BatchCount > 0
    PROVE  /\ currentBlockID + 1 \in BlockIDs
           /\ currentBlockID + 1 = BlockIDAfter(submitted + 1)
           /\ Numbered[currentBlockID + 1] = BatchCount
<1>1. submitted \in Nat /\ submitted < Len(BatchCounts)
      /\ currentBlockID = BlockIDAfter(submitted)
  BY BetweenFacts DEF CallerInv, Between
<1>2. currentBlockID + 1 = BlockIDAfter(submitted + 1)
  BY <1>1, BlockIDStep DEF BatchCount
<1> QED
  BY <1>1, <1>2, NextBlockID DEF BatchCount

LEMMA FillBatchStateStep ==
    ASSUME IInv, Caller, FillBatchState, UNCHANGED <<completeChan, stopChan>>
    PROVE  IInv'
<1>1. /\ callerAt = "fill"
      /\ UNCHANGED <<callerVars, currentBlockID, currentBatchID, completeChan, stopChan>>
      /\ UNCHANGED <<allowEarlyNextBatchExecution, crashed>>
  BY CallerFrame DEF FillBatchState, callerVars
<1>2. PICK i \in DOMAIN batchStates :
        batchStates' = [batchStates EXCEPT ![i] = currentBlockID + 1]
  BY DEF FillBatchState
<1>3. /\ batchStates \in Seq(BlockIDs \cup {NoBlock}) /\ Len(batchStates) = BatchCount
      /\ \A j \in DOMAIN batchStates : batchStates[j] \in {NoBlock, currentBlockID + 1}
      /\ BatchCount \in Nat
  BY <1>1, BetweenFacts DEF EngineTypes, CallerInv
<1>4. i \in 1 .. BatchCount /\ BatchCount > 0
  BY <1>3
<1>5. /\ currentBlockID + 1 \in BlockIDs
      /\ Numbered[currentBlockID + 1] = BatchCount
  BY <1>1, <1>4, NextBlock
<1>6. /\ batchStates' \in Seq(BlockIDs \cup {NoBlock}) /\ Len(batchStates') = BatchCount
      /\ DOMAIN batchStates' = DOMAIN batchStates
      /\ \A j \in DOMAIN batchStates : batchStates'[j] = IF j = i THEN currentBlockID + 1
                                                                 ELSE batchStates[j]
  BY <1>2, <1>3, <1>5
<1>7. BatchCount' = BatchCount
  BY <1>1 DEF BatchCount, callerVars
<1>8. EngineTypes'
  BY <1>1, <1>6, BetweenFacts DEF EngineTypes, callerVars
<1>9. CallerInv'
  BY <1>1, <1>3, <1>6, <1>7, BetweenFacts DEF CallerInv, Between, callerVars
<1>10. EntryInv'
  BY <1>4, <1>5, <1>6, BetweenFacts DEF EntryInv
<1>11. \A s \in BatchIds : (Past(s)' <=> Past(s)) /\ (UnderWay(s) => UnderWay(s)')
  BY <1>1, BetweenFacts DEF Past, Between, callerVars
<1>12. \A j \in Int : Reached(j)'
  BY <1>1, BetweenFacts DEF Reached, CallerInv, callerVars
<1>13. received' + completeChan' + Cardinality(Completing)
         = IF callerAt' = "wait" THEN currentBatchID' ELSE 0
  BY <1>1, BetweenFacts DEF callerVars
<1> QED
  BY <1>1, <1>8, <1>9, <1>10, <1>11, <1>12, <1>13, CallerStep

LEMMA SkipEmptyBlockStep ==
    ASSUME IInv, Caller, SkipEmptyBlock, UNCHANGED <<completeChan, stopChan>>
    PROVE  IInv'
<1>1. /\ callerAt = "fill" /\ batchStates = <<>> /\ callerAt' = "clear"
      /\ submitted' = submitted + 1
      /\ UNCHANGED <<received, engineVars, completeChan, stopChan>>
      /\ UNCHANGED <<allowEarlyNextBatchExecution, crashed>>
  BY CallerFrame DEF SkipEmptyBlock
<1>2. submitted \in Nat /\ submitted < Len(BatchCounts) /\ BatchCount = 0
      /\ currentBlockID = BlockIDAfter(submitted) /\ currentBatchID = -1
  BY <1>1, BetweenFacts DEF CallerInv, Between
<1>3. currentBlockID = BlockIDAfter(submitted + 1)
  <2>1. BlockIDAfter(submitted) \in Nat
    BY <1>2, BlockIDType
  <2>2. BatchCounts[submitted + 1] = 0
    BY <1>2 DEF BatchCount
  <2>3. BlockIDAfter(submitted + 1) = BlockIDAfter(submitted) + 0
    BY <1>2, <2>2, BlockIDStep
  <2> QED
    BY <1>2, <2>1, <2>3
<1>4. EngineTypes'
  BY <1>1, <1>2, BetweenFacts, BatchCountsAssumption DEF EngineTypes, engineVars
<1>5. CallerInv'
  BY <1>1, <1>3 DEF CallerInv, Between, engineVars
<1>6. EntryInv'
  BY <1>1, BetweenFacts DEF EntryInv, engineVars
<1>7. \A s \in BatchIds : (Past(s)' <=> Past(s)) /\ (UnderWay(s) => UnderWay(s)')
  BY <1>1, BetweenFacts DEF Past, Between, engineVars
<1>8. \A i \in Int : Reached(i)'
  BY <1>1, <1>2 DEF Reached, engineVars
<1>9. received' + completeChan' + Cardinality(Completing)
        = IF callerAt' = "wait" THEN currentBatchID' ELSE 0
  BY <1>1, BetweenFacts
<1> QED
  BY <1>1, <1>4, <1>5, <1>6, <1>7, <1>8, <1>9, CallerStep DEF engineVars

LEMMA PublishBlockStep ==
    ASSUME IInv, Caller, PublishBlock, UNCHANGED <<completeChan, stopChan>>
    PROVE  IInv'
<1>1. /\ callerAt = "fill" /\ batchStates # <<>> /\ callerAt' = "open"
      /\ currentBlockID' = currentBlockID + 1
      /\ UNCHANGED <<submitted, received, currentBatchID, batchStates, completeChan, stopChan>>
      /\ UNCHANGED <<allowEarlyNextBatchExecution, crashed>>
  BY CallerFrame DEF PublishBlock
<1>2. submitted < Len(BatchCounts) /\ BatchCount > 0 /\ BatchCount' = BatchCount
  <2>1. submitted < Len(BatchCounts) /\ Len(batchStates) = BatchCount
        /\ batchStates \in Seq(BlockIDs \cup {NoBlock})
    BY <1>1, BetweenFacts DEF CallerInv, EngineTypes
  <2>2. Len(batchStates) # 0 /\ Len(batchStates) \in Nat
    BY <1>1, <2>1, EmptySeq
  <2>3. BatchCount > 0
    BY <2>1, <2>2
  <2> QED
    BY <1>1, <2>1, <2>3 DEF BatchCount
<1>3. currentBlockID' \in BlockIDs /\ currentBlockID' = BlockIDAfter(submitted + 1)
  BY <1>1, <1>2, NextBlock
<1>4. EngineTypes'
  BY <1>1, <1>3, BetweenFacts DEF EngineTypes
<1>5. CallerInv'
  BY <1>1, <1>2, <1>3, BetweenFacts DEF CallerInv, Between
<1>6. EntryInv'
  BY <1>1, BetweenFacts DEF EntryInv
<1>7. \A s \in BatchIds : (Past(s)' <=> Past(s)) /\ (UnderWay(s) => UnderWay(s)')
  <2> SUFFICES ASSUME NEW s \in BatchIds
               PROVE  Past(s)' <=> Past(s)
    BY <1>1, BetweenFacts
  <2>1. s[1] \in Int /\ currentBlockID \in Int
    BY BetweenFacts, BatchIdsType
  <2>2. Past(s) <=> s[1] < currentBlockID \/ s[1] = currentBlockID
    BY <1>1 DEF Past, Between
  <2>3. Past(s)' <=> s[1] < currentBlockID + 1
    BY <1>1 DEF Past, Between
  <2> QED
    BY <2>1, <2>2, <2>3
<1>8. received' + completeChan' + Cardinality(Completing)
        = IF callerAt' = "wait" THEN currentBatchID' ELSE 0
  BY <1>1, BetweenFacts
<1>9. currentBlockID' # currentBlockID
  BY <1>1, BetweenFacts
<1> QED
  BY <1>1, <1>4, <1>5, <1>6, <1>7, <1>8, <1>9, CallerStep

LEMMA PublishFirstBatchStep ==
    ASSUME IInv, Caller, PublishFirstBatch, UNCHANGED <<completeChan, stopChan>>
    PROVE  IInv'
<1>1. /\ callerAt = "open" /\ callerAt' = "wait" /\ currentBatchID' = 0
      /\ UNCHANGED <<submitted, received, currentBlockID, batchStates, completeChan, stopChan>>
      /\ UNCHANGED <<allowEarlyNextBatchExecution, crashed>>
  BY CallerFrame DEF PublishFirstBatch
<1>2. submitted < Len(BatchCounts) /\ BatchCount > 0 /\ BatchCount \in Nat
      /\ BatchCount' = BatchCount /\ currentBlockID = BlockIDAfter(submitted + 1)
      /\ currentBatchID = -1
  BY <1>1, BetweenFacts DEF CallerInv, BatchCount
<1>3. EngineTypes'
  BY <1>1, BetweenFacts DEF EngineTypes
<1>4. CallerInv'
  BY <1>1, <1>2, BetweenFacts DEF CallerInv, Between
<1>5. EntryInv'
  BY <1>1, BetweenFacts DEF EntryInv
<1>6. \A s \in BatchIds : (Past(s)' <=> Past(s)) /\ (UnderWay(s) => UnderWay(s)')
  BY <1>1, BetweenFacts, BatchIdsType DEF Past, Between
<1>7. \A i \in Int : Reached(i) => Reached(i)'
  BY <1>1, <1>2 DEF Reached
<1>8. received' + completeChan' + Cardinality(Completing)
        = IF callerAt' = "wait" THEN currentBatchID' ELSE 0
  BY <1>1, BetweenFacts
<1> QED
  BY <1>1, <1>3, <1>4, <1>5, <1>6, <1>7, <1>8, CallerStep

\* The last completion of a block: every batch was moved past and no completion
\* is on its way.
LEMMA LastCompletion ==
    ASSUME IInv, callerAt = "wait", completeChan > 0, ~(received + 1 < BatchCount)
    PROVE  /\ completeChan = 1 /\ Cardinality(Completing) = 0
           /\ currentBatchID = BatchCount /\ Numbered[currentBlockID] = BatchCount
<1>1. /\ received \in Nat /\ completeChan \in Nat /\ Cardinality(Completing) \in Nat
      /\ received + completeChan + Cardinality(Completing) = currentBatchID
      /\ currentBatchID \in 0 .. BatchCount /\ BatchCount \in Nat
      /\ submitted \in Nat /\ submitted < Len(BatchCounts) /\ BatchCount > 0
      /\ currentBlockID = BlockIDAfter(submitted + 1)
  BY BetweenFacts, CompletingFinite DEF EngineTypes, CallerInv
<1>2. Numbered[currentBlockID] = BatchCount
  BY <1>1, NextBlockID DEF BatchCount
<1> QED
  BY <1>1, <1>2

LEMMA ReceiveCompletionStep ==
    ASSUME IInv, Caller, ReceiveCompletion, UNCHANGED stopChan
    PROVE  IInv'
<1>1. /\ callerAt = "wait" /\ completeChan > 0 /\ completeChan' = completeChan - 1
      /\ UNCHANGED <<engineVars, stopChan>>
      /\ UNCHANGED <<allowEarlyNextBatchExecution, crashed>>
  BY CallerFrame DEF ReceiveCompletion
<1>2. /\ received \in Nat /\ completeChan \in Nat /\ Cardinality(Completing) \in Nat
      /\ received + completeChan + Cardinality(Completing) = currentBatchID
      /\ currentBatchID \in 0 .. BatchCount /\ submitted < Len(BatchCounts)
      /\ submitted \in Nat /\ BatchCount \in Nat
      /\ currentBlockID = BlockIDAfter(submitted + 1)
  BY <1>1, BetweenFacts, CompletingFinite DEF EngineTypes, CallerInv
<1>3. EntryInv'
  BY <1>1, BetweenFacts DEF EntryInv, engineVars
<1>4. \A i \in Int : Reached(i) => Reached(i)'
  BY <1>1 DEF Reached, engineVars, ReceiveCompletion
<1>5. CASE received + 1 < BatchCount
  <2>1. received' = received + 1 /\ UNCHANGED <<callerAt, submitted>>
    BY <1>5 DEF ReceiveCompletion
  <2>2. EngineTypes'
    BY <1>1, <1>2, <2>1, BetweenFacts DEF EngineTypes, engineVars
  <2>3. CallerInv'
    BY <1>1, <2>1, BetweenFacts DEF CallerInv, Between, BatchCount, engineVars
  <2>4. \A s \in BatchIds : (Past(s)' <=> Past(s)) /\ (UnderWay(s) => UnderWay(s)')
    BY <1>1, <2>1 DEF Past, UnderWay, Current, Between, engineVars
  <2>5. received' + completeChan' + Cardinality(Completing)
          = IF callerAt' = "wait" THEN currentBatchID' ELSE 0
    BY <1>1, <1>2, <2>1 DEF engineVars
  <2> QED
    BY <1>1, <1>3, <1>4, <2>2, <2>3, <2>4, <2>5, CallerStep DEF engineVars
<1>6. CASE ~(received + 1 < BatchCount)
  <2>1. received' = 0 /\ callerAt' = "clear" /\ submitted' = submitted + 1
    BY <1>6 DEF ReceiveCompletion
  <2>2. /\ completeChan = 1 /\ Cardinality(Completing) = 0
        /\ currentBatchID = BatchCount /\ Numbered[currentBlockID] = BatchCount
    BY <1>1, <1>6, LastCompletion
  <2>3. EngineTypes'
    BY <1>1, <1>2, <2>1, <2>2, BetweenFacts, BatchCountsAssumption DEF EngineTypes, engineVars
  <2>4. CallerInv'
    BY <1>1, <1>2, <2>1 DEF CallerInv, Between, engineVars
  <2>5. \A s \in BatchIds : (Past(s)' <=> Past(s)) /\ (UnderWay(s) => UnderWay(s)')
    <3> SUFFICES ASSUME NEW s \in BatchIds
                 PROVE  (Past(s)' <=> Past(s)) /\ ~UnderWay(s)
      OBVIOUS
    <3>1. s = <<s[1], s[2]>> /\ s[2] \in Nat /\ s[2] < Numbered[s[1]]
      BY BatchIdsType
    <3>2. s[1] = currentBlockID => s[2] < currentBatchID
      BY <2>2, <3>1
    <3>3. Past(s) <=> s[1] < currentBlockID \/ s[1] = currentBlockID
      BY <1>1, <3>2 DEF Past, Between
    <3>4. Past(s)' <=> s[1] < currentBlockID \/ s[1] = currentBlockID
      BY <1>1, <2>1 DEF Past, Between, engineVars
    <3>5. ~UnderWay(s)
      BY <1>2, <3>1, <3>2 DEF UnderWay, Current
    <3> QED
      BY <3>3, <3>4, <3>5
  <2>6. received' + completeChan' + Cardinality(Completing)
          = IF callerAt' = "wait" THEN currentBatchID' ELSE 0
    BY <1>1, <2>1, <2>2
  <2> QED
    BY <1>1, <1>3, <1>4, <2>3, <2>4, <2>5, <2>6, CallerStep DEF engineVars
<1> QED
  BY <1>5, <1>6

LEMMA StopStep ==
    ASSUME IInv, Caller, UNCHANGED <<completeChan, submitted, received, engineVars>>,
           stopChan' \in BOOLEAN,
           \/ callerAt = "clear" /\ callerAt' = "join"
           \/ callerAt = "join" /\ callerAt' = "end"
    PROVE  IInv'
<1>1. UNCHANGED <<allowEarlyNextBatchExecution, crashed>>
  BY CallerFrame
<1>2. EngineTypes'
  BY <1>1, BetweenFacts DEF EngineTypes, engineVars
<1>3. CallerInv' /\ EntryInv'
  BY BetweenFacts DEF CallerInv, EntryInv, Between, engineVars
<1>4. \A s \in BatchIds : (Past(s)' <=> Past(s)) /\ (UnderWay(s) => UnderWay(s)')
  BY BetweenFacts DEF Past, Between, engineVars
<1>5. \A i \in Int : Reached(i) => Reached(i)'
  BY DEF Reached, engineVars
<1>6. received' + completeChan' + Cardinality(Completing)
        = IF callerAt' = "wait" THEN currentBatchID' ELSE 0
  BY BetweenFacts
<1> QED
  BY <1>2, <1>3, <1>4, <1>5, <1>6, CallerStep DEF engineVars

LEMMA CallerKeeps ==
    ASSUME IInv, Caller
    PROVE  IInv'
<1>1. CASE Submit /\ UNCHANGED <<completeChan, stopChan>>
  <2>1. CASE ClearBatchID
    BY <1>1, <2>1, ClearBatchIDStep
  <2>2. CASE AllocateBatchStates
    BY <1>1, <2>2, AllocateBatchStatesStep
  <2>3. CASE FillBatchState
    BY <1>1, <2>3, FillBatchStateStep
  <2>4. CASE SkipEmptyBlock
    BY <1>1, <2>4, SkipEmptyBlockStep
  <2>5. CASE PublishBlock
    BY <1>1, <2>5, PublishBlockStep
  <2>6. CASE PublishFirstBatch
    BY <1>1, <2>6, PublishFirstBatchStep
  <2>7. CASE JoinWorkers
    <3>1. stopChan' \in BOOLEAN
      BY <1>1, BetweenFacts DEF EngineTypes
    <3> QED
      BY <1>1, <2>7, <3>1, StopStep DEF JoinWorkers
  <2> QED
    BY <1>1, <2>1, <2>2, <2>3, <2>4, <2>5, <2>6, <2>7 DEF Submit
<1>2. CASE ReceiveCompletion /\ UNCHANGED stopChan
  BY <1>2, ReceiveCompletionStep
<1>3. CASE CloseStopChan /\ UNCHANGED completeChan
  BY <1>3, StopStep DEF CloseStopChan
<1> QED
  BY <1>1, <1>2, <1>3 DEF Caller

----------------------------------------------------------------------------
(* The inductive invariant *)

LEMMA InitIInv ==
    ASSUME Init
    PROVE  IInv
<1> USE DEF Init
<1>1. TypeOK
  <2>1. BatchCountsAssumption => 0 \in 0 .. Len(BatchCounts)
    BY BatchCountsAssumption
  <2>2. "merge" \in Stages
    BY StageOrder
  <2>3. BatchTypes
    BY <2>2 DEF BatchTypes
  <2>4. WorkerTypes
    BY DEF WorkerTypes
  <2>5. EngineTypes
    <3>1. <<>> \in Seq(BlockIDs \cup {NoBlock})
      OBVIOUS
    <3>2. batchStates \in Seq(BlockIDs \cup {NoBlock})
      BY <3>1
    <3> QED
      BY <2>1, <3>2, BatchCountsAssumption DEF EngineTypes
  <2> QED
    BY <2>3, <2>4, <2>5, Types
<1>2. CallerInv
  <2>1. BlockIDAfter(0) = 0
    <3>1. Nonempty \cap 1 .. 0 = {}
      OBVIOUS
    <3> QED
      BY <3>1, FS_EmptySet DEF BlockIDAfter
  <2> QED
    BY <2>1 DEF CallerInv, Between
<1>3. EntryInv
  BY DEF EntryInv
<1>4. CountInv
  <2>1. Completing = {}
    BY DEF Completing
  <2> QED
    BY <2>1, FS_EmptySet DEF CountInv
<1>5. BatchInv
  <2> SUFFICES ASSUME NEW s \in BatchIds
               PROVE  ~Past(s) /\ joined[s] = {} /\ ~finished[s]
    BY DEF BatchInv
  <2>1. s[1] \in Nat \ {0}
    BY BatchIdsType
  <2> QED
    BY <2>1 DEF Past
<1>6. StageInv
  BY DEF StageInv
<1>7. \A w \in Workers : InsideOf(w)
  BY DEF InsideOf, InBatch
<1>8. \A w \in Workers : HeadOf(w)
  BY DEF HeadOf
<1> QED
  BY <1>1, <1>2, <1>3, <1>4, <1>5, <1>6, <1>7, <1>8 DEF IInv

LEMMA StutterIInv ==
    ASSUME IInv, UNCHANGED vars
    PROVE  IInv'
<1>1. /\ UNCHANGED <<callerVars, completeChan, stopChan, allowEarlyNextBatchExecution,
                     engineVars, crashed, batchVars>>
      /\ UNCHANGED <<at, statsVars, stateID, state>>
  BY DEF vars
<1>2. TypeOK
  BY DEF IInv
<1>3. TypeOK'
  BY <1>1, <1>2 DEF TypeOK, callerVars, engineVars, batchVars, statsVars
<1>4. \A w \in Workers : Untouched(w)
  BY <1>1 DEF Untouched, statsVars
<1>5. \A w \in Workers : InsideOf(w)' /\ HeadOf(w)'
  BY <1>1, <1>4, OthersStay
<1>6. CallerInv' /\ EntryInv'
  BY <1>1 DEF IInv, CallerInv, EntryInv, Between, BatchCount, callerVars, engineVars
<1>7. CountInv'
  <2>1. Completing' = Completing
    BY <1>1 DEF Completing
  <2> QED
    BY <1>1, <2>1 DEF IInv, CountInv, callerVars, engineVars
<1>8. \A s : (Past(s)' <=> Past(s)) /\ (UnderWay(s)' <=> UnderWay(s))
  BY <1>1 DEF Past, UnderWay, Between, Current, callerVars, engineVars
<1>9. BatchInv' /\ StageInv'
  BY <1>1, <1>8 DEF IInv, BatchInv, StageInv, batchVars
<1> QED
  BY <1>3, <1>5, <1>6, <1>7, <1>9 DEF IInv

LEMMA WorkerKeeps ==
    ASSUME IInv, NEW w \in Workers, Worker(w)
    PROVE  IInv'
<1>1. CASE Synchronize(w)
  <2>1. CASE Exit(w)
    BY <1>1, <2>1, ExitStep
  <2>2. CASE ReadBlockID(w)
    BY <1>1, <2>2, ReadBlockIDStep
  <2>3. CASE ReadBatchID(w)
    BY <1>1, <2>3, ReadBatchIDStep
  <2>4. CASE CheckBounds(w)
    BY <1>1, <2>4, CheckBoundsStep
  <2>5. CASE ReadBatchState(w)
    BY <1>1, <2>5, ReadBatchStateStep
  <2>6. CASE RecheckBlockID(w)
    BY <1>1, <2>6, RecheckBlockIDStep
  <2> QED
    BY <1>1, <2>1, <2>2, <2>3, <2>4, <2>5, <2>6 DEF Synchronize
<1>2. CASE Inside(w)
  <2>1. CASE Execute(w)
    BY <1>2, <2>1, ExecuteStep
  <2>2. CASE FinishMerge(w)
    BY <1>2, <2>2, FinishMergeStep
  <2>3. CASE FinishPreExecute(w)
    BY <1>2, <2>3, FinishPreExecuteStep
  <2>4. CASE Arrive(w)
    BY <1>2, <2>4, ArriveStep
  <2>5. CASE TakeWork(w)
    BY <1>2, <2>5, TakeWorkStep
  <2>6. CASE PassBy(w)
    BY <1>2, <2>6, PassByStep
  <2>7. CASE FinishWork(w)
    BY <1>2, <2>7, FinishWorkStep
  <2>8. CASE Await(w)
    BY <1>2, <2>8, AwaitStep
  <2> QED
    BY <1>2, <2>1, <2>2, <2>3, <2>4, <2>5, <2>6, <2>7, <2>8 DEF Inside
<1>3. CASE TryEntryNextBatch(w)
  BY <1>3, EndBatchStep, MoveOnStep, CompleteStep DEF TryEntryNextBatch
<1> QED
  BY <1>1, <1>2, <1>3 DEF Worker

LEMMA NextIInv ==
    ASSUME IInv, [Next]_vars
    PROVE  IInv'
BY StutterIInv, CallerKeeps, WorkerKeeps DEF Next, Terminated

\* IInv holds for any number of workers and any blocks.
THEOREM Invariance == Spec => []IInv
<1>1. Init => IInv
  BY InitIInv
<1>2. IInv /\ [Next]_vars => IInv'
  BY NextIInv
<1> QED
  BY <1>1, <1>2, PTL DEF Spec

----------------------------------------------------------------------------
(* What it is for *)

\* Every variable has its type, and the block ids and batches that the workers
\* and batchStates hold are ids of blocks and batches.
THEOREM TypeCorrect == Spec => []TypeOK
<1>1. IInv => TypeOK
  BY DEF IInv
<1> QED
  BY <1>1, Invariance, PTL

\* A batch that a worker merges or works on is not finished.
LEMMA WorkedOn ==
    ASSUME IInv, NEW w \in Workers, at[w] \in {"merge", "work"}
    PROVE  /\ state[w] \in BatchIds /\ ~finished[state[w]]
           /\ UnderWay(state[w])
<1>1. /\ InsideOf(w) /\ state[w] \in BatchIds /\ w \in joined[state[w]]
  BY InBatchFacts DEF InBatch
<1>2. ~finished[state[w]]
  <2>1. CASE at[w] = "merge"
    BY <1>1, <2>1 DEF IInv, StageInv, InsideOf
  <2>2. CASE at[w] = "work"
    <3>1. stage[state[w]] \in {"construct", "commit", "reexecute"}
      BY <1>1, <2>2 DEF InsideOf
    <3>2. ~noConflict[state[w]]
      BY <1>1, <2>2 DEF IInv, StageInv, InsideOf
    <3> QED
      BY <1>1, <3>1, <3>2 DEF IInv, StageInv
  <2> QED
    BY <2>1, <2>2
<1>3. UnderWay(state[w])
  BY <1>1, <1>2, BegunUnderWay
<1> QED
  BY <1>1, <1>2, <1>3

\* For any number of workers and any blocks, a worker executes, merges or does
\* the work of a stage only in the current, unfinished batch, and executes it once.
THEOREM WorkIsCurrentCorrect == Spec => []WorkIsCurrent
<1>1. IInv => WorkIsCurrent
  <2> SUFFICES ASSUME IInv, NEW w \in Workers
               PROVE  /\ at[w] \in {"execute", "merge", "work", "moveOn"} =>
                           state[w] = Current /\ (finished[state[w]] <=> at[w] = "moveOn")
                      /\ at[w] = "execute" => w \notin joined[state[w]]
    BY DEF WorkIsCurrent
  <2>1. CASE at[w] = "execute"
    <3>1. UnderWay(state[w]) /\ w \notin joined[state[w]] /\ state[w] \in BatchIds
      BY <2>1 DEF IInv, InsideOf
    <3>2. ~finished[state[w]]
      BY <3>1, NotExecuted
    <3> QED
      BY <2>1, <3>1, <3>2 DEF UnderWay
  <2>2. CASE at[w] \in {"merge", "work"}
    BY <2>2, WorkedOn DEF UnderWay
  <2>3. CASE at[w] = "moveOn"
    BY <2>3 DEF IInv, InsideOf, UnderWay
  <2> QED
    BY <2>1, <2>2, <2>3
<1> QED
  BY <1>1, Invariance, PTL

\* For any number of workers and any blocks, no worker is between the end of a
\* batch and its completion, and no completion is on its way, when the caller
\* replaces batchStates and moves to the next block.
THEOREM CallerAloneCorrect == Spec => []CallerAlone
<1>1. IInv => CallerAlone
  <2> SUFFICES ASSUME IInv, Between
               PROVE  /\ completeChan = 0
                      /\ \A w \in Workers : at[w] \notin {"moveOn", "complete"}
                      /\ \A s \in BatchIds : s[1] <= currentBlockID => finished[s]
    BY DEF CallerAlone, Between
  <2>1. callerAt # "wait"
    BY DEF Between
  <2>2. completeChan = 0 /\ Cardinality(Completing) = 0
    BY <2>1, BetweenFacts, CompletingFinite DEF EngineTypes
  <2>3. ASSUME NEW w \in Workers
        PROVE  at[w] \notin {"moveOn", "complete"}
    BY <2>1, <2>2, CompletingFinite DEF IInv, InsideOf, UnderWay, Completing
  <2>4. ASSUME NEW s \in BatchIds, s[1] <= currentBlockID
        PROVE  finished[s]
    <3>1. Past(s)
      BY <2>4, BetweenFacts, BatchIdsType DEF Past
    <3> QED
      BY <3>1 DEF IInv, BatchInv
  <2> QED
    BY <2>2, <2>3, <2>4
<1> QED
  BY <1>1, Invariance, PTL

\* For any number of workers and any blocks, a finished batch was executed by
\* every worker and nobody still has work of it.
THEOREM EndsWithAllCorrect == Spec => []EndsWithAll
<1>1. IInv => EndsWithAll
  <2> SUFFICES ASSUME IInv, NEW s \in BatchIds, finished[s]
               PROVE  joined[s] = Workers /\ working[s] = {}
    BY DEF EndsWithAll
  <2>1. joined[s] = Workers
    BY DEF IInv, StageInv
  <2>2. working[s] = {w \in Workers : at[w] \in {"merge", "work"} /\ state[w] = s}
    BY DEF IInv, StageInv
  <2>3. \A w \in Workers : ~(at[w] \in {"merge", "work"} /\ state[w] = s)
    BY WorkedOn
  <2> QED
    BY <2>1, <2>2, <2>3
<1> QED
  BY <1>1, Invariance, PTL

----------------------------------------------------------------------------
(* The refinement *)

\* The batches of block b.
BatchesOf(b) == {s \in BatchIds : s[1] = b}

LEMMA BatchesOfBlock ==
    ASSUME NEW b \in BlockIDs
    PROVE  /\ IsFiniteSet(BatchesOf(b)) /\ Cardinality(BatchesOf(b)) = Numbered[b]
           /\ Numbered[b] \in Nat
<1> DEFINE n == Numbered[b]
<1>1. n \in Nat \ {0}
  BY BlockIDsType
<1>2. BatchesOf(b) = {b} \X (0 .. n - 1)
  <2>1. ASSUME NEW s \in BatchesOf(b)
        PROVE  s \in {b} \X (0 .. n - 1)
    <3>1. /\ s = <<s[1], s[2]>> /\ s[1] = b /\ s[2] \in Nat /\ s[2] < n
      BY BatchIdsType DEF BatchesOf
    <3>2. s[2] \in 0 .. n - 1
      BY <1>1, <3>1
    <3> QED
      BY <3>1, <3>2
  <2>2. ASSUME NEW s \in {b} \X (0 .. n - 1)
        PROVE  s \in BatchesOf(b)
    BY DEF BatchesOf, BatchIds
  <2> HIDE DEF n
  <2> QED
    BY <2>1, <2>2
<1>3. IsFiniteSet(0 .. n - 1) /\ Cardinality(0 .. n - 1) = n
  <2>1. n - 1 \in Int
    BY <1>1
  <2> HIDE DEF n
  <2>2. /\ IsFiniteSet(0 .. n - 1)
        /\ Cardinality(0 .. n - 1) = IF 0 > n - 1 THEN 0 ELSE (n - 1) - 0 + 1
    BY <2>1, FS_Interval
  <2> QED
    BY <1>1, <2>2
<1>4. IsFiniteSet({b}) /\ Cardinality({b}) = 1
  BY FS_Singleton
<1> HIDE DEF n
<1>5. /\ IsFiniteSet({b} \X (0 .. n - 1))
      /\ Cardinality({b} \X (0 .. n - 1)) = 1 * n
  BY <1>3, <1>4, FS_Product
<1>6. Cardinality({b} \X (0 .. n - 1)) = n
  BY <1>1, <1>5
<1> QED
  BY <1>1, <1>2, <1>5, <1>6 DEF n

\* Begun and ended batches of the current block.
LEMMA BegunEnded ==
    ASSUME IInv
    PROVE  /\ Ended \subseteq Begun /\ Begun \subseteq BatchesOf(currentBlockID)
           /\ IsFiniteSet(Begun) /\ IsFiniteSet(Ended)
           /\ Cardinality(Begun) \in Nat /\ Cardinality(Ended) \in Nat
           /\ currentBlockID \in BlockIDs => IsFiniteSet(BatchesOf(currentBlockID))
<1>1. Ended \subseteq Begun
  <2> SUFFICES ASSUME NEW s \in Ended
               PROVE  s \in Begun
    OBVIOUS
  <2>1. s \in BatchIds /\ s[1] = currentBlockID /\ finished[s]
    BY DEF Ended
  <2>2. joined[s] = Workers
    BY <2>1 DEF IInv, StageInv
  <2> QED
    BY <2>1, <2>2, SomeWorkers DEF Begun
<1>2. Begun \subseteq BatchesOf(currentBlockID)
  BY DEF Begun, BatchesOf
<1>3. IsFiniteSet(BatchesOf(currentBlockID))
  <2>1. currentBlockID \in BlockIDs \cup {0}
    BY BetweenFacts DEF EngineTypes
  <2>2. CASE currentBlockID \in BlockIDs
    BY <2>2, BatchesOfBlock
  <2>3. CASE currentBlockID = 0
    <3>1. \A s \in BatchIds : s[1] # 0
      BY BatchIdsType
    <3>2. BatchesOf(currentBlockID) = {}
      BY <2>3, <3>1 DEF BatchesOf
    <3> QED
      BY <3>2, FS_EmptySet
  <2> QED
    BY <2>1, <2>2, <2>3
<1>4. IsFiniteSet(Begun)
  BY <1>2, <1>3, FS_Subset
<1>5. IsFiniteSet(Ended)
  BY <1>1, <1>4, FS_Subset
<1> QED
  BY <1>1, <1>2, <1>3, <1>4, <1>5, FS_CardinalityType

\* A step that changes neither the block nor which batches are begun and finished.
LEMMA Invisible ==
    ASSUME currentBlockID' = currentBlockID, finished' = finished,
           \A s \in BatchIds : joined'[s] # {} <=> joined[s] # {}
    PROVE  UNCHANGED Order!vars
<1>1. Ended' = Ended
  BY DEF Ended
<1>2. Begun' = Begun
  BY DEF Begun
<1> QED
  BY <1>1, <1>2 DEF Order!vars

\* The first worker that executes the current batch begins it: those before it
\* are finished.
LEMMA ExecuteStarts ==
    ASSUME IInv, NEW w \in Workers, Worker(w), Inside(w), Execute(w)
    PROVE  Order!StartBatch \/ UNCHANGED Order!vars
<1> DEFINE s == state[w]
<1>1. currentBlockID' = currentBlockID /\ finished' = finished
      /\ joined' = [joined EXCEPT ![s] = @ \cup {w}] /\ at[w] = "execute"
  BY InsideFrame DEF Execute, engineVars
<1>2. BatchTypes /\ s \in BatchIds /\ UnderWay(s) /\ w \notin joined[s]
  BY <1>1, Types DEF IInv, InsideOf
<1>3. s[1] = currentBlockID /\ s = Current
  BY <1>2 DEF UnderWay, Current
<1> HIDE DEF s
<1>4. joined'[s] # {} /\ \A t \in BatchIds : t # s => joined'[t] = joined[t]
  BY <1>1, <1>2 DEF BatchTypes
<1>5. CASE s \in Begun
  <2>1. joined[s] # {}
    BY <1>5 DEF Begun
  <2>2. \A t \in BatchIds : joined'[t] # {} <=> joined[t] # {}
    BY <1>4, <2>1
  <2> QED
    BY <1>1, <2>2, Invisible
<1>6. CASE s \notin Begun
  <2>1. Begun' = Begun \cup {s}
    <3>1. \A t \in BatchIds : joined'[t] # {} <=> joined[t] # {} \/ t = s
      BY <1>4
    <3>2. \A t \in BatchIds : t[1] = currentBlockID' /\ joined'[t] # {}
              <=> (t[1] = currentBlockID /\ joined[t] # {}) \/ t = s
      BY <1>1, <1>3, <3>1
    <3> QED
      BY <1>2, <3>2 DEF Begun
  <2>2. Ended' = Ended
    BY <1>1 DEF Ended
  <2>3. Begun = Ended
    <3>1. ASSUME NEW t \in Begun
          PROVE  t \in Ended
      <4>1. t \in BatchIds /\ t[1] = currentBlockID /\ joined[t] # {} /\ t # s
        BY <1>6 DEF Begun
      <4>2. ~UnderWay(t)
        BY <1>3, <4>1 DEF UnderWay
      <4>3. finished[t]
        BY <4>1, <4>2, BegunUnderWay
      <4> QED
        BY <4>1, <4>3 DEF Ended
    <3> QED
      BY <3>1, BegunEnded
  <2>4. currentBlockID \in BlockIDs /\ currentBlockID # 0
    BY <1>2, <1>3, BatchIdsType
  <2>5. Cardinality(Begun) < Numbered[currentBlockID]
    <3>1. /\ IsFiniteSet(BatchesOf(currentBlockID))
          /\ Cardinality(BatchesOf(currentBlockID)) = Numbered[currentBlockID]
          /\ Numbered[currentBlockID] \in Nat
      BY <2>4, BatchesOfBlock
    <3>2. Begun \in SUBSET BatchesOf(currentBlockID) /\ Cardinality(Begun) \in Nat
      BY BegunEnded
    <3>3. Begun # BatchesOf(currentBlockID)
      BY <1>2, <1>3, <1>6 DEF BatchesOf
    <3>4. /\ Cardinality(Begun) <= Cardinality(BatchesOf(currentBlockID))
          /\ Cardinality(Begun) # Cardinality(BatchesOf(currentBlockID))
      BY <3>1, <3>2, <3>3, FS_Subset
    <3> QED
      BY <3>1, <3>2, <3>4
  <2>6. Cardinality(Begun') = Cardinality(Begun) + 1
    BY <1>6, <2>1, BegunEnded, FS_AddElement
  <2>7. Cardinality(Ended') = Cardinality(Ended)
    BY <2>2
  <2>8. Cardinality(Begun) = Cardinality(Ended)
    BY <2>3
  <2> QED
    BY <1>1, <2>4, <2>5, <2>6, <2>7, <2>8 DEF Order!StartBatch, Order!Batches
<1> QED
  BY <1>5, <1>6

\* The compare-and-swap of finished completes the batch.
LEMMA EndBatchCompletes ==
    ASSUME IInv, NEW w \in Workers, Worker(w), TryEntryNextBatch(w), EndBatch(w)
    PROVE  Order!CompleteBatch \/ UNCHANGED Order!vars
<1> DEFINE s == state[w]
<1>1. currentBlockID' = currentBlockID /\ joined' = joined /\ at[w] = "end"
      /\ finished' = [finished EXCEPT ![s] = TRUE]
  BY DEF TryEntryNextBatch, EndBatch
<1>2. BatchTypes /\ s \in BatchIds /\ w \in joined[s]
  BY <1>1, InBatchFacts DEF InBatch
<1> HIDE DEF s
<1>3. CASE finished[s]
  <2>1. finished' = finished
    BY <1>1, <1>2, <1>3 DEF BatchTypes
  <2> QED
    BY <1>1, <2>1, Invisible
<1>4. CASE ~finished[s]
  <2>1. UnderWay(s)
    BY <1>2, <1>4, BegunUnderWay
  <2>2. s[1] = currentBlockID
    BY <2>1 DEF UnderWay, Current
  <2>3. s \in Begun /\ s \notin Ended
    BY <1>2, <1>4, <2>2 DEF Begun, Ended
  <2>4. Begun' = Begun
    BY <1>1 DEF Begun
  <2>5. Ended' = Ended \cup {s}
    <3>1. finished'[s] /\ \A t \in BatchIds : t # s => finished'[t] = finished[t]
      BY <1>1, <1>2 DEF BatchTypes
    <3>2. \A t \in BatchIds : t[1] = currentBlockID' /\ finished'[t]
              <=> (t[1] = currentBlockID /\ finished[t]) \/ t = s
      BY <1>1, <2>2, <3>1
    <3> QED
      BY <1>2, <3>2 DEF Ended
  <2>6. Cardinality(Ended') = Cardinality(Ended) + 1
    BY <2>3, <2>5, BegunEnded, FS_AddElement
  <2>7. Cardinality(Ended) < Cardinality(Begun)
    <3>1. Ended \in SUBSET Begun /\ Ended # Begun
      BY <2>3, BegunEnded
    <3>2. /\ Cardinality(Ended) <= Cardinality(Begun)
          /\ Cardinality(Ended) # Cardinality(Begun)
      BY <3>1, BegunEnded, FS_Subset
    <3> QED
      BY <3>2, BegunEnded
  <2>8. Cardinality(Begun') = Cardinality(Begun)
    BY <2>4
  <2> QED
    BY <1>1, <2>6, <2>7, <2>8 DEF Order!CompleteBatch
<1> QED
  BY <1>3, <1>4

\* The next block id is published when all batches of the block are finished.
LEMMA PublishStarts ==
    ASSUME IInv, Caller, PublishBlock, UNCHANGED <<completeChan, stopChan>>
    PROVE  Order!StartBlock
<1>1. /\ callerAt = "fill" /\ currentBlockID' = currentBlockID + 1
      /\ joined' = joined /\ finished' = finished /\ batchStates # <<>>
  BY CallerFrame DEF PublishBlock, batchVars
<1>2. BatchCount > 0
  <2>1. Len(batchStates) = BatchCount /\ batchStates \in Seq(BlockIDs \cup {NoBlock})
    BY <1>1, BetweenFacts DEF CallerInv, EngineTypes
  <2>2. Len(batchStates) # 0 /\ Len(batchStates) \in Nat
    BY <1>1, <2>1, EmptySeq
  <2> QED
    BY <2>1, <2>2
<1>3. currentBlockID + 1 \in BlockIDs
  BY <1>1, <1>2, NextBlock
<1>4. currentBlockID + 1 \in DOMAIN Numbered
  BY <1>3 DEF Numbered
<1>5. \A s \in BatchIds : s[1] = currentBlockID => finished[s]
  BY <1>1 DEF IInv, BatchInv, Past, Between
<1>6. Ended = BatchesOf(currentBlockID)
  BY <1>5 DEF Ended, BatchesOf
<1>7. Cardinality(Ended) = IF currentBlockID = 0 THEN 0 ELSE Numbered[currentBlockID]
  <2>1. CASE currentBlockID = 0
    <3>1. \A s \in BatchIds : s[1] # 0
      BY BatchIdsType
    <3>2. Ended = {}
      BY <1>6, <2>1, <3>1 DEF BatchesOf
    <3> QED
      BY <2>1, <3>2, FS_EmptySet
  <2>2. CASE currentBlockID # 0
    <3>1. currentBlockID \in BlockIDs
      BY <2>2, BetweenFacts DEF EngineTypes
    <3> QED
      BY <1>6, <2>2, <3>1, BatchesOfBlock
  <2> QED
    BY <2>1, <2>2
<1>8. Begun' = {} /\ Ended' = {}
  <2>1. \A s \in BatchIds : s[1] = currentBlockID + 1 => joined[s] = {} /\ ~finished[s]
    <3> SUFFICES ASSUME NEW s \in BatchIds, s[1] = currentBlockID + 1
                 PROVE  joined[s] = {} /\ ~finished[s]
      OBVIOUS
    <3>1. ~Past(s)
      BY BetweenFacts DEF Past
    <3>2. ~UnderWay(s)
      BY <1>1, BetweenFacts
    <3> QED
      BY <3>1, <3>2 DEF IInv, BatchInv
  <2> QED
    BY <1>1, <2>1 DEF Begun, Ended
<1>9. Cardinality(Begun') = 0 /\ Cardinality(Ended') = 0
  BY <1>8, FS_EmptySet
<1> QED
  BY <1>1, <1>4, <1>7, <1>9 DEF Order!StartBlock, Order!Batches

LEMMA CallerMaps ==
    ASSUME IInv, Caller
    PROVE  [Order!Next]_(Order!vars)
<1>1. joined' = joined /\ finished' = finished
  BY CallerFrame DEF batchVars
<1>2. CASE PublishBlock /\ UNCHANGED <<completeChan, stopChan>>
  BY <1>2, PublishStarts DEF Order!Next
<1>3. CASE currentBlockID' = currentBlockID
  BY <1>1, <1>3, Invisible
<1> QED
  BY <1>2, <1>3 DEF Caller, Submit, ClearBatchID, AllocateBatchStates, FillBatchState,
     SkipEmptyBlock, PublishFirstBatch, JoinWorkers, ReceiveCompletion, CloseStopChan,
     engineVars

LEMMA WorkerMaps ==
    ASSUME IInv, NEW w \in Workers, Worker(w)
    PROVE  [Order!Next]_(Order!vars)
<1>1. CASE Inside(w) /\ Execute(w)
  BY <1>1, ExecuteStarts DEF Order!Next
<1>2. CASE TryEntryNextBatch(w) /\ EndBatch(w)
  BY <1>2, EndBatchCompletes DEF Order!Next
<1>3. CASE currentBlockID' = currentBlockID /\ joined' = joined /\ finished' = finished
  BY <1>3, Invisible
<1>4. CASE Synchronize(w)
  BY <1>3, <1>4 DEF Synchronize, engineVars, batchVars
<1>5. CASE Inside(w) /\ ~Execute(w)
  BY <1>3, <1>5 DEF Inside, FinishMerge, FinishPreExecute, Arrive, TakeWork, PassBy,
     FinishWork, Await, engineVars, batchVars
<1>6. CASE TryEntryNextBatch(w) /\ ~EndBatch(w)
  BY <1>3, <1>6 DEF TryEntryNextBatch, MoveOn, Complete, batchVars
<1> QED
  BY <1>1, <1>2, <1>4, <1>5, <1>6 DEF Worker

\* For any number of workers and any blocks, a step of this module is a step of
\* BatchOrder, or invisible to it: the first worker that executes a batch starts
\* it, the swap of finished completes it.
THEOREM Refinement == Spec => ImplementsBatchOrder
<1>1. Init => Order!Init
  <2> SUFFICES ASSUME Init
               PROVE  Order!Init
    OBVIOUS
  <2>1. Begun = {} /\ Ended = {}
    BY DEF Init, Begun, Ended
  <2> QED
    BY <2>1, FS_EmptySet DEF Init, Order!Init
<1>2. IInv /\ [Next]_vars => [Order!Next]_(Order!vars)
  <2> SUFFICES ASSUME IInv, [Next]_vars
               PROVE  [Order!Next]_(Order!vars)
    OBVIOUS
  <2>1. CASE UNCHANGED vars
    BY <2>1, Invisible DEF vars, engineVars, batchVars
  <2> QED
    BY <2>1, CallerMaps, WorkerMaps DEF Next, Terminated
<1> QED
  BY <1>1, <1>2, Invariance, PTL DEF Spec, ImplementsBatchOrder, Order!Spec
=============================================================================
