---------------------------- MODULE EpochEngines ----------------------------
(***************************************************************************)
(* The baselines that execute a block in rounds and sort out the conflicts *)
(* of a round at its end, side by side: which of them runs is chosen at    *)
(* the start.  The variables of the engines that do not run are unused.    *)
(***************************************************************************)
EXTENDS Integers, Sequences, FiniteSets

CONSTANTS
    AriaThreads, AriaWorkloads,
    HarmonyThreads, HarmonyWorkloads,
    OptMEWorkloads

VARIABLES
    engine,             \* "aria", "harmony" or "optme"
    \* Aria
    txs, perThreadBatch, controller, thread, nilNumber, batchID,
    BatchID, AriaCommitted, ReservedGet, ReservedPut, count, gen, at, tx, seen,
    \* Harmony
    MinOut, MaxIn, FlagConflict, CommittedFlag, ReservedGetTxs, ReservedPutTxs,
    Handled, Value, DepsGet, DepsPut, current, generation, block, stage,
    harmonyAt, next, harmonySeen,
    \* OptME
    blockid, phase, pending, schedules, Aborted, Committed, Sequenceid,
    BlockIDGet, BlockIDPut, ReservedPutNum, NextReservedPut,
    \* Harmony or OptME
    blocks

A == INSTANCE Aria WITH Committed <- AriaCommitted
H == INSTANCE Harmony WITH at <- harmonyAt, seen <- harmonySeen
O == INSTANCE OptME

ASSUME Assumptions ==
    /\ A!AriaThreadsAssumption /\ A!AriaBlocksAssumption
    /\ H!HarmonyThreadsAssumption /\ H!HarmonyBlocksAssumption
    /\ O!OptMEBlocksAssumption

ariaVars ==
    <<txs, perThreadBatch, controller, thread, nilNumber, batchID,
      BatchID, AriaCommitted, ReservedGet, ReservedPut, count, gen, at, tx, seen>>
harmonyVars ==
    <<MinOut, MaxIn, FlagConflict, CommittedFlag, ReservedGetTxs, ReservedPutTxs,
      Handled, Value, DepsGet, DepsPut, current, generation, block, stage,
      harmonyAt, next, harmonySeen>>
optmeVars ==
    <<blockid, phase, pending, schedules, Aborted, Committed, Sequenceid,
      BlockIDGet, BlockIDPut, ReservedPutNum, NextReservedPut>>
vars == <<engine, ariaVars, harmonyVars, optmeVars, blocks>>

Unused == "unused"

NoAria ==
    /\ txs = Unused /\ perThreadBatch = Unused /\ controller = Unused
    /\ thread = Unused /\ nilNumber = Unused /\ batchID = Unused
    /\ BatchID = Unused /\ AriaCommitted = Unused /\ ReservedGet = Unused
    /\ ReservedPut = Unused /\ count = Unused /\ gen = Unused
    /\ at = [w \in A!Workers |-> Unused] /\ tx = Unused /\ seen = Unused

NoHarmony ==
    /\ MinOut = Unused /\ MaxIn = Unused /\ FlagConflict = Unused
    /\ CommittedFlag = Unused /\ ReservedGetTxs = Unused
    /\ ReservedPutTxs = Unused /\ Handled = Unused /\ Value = Unused
    /\ DepsGet = Unused /\ DepsPut = Unused /\ current = Unused
    /\ generation = Unused /\ block = Unused /\ stage = Unused
    /\ harmonyAt = [w \in H!Workers |-> Unused] /\ next = Unused
    /\ harmonySeen = Unused

NoOptME ==
    /\ blockid = Unused /\ phase = Unused /\ pending = Unused
    /\ schedules = Unused /\ Aborted = Unused /\ Committed = Unused
    /\ Sequenceid = Unused /\ BlockIDGet = Unused /\ BlockIDPut = Unused
    /\ ReservedPutNum = Unused /\ NextReservedPut = Unused

Init ==
    \/ /\ engine = "aria"
       /\ A!Init
       /\ NoHarmony
       /\ NoOptME
       /\ blocks = Unused
    \/ /\ engine = "harmony"
       /\ H!Init
       /\ NoAria
       /\ NoOptME
    \/ /\ engine = "optme"
       /\ O!Init
       /\ NoAria
       /\ NoHarmony

Next ==
    \/ /\ engine = "aria"
       /\ A!Next
       /\ UNCHANGED <<engine, harmonyVars, optmeVars, blocks>>
    \/ /\ engine = "harmony"
       /\ H!Next
       /\ UNCHANGED <<engine, ariaVars, optmeVars>>
    \/ /\ engine = "optme"
       /\ O!Next
       /\ UNCHANGED <<engine, ariaVars, harmonyVars>>

Spec == Init /\ [][Next]_vars

FairSpec == Spec /\ A!Fairness /\ H!Fairness

-----------------------------------------------------------------------------
(* The properties of the engines.                                          *)

\* What a column of Aria commits is serializable.
AriaSerializable == engine = "aria" => A!AriaSerializable

\* A transaction that Aria returns holds up those behind it.
AriaThreadOrder == engine = "aria" => A!AriaThreadOrder

\* A worker of Aria judges with the reservations of the whole column.
AriaSeesColumn == engine = "aria" => A!AriaSeesColumn

\* Harmony commits no two conflicting transactions of a block without
\* executing one of them again.
HarmonyCommitsApart == engine = "harmony" => H!HarmonyCommitsApart

\* Harmony applies every write of a block before it executes the rest again.
HarmonyAppliesAll == engine = "harmony" => H!HarmonyAppliesAll

\* Harmony's tables hold nothing of an earlier block.
HarmonyNoLeftovers == engine = "harmony" => H!HarmonyNoLeftovers

\* Harmony.go:642 says of the fallback that it already executes in the order
\* of the dependencies, one after another.
FallbackInOrder == engine = "harmony" => H!FallbackInOrder

\* OptME's counters of the writers of a key are exact.
OptMECountsWriters == engine = "optme" => O!OptMECountsWriters

\* What OptME executes at the same time does not conflict.
OptMEEpochsApart == engine = "optme" => O!OptMEEpochsApart

\* Utils.go:19 says of OptME's graph that reads come before writes.
ReadsBeforeWrites == engine = "optme" => O!ReadsBeforeWrites

\* OptME's run.go:47 warns when not every transaction has been committed.
EveryTxCommitted == engine = "optme" => O!EveryTxCommitted

\* Aria and Harmony commit every transaction and all their workers end.
EpochEnginesFinish ==
    <>(\/ engine = "aria" /\ A!AllCommitted
       \/ engine = "harmony" /\ H!AllCommitted
       \/ engine = "optme")
=============================================================================
