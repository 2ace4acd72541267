----------------------------- MODULE BatchOrder -----------------------------
(***************************************************************************)
(* What the engine promises to the caller that submits block after block:  *)
(* the batches of a block are executed and completed one by one in their   *)
(* order, and no block is started before the batches of the block before   *)
(* it are complete.  Pipeline is shown to implement this module.           *)
(***************************************************************************)
EXTENDS Naturals

CONSTANT Blocks         \* the number of batches of each block

VARIABLES
    block,              \* the current block; 0 before the first
    started,            \* how many batches of the block were begun
    completed           \* how many of them are complete

vars == <<block, started, completed>>

Init ==
    /\ block = 0
    /\ started = 0
    /\ completed = 0

\* The number of batches of the current block.
Batches == IF block = 0 THEN 0 ELSE Blocks[block]

StartBlock ==
    /\ completed = Batches
    /\ block + 1 \in DOMAIN Blocks
    /\ block' = block + 1
    /\ started' = 0
    /\ completed' = 0

StartBatch ==
    /\ started = completed
    /\ started < Batches
    /\ started' = started + 1
    /\ UNCHANGED <<block, completed>>

CompleteBatch ==
    /\ completed < started
    /\ completed' = completed + 1
    /\ UNCHANGED <<block, started>>

Next == StartBlock \/ StartBatch \/ CompleteBatch

Spec == Init /\ [][Next]_vars
=============================================================================
