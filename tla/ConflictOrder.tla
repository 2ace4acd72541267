---------------------------- MODULE ConflictOrder ----------------------------
(***************************************************************************)
(* What the schedulers by dependencies promise: a block gets an order and  *)
(* its transactions run, several at a time, but of two that conflict the   *)
(* later one starts only after the earlier one has completed.              *)
(***************************************************************************)
EXTENDS Integers, Sequences, FiniteSets

VARIABLES
    block,              \* sequence of [reads, writes]
    order,              \* a permutation of its indices, or <<>> when not yet known
    running,
    completed

vars == <<block, order, running, completed>>

Txs == DOMAIN block
Used(t) == block[t].reads \cup block[t].writes

Conflict(t, u) ==
    \/ block[t].writes \cap Used(u) # {}
    \/ block[u].writes \cap Used(t) # {}

Before(t, u) == \E i, j \in DOMAIN order : i < j /\ order[i] = t /\ order[j] = u

IsOrder(s) == Len(s) = Len(block) /\ {s[i] : i \in DOMAIN s} = Txs

Init ==
    /\ order = <<>> \/ IsOrder(order)
    /\ running = {}
    /\ completed = {}

Arrange ==
    /\ order = <<>>
    /\ IsOrder(order')
    /\ UNCHANGED <<block, running, completed>>

Start(t) ==
    /\ order # <<>>
    /\ t \notin running \cup completed
    /\ \A u \in Txs : (Before(u, t) /\ Conflict(u, t)) => u \in completed
    /\ running' = running \cup {t}
    /\ UNCHANGED <<block, order, completed>>

Complete(t) ==
    /\ t \in running
    /\ running' = running \ {t}
    /\ completed' = completed \cup {t}
    /\ UNCHANGED <<block, order>>

Next ==
    \/ Arrange
    \/ \E t \in Txs : Start(t) \/ Complete(t)

Spec == Init /\ [][Next]_vars
=============================================================================
