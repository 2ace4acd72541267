----------------------------- MODULE GatherAll -----------------------------
(***************************************************************************)
(* What one collective stage of a Janus batch promises to the stage after  *)
(* it: parts arrive in any order and in any grouping, and one result made   *)
(* of all of them is published, once, after the last part arrived.  The    *)
(* merge of the per-worker state tables, the construction of the conflict   *)
(* graph and the commit validation are each shown to implement this module. *)
(***************************************************************************)
CONSTANT Parts          \* what must be gathered before the stage is over

VARIABLES
    joined,             \* the parts that have arrived
    result,             \* the published result: the parts it is made of
    done                \* the flag the next stage spins on

vars == <<joined, result, done>>

TypeOK ==
    /\ joined \subseteq Parts
    /\ result \subseteq Parts
    /\ done \in BOOLEAN

Init ==
    /\ joined = {}
    /\ result = {}
    /\ done = FALSE

\* Some parts arrive together.
Join(new) ==
    /\ new # {}
    /\ new \cap joined = {}
    /\ joined' = joined \cup new
    /\ UNCHANGED <<result, done>>

\* The result is published: only now, and never again.
Publish ==
    /\ ~done
    /\ joined = Parts
    /\ result' = Parts
    /\ done' = TRUE
    /\ UNCHANGED joined

Next == Publish \/ \E new \in SUBSET Parts : Join(new)

Spec == Init /\ [][Next]_vars
=============================================================================
