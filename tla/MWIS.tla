------------------------------- MODULE MWIS --------------------------------
(***************************************************************************)
(* SolveMWIS: which transactions of a connected component of the conflict  *)
(* graph are committed.  They must not conflict with each other, and their *)
(* execution cost should be large.                                         *)
(*                                                                         *)
(* The engine is started with one of three solvers: two greedy ones, which *)
(* pick node after node, and an exact one.  A fourth one calls a Python    *)
(* script; no entry point selects it.                                      *)
(* Costs are whole numbers here, and quotients are compared exactly.       *)
(***************************************************************************)
EXTENDS Integers, Sequences, FiniteSets, FiniteSetsExt, SequencesExt

CONSTANTS
    Txs,            \* transaction ids
    Costs,          \* the execution costs to look at
    Solvers         \* a subset of "greedy", "costOnly", "exact", "relaxation"

\* What is assumed of the constants, by BatchStages.
TxsAssumption == IsFiniteSet(Txs) /\ Txs \subseteq Nat
CostsAssumption == Costs \subseteq Nat \ {0}

VARIABLES
    dagEdges,       \* the edges of the conflict graph, each as a set of two nodes
    nodes,          \* the component to solve
    weights,
    solver,
    remaining,      \* the nodes the greedy solvers can still pick
    result,
    failed,         \* the solver returned an error
    done

vars == <<dagEdges, nodes, weights, solver, remaining, result, failed, done>>
input == <<dagEdges, nodes, weights, solver>>

Graphs == SUBSET kSubset(2, Txs)

\* What GetConnectedComponents returns of a graph; see ConflictGraph.
IsComponent(c, graph) ==
    /\ c # {}
    /\ \A e \in graph : e \subseteq c \/ e \cap c = {}
    /\ \A part \in (SUBSET c) \ {{}, c} : \E e \in graph : e \cap part # {} /\ ~(e \subseteq part)

adjList(n) == {m \in nodes : {m, n} \in dagEdges}

TypeOK ==
    /\ dagEdges \in Graphs
    /\ nodes \subseteq Txs
    /\ weights \in [nodes -> Costs]
    /\ solver \in Solvers
    /\ remaining \subseteq nodes
    /\ result \in Seq(nodes \ remaining)
    /\ failed \in BOOLEAN
    /\ done \in BOOLEAN

Init ==
    /\ dagEdges \in Graphs
    /\ nodes \in {c \in SUBSET Txs : IsComponent(c, dagEdges)}
    /\ weights \in [nodes -> Costs]
    /\ solver \in Solvers
    /\ remaining = nodes
    /\ result = <<>>
    /\ failed = FALSE
    /\ done = FALSE

Weight(set) == MapThenSumSet(LAMBDA n : weights[n], set)
Chosen == ToSet(result)

----------------------------------------------------------------------------
(* solveByGreedy and solveByCostOnly *)

remainingDegree(n) == Cardinality(adjList(n) \cap remaining)

\* Descending weight, then ascending id.
ByCost(m, n) ==
    weights[m] > weights[n] \/ (weights[m] = weights[n] /\ m < n)

\* Descending weight / (degree + 1), then descending weight, then ascending id.
ByScore(m, n) ==
    LET scoreM == weights[m] * (remainingDegree(n) + 1)
        scoreN == weights[n] * (remainingDegree(m) + 1)
    IN  \/ scoreM > scoreN
        \/ scoreM = scoreN /\ weights[m] > weights[n]
        \/ scoreM = scoreN /\ weights[m] = weights[n] /\ m < n

Best(n) ==
    \A m \in remaining \ {n} :
        IF solver = "greedy" THEN ByScore(n, m) ELSE ByCost(n, m)

\* One round: the best node is picked, it and its neighbours leave.
Pick(n) ==
    /\ solver \in {"greedy", "costOnly"}
    /\ n \in remaining
    /\ Best(n)
    /\ result' = Append(result, n)
    /\ remaining' = remaining \ (adjList(n) \cup {n})
    /\ UNCHANGED <<input, failed, done>>

\* Variant: the loop ends with the first round.
EndPickingEarly ==
    /\ solver \in {"greedy", "costOnly"}
    /\ result # <<>>
    /\ ~done
    /\ done' = TRUE
    /\ UNCHANGED <<input, remaining, result, failed>>

\* solveByCostOnly checks its result again; Independent shows it has no need to.
EndPicking ==
    /\ solver \in {"greedy", "costOnly"}
    /\ remaining = {}
    /\ ~done
    /\ done' = TRUE
    /\ UNCHANGED <<input, remaining, result, failed>>

----------------------------------------------------------------------------
(* solveByILP, which has its name from a former solver *)

\* The order of the bits of a mask: descending degree, descending weight, id.
OrderedBefore(m, n) ==
    LET degree(k) == Cardinality(adjList(k))
    IN  \/ degree(m) > degree(n)
        \/ degree(m) = degree(n) /\ weights[m] > weights[n]
        \/ degree(m) = degree(n) /\ weights[m] = weights[n] /\ m < n

\* The mask that has the first bit in which the two differ.
MaskBefore(left, right) ==
    \E n \in left \ right :
        \A m \in (left \cup right) \ (left \cap right) : m = n \/ OrderedBefore(n, m)

DegreeIn(candidates, n) == Cardinality(adjList(n) \cap candidates)

ChooseBranchVertex(candidates) ==
    CHOOSE n \in candidates : \A m \in candidates \ {n} :
        \/ DegreeIn(candidates, n) > DegreeIn(candidates, m)
        \/ /\ DegreeIn(candidates, n) = DegreeIn(candidates, m)
           /\ weights[n] > weights[m] \/ (weights[n] = weights[m] /\ n < m)

\* Variant: a tie between the two branches decides on inclusion before weight.
PreferIncluding(include, exclude) == include

Prefer(include, exclude) ==
    IF \/ Weight(include) > Weight(exclude)
       \/ Weight(include) = Weight(exclude) /\ MaskBefore(include, exclude)
    THEN include ELSE exclude

\* Branch on a node that has the most neighbours left, until none has any.
ExactMWIS ==
    LET exact[candidates \in SUBSET nodes] ==
            IF \A n \in candidates : DegreeIn(candidates, n) = 0
            THEN candidates
            ELSE LET v == ChooseBranchVertex(candidates)
                 IN  Prefer({v} \cup exact[candidates \ (adjList(v) \cup {v})],
                            exact[candidates \ {v}])
    IN  exact[nodes]

\* The k-th of the nodes is the one that k of them do not exceed.
SortInts(set) ==
    [k \in 1 .. Cardinality(set) |-> CHOOSE n \in set : Cardinality({m \in set : m <= n}) = k]

SolveExact ==
    /\ solver = "exact"
    /\ ~done
    /\ result' = SortInts(ExactMWIS)
    /\ remaining' = {}
    /\ done' = TRUE
    /\ UNCHANGED <<input, failed>>

----------------------------------------------------------------------------
(* solveByLPRelaxation and the script it calls *)

IsIndependent(set) == \A m, n \in set : {m, n} \notin dagEdges

\* Variant: a node is compared with the one selected last only.
SelectAgainstLast(order) ==
    LET select(chosen, n) ==
            IF chosen # <<>> /\ Last(chosen) \in adjList(n) THEN chosen ELSE Append(chosen, n)
    IN  FoldLeft(select, <<>>, order)

\* The rounding: every node that conflicts with none selected before it.
SelectInOrder(order) ==
    LET select(chosen, n) ==
            IF ToSet(chosen) \cap adjList(n) # {} THEN chosen ELSE Append(chosen, n)
    IN  FoldLeft(select, <<>>, order)

\* The script rounds in the order of the fractional solution, which may be any.
\* Its result is independent, so the engine never repairs it.
SolveRelaxation(order) ==
    /\ solver = "relaxation"
    /\ ~done
    /\ result' = SelectInOrder(order)
    /\ remaining' = {}
    /\ done' = TRUE
    /\ UNCHANGED <<input, failed>>

\* Without the script, or a solution, every transaction of the component aborts.
FailRelaxation ==
    /\ solver = "relaxation"
    /\ ~done
    /\ Cardinality(nodes) > 1
    /\ failed' = TRUE
    /\ done' = TRUE
    /\ UNCHANGED <<input, remaining, result>>

Terminated ==
    /\ done
    /\ UNCHANGED vars

Next ==
    \/ \E n \in Txs : Pick(n)
    \/ EndPicking
    \/ SolveExact
    \/ \E order \in SetToSeqs(nodes) : SolveRelaxation(order)
    \/ FailRelaxation
    \/ Terminated

Spec == Init /\ [][Next]_vars

----------------------------------------------------------------------------
(* Properties *)

\* Two committed transactions never conflict, and none is committed twice.
Independent ==
    /\ IsIndependent(Chosen)
    /\ Cardinality(Chosen) = Len(result)

\* No transaction is aborted that conflicts with no committed one.
Maximal ==
    done /\ ~failed => \A n \in nodes \ Chosen : adjList(n) \cap Chosen # {}

\* The exact solver commits as much as any set without conflicts could.
Optimal ==
    done /\ solver = "exact" =>
        \A set \in SUBSET nodes : IsIndependent(set) => Weight(set) <= Weight(Chosen)

\* The greedy solver commits at least the sum of weight / (degree + 1) over all
\* nodes, which picking by cost alone does not.  All quotients are multiplied by
\* the same number.
GreedyBound ==
    done /\ solver = "greedy" =>
        LET whole == Cardinality(Txs)
            all == FoldSet(LAMBDA k, p : k * p, 1, 1 .. whole)
            share(n) == (all \div (Cardinality(adjList(n)) + 1)) * weights[n]
        IN  all * Weight(Chosen) >= MapThenSumSet(share, nodes)
=============================================================================
