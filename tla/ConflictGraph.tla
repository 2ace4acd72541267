--------------------------- MODULE ConflictGraph ---------------------------
(***************************************************************************)
(* What is in the conflict graphs that DAGMerge passes around: workers     *)
(* build graphs from the state tables of single addresses, the graphs are  *)
(* merged two by two, and the last one is taken apart into its connected   *)
(* components.                                                             *)
(*                                                                         *)
(* Every graph carries a union-find forest beside its edges, and a degree  *)
(* of each node.  A merge visits the nodes of the smaller graph in the     *)
(* order in which Go iterates a map, which is any order.                   *)
(***************************************************************************)
EXTENDS Integers, Sequences, FiniteSets, FiniteSetsExt

CONSTANTS
    Txs,            \* transaction ids
    Addrs,          \* the addresses that have a state table
    Workers,        \* the workers that build graphs
    Workloads       \* the tables to look at: functions as in tables below

\* What is assumed of the constants, by BatchStages.
TxsAssumption == IsFiniteSet(Txs) /\ Txs \subseteq Nat
WorkersAssumption == "none" \notin Workers
WorkloadsAssumption ==
    Workloads \subseteq [Addrs -> [hasRead : SUBSET Txs, hasWrite : SUBSET Txs]]

VARIABLES
    tables,         \* the TxOperations of every address
    untaken,        \* the addresses no worker has built from yet
    dags,           \* the graph of each worker, or NoDag
    pairDag,        \* the graph that is merged into another, or NoDag
    merging,        \* the worker that merges, or "none"
    todo,           \* the nodes of pairDag that the merge has still to visit
    links,          \* the edges of pairDag whose ends it has still to join
    CommittedTxs,   \* the nodes without a conflict
    componentsQueue,
    done

vars == <<tables, untaken, dags, pairDag, merging, todo, links, CommittedTxs, componentsQueue, done>>

NoDag == [nodes |-> {}, addrs |-> {}]

\* A map that has no entry for a node and one with the initial entry are the
\* same here.  The addresses a graph was built from are noted with it.
EmptyDag ==
    [nodes  |-> {},
     edges  |-> [n \in Txs |-> {}],
     degree |-> [n \in Txs |-> 0],
     parent |-> [n \in Txs |-> n],
     rank   |-> [n \in Txs |-> 0],
     addrs  |-> {}]

Dags ==
    [nodes : SUBSET Txs, edges : [Txs -> SUBSET Txs], degree : [Txs -> Nat],
     parent : [Txs -> Txs], rank : [Txs -> Nat], addrs : SUBSET Addrs]

Edges(dag) == {e \in dag.nodes \X dag.nodes : e[2] \in dag.edges[e[1]]}

TypeOK ==
    /\ tables \in Workloads
    /\ untaken \subseteq Addrs
    /\ \A w \in Workers : dags[w] = NoDag \/ dags[w] \in Dags
    /\ pairDag = NoDag \/ pairDag \in Dags
    /\ merging \in Workers \cup {"none"}
    /\ todo \subseteq pairDag.nodes
    /\ links \subseteq pairDag.nodes \X pairDag.nodes
    /\ CommittedTxs \subseteq Txs
    /\ componentsQueue \subseteq SUBSET Txs
    /\ done \in BOOLEAN

Init ==
    /\ tables \in Workloads
    /\ untaken = Addrs
    /\ dags = [w \in Workers |-> NoDag]
    /\ pairDag = NoDag
    /\ merging = "none"
    /\ todo = {}
    /\ links = {}
    /\ CommittedTxs = {}
    /\ componentsQueue = {}
    /\ done = FALSE

----------------------------------------------------------------------------
(* Find and Union *)

\* The loop of Find: up to the node that is its own parent.
Root(parent, x) ==
    LET root[n \in Txs] == IF parent[n] = n THEN n ELSE root[parent[n]]
    IN  root[x]

\* The nodes on the way from x to its root, which the second loop points there.
Path(parent, x) ==
    LET path[n \in Txs] == IF parent[n] = n THEN {n} ELSE {n} \cup path[parent[n]]
    IN  path[x]

Compress(parent, x) ==
    [n \in Txs |-> IF n \in Path(parent, x) THEN Root(parent, x) ELSE parent[n]]

\* Variant: the rank of the new root stays.
UnionUnranked(dag, x, y) ==
    LET parent == Compress(Compress(dag.parent, x), y)
        rootX  == Root(parent, x)
        rootY  == Root(parent, y)
    IN  CASE rootX = rootY -> [dag EXCEPT !.parent = parent]
          [] rootX # rootY /\ dag.rank[rootX] < dag.rank[rootY] ->
                [dag EXCEPT !.parent = [parent EXCEPT ![rootX] = rootY]]
          [] OTHER ->
                [dag EXCEPT !.parent = [parent EXCEPT ![rootY] = rootX]]

Union(dag, x, y) ==
    LET parent == Compress(Compress(dag.parent, x), y)
        rootX  == Root(parent, x)
        rootY  == Root(parent, y)
    IN  CASE rootX = rootY -> [dag EXCEPT !.parent = parent]
          [] rootX # rootY /\ dag.rank[rootX] < dag.rank[rootY] ->
                [dag EXCEPT !.parent = [parent EXCEPT ![rootX] = rootY]]
          [] rootX # rootY /\ dag.rank[rootX] > dag.rank[rootY] ->
                [dag EXCEPT !.parent = [parent EXCEPT ![rootY] = rootX]]
          [] OTHER ->
                [dag EXCEPT !.parent = [parent EXCEPT ![rootY] = rootX], !.rank[rootX] = @ + 1]

----------------------------------------------------------------------------
(* constructDAGForAddress *)

\* addEdge, guarded by hasEdge.
AddEdge(dag, from, to) ==
    IF to \in dag.edges[from] THEN dag
    ELSE Union([dag EXCEPT !.edges[from] = @ \cup {to}, !.edges[to] = @ \cup {from},
                           !.degree[from] = @ + 1, !.degree[to] = @ + 1],
               from, to)

\* The transactions of a table: groupOperationsByTx makes one entry of each.
TxsOf(table) == table.hasRead \cup table.hasWrite

\* Variant: only the earlier one of two transactions is asked whether it writes.
WritersFirst(table) ==
    {p \in TxsOf(table) \X TxsOf(table) : p[1] < p[2] /\ p[1] \in table.hasWrite}

\* Two transactions conflict if one of them writes the address.
ConflictsIn(table) ==
    {p \in TxsOf(table) \X TxsOf(table) :
        p[1] < p[2] /\ (p[1] \in table.hasWrite \/ p[2] \in table.hasWrite)}

BuildConflictEdges(dag, table) ==
    LET add(p, g) == AddEdge(g, p[1], p[2])
    IN  FoldSet(add, dag, ConflictsIn(table))

\* DAGMerge models how the tables are claimed; here any worker takes any one.
ConstructDAGForAddress(w, a) ==
    /\ a \in untaken
    /\ untaken' = untaken \ {a}
    /\ LET mine == IF dags[w] = NoDag THEN EmptyDag ELSE dags[w]
           with == [mine EXCEPT !.nodes = @ \cup TxsOf(tables[a]), !.addrs = @ \cup {a}]
       IN  dags' = [dags EXCEPT ![w] = BuildConflictEdges(with, tables[a])]
    /\ UNCHANGED <<tables, pairDag, merging, todo, links, CommittedTxs, componentsQueue, done>>

----------------------------------------------------------------------------
(* mergeTwoDags *)

\* The larger graph stays, the other one is merged into it.
StartMerge(w, v) ==
    /\ untaken = {}
    /\ merging = "none"
    /\ w # v
    /\ dags[w] # NoDag
    /\ dags[v] # NoDag
    /\ LET swap == Cardinality(dags[v].nodes) > Cardinality(dags[w].nodes)
           keep == IF swap THEN dags[v] ELSE dags[w]
           pair == IF swap THEN dags[w] ELSE dags[v]
       IN  /\ dags' = [dags EXCEPT ![w] = keep, ![v] = NoDag]
           /\ pairDag' = pair
           /\ todo' = pair.nodes
           /\ links' = Edges(pair)
    /\ merging' = w
    /\ UNCHANGED <<tables, untaken, CommittedTxs, componentsQueue, done>>

\* A node that is new comes with its edges and its degree.
AddNode(dag, n) ==
    [dag EXCEPT !.nodes = @ \cup {n}, !.edges[n] = pairDag.edges[n],
                !.degree[n] = pairDag.degree[n]]

\* A node that is known gets the edges it does not have; the other end of such
\* an edge may be a node that has already come with all of its own.
AddEdges(dag, n) ==
    LET missing == pairDag.edges[n] \ dag.edges[n]
    IN  [dag EXCEPT
            !.edges = [m \in Txs |-> CASE m = n          -> @[m] \cup missing
                                      [] m \in missing   -> @[m] \cup {n}
                                      [] OTHER           -> @[m]],
            !.degree = [m \in Txs |-> CASE m = n         -> @[m] + Cardinality(missing)
                                       [] m \in missing  -> @[m] + 1
                                       [] OTHER          -> @[m]]]

MergeNode(n) ==
    /\ n \in todo
    /\ todo' = todo \ {n}
    /\ dags' = [dags EXCEPT ![merging] =
            IF n \in @.nodes THEN AddEdges(@, n) ELSE AddNode(@, n)]
    /\ UNCHANGED <<tables, untaken, pairDag, merging, links, CommittedTxs, componentsQueue, done>>

\* Variant: the forests are not joined.
JoinNothing(p) ==
    /\ todo = {}
    /\ p \in links
    /\ links' = links \ {p}
    /\ UNCHANGED <<tables, untaken, dags, pairDag, merging, todo, CommittedTxs, componentsQueue, done>>

\* The second pass joins the ends of all edges of the smaller graph.
JoinEnds(p) ==
    /\ todo = {}
    /\ p \in links
    /\ links' = links \ {p}
    /\ dags' = [dags EXCEPT ![merging] = Union(@, p[1], p[2])]
    /\ UNCHANGED <<tables, untaken, pairDag, merging, todo, CommittedTxs, componentsQueue, done>>

EndMerge ==
    /\ merging # "none"
    /\ todo = {}
    /\ links = {}
    /\ dags' = [dags EXCEPT ![merging].addrs = @ \cup pairDag.addrs]
    /\ pairDag' = NoDag
    /\ merging' = "none"
    /\ UNCHANGED <<tables, untaken, todo, links, CommittedTxs, componentsQueue, done>>

----------------------------------------------------------------------------
(* The last merge: awakeOrWaitConstructDAG *)

GetConnectedComponents(dag) ==
    {{n \in dag.nodes : Root(dag.parent, n) = r} : r \in {Root(dag.parent, n) : n \in dag.nodes}}

PublishComponents ==
    /\ ~done
    /\ untaken = {}
    /\ merging = "none"
    /\ \E w \in Workers :
        /\ dags[w] # NoDag
        /\ \A v \in Workers \ {w} : dags[v] = NoDag
        /\ LET components == GetConnectedComponents(dags[w])
               single(c) == Cardinality(c) = 1
           IN  /\ CommittedTxs' = UNION {c \in components : single(c)}
               /\ componentsQueue' = {c \in components : ~single(c)}
    /\ done' = TRUE
    /\ UNCHANGED <<tables, untaken, dags, pairDag, merging, todo, links>>

Terminated ==
    /\ done
    /\ UNCHANGED vars

Next ==
    \/ \E w \in Workers, a \in Addrs : ConstructDAGForAddress(w, a)
    \/ \E w, v \in Workers : StartMerge(w, v)
    \/ \E n \in Txs : MergeNode(n)
    \/ \E m, n \in Txs : JoinEnds(<<m, n>>)
    \/ EndMerge
    \/ PublishComponents
    \/ Terminated

Spec == Init /\ [][Next]_vars

----------------------------------------------------------------------------
(* Properties *)

\* The graphs that no merge is working on.
AtRest == {dags[w] : w \in Workers \ {merging}} \ {NoDag}

\* What the graph of the addresses as should be.
NodesOf(as) == UNION {TxsOf(tables[a]) : a \in as}
Conflict(as, m, n) ==
    m # n /\ \E a \in as : /\ {m, n} \subseteq tables[a].hasRead \cup tables[a].hasWrite
                           /\ {m, n} \cap tables[a].hasWrite # {}

\* Every graph has the conflicts of the addresses it was built from and no
\* others, whatever was merged into what in which order, and each both ways.
ExactGraph ==
    \A dag \in AtRest :
        /\ dag.nodes = NodesOf(dag.addrs)
        /\ \A m, n \in Txs : n \in dag.edges[m] <=> Conflict(dag.addrs, m, n)

\* A set of nodes that cannot be split without cutting a conflict.
IsConnected(c) ==
    \A part \in (SUBSET c) \ {{}, c} :
        \E m \in part, n \in c \ part : Conflict(Addrs, m, n)

\* The published components are the connected components of all conflicts, so
\* components can be solved one by one, and what is committed at once conflicts
\* with nothing.
ExactComponents ==
    done =>
        LET parts == componentsQueue \cup {{n} : n \in CommittedTxs}
        IN  /\ UNION parts = NodesOf(Addrs)
            /\ \A c, d \in parts : c # d => c \cap d = {}
            /\ \A c \in parts : IsConnected(c)
            /\ \A c, d \in parts : c # d =>
                \A m \in c, n \in d : ~Conflict(Addrs, m, n)

\* The forest has no cycle: ranks grow on the way to the root, so the loop of
\* Find ends.  Compression skips nodes and must keep this.
RanksGrow ==
    \A dag \in AtRest : \A n \in Txs :
        dag.parent[n] # n => dag.rank[n] < dag.rank[dag.parent[n]]
=============================================================================
