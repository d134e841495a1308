----------------------------- MODULE GraphCompute -----------------------------
(***************************************************************************)
(* The graph algorithms behind graph-service (cable routing): Dijkstra,    *)
(* the minimum spanning tree and the approximate Steiner tree, on graphs   *)
(* with integer weights, against their definitions.                        *)
(*                                                                         *)
(* Nodes are 0..n-1, an edge is [u, v, w], and a graph is the sequence of  *)
(* its edges: equal weights are taken in their order.  Sets of edges are   *)
(* sets of positions in it.                                                *)
(***************************************************************************)
EXTENDS Integers, Sequences, FiniteSets, FiniteSetsExt, Functions

CONSTANTS NodeCount,    \* nodes of a graph
          Graphs,       \* the graphs asked about
          TerminalLists \* terminals asked for

Nodes == 0..NodeCount - 1

(* What Graph::new and approximate_steiner_tree accept. *)
ASSUME GraphAssumption ==
    /\ NodeCount \in Nat \ {0}
    /\ Graphs \subseteq Seq([u : Nodes, v : Nodes, w : Nat])
    /\ \A ts \in TerminalLists : ts \in Seq(Nodes) /\ IsInjective(ts) /\ Len(ts) > 1

(* f64::INFINITY: any other cost is less. *)
Infinity == -1

IsBetween(e, a, b) == (e.u = a /\ e.v = b) \/ (e.u = b /\ e.v = a)

WeightsBetween(edges, a, b) ==
    {edges[i].w : i \in {j \in DOMAIN edges : IsBetween(edges[j], a, b)}}

-----------------------------------------------------------------------------
(* Dijkstra *)

(* The heap pops the smallest cost and, among equals, the largest node. *)
Pop(heap) ==
    CHOOSE s \in heap : \A t \in heap :
        s.cost < t.cost \/ (s.cost = t.cost /\ s.node >= t.node)

(* Via s the node v is reached at less cost; parallel edges leave the least. *)
Improves(edges, st, s, v) ==
    LET ws == WeightsBetween(edges, s.node, v) IN
    /\ ws # {}
    /\ st.dist[v] = Infinity \/ s.cost + Min(ws) < st.dist[v]

(* One round of the loop: a node is popped and its neighbours are relaxed, *)
(* unless it has been reached at less cost since it was pushed.            *)
Relax(edges, st) ==
    LET s == Pop(st.heap)
        better == {v \in Nodes : s.cost <= st.dist[s.node] /\ Improves(edges, st, s, v)}
        cost(v) == s.cost + Min(WeightsBetween(edges, s.node, v))
    IN [dist |-> [v \in Nodes |-> IF v \in better THEN cost(v) ELSE st.dist[v]],
        prev |-> [v \in Nodes |-> IF v \in better THEN s.node ELSE st.prev[v]],
        heap |-> (st.heap \ {s}) \cup {[cost |-> cost(v), node |-> v] : v \in better}]

Round(edges, st) == IF st.heap = {} THEN st ELSE Relax(edges, st)

(* Each node is relaxed once, so the heap is empty after that many rounds. *)
Rounds == NodeCount * NodeCount + 1

Unreached(source) ==
    [dist |-> [v \in Nodes |-> IF v = source THEN 0 ELSE Infinity],
     prev |-> [v \in Nodes |-> -1],
     heap |-> {[cost |-> 0, node |-> source]}]

Dijkstra(edges, source) ==
    LET round[k \in 0..Rounds] ==
            IF k = 0 THEN Unreached(source) ELSE Round(edges, round[k - 1])
    IN round[Rounds]

(* From the target back to the source, and the other way round. *)
ReconstructPath(source, target, prev) ==
    LET back[k \in 0..NodeCount - 1] ==
            IF k = 0 THEN target
            ELSE LET node == back[k - 1] IN IF node = source THEN source ELSE prev[node]
        steps == Min({k \in 0..NodeCount - 1 : back[k] = source})
    IN [i \in 1..steps + 1 |-> back[steps + 1 - i]]

(* The path is empty if there is none. *)
ShortestPath(edges, source, target) ==
    LET run == Dijkstra(edges, source)
    IN [distance |-> run.dist[target],
        path |-> IF run.dist[target] = Infinity THEN <<>>
                 ELSE ReconstructPath(source, target, run.prev)]

(* The stack search goes on to the neighbours of what it has visited. *)
Spread(edges, visited) ==
    visited \cup {v \in Nodes : \E u \in visited : WeightsBetween(edges, u, v) # {}}

IsConnected(edges) ==
    LET visited[k \in 0..NodeCount] ==
            IF k = 0 THEN {0} ELSE Spread(edges, visited[k - 1])
    IN visited[NodeCount] = Nodes

-----------------------------------------------------------------------------
(* The minimum spanning tree (Kruskal) *)

(* The sort is stable. *)
Before(edges, i, j) == edges[i].w < edges[j].w \/ (edges[i].w = edges[j].w /\ i <= j)

FirstOf(edges, rest) == CHOOSE i \in rest : \A j \in rest : Before(edges, i, j)

(* Mutant: only the second node moves, not its set. *)
UnionOfNode(set, a, b) == [set EXCEPT ![b] = set[a]]

(* DisjointSet: the representative of every node. *)
Union(set, a, b) == [x \in DOMAIN set |-> IF set[x] = set[b] THEN set[a] ELSE set[x]]

(* The next edge is taken if it joins two sets; when n - 1 are taken, none *)
(* of those left does.                                                     *)
Take(edges, acc) ==
    LET i == FirstOf(edges, acc.rest)
        e == edges[i]
        rest == acc.rest \ {i}
    IN IF acc.set[e.u] = acc.set[e.v] THEN [acc EXCEPT !.rest = rest]
       ELSE [rest |-> rest, set |-> Union(acc.set, e.u, e.v), tree |-> acc.tree \cup {i}]

(* The tree, or ok = FALSE for a graph that is not connected. *)
MinimumSpanningTree(nodes, edges) ==
    LET taken[k \in 0..Cardinality(DOMAIN edges)] ==
            IF k = 0 THEN [rest |-> DOMAIN edges, set |-> [x \in nodes |-> x], tree |-> {}]
            ELSE Take(edges, taken[k - 1])
        tree == taken[Cardinality(DOMAIN edges)].tree
    IN [ok |-> Cardinality(tree) = Cardinality(nodes) - 1, tree |-> tree]

-----------------------------------------------------------------------------
(* The approximate Steiner tree *)

(* Leaves that are no terminals are pruned, with their edges. *)
Leaves(edges, tree) ==
    {v \in Nodes : Cardinality({i \in tree : v \in {edges[i].u, edges[i].v}}) = 1}

Prune(edges, terms, tree) ==
    {i \in tree : {edges[i].u, edges[i].v} \cap Leaves(edges, tree) \subseteq Range(terms)}

(* Every round but those at the end takes an edge. *)
PruneLeaves(edges, terms, tree) ==
    LET kept[k \in 0..Cardinality(tree)] ==
            IF k = 0 THEN tree ELSE Prune(edges, terms, kept[k - 1])
    IN kept[Cardinality(tree)]

(* The metric closure: an edge for every two terminals, by their index. *)
ClosureEdges(terms, run) ==
    LET k == Len(terms)
        row(m) == 1 + ((m - 1) \div k)
        col(m) == 1 + ((m - 1) % k)
    IN [m \in {p \in 1..k * k : row(p) < col(p)} |->
           [u |-> row(m), v |-> col(m), w |-> run[row(m)].dist[terms[col(m)]]]]

(* Mutant: every edge of the closure is expanded. *)
ClosureTreeOfAll(terms, run) == DOMAIN ClosureEdges(terms, run)

ClosureTree(terms, run) ==
    MinimumSpanningTree(1..Len(terms), ClosureEdges(terms, run)).tree

ClosurePath(terms, run, m) ==
    LET e == ClosureEdges(terms, run)[m]
    IN ReconstructPath(terms[e.u], terms[e.v], run[e.u].prev)

(* The first edge of the graph between the two nodes. *)
FirstEdge(edges, a, b) == Min({i \in DOMAIN edges : IsBetween(edges[i], a, b)})

(* The edges on the paths of the closure's spanning tree. *)
PathEdges(edges, terms, run) ==
    UNION {LET path == ClosurePath(terms, run, m)
           IN {FirstEdge(edges, path[i], path[i + 1]) : i \in 1..Len(path) - 1} :
           m \in ClosureTree(terms, run)}

NoTree == [ok |-> FALSE, tree |-> {}]

(* The tree, or ok = FALSE if the terminals are not mutually reachable. *)
ApproximateSteinerTree(edges, terms) ==
    LET run == [i \in DOMAIN terms |-> Dijkstra(edges, terms[i])]
    IN IF \E i, j \in DOMAIN terms : run[i].dist[terms[j]] = Infinity THEN NoTree
       ELSE [ok |-> TRUE, tree |-> PruneLeaves(edges, terms, PathEdges(edges, terms, run))]

-----------------------------------------------------------------------------
(* Requests: a graph and terminals are chosen, the three algorithms run. *)

VARIABLES graph, terminals, \* the request
          paths, connected, \* the results: shortest_path of any two nodes, is_connected,
          mst, steiner,     \* minimum_spanning_tree, approximate_steiner_tree
          asked             \* "no", "asked", "answered"

graphVars == <<graph, terminals, paths, connected, mst, steiner, asked>>

GraphInit ==
    /\ graph = <<>> /\ terminals = <<>>
    /\ paths = <<>> /\ connected = FALSE /\ mst = NoTree /\ steiner = NoTree
    /\ asked = "no"

Ask ==
    /\ asked = "no"
    /\ asked' = "asked"
    /\ graph' \in Graphs /\ terminals' \in TerminalLists
    /\ UNCHANGED <<paths, connected, mst, steiner>>

Answer ==
    /\ asked = "asked"
    /\ asked' = "answered"
    /\ paths' = [s \in Nodes |-> [t \in Nodes |-> ShortestPath(graph, s, t)]]
    /\ connected' = IsConnected(graph)
    /\ mst' = MinimumSpanningTree(Nodes, graph)
    /\ steiner' = ApproximateSteinerTree(graph, terminals)
    /\ UNCHANGED <<graph, terminals>>

GraphNext == Ask \/ Answer

GraphSpec == GraphInit /\ [][GraphNext]_graphVars

-----------------------------------------------------------------------------
(* Definitions *)

(* The paths that come to no node twice. *)
SimplePaths == {p \in UNION {[1..k -> Nodes] : k \in 1..NodeCount} : IsInjective(p)}

PathsBetween(edges, s, t) ==
    {p \in SimplePaths :
        /\ p[1] = s /\ p[Len(p)] = t
        /\ \A i \in 1..Len(p) - 1 : WeightsBetween(edges, p[i], p[i + 1]) # {}}

PathCost(edges, p) ==
    LET sum[i \in 0..Len(p) - 1] ==
            IF i = 0 THEN 0 ELSE sum[i - 1] + Min(WeightsBetween(edges, p[i], p[i + 1]))
    IN sum[Len(p) - 1]

(* Edge i leads out of the side. *)
Crosses(edges, i, side) == (edges[i].u \in side) # (edges[i].v \in side)

(* The edges lead out of every side that has some of the nodes only. *)
Connects(edges, tree, nodes) ==
    \A side \in SUBSET Nodes :
        side \cap nodes # {} /\ nodes \ side # {} => \E i \in tree : Crosses(edges, i, side)

Cost(edges, tree) ==
    LET sum[k \in 0..Len(edges)] ==
            IF k = 0 THEN 0 ELSE sum[k - 1] + IF k \in tree THEN edges[k].w ELSE 0
    IN sum[Len(edges)]

-----------------------------------------------------------------------------
(* Properties *)

(* Dijkstra's distances are those of the shortest paths, on every graph    *)
(* asked about, and the path given for one leads there at that cost.       *)
PathsAreShortest ==
    asked = "answered" =>
        \A s, t \in Nodes :
            LET answer == paths[s][t]
                between == PathsBetween(graph, s, t)
            IN /\ IF answer.distance = Infinity THEN answer.path = <<>> /\ between = {}
                  ELSE answer.path \in between /\ PathCost(graph, answer.path) = answer.distance
               /\ \A p \in between : answer.distance <= PathCost(graph, p)

(* The spanning tree connects all nodes at the least cost there is, and is *)
(* refused only for a disconnected graph.                                  *)
SpanningTreeIsMinimal ==
    asked = "answered" =>
        /\ mst.ok = Connects(graph, DOMAIN graph, Nodes) /\ connected = mst.ok
        /\ mst.ok => /\ Connects(graph, mst.tree, Nodes)
                     /\ \A other \in SUBSET DOMAIN graph :
                           Cost(graph, other) < Cost(graph, mst.tree)
                               => ~Connects(graph, other, Nodes)

(* The Steiner edges connect the terminals, if anything does, and every    *)
(* leaf is a terminal.                                                     *)
SteinerConnects ==
    asked = "answered" =>
        /\ steiner.ok = Connects(graph, DOMAIN graph, Range(terminals))
        /\ steiner.ok => /\ Connects(graph, steiner.tree, Range(terminals))
                         /\ Leaves(graph, steiner.tree) \subseteq Range(terminals)

(* Of parallel edges the first is the lightest. *)
FirstIsLightest(edges) ==
    \A a, b \in Nodes :
        LET ws == WeightsBetween(edges, a, b)
        IN ws # {} => edges[FirstEdge(edges, a, b)].w = Min(ws)

(* They cost no more than twice what connecting the terminals costs, where *)
(* the edge that expansion finds is the one that the search went by.       *)
SteinerIsWithinTwice ==
    asked = "answered" /\ steiner.ok /\ FirstIsLightest(graph) =>
        \A other \in SUBSET DOMAIN graph :
            2 * Cost(graph, other) < Cost(graph, steiner.tree)
                => ~Connects(graph, other, Range(terminals))

(* The Steiner edges are a tree: no more edges than nodes, less one        *)
(* ("approximate_steiner_tree").                                           *)
SteinerIsTree ==
    asked = "answered" /\ steiner.tree # {} =>
        LET ends == UNION {{graph[i].u, graph[i].v} : i \in steiner.tree}
        IN Cardinality(steiner.tree) = Cardinality(ends) - 1

(* Shortest paths and spanning trees are cheapest on every graph, with ties *)
(* and missing edges.                                                      *)
PathsAndTreesAreCheapest == PathsAreShortest /\ SpanningTreeIsMinimal

(* The Steiner result does what it is for, at no more than twice the cost. *)
SteinerIsGood == SteinerConnects /\ SteinerIsWithinTwice
=============================================================================
