---------------------------- MODULE GraphSearch -----------------------------
(***************************************************************************)
(* The searches and orders on graphs without weights: src/graph_repr.c,    *)
(* bfs.c, maze_bfs.c, dfs.c, bipartite_check.c, topological_sort.c and     *)
(* make_deps.c.  Vertices are 0 .. V - 1; a graph is the sequence of pairs *)
(* in which main adds its edges, an adjacency list a sequence.             *)
(***************************************************************************)
EXTENDS Integers, FiniteSets, SequencesExt

Vertices(V) == 0 .. V - 1
Least(S) == CHOOSE i \in S : \A j \in S : i <= j

-----------------------------------------------------------------------------
(* The representations                                                     *)

matrix_add_edge(adj, e) == [adj EXCEPT ![e[1]][e[2]] = 1, ![e[2]][e[1]] = 1]

Matrix(V, edges) ==
    FoldLeft(matrix_add_edge, [u \in Vertices(V) |-> [v \in Vertices(V) |-> 0]], edges)

\* A new neighbour goes to the front of the list.
add_directed_edge(adj, e) == [adj EXCEPT ![e[1]] = <<e[2]>> \o @]

add_edge(adj, e) == add_directed_edge(add_directed_edge(adj, e), <<e[2], e[1]>>)

Undirected(V, edges) == FoldLeft(add_edge, [u \in Vertices(V) |-> <<>>], edges)
Directed(V, edges) == FoldLeft(add_directed_edge, [u \in Vertices(V) |-> <<>>], edges)

Neighbours(adj, u) == {adj[u][k] : k \in DOMAIN adj[u]}

-----------------------------------------------------------------------------
(* bfs and bfs_maze: s holds dist, parent (-1 for none) and the queue from *)
(* front on.  A vertex is without a distance until it is queued.           *)

Visit(s, u, v) ==
    IF v \in DOMAIN s.dist THEN s
    ELSE [dist |-> (v :> s.dist[u] + 1) @@ s.dist, parent |-> (v :> u) @@ s.parent,
          queue |-> Append(s.queue, v)]

RECURSIVE BfsLoop(_, _)
BfsLoop(adj, s) ==
    IF s.queue = <<>> THEN s
    ELSE LET u == Head(s.queue)
         IN  BfsLoop(adj, FoldLeft(LAMBDA t, v : Visit(t, u, v),
                                   [s EXCEPT !.queue = Tail(@)], adj[u]))

bfs(adj, start) ==
    BfsLoop(adj, [dist |-> start :> 0, parent |-> start :> -1, queue |-> <<start>>])

\* What bfs and print_path of dijkstra.c print: parents back from the target.
RECURSIVE PathTo(_, _)
PathTo(parent, v) == IF v = -1 THEN <<>> ELSE Append(PathTo(parent, parent[v]), v)

\* The maze is the set of its free cells; bfs_maze stops when it takes end.
Around(maze, cell, ROWS, COLS) ==
    LET moves == << <<-1, 0>>, <<1, 0>>, <<0, -1>>, <<0, 1>> >>
        cells == [d \in 1 .. 4 |-> <<cell[1] + moves[d][1], cell[2] + moves[d][2]>>]
    IN  SelectSeq(cells, LAMBDA c : c[1] \in 0 .. ROWS - 1 /\ c[2] \in 0 .. COLS - 1 /\ c \in maze)

RECURSIVE MazeLoop(_, _, _, _, _)
MazeLoop(maze, s, end, ROWS, COLS) ==
    IF s.queue = <<>> THEN [s EXCEPT !.result = -1]
    ELSE LET cur == Head(s.queue)
             visit(t, c) == Visit([x \in {"dist", "parent", "queue"} |-> t[x]], cur, c)
                            @@ [result |-> 0]
         IN  IF cur = end THEN [s EXCEPT !.result = s.dist[cur]]
             ELSE MazeLoop(maze,
                           FoldLeft(visit, [s EXCEPT !.queue = Tail(@)],
                                    Around(maze, cur, ROWS, COLS)), end, ROWS, COLS)

bfs_maze(maze, start, end, ROWS, COLS) ==
    MazeLoop(maze, [dist |-> start :> 0, parent |-> start :> <<-1, -1>>,
                    queue |-> <<start>>, result |-> 0], end, ROWS, COLS)

-----------------------------------------------------------------------------
(* dfs.c: a search is the sequence of the vertices printed.                *)

RECURSIVE dfs(_, _, _)
dfs(adj, visited, u) ==
    FoldLeft(LAMBDA vis, v : IF Contains(vis, v) THEN vis ELSE dfs(adj, vis, v),
             Append(visited, u), adj[u])

\* The stack has MAX_V places; top is the greatest height it has reached.
RECURSIVE DfsLoop(_, _, _, _)
DfsLoop(adj, stack, vis, top) ==
    IF stack = <<>> THEN [vis |-> vis, top |-> top]
    ELSE LET u == Last(stack)
             pushed == Front(stack) \o SelectSeq(adj[u], LAMBDA v : ~ Contains(vis, v) /\ v # u)
             height == IF Len(pushed) > top THEN Len(pushed) ELSE top
         IN  IF Contains(vis, u) THEN DfsLoop(adj, Front(stack), vis, top)
             ELSE DfsLoop(adj, pushed, Append(vis, u), height)

dfs_iterative(adj, start) == DfsLoop(adj, <<start>>, <<>>, 1)

-----------------------------------------------------------------------------
(* bipartite_check.c: color is -1, 0 or 1; r holds it and the queue.       *)

Paint(r, u, v) ==
    IF r.color[v] = -1
    THEN [r EXCEPT !.color[v] = 1 - r.color[u], !.queue = Append(@, v)]
    ELSE [r EXCEPT !.ok = @ /\ r.color[v] # r.color[u]]

RECURSIVE ColorLoop(_, _)
ColorLoop(adj, r) ==
    IF r.queue = <<>> \/ ~ r.ok THEN r
    ELSE LET u == Head(r.queue)
         IN  ColorLoop(adj, FoldLeft(LAMBDA q, v : Paint(q, u, v),
                                     [r EXCEPT !.queue = Tail(@)], adj[u]))

is_bipartite(adj, V) ==
    LET from(r, s) == IF ~ r.ok \/ r.color[s] # -1 THEN r
                      ELSE ColorLoop(adj, [r EXCEPT !.color[s] = 0, !.queue = <<s>>])
    IN  FoldLeft(from, [color |-> [v \in Vertices(V) |-> -1], queue |-> <<>>, ok |-> TRUE],
                 [k \in 1 .. V |-> k - 1]).ok

-----------------------------------------------------------------------------
(* topological_sort.c and make_deps.c                                      *)

\* Mutant: the vertex stays gray.
FinishGray(t, u) == [t EXCEPT !.stack = Append(@, u)]

\* Finishing a vertex: black, and on the stack.  A cycle leaves it gray.
Finish(t, u) == [t EXCEPT !.color[u] = 2, !.stack = Append(@, u)]

\* t holds color (0 white, 1 gray, 2 black), the stack and has_cycle; stopped
\* says that the loop of this call has returned.
RECURSIVE topo_dfs(_, _, _)
topo_dfs(adj, t, u) ==
    LET edge(r, v) ==
            CASE r.stopped      -> r
              [] r.color[v] = 1 -> [r EXCEPT !.has_cycle = TRUE, !.stopped = TRUE]
              [] r.color[v] = 0 -> [topo_dfs(adj, r, v) EXCEPT !.stopped = FALSE]
              [] OTHER          -> r
        r == FoldLeft(edge, [t EXCEPT !.color[u] = 1], adj[u])
    IN  IF r.stopped THEN r ELSE Finish(r, u)

\* The loop of main, and the order it prints if there is no cycle
topological_sort(adj, V) ==
    LET from(t, i) == IF t.color[i] = 0 THEN [topo_dfs(adj, t, i) EXCEPT !.stopped = FALSE] ELSE t
        t == FoldLeft(from, [color |-> [v \in Vertices(V) |-> 0], stack |-> <<>>,
                             has_cycle |-> FALSE, stopped |-> FALSE], [k \in 1 .. V |-> k - 1])
    IN  [has_cycle |-> t.has_cycle, order |-> Reverse(t.stack)]

\* "from" depends on "to" and counts it; MAX_V bounds the modules, not V.
add_dep(g, d) ==
    [adj |-> add_directed_edge(g.adj, <<d[2], d[1]>>), in_degree |-> [g.in_degree EXCEPT ![d[1]] = @ + 1]]

Dependencies(MAX_V, deps) ==
    FoldLeft(add_dep, [adj |-> [u \in Vertices(MAX_V) |-> <<>>],
                       in_degree |-> [u \in Vertices(MAX_V) |-> 0]], deps)

Release(s, v) ==
    [s EXCEPT !.in_degree[v] = @ - 1,
              !.queue = IF s.in_degree[v] = 1 THEN Append(@, v) ELSE @]

RECURSIVE KahnLoop(_, _)
KahnLoop(adj, s) ==
    IF s.queue = <<>> THEN s.result
    ELSE KahnLoop(adj, FoldLeft(Release, [s EXCEPT !.queue = Tail(@),
                                                   !.result = Append(@, Head(s.queue))],
                                adj[Head(s.queue)]))

\* The result; its length is the count that kahn_topo returns.
kahn_topo(g, V) ==
    KahnLoop(g.adj, [in_degree |-> g.in_degree, result |-> <<>>,
                     queue |-> SelectSeq([k \in 1 .. V |-> k - 1], LAMBDA i : g.in_degree[i] = 0)])

\* The dependencies main states.  Module 9 is none of the V = 8 modules.
ModuleDeps == << <<7, 6>>, <<7, 5>>, <<7, 9>>, <<6, 4>>, <<5, 2>>,
                 <<5, 4>>, <<2, 3>>, <<4, 0>>, <<3, 0>>, <<1, 0>> >>

-----------------------------------------------------------------------------
(* What the functions are for                                              *)

\* The vertices at most k edges away, along the successors in the set arcs.
RECURSIVE Ball(_, _, _)
Ball(arcs, u, k) ==
    IF k = 0 THEN {u}
    ELSE LET b == Ball(arcs, u, k - 1)
         IN  b \union {v \in {a[2] : a \in arcs} : \E w \in b : <<w, v>> \in arcs}

Arcs(edges) == {edges[k] : k \in DOMAIN edges}
BothWays(edges) == Arcs(edges) \union {<<e[2], e[1]>> : e \in Arcs(edges)}

Acyclic(arcs, V) ==
    \A u \in Vertices(V) : \A v \in Ball(arcs, u, V) : <<v, u>> \notin arcs

IsOrder(order, arcs, V) ==
    /\ Len(order) = V
    /\ {order[k] : k \in DOMAIN order} = Vertices(V)
    /\ \A j, k \in DOMAIN order : <<order[j], order[k]>> \in arcs => j < k

\* bfs finds the vertices that can be reached, each by a path as short as any;
\* both searches of dfs.c find the same ones, and the stack of dfs_iterative never
\* needs more places than there are edges (and one for the start): MAX_V places
\* are enough for a graph of at most so many edges.
\* is_bipartite tells whether two colours are enough; the matrix and the lists
\* describe the same graph.
SearchesAreRight(V, edges) ==
    LET arcs == BothWays(edges)
        adj == Undirected(V, edges)
        found == bfs(adj, 0)
        reach == Ball(arcs, 0, V)
        iterative == dfs_iterative(adj, 0)
    IN  /\ DOMAIN found.dist = reach
        /\ \A v \in reach :
              LET path == PathTo(found.parent, v)
              IN  /\ found.dist[v] = Least({k \in 0 .. V : v \in Ball(arcs, 0, k)})
                  /\ Len(path) = found.dist[v] + 1 /\ path[1] = 0
                  /\ \A k \in 1 .. Len(path) - 1 : <<path[k], path[k + 1]>> \in arcs
        /\ \A s \in {dfs(adj, <<>>, 0), iterative.vis} :
              s[1] = 0 /\ Len(s) = Cardinality(reach) /\ \A v \in reach : Contains(s, v)
        /\ iterative.top <= (IF edges = <<>> THEN 1 ELSE Len(edges))
        /\ is_bipartite(adj, V) <=>
              \E side \in SUBSET Vertices(V) : \A a \in arcs : a[1] \in side <=> a[2] \notin side
        /\ \A u, v \in Vertices(V) :
              Matrix(V, edges)[u][v] = IF v \in Neighbours(adj, u) THEN 1 ELSE 0

\* bfs_maze answers the length of the shortest way through the free cells.
MazeIsRight(maze, start, end, ROWS, COLS) ==
    LET arcs == {<<c, d>> \in maze \X maze :
                   (c[1] - d[1]) * (c[1] - d[1]) + (c[2] - d[2]) * (c[2] - d[2]) = 1}
        lengths == {k \in 0 .. Cardinality(maze) : end \in Ball(arcs, start, k)}
    IN  bfs_maze(maze, start, end, ROWS, COLS).result =
            IF lengths = {} THEN -1 ELSE Least(lengths)

\* Both programs say of a graph whether it has a cycle, and order the vertices
\* of one that has none, before what depends on them.
OrdersAreRight(V, edges) ==
    LET arcs == Arcs(edges)
        sort == topological_sort(Directed(V, edges), V)
        kahn == kahn_topo(Dependencies(V, [k \in DOMAIN edges |-> <<edges[k][2], edges[k][1]>>]), V)
    IN  /\ sort.has_cycle <=> ~ Acyclic(arcs, V)
        /\ (Len(kahn) # V) <=> ~ Acyclic(arcs, V)
        /\ Acyclic(arcs, V) => IsOrder(sort.order, arcs, V) /\ IsOrder(kahn, arcs, V)
=============================================================================
