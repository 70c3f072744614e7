--------------------------- MODULE WeightedGraphs ---------------------------
(***************************************************************************)
(* Shortest paths and spanning trees: src/dijkstra.c, bellman_ford.c,      *)
(* floyd_warshall.c, kruskal.c and prim.c.  An edge is <<u, v, weight>>, a *)
(* graph the sequence of its edges, a table of vertices a function.        *)
(***************************************************************************)
EXTENDS Integers, FiniteSetsExt, SequencesExt

INF == 1000         \* 0x3f3f3f3f, greater than every sum of weights

Vertices(V) == 0 .. V - 1
UpTo(n) == [k \in 1 .. n |-> k - 1]
Least(S) == CHOOSE i \in S : \A j \in S : i <= j

-----------------------------------------------------------------------------
(* dijkstra.c; s holds dist, parent and the heap with its size, and the    *)
(* vertices whose edges were relaxed, in that order.                       *)

Nearest == INSTANCE BinaryHeap WITH Less <- LAMBDA x, y : x.dist < y.dist

heap_push(s, d, v) ==
    [s EXCEPT !.heap = Nearest!push(@, s.size, [dist |-> d, node |-> v]), !.size = @ + 1]

heap_pop(s) == [s EXCEPT !.heap = Nearest!pop(@, s.size), !.size = @ - 1]

\* The edges that leave u, the last added first
EdgesFrom(edges, u) == Reverse(SelectSeq(edges, LAMBDA e : e[1] = u))

Relax(s, e) ==
    LET d == s.dist[e[1]] + e[3]
    IN  IF d < s.dist[e[2]]
        THEN heap_push([s EXCEPT !.dist[e[2]] = d, !.parent[e[2]] = e[1]], d, e[2])
        ELSE s

\* An entry whose distance has been improved since is dropped.
RECURSIVE DijkstraLoop(_, _)
DijkstraLoop(edges, s) ==
    LET cur == s.heap[0]
        t == heap_pop(s)
    IN  IF s.size = 0 THEN s
        ELSE IF cur.dist > s.dist[cur.node] THEN DijkstraLoop(edges, t)
        ELSE DijkstraLoop(edges, FoldLeft(Relax, [t EXCEPT !.settled = Append(@, cur.node)],
                                          EdgesFrom(edges, cur.node)))

Start(src, V) == [dist |-> [v \in Vertices(V) |-> IF v = src THEN 0 ELSE INF],
                  parent |-> [v \in Vertices(V) |-> -1]]

dijkstra(edges, src, V) ==
    DijkstraLoop(edges, heap_push(Start(src, V) @@ [heap |-> <<>>, size |-> 0,
                                                settled |-> <<>>], 0, src))

RECURSIVE print_path(_, _)
print_path(parent, v) == IF v = -1 THEN <<>> ELSE Append(print_path(parent, parent[v]), v)

-----------------------------------------------------------------------------
(* bellman_ford.c                                                          *)

Shorter(s, e) == s.dist[e[1]] # INF /\ s.dist[e[1]] + e[3] < s.dist[e[2]]

RelaxEdge(s, e) ==
    IF Shorter(s, e)
    THEN [s EXCEPT !.dist[e[2]] = s.dist[e[1]] + e[3], !.parent[e[2]] = e[1]]
    ELSE s

\* V - 1 rounds over all edges; what a round more would change is on a cycle.
bellman_ford(edges, src, V) ==
    LET s == FoldLeft(LAMBDA t, iter : FoldLeft(RelaxEdge, t, edges), Start(src, V), UpTo(V - 1))
    IN  s @@ [negative |-> \E k \in DOMAIN edges : Shorter(s, edges[k])]

-----------------------------------------------------------------------------
(* floyd_warshall.c; t holds dist and nxt.                                 *)

Through(t, i, k, j) ==
    LET d == t.dist[i][k] + t.dist[k][j]
    IN  IF t.dist[i][k] # INF /\ t.dist[k][j] # INF /\ d < t.dist[i][j]
        THEN [t EXCEPT !.dist[i][j] = d, !.nxt[i][j] = t.nxt[i][k]]
        ELSE t

\* The matrix main fills, and the next vertex on the way
Filled(edges, V) ==
    LET w == [i \in Vertices(V) |-> [j \in Vertices(V) |->
                LET e == SelectSeq(edges, LAMBDA f : f[1] = i /\ f[2] = j)
                IN  IF i = j THEN 0 ELSE IF e = <<>> THEN INF ELSE e[1][3]]]
    IN  [dist |-> w, nxt |-> [i \in Vertices(V) |-> [j \in Vertices(V) |->
                                 IF w[i][j] # INF /\ i # j THEN j ELSE -1]]]

\* Nothing changes in the row of a vertex from which k is not reached.
floyd_warshall(edges, V) ==
    LET row(t, i, k) == IF t.dist[i][k] = INF THEN t
                        ELSE FoldLeft(LAMBDA r, j : Through(r, i, k, j), t, UpTo(V))
        step(t, k) == FoldLeft(LAMBDA r, i : row(r, i, k), t, UpTo(V))
        t == FoldLeft(step, Filled(edges, V), UpTo(V))
    IN  t @@ [negative |-> \E i \in Vertices(V) : t.dist[i][i] < 0]

\* print_path of floyd_warshall.c
RECURSIVE Follow(_, _, _)
Follow(nxt, u, v) == IF u = v THEN <<u>> ELSE <<u>> \o Follow(nxt, nxt[u][v], v)

-----------------------------------------------------------------------------
(* kruskal.c; f is the forest: parent and rank_uf.                         *)

uf_init(n) == [parent |-> [i \in Vertices(n) |-> i], rank |-> [i \in Vertices(n) |-> 0]]

\* The root of x, and the forest with the paths from x compressed
RECURSIVE uf_find(_, _)
uf_find(f, x) ==
    IF f.parent[x] = x THEN [f |-> f, root |-> x]
    ELSE LET r == uf_find(f, f.parent[x])
         IN  [r EXCEPT !.f.parent[x] = r.root]

uf_union(f, x, y) ==
    LET fx == uf_find(f, x)
        fy == uf_find(fx.f, y)
        swap == fy.f.rank[fx.root] < fy.f.rank[fy.root]
        px == IF swap THEN fy.root ELSE fx.root
        py == IF swap THEN fx.root ELSE fy.root
    IN  IF fx.root = fy.root THEN [f |-> fy.f, joined |-> FALSE]
        ELSE [f |-> [fy.f EXCEPT !.parent[py] = px,
                                 !.rank[px] = IF fy.f.rank[py] = @ THEN @ + 1 ELSE @],
              joined |-> TRUE]

\* qsort by weight, the order of equal weights being the library's
edge_cmp(a, b) == a[3] - b[3]

SelectEdge(s, e, V) ==
    LET u == uf_union(s.f, e[1], e[2])
    IN  IF s.selected = V - 1 THEN s
        ELSE IF u.joined
             THEN [f |-> u.f, total |-> s.total + e[3], selected |-> s.selected + 1]
             ELSE [s EXCEPT !.f = u.f]

kruskal(edges, V) ==
    FoldLeft(LAMBDA s, e : SelectEdge(s, e, V), [f |-> uf_init(V), total |-> 0, selected |-> 0],
             SortSeq(edges, LAMBDA a, b : edge_cmp(a, b) < 0))

-----------------------------------------------------------------------------
(* prim.c; W is the matrix of the weights, 0 for no edge.                  *)

Weights(edges, V) ==
    [u \in Vertices(V) |-> [v \in Vertices(V) |->
        LET e == SelectSeq(edges, LAMBDA f : {f[1], f[2]} = {u, v})
        IN  IF u = v \/ e = <<>> THEN 0 ELSE e[1][3]]]

\* The first vertex outside the tree whose key is least joins the tree.
PrimStep(W, s) ==
    LET outside == DOMAIN s.key \ s.in_mst
        u == Least({i \in outside : \A j \in outside : s.key[i] <= s.key[j]})
        better(v) == v \in outside \ {u} /\ W[u][v] # 0 /\ W[u][v] < s.key[v]
    IN  [in_mst |-> s.in_mst \union {u},
         key    |-> [v \in DOMAIN s.key |-> IF better(v) THEN W[u][v] ELSE s.key[v]],
         parent |-> [v \in DOMAIN s.key |-> IF better(v) THEN u ELSE s.parent[v]]]

prim(edges, V) ==
    LET W == Weights(edges, V)
        s == FoldLeft(LAMBDA t, cnt : PrimStep(W, t),
                      [in_mst |-> {}, parent |-> Start(0, V).parent, key |-> Start(0, V).dist],
                      UpTo(V))
    IN  s @@ [total |-> FoldLeft(LAMBDA t, i : t + s.key[i], 0, [k \in 1 .. V - 1 |-> k])]

-----------------------------------------------------------------------------
(* What the functions are for                                              *)

SimplePaths(V) == {p \in UNION {[1 .. n -> Vertices(V)] : n \in 1 .. V} :
                     \A j, k \in DOMAIN p : j # k => p[j] # p[k]}

Weight(edges, u, v) ==
    LET e == SelectSeq(edges, LAMBDA f : f[1] = u /\ f[2] = v)
    IN  IF e = <<>> THEN INF ELSE e[1][3]

\* The weight of a path, INF or more if an edge of it is missing
Length(edges, p) ==
    FoldLeft(LAMBDA t, k : t + Weight(edges, p[k], p[k + 1]), 0, [k \in 1 .. Len(p) - 1 |-> k])

Distance(lengths, u, v) ==
    LET d == Least({x[3] : x \in {y \in lengths : y[1] = u /\ y[2] = v}})
    IN  IF d > INF \div 2 THEN INF ELSE d

\* On the path that a program prints for a reachable vertex the edges add up
\* to the distance it prints.
IsPath(edges, p, u, v, d) == p[1] = u /\ Last(p) = v /\ Length(edges, p) = d

\* bellman_ford and floyd_warshall see a negative cycle whenever there is one
\* (the first, one that vertex 0 reaches); without one they, and dijkstra if no
\* weight is negative, find the shortest distances and paths that have them.
\* dijkstra relaxes the edges of every vertex it reaches once, the nearest first,
\* although the heap still holds older distances of some: so every edge puts at
\* most one entry into heap[MAX_E].
DistancesAreRight(V, edges) ==
    LET lengths == {<<p[1], Last(p), Length(edges, p)>> : p \in SimplePaths(V)}
        dist == [u \in Vertices(V) |-> [v \in Vertices(V) |-> Distance(lengths, u, v)]]
        loops == {u \in Vertices(V) : \E v \in Vertices(V) :
                    Weight(edges, v, u) # INF /\ dist[u][v] # INF
                    /\ dist[u][v] + Weight(edges, v, u) < 0}
        bf == bellman_ford(edges, 0, V)
        fw == floyd_warshall(edges, V)
        dj == dijkstra(edges, 0, V)
        right(s) ==
            /\ s.dist = dist[0]
            /\ \A v \in Vertices(V) :
                  dist[0][v] # INF => IsPath(edges, print_path(s.parent, v), 0, v, dist[0][v])
    IN  /\ bf.negative <=> \E u \in loops : dist[0][u] # INF
        /\ ~ bf.negative => right(bf)
        /\ fw.negative <=> loops # {}
        /\ ~ fw.negative =>
              /\ fw.dist = dist
              /\ \A u, v \in Vertices(V) : u # v /\ dist[u][v] # INF =>
                    IsPath(edges, Follow(fw.nxt, u, v), u, v, dist[u][v])
        /\ (\A k \in DOMAIN edges : edges[k][3] >= 0) =>
              /\ right(dj)
              /\ Len(dj.settled) = Cardinality({v \in Vertices(V) : dist[0][v] # INF})
              /\ IsInjective(dj.settled)
              /\ \A k \in 2 .. Len(dj.settled) :
                    dist[0][dj.settled[k - 1]] <= dist[0][dj.settled[k]]

Connected(arcs, V) ==
    \A S \in SUBSET Vertices(V) :
        S # {} /\ S # Vertices(V) => \E a \in arcs : (a[1] \in S) # (a[2] \in S)

TotalWeight(S) == MapThenSumSet(LAMBDA e : e[3], S)

\* kruskal and prim find the weight of the lightest edges that connect a graph
\* (kruskal: or select fewer than V - 1, if it is not connected).
SpanningTreesAreRight(V, edges) ==
    LET arcs == {edges[k] : k \in DOMAIN edges}
        k == kruskal(edges, V)
        best == Least({TotalWeight(T) :
                         T \in {S \in SUBSET arcs : Cardinality(S) = V - 1 /\ Connected(S, V)}})
    IN  IF Connected(arcs, V)
        THEN k.selected = V - 1 /\ k.total = best /\ prim(edges, V).total = best
        ELSE k.selected < V - 1
=============================================================================
