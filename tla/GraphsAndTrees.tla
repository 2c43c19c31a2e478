--------------------------- MODULE GraphsAndTrees ---------------------------
(***************************************************************************)
(* Graph/, BFS/, DSU/, DP/, ConvexHull/, Sort/topologicalSort.cpp and      *)
(* Tree/.  Nodes are 1 .. n; a list of neighbours is a sequence, whose     *)
(* order is that of the searches.                                          *)
(***************************************************************************)
EXTENDS Loops, FiniteSets

CONSTANT INF       \* 0x3f3f3f3f and INT_MAX

ASSUME InfAssumption == INF \in Nat

\* g[u] is the sequence of <<v, weight>>; what the priority queue holds is a set, for a
\* distance is pushed once.
dijkstra(g, start) ==
  LET Top(pq) == CHOOSE p \in pq : \A q \in pq : p[1] < q[1] \/ (p[1] = q[1] /\ p[2] <= q[2])
      Relax(s, u) == ForEachOf(LAMBDA t, e :
                       IF t.dist[u] + e[2] < t.dist[e[1]]
                         THEN [dist |-> [t.dist EXCEPT ![e[1]] = t.dist[u] + e[2]],
                               pq |-> t.pq \cup {<<t.dist[u] + e[2], e[1]>>}]
                         ELSE t, s, g[u])
  IN  While(LAMBDA s : s.pq # {},
            LAMBDA s : LET top == Top(s.pq)
                           rest == [s EXCEPT !.pq = @ \ {top}]
                       IN  IF s.dist[top[2]] < top[1] THEN rest ELSE Relax(rest, top[2]),
            [dist |-> [u \in DOMAIN g |-> IF u = start THEN 0 ELSE INF],
             pq |-> {<<0, start>>}]).dist

\* g[i][j] is the weight of the edge.
Floyd(g) ==
  LET n == Len(g)
  IN  For(LAMBDA a, k : For(LAMBDA b, i : For(LAMBDA c, j :
            IF c[i][k] # INF /\ c[k][j] # INF /\ c[i][j] > c[i][k] + c[k][j]
              THEN [c EXCEPT ![i][j] = c[i][k] + c[k][j]] ELSE c, b, 1, n), a, 1, n), g, 1, n)

\* find of Kruskal.cpp: the array when x and all above it point at their root.
RECURSIVE Compressed(_, _)
Compressed(fa, x) == IF fa[x] = x THEN fa
                     ELSE LET f == Compressed(fa, fa[x]) IN [f EXCEPT ![x] = f[fa[x]]]

\* The weight of the forest that is built, edge f first if it is not 0; edges of one
\* weight are taken in their order, as good as any.
MST(edges, n, f) ==
  LET Join(s, e) == LET both == Compressed(Compressed(s.fa, e[1]), e[2])
                        u == both[e[1]]
                        v == both[e[2]]
                    IN  [res |-> IF u # v THEN s.res + e[3] ELSE s.res, fa |-> [both EXCEPT ![u] = v]]
      start == [res |-> 0, fa |-> [i \in 1 .. n |-> i]]
      forced == IF f = 0 THEN start ELSE Join(start, edges[f])
  IN  For(LAMBDA s, w : ForEachOf(Join, s, SelectSeq(edges, LAMBDA e : e[3] = w)), forced, 1,
          For(LAMBDA m, i : IF edges[i][3] > m THEN edges[i][3] ELSE m, 0, 1, Len(edges))).res

findCriticalAndPseudoCriticalEdges(n, edges) ==
  LET mst == MST(edges, n, 0)
      keys == {i \in DOMAIN edges : MST([edges EXCEPT ![i][3] = @ + 1], n, 0) > mst}
  IN  <<keys, {i \in DOMAIN edges \ keys : MST(edges, n, i) = mst}>>

\* One search that colours what can be reached from the queue; ok says that it did not
\* meet an edge between two nodes of a colour.
Coloured(graph, start) ==
  LET Visit(s, u, v) == IF ~s.ok THEN s
                        ELSE IF s.col[v] = -1
                          THEN [s EXCEPT !.col[v] = 1 - s.col[u], !.q = Append(@, v)]
                        ELSE [s EXCEPT !.ok = s.col[v] # s.col[u]]
  IN  While(LAMBDA s : s.ok /\ s.q # << >>,
            LAMBDA s : ForEachOf(LAMBDA t, v : Visit(t, Head(s.q), v),
                                 [s EXCEPT !.q = Tail(@)], graph[Head(s.q)]),
            start)

isBipartiteBFS(graph) ==
  For(LAMBDA s, i : IF s.ok /\ s.col[i] = -1
                      THEN Coloured(graph, [s EXCEPT !.q = <<i>>, !.col[i] = 0]) ELSE s,
      [ok |-> TRUE, q |-> << >>, col |-> [i \in DOMAIN graph |-> -1]], 1, Len(graph)).ok

RECURSIVE ColouredBelow(_, _, _)
ColouredBelow(graph, start, u) ==
  ForEachOf(LAMBDA s, v : IF ~s.ok THEN s
                          ELSE IF s.col[v] = -1
                            THEN ColouredBelow(graph, [s EXCEPT !.col[v] = 1 - s.col[u]], v)
                          ELSE [s EXCEPT !.ok = s.col[v] # s.col[u]],
            start, graph[u])

isBipartiteDFS(graph) ==
  For(LAMBDA s, i : IF s.ok /\ s.col[i] = -1
                      THEN ColouredBelow(graph, [s EXCEPT !.col[i] = 0], i) ELSE s,
      [ok |-> TRUE, col |-> [i \in DOMAIN graph |-> -1]], 1, Len(graph)).ok

\* The walk that sees every node: the first state with the full mask in breadth-first order.
shortestPathLength(graph) ==
  LET Met(s, from, v) == LET to == <<v, from[2] \cup {v}>>
                         IN  IF to \in s.vis THEN s
                             ELSE [s EXCEPT !.vis = @ \cup {to},
                                            !.q = Append(@, <<v, to[2], from[3] + 1>>)]
      n == Len(graph)
      end == While(LAMBDA s : s.q # << >> /\ Cardinality(Head(s.q)[2]) < n,
                   LAMBDA s : LET from == Head(s.q)
                              IN  ForEachOf(LAMBDA t, v : Met(t, from, v), [s EXCEPT !.q = Tail(@)],
                                            graph[from[1]]),
                   [q |-> [i \in 1 .. n |-> <<i, {i}, 0>>], vis |-> {<<i, {i}>> : i \in 1 .. n}])
  IN  IF end.q = << >> THEN -1 ELSE Head(end.q)[3]

\* Mutant: the count is compared before it is decremented, as by In[v]-- == 0.
LetGoLate(s, v) == [s EXCEPT !.In[v] = @ - 1, !.q = IF s.In[v] = 0 THEN Append(@, v) ELSE @]

LetGo(s, v) == [s EXCEPT !.In[v] = @ - 1, !.q = IF s.In[v] = 1 THEN Append(@, v) ELSE @]

topological(Adj, In) ==
  LET n == Len(Adj)
      ans == While(LAMBDA s : s.q # << >>,
                   LAMBDA s : ForEachOf(LetGo, [s EXCEPT !.q = Tail(@), !.ans = Append(@, Head(s.q))],
                                        Adj[Head(s.q)]),
                   [q |-> SelectSeq([i \in 1 .. n |-> i], LAMBDA i : In[i] = 0),
                    In |-> In, ans |-> << >>]).ans
  IN  IF Len(ans) = n THEN ans ELSE << >>

\* The class Union.
Union(n) == [parent |-> [i \in 1 .. n |-> i], rank |-> [i \in 1 .. n |-> 0], sz |-> [i \in 1 .. n |-> 1]]
RECURSIVE Flattened(_, _)
Flattened(parent, x) == IF parent[x] = x THEN parent
                        ELSE LET p == Flattened(parent, parent[x]) IN [p EXCEPT ![x] = p[parent[x]]]

merge(dsu, x, y) ==
  LET p == Flattened(Flattened(dsu.parent, x), y)
      rx == IF dsu.rank[p[x]] < dsu.rank[p[y]] THEN p[y] ELSE p[x]
      ry == IF rx = p[x] THEN p[y] ELSE p[x]
  IN  IF p[x] = p[y] THEN [dsu EXCEPT !.parent = p]
      ELSE [parent |-> [p EXCEPT ![ry] = rx],
            sz |-> [dsu.sz EXCEPT ![rx] = @ + dsu.sz[ry]],
            rank |-> [dsu.rank EXCEPT ![rx] = IF dsu.rank[ry] = @ THEN @ + 1 ELSE @]]

\* The clusters counted, and the structure they are counted in.
Clusters(isConnected) ==
  LET n == Len(isConnected)
      dsu == For(LAMBDA d, i : For(LAMBDA e, j : IF isConnected[i][j] = 1 THEN merge(e, i, j) ELSE e,
                                   d, 1, n), Union(n), 1, n)
  IN  [dsu |-> dsu, ans |-> Cardinality({i \in 1 .. n : Flattened(dsu.parent, i)[i] = i})]
-----------------------------------------------------------------------------
(* Trees, boxes and points *)

\* g[v] lists the neighbours in a tree.
sumOfDistancesInTree(g) ==
  LET n == Len(g)
      RECURSIVE dfs1(_, _, _)
      dfs1(v, fa, depth) ==    \* the sum of the depths below v, and the sizes
        ForEachOf(LAMBDA s, u : IF u = fa THEN s
                                ELSE LET t == dfs1(u, v, depth + 1)
                                     IN  [sum |-> s.sum + t.sum,
                                          f |-> [w \in 1 .. n |-> IF w = v THEN s.f[v] + t.f[u]
                                                                  ELSE s.f[w] + t.f[w]]],
                  [sum |-> depth, f |-> [w \in 1 .. n |-> IF w = v THEN 1 ELSE 0]], g[v])
      below == dfs1(1, 0, 0)
      RECURSIVE dfs2(_, _, _)
      dfs2(ans, v, fa) ==
        ForEachOf(LAMBDA a, u : IF u = fa THEN a
                                ELSE dfs2([a EXCEPT ![u] = a[v] + n - below.f[u] - below.f[u]], u, v),
                  ans, g[v])
  IN  dfs2([v \in 1 .. n |-> IF v = 1 THEN below.sum ELSE 0], 1, 0)

\* A tree is the empty sequence or a node with two trees; vals tell nodes apart.
Node(val, left, right) == [val |-> val, left |-> left, right |-> right]
RECURSIVE LCA(_, _, _)
LCA(root, p, q) ==
  IF root = << >> THEN << >>
  ELSE IF root.val \in {p, q} THEN root
  ELSE LET l == LCA(root.left, p, q)
           r == LCA(root.right, p, q)
       IN  IF l # << >> THEN (IF r # << >> THEN root ELSE l) ELSE r

levelOrder(root) ==
  While(LAMBDA s : s.q # << >>,
        LAMBDA s : [q |-> Tail(s.q) \o SelectSeq(<<Head(s.q).left, Head(s.q).right>>, LAMBDA t : t # << >>),
                    ans |-> Append(s.ans, Head(s.q).val)],
        [q |-> IF root = << >> THEN << >> ELSE <<root>>, ans |-> << >>]).ans

RECURSIVE preOrder(_), inOrder(_), postOrder(_)
preOrder(root) ==
  IF root = << >> THEN << >> ELSE <<root.val>> \o preOrder(root.left) \o preOrder(root.right)
inOrder(root) ==
  IF root = << >> THEN << >> ELSE Append(inOrder(root.left), root.val) \o inOrder(root.right)
postOrder(root) ==
  IF root = << >> THEN << >> ELSE Append(postOrder(root.left) \o postOrder(root.right), root.val)

\* What hangs below a node whose right tree is t once its left tree is hung into t.
RECURSIVE HungLeft(_, _)
HungLeft(t, left) == IF t = << >> THEN left ELSE Node(t.val, HungLeft(t.left, left), t.right)

RECURSIVE deleteNode(_, _)
deleteNode(root, key) ==
  IF root = << >> THEN root
  ELSE IF root.val > key THEN Node(root.val, deleteNode(root.left, key), root.right)
  ELSE IF root.val < key THEN Node(root.val, root.left, deleteNode(root.right, key))
  ELSE HungLeft(root.right, root.left)

\* With two trees the node takes the right one's least value, which deleteNode deletes.
RECURSIVE deleteNode_dfs(_, _)
deleteNode_dfs(root, key) ==
  LET minNode == While(LAMBDA t : t.left # << >>, LAMBDA t : t.left, root.right)
  IN  IF root = << >> THEN root
      ELSE IF root.val < key THEN Node(root.val, root.left, deleteNode_dfs(root.right, key))
      ELSE IF root.val > key THEN Node(root.val, deleteNode_dfs(root.left, key), root.right)
      ELSE IF root.left = << >> THEN root.right
      ELSE IF root.right = << >> THEN root.left
      ELSE Node(minNode.val, root.left, deleteNode(root.right, minNode.val))

\* The cells that are no wall, the player, the box and the target; -1 if it cannot be done.
minPushBox(floor, player, box, target) ==
  LET dirs == <<<<1, 0>>, <<-1, 0>>, <<0, 1>>, <<0, -1>>>>
      Beside(c, dir) == <<c[1] + dir[1], c[2] + dir[2]>>
      Seen(s, to, d, front) ==
        IF to \in s.vis THEN s
        ELSE [vis |-> s.vis \cup {to},
              dq |-> IF front THEN <<<<to[1], to[2], d>>>> \o s.dq ELSE Append(s.dq, <<to[1], to[2], d>>)]
      Go(s, at, dir) ==
        LET to == Beside(at[1], dir)
            pushed == Beside(at[2], dir)
        IN  IF to \notin floor THEN s
            ELSE IF to # at[2] THEN Seen(s, <<to, at[2]>>, at[3], TRUE)
            ELSE IF pushed \in floor THEN Seen(s, <<to, pushed>>, at[3] + 1, FALSE)
            ELSE s
      end == While(LAMBDA s : s.dq # << >> /\ Head(s.dq)[2] # target,
                   LAMBDA s : ForEachOf(LAMBDA t, dir : Go(t, Head(s.dq), dir),
                                        [s EXCEPT !.dq = Tail(@)], dirs),
                   [dq |-> <<<<player, box, 0>>>>, vis |-> {<<player, box>>}])
  IN  IF end.dq = << >> THEN -1 ELSE Head(end.dq)[3]

getArea(a, b, c) == (b[1] - a[1]) * (c[2] - a[2]) - (b[2] - a[2]) * (c[1] - a[1])

\* The points in the order of the sort.
InOrder(points) ==
  LET Precedes(a, b) == a[1] < b[1] \/ (a[1] = b[1] /\ a[2] < b[2])
  IN  [i \in 1 .. Cardinality(points) |->
         CHOOSE p \in points : Cardinality({q \in points : Precedes(q, p)}) = i - 1]

\* Mutant: points on a line are popped as well.
TurnsOrStraight(points, st, i) == getArea(points[st[Len(st) - 1]], points[st[Len(st)]], points[i]) <= 0

\* The last two points of the stack and point i turn right.
TurnsRight(points, st, i) == getArea(points[st[Len(st) - 1]], points[st[Len(st)]], points[i]) < 0

Andrew(set) ==
  LET points == InOrder(set)
      n == Len(points)
      Pushed(st, i, least) ==
        Append(While(LAMBDA s : Len(s) > least /\ TurnsRight(points, s, i),
                     LAMBDA s : SubSeq(s, 1, Len(s) - 1), st), i)
      lower == For(LAMBDA st, i : Pushed(st, i, 1), << >>, 1, n)
      both == ForDown(LAMBDA st, i : Pushed(st, i, Len(lower)), lower, n - 1, 1)
      st == SubSeq(both, 1, Len(both) - 1)
  IN  IF n <= 1 THEN points
      ELSE ForEachOf(LAMBDA ans, i : IF \E k \in DOMAIN ans : ans[k] = points[i] THEN ans
                                     ELSE Append(ans, points[i]), << >>, st)
-----------------------------------------------------------------------------
(* What they compute, and what they are for *)

\* The neighbours in the order of the numbers.
Listed(n, S) == SelectSeq([i \in 1 .. n |-> i], LAMBDA i : i \in S)

\* Of a directed graph whose edges have weights, INF for no edge.
DirectedOf(w) ==
  LET n == Len(w)
      out(u) == Listed(n, {v \in 1 .. n : u # v /\ w[u][v] # INF})
  IN  [dist |-> [u \in 1 .. n |-> dijkstra([x \in 1 .. n |-> [i \in DOMAIN out(x) |->
                                             <<out(x)[i], w[x][out(x)[i]]>>]], u)],
       floyd |-> Floyd(w),
       order |-> topological([x \in 1 .. n |-> out(x)],
                             [v \in 1 .. n |-> Cardinality({u \in 1 .. n : u # v /\ w[u][v] # INF})])]

\* The lengths of the shortest paths as those of at most n - 1 edges.
Lengths(w) ==
  LET n == Len(w)
      Shorter(d) == [u \in 1 .. n |-> [v \in 1 .. n |->
                       LET all == {d[u][x] + w[x][v] : x \in 1 .. n} \cup {INF}
                       IN  CHOOSE k \in all : \A l \in all : k <= l]]
  IN  For(LAMBDA d, i : Shorter(d), [u \in 1 .. n |-> [v \in 1 .. n |-> IF u = v THEN 0 ELSE INF]], 1, n - 1)

Arc(w, u, v) == u # v /\ w[u][v] # INF

\* Both give the lengths of the shortest paths; the order, if there is one, has every arc
\* go forward, and there is one exactly when there is no way back to a node.
DirectedRight(w, out) ==
  LET n == Len(w)
  IN  /\ out.dist = Lengths(w) /\ out.floyd = Lengths(w)
      /\ IF out.order # << >>
           THEN /\ {out.order[i] : i \in DOMAIN out.order} = 1 .. n
                /\ \A i, j \in 1 .. n : Arc(w, out.order[i], out.order[j]) => i < j
           ELSE \E u, v \in 1 .. n : Arc(w, u, v) /\ Lengths(w)[v][u] # INF

\* Of an undirected graph: a weight for each edge, in the order of the edges.
UndirectedOf(n, edges) ==
  LET g == [u \in 1 .. n |-> Listed(n, {v \in 1 .. n : \E i \in DOMAIN edges :
                                          {edges[i][1], edges[i][2]} = {u, v}})]
      Beside(u, v) == \E i \in DOMAIN g[u] : g[u][i] = v
  IN  [bipartite |-> {isBipartiteBFS(g), isBipartiteDFS(g)},
       walk |-> shortestPathLength(g),
       critical |-> findCriticalAndPseudoCriticalEdges(n, edges),
       mst |-> MST(edges, n, 0),
       clusters |-> Clusters([u \in 1 .. n |-> [v \in 1 .. n |->
                       IF u = v \/ Beside(u, v) THEN 1 ELSE 0]])]

\* The nodes that can be reached from u by some of the edges.
Reached(edges, some, u) ==
  LET Next(r) == r \cup UNION {{edges[i][1], edges[i][2]} : i \in {j \in some :
                                  {edges[j][1], edges[j][2]} \cap r # {}}}
  IN  While(LAMBDA r : Next(r) # r, Next, {u})

WeightOf(edges, some) == For(LAMBDA s, i : IF i \in some THEN s + edges[i][3] ELSE s, 0, 1, Len(edges))

\* The graph is two-coloured exactly when it can be; a walk through all nodes is as short
\* as one can be; the spanning forest is the lightest, an edge is critical when all the
\* lightest have it, else pseudo-critical when one has it; and there are as many clusters
\* as there are, their sizes at their roots, under trees no higher than their ranks.
UndirectedRight(n, edges, out) ==
  LET parts == {Reached(edges, DOMAIN edges, u) : u \in 1 .. n}
      spanning == {some \in SUBSET DOMAIN edges : \A part \in parts : \A u \in part : Reached(edges, some, u) = part}
      weights == {WeightOf(edges, some) : some \in spanning}
      least == CHOOSE w \in weights : \A x \in weights : w <= x
      light == {some \in spanning : WeightOf(edges, some) = least}
      Walked(steps) == \* <<where, seen>> after so many steps
        For(LAMBDA s, i : UNION {{<<v, t[2] \cup {v}>> : v \in {x \in 1 .. n : \E e \in DOMAIN edges :
                                    {edges[e][1], edges[e][2]} = {t[1], x}}} : t \in s},
            {<<u, {u}>> : u \in 1 .. n}, 1, steps)
      Sees(steps) == \E t \in Walked(steps) : t[2] = 1 .. n
      RECURSIVE Height(_, _)
      Height(p, u) == LET below == {v \in 1 .. n : p[v] = u /\ v # u}
                          hs == {Height(p, v) + 1 : v \in below} \cup {0}
                      IN  CHOOSE h \in hs : \A k \in hs : k <= h
      dsu == out.clusters.dsu
      roots == {u \in 1 .. n : dsu.parent[u] = u}
  IN  /\ out.bipartite = {\E side \in SUBSET (1 .. n) : \A i \in DOMAIN edges :
                            edges[i][1] \in side <=> edges[i][2] \notin side}
      /\ IF out.walk = -1 THEN Cardinality(parts) > 1
         ELSE Sees(out.walk) /\ \A k \in 0 .. out.walk - 1 : ~Sees(k)
      /\ out.mst = least
      /\ out.critical[1] = {i \in DOMAIN edges : \A some \in light : i \in some}
      /\ out.critical[2] = {i \in DOMAIN edges : \E some \in light : i \in some} \ out.critical[1]
      /\ out.clusters.ans = Cardinality(parts)
      /\ Cardinality(roots) = out.clusters.ans
      /\ \A u \in roots : /\ \E part \in parts : u \in part /\ dsu.sz[u] = Cardinality(part)
                          /\ Height(dsu.parent, u) <= dsu.rank[u]

\* A rooted tree is given by its parents, the root's being 0.
Neighbours(parent) == [v \in DOMAIN parent |->
                         Listed(Len(parent), {u \in DOMAIN parent : parent[u] = v \/ parent[v] = u})]
RECURSIVE Upward(_, _)
Upward(parent, v) == IF v = 0 THEN << >> ELSE <<v>> \o Upward(parent, parent[v])
DistanceIn(parent, u, v) ==
  LET above == {Upward(parent, u)[i] : i \in DOMAIN Upward(parent, u)}
      common == above \cap {Upward(parent, v)[i] : i \in DOMAIN Upward(parent, v)}
  IN  Len(Upward(parent, u)) + Len(Upward(parent, v)) - 2 * Cardinality(common)

\* The sum of the distances to all the others.
DistancesRight(parent, out) ==
  \A v \in DOMAIN parent : out[v] = For(LAMBDA s, u : s + DistanceIn(parent, u, v), 0, 1, Len(parent))

\* The binary trees whose nodes are l .. r from left to right.
RECURSIVE TreesOn(_, _)
TreesOn(l, r) == IF l > r THEN {<< >>}
                 ELSE UNION {{Node(m, a, b) : a \in TreesOn(l, m - 1), b \in TreesOn(m + 1, r)} : m \in l .. r}
RECURSIVE ValuesIn(_)
ValuesIn(t) == IF t = << >> THEN {} ELSE {t.val} \cup ValuesIn(t.left) \cup ValuesIn(t.right)
RECURSIVE SubtreesOf(_)
SubtreesOf(t) == IF t = << >> THEN {} ELSE {t} \cup SubtreesOf(t.left) \cup SubtreesOf(t.right)

AncestorsOf(tree) == [pair \in ValuesIn(tree) \X ValuesIn(tree) |-> LCA(tree, pair[1], pair[2]).val]

\* The lowest node that has both below it.
AncestorsRight(tree, out) ==
  \A pair \in DOMAIN out :
    LET both == {t \in SubtreesOf(tree) : {pair[1], pair[2]} \subseteq ValuesIn(t)}
    IN  \E t \in both : t.val = out[pair] /\ \A s \in both : ValuesIn(t) \subseteq ValuesIn(s)

\* A tree's orders, and the values from left to right once a key was deleted.
TreeOf(tree) ==
  [ancestors |-> AncestorsOf(tree),
   level |-> levelOrder(tree), pre |-> preOrder(tree), post |-> postOrder(tree),
   deleted |-> [key \in ValuesIn(tree) \cup {0} |->
                  <<inOrder(deleteNode(tree, key)), inOrder(deleteNode_dfs(tree, key))>>]]

\* The depth of a value below t, and whether S comes before T in a sequence.
DepthIn(tree, v) == Cardinality({t \in SubtreesOf(tree) : v \in ValuesIn(t)})
Precede(s, S, T) == \A i, j \in DOMAIN s : s[i] \in S /\ s[j] \in T => i < j

\* Ancestors are the lowest ones, every value is visited, by rows, before or after the
\* trees below it; and to delete a key is to delete it and nothing else.
TreeRight(tree, out) ==
  LET values == ValuesIn(tree)
  IN  /\ AncestorsRight(tree, out.ancestors)
      /\ \A s \in {out.level, out.pre, out.post} :
           Len(s) = Cardinality(values) /\ {s[i] : i \in DOMAIN s} = values
      /\ \A i, j \in DOMAIN out.level :
           i < j => LET a == out.level[i]
                        b == out.level[j]
                    IN  \/ DepthIn(tree, a) < DepthIn(tree, b)
                        \/ DepthIn(tree, a) = DepthIn(tree, b) /\ a < b
      /\ \A t \in SubtreesOf(tree) :
           LET l == ValuesIn(t.left)
               r == ValuesIn(t.right)
           IN  /\ Precede(out.pre, {t.val}, l \cup r) /\ Precede(out.pre, l, r)
               /\ Precede(out.post, l \cup r, {t.val}) /\ Precede(out.post, l, r)
      /\ \A key \in DOMAIN out.deleted :
           LET left == SelectSeq([i \in 1 .. Cardinality(values) |-> i], LAMBDA v : v # key)
           IN  out.deleted[key] = <<left, left>>

\* What player and box can come to with at most so many pushes.
Pushable(floor, start, pushes) ==
  LET Moved(c) == {<<c[1] + 1, c[2]>>, <<c[1] - 1, c[2]>>, <<c[1], c[2] + 1>>, <<c[1], c[2] - 1>>} \cap floor
      Walks(S) == S \cup UNION {{<<to, s[2]>> : to \in Moved(s[1]) \ {s[2]}} : s \in S}
      Walked(S) == While(LAMBDA r : Walks(r) # r, Walks, S)
      Far(s) == <<2 * s[2][1] - s[1][1], 2 * s[2][2] - s[1][2]>>
      Pushes(S) == S \cup {<<s[2], Far(s)>> : s \in {t \in S : t[2] \in Moved(t[1]) /\ Far(t) \in floor}}
  IN  For(LAMBDA S, i : Walked(Pushes(S)), Walked({start}), 1, pushes)

\* The box gets to the target in no fewer pushes, and in so many.
PushesRight(grid, out) ==
  LET InReach(pushes) == \E s \in Pushable(grid.floor, <<grid.player, grid.box>>, pushes) : s[2] = grid.target
  IN  IF out = -1 THEN ~InReach(Cardinality(grid.floor) * Cardinality(grid.floor))
      ELSE InReach(out) /\ (out > 0 => ~InReach(out - 1))

\* The hull is made of the points that have all points on one side of a line through
\* them, and goes round them to the left.
HullRight(points, out) ==
  /\ {out[i] : i \in DOMAIN out} =
       {p \in points : \/ points = {p}
                       \/ \E q \in points \ {p} : \/ \A r \in points : getArea(p, q, r) >= 0
                                                  \/ \A r \in points : getArea(p, q, r) <= 0}
  /\ Len(out) = Cardinality({out[i] : i \in DOMAIN out})
  /\ (\E p, q, r \in points : getArea(p, q, r) # 0) =>
       \A i \in DOMAIN out : \A p \in points : getArea(out[i], out[(i % Len(out)) + 1], p) >= 0
=============================================================================
