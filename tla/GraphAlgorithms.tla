--------------------------- MODULE GraphAlgorithms ---------------------------
(* The programs on graphs of misc/struct, struct and leetcode/graph.  Vertices *)
(* are 0 .. n - 1, except where the code counts from 1; an edge is a triple    *)
(* <<u, v, weight>>.  A priority queue hands out any of its least elements, so *)
(* the programs that use one have a set of possible results.                   *)
EXTENDS Integers, SequencesExt

LOCAL Total(edges) == MapThenSumSet(LAMBDA k : edges[k][3], DOMAIN edges)

\* Graph::Graph: the entries <<neighbour, weight>> of adjacency_list[v].
adjacency_list(edges, v) ==
  LET of(e) == IF e[1] = v THEN <<<<e[2], e[3]>>>>
               ELSE IF e[2] = v THEN <<<<e[1], e[3]>>>> ELSE << >>
  IN  FlattenSeq([k \in DOMAIN edges |-> of(edges[k])])

LOCAL Least(pq) == {k \in DOMAIN pq : \A j \in DOMAIN pq : pq[k][2] <= pq[j][2]}
LOCAL Fresh(edges, v, connected) ==
  SelectSeq(adjacency_list(edges, v), LAMBDA p : p[1] \notin connected)

\* prim of minmumSpanningTree.cc: todo vertices are still to be added; an entry
\* whose vertex has been added is dropped.
RECURSIVE primFrom(_, _, _, _)
primFrom(edges, todo, seen, pq) ==
  IF todo = 0 THEN {0}
  ELSE UNION {LET v == pq[k][1]
                  rest == RemoveAt(pq, k)
              IN  IF v \in seen THEN primFrom(edges, todo, seen, rest)
                  ELSE {pq[k][2] + c : c \in
                          primFrom(edges, todo - 1, seen \cup {v},
                                   rest \o Fresh(edges, v, seen \cup {v}))}
                : k \in Least(pq)}

prim(edges, n) == primFrom(edges, n, {}, <<<<0, 0>>>>)

\* Graph::MinSpanningTreePrim drops such an entry too, but it has used up one of
\* the n rounds.
RECURSIVE MinSpanningTreePrimFrom(_, _, _, _)
MinSpanningTreePrimFrom(edges, rounds, connected, pq) ==
  IF rounds = 0 THEN {0}
  ELSE UNION {LET v == pq[k][1]
                  rest == RemoveAt(pq, k)
              IN  IF v \in connected
                  THEN MinSpanningTreePrimFrom(edges, rounds - 1, connected, rest)
                  ELSE {pq[k][2] + c : c \in
                          MinSpanningTreePrimFrom(edges, rounds - 1, connected \cup {v},
                                                  rest \o Fresh(edges, v, connected \cup {v}))}
                : k \in Least(pq)}

MinSpanningTreePrim(edges, n) == MinSpanningTreePrimFrom(edges, n, {}, <<<<0, 0>>>>)

\* The parents after find(x); the search skips every other node on its way.
RECURSIVE findHalving(_, _)
findHalving(p, x) ==
  IF p[x] = x THEN p
  ELSE LET q == findHalving(p, p[p[x]]) IN [q EXCEPT ![x] = q[p[p[x]]]]

\* Mutant of kruskalStep: the ends of the edge are linked, not their roots.
kruskalStepEnds(st, e) ==
  LET p == findHalving(findHalving(st.p, e[1]), e[2])
  IN  IF p[e[1]] = p[e[2]] THEN [st EXCEPT !.p = p]
      ELSE [p |-> [p EXCEPT ![e[1]] = e[2]], cost |-> st.cost + e[3]]

kruskalStep(st, e) ==
  LET p == findHalving(findHalving(st.p, e[1]), e[2])
  IN  IF p[e[1]] = p[e[2]] THEN [st EXCEPT !.p = p]
      ELSE [p |-> [p EXCEPT ![p[e[1]]] = p[e[2]]], cost |-> st.cost + e[3]]

\* The edges sorted by weight, ties in any order the sort may leave.
LOCAL Sorted(edges) ==
  {q \in {[k \in DOMAIN edges |-> edges[f[k]]] : f \in Permutations(DOMAIN edges)} :
     IsSorted(q, LAMBDA d, e : d[3] <= e[3])}

kruskal(sorted, n) ==
  FoldLeft(kruskalStep, [p |-> [v \in 0 .. n - 1 |-> v], cost |-> 0], sorted).cost

\* Graph::MinSpanningTreeKruskal joins by rank: the root of higher rank stays.
MinSpanningTreeKruskal(sorted, n) ==
  LET root(d, x) == d.root[x]
      step(d, e) ==
        LET u == root(d, e[1])
            v == root(d, e[2])
            large == IF d.rank[u] < d.rank[v] THEN v ELSE u
            small == IF large = u THEN v ELSE u
        IN  IF u = v THEN d
            ELSE [root |-> [x \in DOMAIN d.root |-> IF d.root[x] = small THEN large ELSE d.root[x]],
                  rank |-> [d.rank EXCEPT ![large] = @ + 1],
                  cost |-> d.cost + e[3]]
      start == [root |-> [v \in 0 .. n - 1 |-> v], rank |-> [v \in 0 .. n - 1 |-> 0], cost |-> 0]
  IN  FoldLeft(step, start, sorted).cost

------------------------------------------------------------------------------
\* topSort: the vertices in the order they leave the queue; inDegree counts the
\* edges that are left.
RECURSIVE topSortFrom(_, _, _, _)
topSortFrom(arcs, n, inDegree, q) ==
  IF q = << >> THEN << >>
  ELSE LET v == Head(q)
           left == [i \in 0 .. n - 1 |-> IF <<v, i>> \in arcs THEN inDegree[i] - 1 ELSE inDegree[i]]
           free == SelectSeq([i \in 1 .. n |-> i - 1],
                             LAMBDA i : <<v, i>> \in arcs /\ left[i] = 0)
       IN  <<v>> \o topSortFrom(arcs, n, left, Tail(q) \o free)

topSort(arcs, n) ==
  LET inDegree == [i \in 0 .. n - 1 |-> Cardinality({a \in arcs : a[2] = i})]
  IN  topSortFrom(arcs, n, inDegree,
                  SelectSeq([i \in 1 .. n |-> i - 1], LAMBDA i : inDegree[i] = 0))

------------------------------------------------------------------------------
\* maxNumEdgesToRemove: an edge <<type, u, v>> that connects nothing new is
\* removed; type 3 is for both travellers, 1 for the first, others for the second.
merge1(d, e) ==
  LET ru == d.root[e[2]]
      rv == d.root[e[3]]
  IN  IF ru = rv THEN [d EXCEPT !.res = @ + 1]
      ELSE [d EXCEPT !.root = [x \in DOMAIN @ |-> IF @[x] = ru THEN rv ELSE @[x]],
                     !.edges = @ + 1]

maxNumEdgesToRemove(n, edges) ==
  LET types(T) == SelectSeq(edges, LAMBDA e : e[1] \in T)
      start == [root |-> [v \in 1 .. n |-> v], edges |-> 0, res |-> 0]
      both == FoldLeft(merge1, start, types({3}))
      A == FoldLeft(merge1, both, types({1}))
      B == FoldLeft(merge1, both, types({2}))
  IN  IF A.edges = n - 1 /\ B.edges = n - 1 THEN A.res + B.res - both.res ELSE -1

\* disconnectIsland.cc, on the set of the land cells <<x, y>>.
LOCAL Near(c, d) == <<c[1] - d[1], c[2] - d[2]>> \in {<<0, 1>>, <<0, -1>>, <<1, 0>>, <<-1, 0>>}

RECURSIVE dfsLand(_, _, _)
dfsLand(land, cell, seen) ==
  IF cell \notin land \/ cell \in seen THEN seen
  ELSE FoldLeft(LAMBDA s, d : dfsLand(land, <<cell[1] + d[1], cell[2] + d[2]>>, s),
                seen \cup {cell}, <<<<0, 1>>, <<1, 0>>, <<0, -1>>, <<-1, 0>>>>)

disconnected(land) ==
  land = {} \/ dfsLand(land, CHOOSE c \in land : TRUE, {}) # land

minDaysIsland(land) ==
  IF disconnected(land) THEN 0
  ELSE IF \E c \in land : disconnected(land \ {c}) THEN 1 ELSE 2

------------------------------------------------------------------------------
\* What the programs are compared with.
LOCAL ConnectedBy(V, arcs) ==     \* a cut that nothing crosses is empty or full
  \A S \in SUBSET V : (\A a \in arcs : a[1] \in S <=> a[2] \in S) => S = {} \/ S = V
LOCAL Ends(edges, S) == {<<edges[k][1], edges[k][2]>> : k \in S}
LOCAL SpanningCosts(edges, n) ==
  {MapThenSumSet(LAMBDA k : edges[k][3], S) : S \in
     {S \in SUBSET DOMAIN edges : Cardinality(S) = n - 1 /\ ConnectedBy(0 .. n - 1, Ends(edges, S))}}
LOCAL For(edges, S, traveller) ==
  {<<edges[k][2], edges[k][3]>> : k \in {k \in S : edges[k][1] \in {traveller, 3}}}
LOCAL Fully(n, edges, S) ==
  \A t \in 1 .. 2 : ConnectedBy(1 .. n, For(edges, S, t))
LOCAL Pairs4 == <<<<0, 1>>, <<0, 2>>, <<0, 3>>, <<1, 2>>, <<1, 3>>, <<2, 3>>>>
LOCAL Pairs3 == <<<<1, 2>>, <<1, 3>>, <<2, 3>>, <<1, 2>>, <<2, 3>>, <<1, 3>>>>
LOCAL Marked(s) == SelectSeq([k \in DOMAIN s |-> <<Pairs4[k][1], Pairs4[k][2], s[k]>>],
                             LAMBDA e : e[3] > 0)
LOCAL Typed(s) == SelectSeq([k \in DOMAIN s |-> <<s[k], Pairs3[k][1], Pairs3[k][2]>>],
                            LAMBDA e : e[1] > 0)
LOCAL Arcs(s) ==
  {<<Pairs4[k][1], Pairs4[k][2]>> : k \in {k \in DOMAIN s : s[k] \in {1, 3}}}
    \cup {<<Pairs4[k][2], Pairs4[k][1]>> : k \in {k \in DOMAIN s : s[k] \in {2, 3}}}
LOCAL Land(s) == {<<(k - 1) \div 2, k % 2>> : k \in {k \in DOMAIN s : s[k] % 2 = 1}}

\* s weighs the edges of a graph of four vertices, 0 for none.  In a connected
\* graph Kruskal's and Prim's programs find the least weight of a spanning tree,
\* however ties are broken; that of misc/struct, which may give up early, never
\* a greater one.
TreesLeast(s) ==
  LET edges == Marked(s)
      costs == SpanningCosts(edges, 4)
  IN  costs # {} =>
        /\ prim(edges, 4) = {Min(costs)}
        /\ \A c \in MinSpanningTreePrim(edges, 4) : c <= Min(costs)
        /\ \A sorted \in Sorted(edges) :
             kruskal(sorted, 4) = Min(costs) /\ MinSpanningTreeKruskal(sorted, 4) = Min(costs)

\* The sorted vertices are those that no cycle leads to, each behind the vertices
\* with an edge to it.
LOCAL Ordered(arcs, order) ==
  /\ \A a \in arcs : \A j \in DOMAIN order : order[j] = a[2] =>
       \E i \in 1 .. j - 1 : order[i] = a[1]
  /\ IsInjective(order)
  /\ \A v \in (0 .. 3) \ ToSet(order) : \E u \in (0 .. 3) \ ToSet(order) : <<u, v>> \in arcs

\* The programs of struct, misc/struct and leetcode/graph return what they look
\* for: least spanning trees, a topological order of all that can be ordered, the
\* most edges that two travellers can do without, the fewest cells to flood.
GraphsRight(s) ==
  Len(s) = 6 =>
    /\ TreesLeast(s)
    /\ Ordered(Arcs(s), topSort(Arcs(s), 4))
    /\ LET edges == Typed(s)
           enough == {S \in SUBSET DOMAIN edges : Fully(3, edges, S)}
       IN  maxNumEdgesToRemove(3, edges) =
             IF enough = {} THEN -1 ELSE Max({Len(edges) - Cardinality(S) : S \in enough})
    /\ minDaysIsland(Land(s)) =
         Min({Cardinality(C) : C \in {C \in SUBSET Land(s) :
                LET rest == Land(s) \ C
                IN  rest = {} \/ ~ConnectedBy(rest, {a \in rest \X rest : Near(a[1], a[2])})}})
==============================================================================
