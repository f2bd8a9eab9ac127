---------------------------- MODULE GraphKernels ----------------------------
(***************************************************************************)
(* Data-oblivious kernels of bringup-bench over graphs and images.  Six    *)
(* values of the input are the weights of the edges of an undirected graph *)
(* with four vertices; the input is also an image of two rows.             *)
(***************************************************************************)
EXTENDS Kernels

CONSTANT INF    \* INT_MAX, N and TSP_INF: greater than every path

ASSUME InfAssumption == INF \in Nat /\ INF > 4 * (MaxValue + 1)

V == 4
Vertices == 0 .. V - 1
Place == [e \in {{0, 1}, {0, 2}, {0, 3}, {1, 2}, {1, 3}, {2, 3}} |->
            CASE e = {0, 1} -> 1 [] e = {0, 2} -> 2 [] e = {0, 3} -> 3
              [] e = {1, 2} -> 4 [] e = {1, 3} -> 5 [] e = {2, 3} -> 6]
Weight(i, j) == IF i = j THEN 0 ELSE input[Place[{i, j}]]
\* The matrix with Entry(i, j) in row i, column j
Matrix(Entry(_, _)) == For(V, << >>, LAMBDA m, i :
  Append(m, For(V, << >>, LAMBDA row, j : Append(row, Entry(i, j)))))

----------------------------------------------------------------------------
\* multiply, trace and count of triangle-count
multiply(m1, m2) == Matrix(LAMBDA i, j : For(V, 0, LAMBDA t, k : t + m1[i + 1][k + 1] * m2[k + 1][j + 1]))
trace(m) == For(V, 0, LAMBDA t, i : t + m[i + 1][i + 1])
count(t) == t \div 6

TrianglesAgree ==
  LET graph == Matrix(LAMBDA i, j : IF Weight(i, j) > 0 THEN 1 ELSE 0)
  IN  count(trace(multiply(multiply(graph, graph), graph))) =
        Cardinality({S \in SUBSET Vertices : Cardinality(S) = 3 /\
                       \A i, j \in S : i # j => Weight(i, j) > 0})

\* Mutant: the intermediate vertex is chosen in the innermost loop.
floydWarshall_Inner(graph) ==
  For(V, graph, LAMBDA d1, i : For(V, d1, LAMBDA d2, j : For(V, d2, LAMBDA d, k :
    IF d[i + 1][k + 1] + d[k + 1][j + 1] < d[i + 1][j + 1]
    THEN [d EXCEPT ![i + 1][j + 1] = d[i + 1][k + 1] + d[k + 1][j + 1]] ELSE d)))

\* floydWarshall
floydWarshall(graph) ==
  For(V, graph, LAMBDA d1, k : For(V, d1, LAMBDA d2, i : For(V, d2, LAMBDA d, j :
    IF d[i + 1][k + 1] + d[k + 1][j + 1] < d[i + 1][j + 1]
    THEN [d EXCEPT ![i + 1][j + 1] = d[i + 1][k + 1] + d[k + 1][j + 1]] ELSE d)))

Length(graph, path) == For(Len(path) - 1, 0, LAMBDA t, i : t + graph[path[i + 1] + 1][path[i + 2] + 1])
Paths(S) == UNION {{p \in [1 .. n -> S] : \A a, b \in 1 .. n : p[a] = p[b] => a = b} : n \in 0 .. Cardinality(S)}

\* Weight MaxValue stands for a missing edge.
ShortestPathsAgree ==
  LET graph == Matrix(LAMBDA i, j : IF Weight(i, j) = MaxValue THEN INF ELSE Weight(i, j))
      d == floydWarshall(graph)
  IN  \A i, j \in Vertices : i # j =>
        LET best == Min({Length(graph, <<i>> \o p \o <<j>>) : p \in Paths(Vertices \ {i, j})})
        IN  d[i + 1][j + 1] = IF best < INF THEN best ELSE INF

----------------------------------------------------------------------------
\* minVal: the nearest vertex that is not yet known, or -1
minVal(dist, known) ==
  For(V, [min |-> -1, val |-> INF], LAMBDA t, i :
    IF t.val > dist[i + 1] /\ i \notin known THEN [min |-> i, val |-> dist[i + 1]] ELSE t).min

\* minSpanTree: path[j] links j to the tree; weight 0 is no edge
minSpanTree(graph) ==
  For(V, [min |-> 0, known |-> {0}, dist |-> <<0, INF, INF, INF>>, path |-> <<-1, -1, -1, -1>>],
    LAMBDA t, k :
      LET linked == {j \in Vertices \ t.known : t.min # -1 /\ graph[t.min + 1][j + 1] # 0
                                                /\ graph[t.min + 1][j + 1] < t.dist[j + 1]}
          dist == For(V, << >>, LAMBDA d, j :
                    Append(d, IF j \in linked THEN graph[t.min + 1][j + 1] ELSE t.dist[j + 1]))
          path == For(V, << >>, LAMBDA p, j : Append(p, IF j \in linked THEN t.min ELSE t.path[j + 1]))
          min == minVal(dist, t.known)
      IN  [min |-> min, known |-> t.known \cup ({min} \ {-1}), dist |-> dist, path |-> path]).path

Edges == {e \in DOMAIN Place : input[Place[e]] # 0}
Component(v, T) == For(V, {v}, LAMBDA S, k : S \cup {j \in Vertices : \E i \in S : {i, j} \in T})
Cost(T) == For(6, 0, LAMBDA t, k : t + IF \E e \in T : Place[e] = k + 1 THEN input[k + 1] ELSE 0)
Links(path) == {{j, path[j + 1]} : j \in {j \in Vertices : path[j + 1] # -1}}

\* The links are a minimum spanning tree of the first vertex's component, and
\* no vertex outside is linked.
SpanningTreeAgrees ==
  LET tree == Links(minSpanTree(Matrix(Weight)))
      around == Component(0, Edges)
      trees == {T \in SUBSET Edges : Cardinality(T) = Cardinality(around) - 1 /\ Component(0, T) = around}
  IN  tree \in trees /\ Cost(tree) = Min({Cost(T) : T \in trees})

\* "This algorithm works on graphs with multiple components that are not
\* connected" (minspan.cc:15): the links span every component.
SpansEveryComponent ==
  Len(input) = 6 =>
    LET tree == Links(minSpanTree(Matrix(Weight)))
    IN  \A v \in Vertices : Component(v, tree) = Component(v, Edges)

----------------------------------------------------------------------------
\* heldkarp_tsp: dp and parent, by the mask of visited cities and the last city
heldkarp_tsp(graph) ==
  For(2^V, << >>, LAMBDA table, mask : Append(table, For(V, << >>, LAMBDA row, end : Append(row,
    LET prev_mask == mask - 2^end
        start == [dp |-> INF, parent |-> 0]
    IN  IF Bit(mask, 1) = 0 \/ Bit(mask, 2^end) = 0 \/ (end = 0 /\ mask # 1) THEN start
        ELSE IF mask = 1 THEN [dp |-> 0, parent |-> 0]
        ELSE For(V, start, LAMBDA best, prev :
               LET cand == table[prev_mask + 1][prev + 1].dp + graph[prev + 1][end + 1]
               IN  IF Bit(prev_mask, 2^prev) = 1 /\ cand < best.dp
                   THEN [dp |-> cand, parent |-> prev] ELSE best)))))

\* The cycle main() reports, and the tour it follows back through the parents
BestCycle(graph, table) ==
  For(V - 1, [cycle |-> INF, last |-> 0], LAMBDA best, k :
    LET end == k + 1
        tour == table[2^V][end + 1].dp + graph[end + 1][1]
    IN  IF tour < best.cycle THEN [cycle |-> tour, last |-> end] ELSE best)

Tour(table, last) ==
  For(V - 1, [mask |-> 2^V - 1, cur |-> last, seen |-> << >>], LAMBDA t, step :
    [mask |-> IF Bit(t.mask, 2^t.cur) = 1 THEN t.mask - 2^t.cur ELSE t.mask + 2^t.cur,
     cur |-> table[t.mask + 1][t.cur + 1].parent,
     seen |-> Append(t.seen, t.cur)]).seen

TourAgrees ==
  LET graph == Matrix(Weight)
      table == heldkarp_tsp(graph)
      best == BestCycle(graph, table)
      tours == {p \in Paths(Vertices \ {0}) : Len(p) = V - 1}
      CycleLength(p) == Length(graph, <<0>> \o p \o <<0>>)
  IN  /\ best.cycle = Min({CycleLength(p) : p \in tours})
      /\ Tour(table, best.last) \in tours /\ CycleLength(Tour(table, best.last)) = best.cycle

----------------------------------------------------------------------------
Neighbours(v) == {u \in Vertices \ {v} : Weight(u, v) > 0}

\* init_secret_dataset: adjacency lists, the slots left over naming vertex 0
MAX_DEG == V - 1
Slots(v) ==
  LET listed == For(V, << >>, LAMBDA slots, u :
        IF u \in Neighbours(v) THEN Append(slots, [neighbor |-> u, valid |-> TRUE]) ELSE slots)
  IN  For(MAX_DEG - Len(listed), listed, LAMBDA slots, s :
        Append(slots, [neighbor |-> 0, valid |-> FALSE]))

\* The degree of a vertex: each slot scans the vertices for its neighbour.
Degree(slots, remaining) ==
  For(MAX_DEG, 0, LAMBDA degree, s :
    LET nb_active == For(V, 0, LAMBDA active, u :
          IF slots[s + 1].neighbor = u THEN IF u \in remaining THEN 1 ELSE 0 ELSE active)
    IN  degree + IF slots[s + 1].valid THEN nb_active ELSE 0)

\* kcore_decompose: in each pass the vertices of too small a degree are peeled
kcore_decompose ==
  LET graph == For(V, << >>, LAMBDA g, v : Append(g, Slots(v)))
      peeled == For(V, [remaining |-> Vertices, label |-> <<0, 0, 0, 0>>], LAMBDA t1, k :
        For(V, t1, LAMBDA t, pass :
          LET peel == {v \in t.remaining : Degree(graph[v + 1], t.remaining) < k + 1}
          IN  [remaining |-> t.remaining \ peel,
               label |-> For(V, << >>, LAMBDA l, v : Append(l, IF v \in peel THEN k ELSE t.label[v + 1]))]))
  IN  For(V, << >>, LAMBDA l, v : Append(l, IF v \in peeled.remaining THEN V ELSE peeled.label[v + 1]))

CoresAgree ==
  \A v \in Vertices :
    kcore_decompose[v + 1] = Max({k \in 0 .. V : \E S \in SUBSET Vertices :
      v \in S /\ \A u \in S : Cardinality(Neighbours(u) \cap S) >= k})

----------------------------------------------------------------------------
Columns == Len(input) \div 2
Adjacent(p, q) ==    \* the eight movements, inside the image
  LET x == p \div Columns  u == q \div Columns  y == p % Columns  w == q % Columns
  IN  p # q /\ x - u \in -1 .. 1 /\ y - w \in -1 .. 1

\* floodfill: every pixel of the new colour floods its neighbours, in place
floodfill(mat, start, replacement) ==
  LET n == Len(mat)
      target == mat[start + 1]
  IN  For(n, [mat EXCEPT ![start + 1] = replacement], LAMBDA m1, i : For(n, m1, LAMBDA m2, p :
        IF m2[p + 1] = replacement
        THEN For(n, m2, LAMBDA m, q :
               IF Adjacent(p, q) /\ m[q + 1] = target THEN [m EXCEPT ![q + 1] = replacement] ELSE m)
        ELSE m2))

\* The new colour is not in the image: others of its pixels would flood too.
FloodAgrees ==
  \A start \in 0 .. Len(input) - 1 :
    LET region == For(Len(input), {start}, LAMBDA S, k : S \cup {q \in 0 .. Len(input) - 1 :
                    input[q + 1] = input[start + 1] /\ \E p \in S : Adjacent(p, q)})
    IN  floodfill(input, start, MaxValue + 1) =
          [i \in DOMAIN input |-> IF i - 1 \in region THEN MaxValue + 1 ELSE input[i]]

\* Every graph kernel computes what it is named for, on all small graphs, in one
\* piece or not: triangles, shortest paths, a minimum spanning tree of the first
\* vertex's component, the shortest tour and its order, cores, and the region of
\* a flood.
GraphKernelsAgree ==
  /\ Len(input) = 6 =>
       /\ TrianglesAgree /\ ShortestPathsAgree /\ SpanningTreeAgrees /\ TourAgrees /\ CoresAgree
  /\ Len(input) > 0 /\ Len(input) % 2 = 0 => FloodAgrees
=============================================================================
