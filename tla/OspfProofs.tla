----------------------------- MODULE OspfProofs -----------------------------
(***************************************************************************)
(* Proofs about OSPF: neighbours that fall silent are noticed in time, a   *)
(* flood reaches every neighbour it was sent to, the pending calculations  *)
(* are bounded, and what they leave in the route table are shortest paths. *)
(* For every topology, every mask, database and neighbour table size, dead *)
(* interval and sequence of updates and faults.                            *)
(***************************************************************************)
EXTENDS Ospf, InductionLemmas, FiniteSetTheorems

(* The first of a non-empty set of slots is one of them.                   *)
LEMMA FirstIn ==
  ASSUME NEW S \in SUBSET Nat, S # {}
  PROVE  First(S) \in S /\ \A x \in S : First(S) <= x
BY NatMin DEF First

(* Entries and neighbours are told from invalid slots by their fields.     *)
LEMMA Valid == /\ \A l \in Lsa : l # Invalid
               /\ \A n \in Neighbor : n # Invalid
<1>1. ASSUME NEW l \in Lsa, l = Invalid PROVE FALSE
  <2>1. DOMAIN l = {"key", "seq"} /\ DOMAIN Invalid = {"state"}
    BY DEF Lsa, Invalid
  <2> QED BY <1>1, <2>1
<1>2. ASSUME NEW n \in Neighbor, n = Invalid PROVE FALSE
  <2>1. DOMAIN n = {"id", "iface", "state", "age"} /\ DOMAIN Invalid = {"state"}
    BY DEF Neighbor, Invalid
  <2> QED BY <1>2, <2>1
<1> QED BY <1>1, <1>2

-----------------------------------------------------------------------------
(* The types of the shortest-path calculation.                             *)

SpfGraphs == [Ids -> SUBSET (Ids \X Nat)]

SpfStates == [visited: SUBSET Ids, dist: [Ids -> 0 .. Infinity],
              hop: [Ids -> Ids \cup {None}]]

(* There is a nearest unvisited vertex while one is unvisited: of those at *)
(* the least distance the one with the lowest id.                          *)
LEMMA SelectedIn ==
  ASSUME NEW s \in SpfStates, Ids \ s.visited # {}
  PROVE  /\ Selected(s) \in Ids \ s.visited
         /\ \A w \in Ids \ (s.visited \cup {Selected(s)}) :
              \/ s.dist[Selected(s)] < s.dist[w]
              \/ s.dist[Selected(s)] = s.dist[w] /\ Selected(s) < w
<1> DEFINE U == Ids \ s.visited
           D == {s.dist[v] : v \in U}
           Near(v) == \A w \in Ids \ (s.visited \cup {v}) :
                        s.dist[v] < s.dist[w] \/ (s.dist[v] = s.dist[w] /\ v < w)
<1>1. s.dist \in [Ids -> 0 .. Infinity] /\ \A v \in Ids : s.dist[v] \in Nat
  BY IdsAssumption DEF SpfStates
<1>2. D \in SUBSET Nat /\ D # {}
  BY <1>1
<1>3. PICK d \in D : \A e \in D : d <= e
  BY <1>2, NatMin
<1> DEFINE N == {v \in U : s.dist[v] = d}
<1>4. N \in SUBSET Nat /\ N # {}
  BY <1>3, IdsAssumption
<1>5. PICK v \in N : \A w \in N : v <= w
  BY <1>4, NatMin
<1>6. v \in U /\ Near(v)
  <2> SUFFICES ASSUME NEW w \in U, w # v
               PROVE  s.dist[v] < s.dist[w] \/ (s.dist[v] = s.dist[w] /\ v < w)
    OBVIOUS
  <2>1. s.dist[v] \in Nat /\ s.dist[w] \in Nat /\ v \in Nat /\ w \in Nat
    <3>1. v \in Ids /\ w \in Ids
      OBVIOUS
    <3> QED BY <1>1, <3>1, IdsAssumption
  <2>2. s.dist[v] = d /\ d <= s.dist[w]
    BY <1>3
  <2>3. s.dist[w] = d => v <= w
    BY <1>5
  <2> QED BY <2>1, <2>2, <2>3
<1>7. Selected(s) = CHOOSE x \in U : Near(x)
  BY DEF Selected
<1>8. Selected(s) \in U /\ Near(Selected(s))
  <2> HIDE DEF U, Near
  <2> QED BY <1>6, <1>7
<1> QED BY <1>8

(* A relaxation of the edges of a vertex keeps the types.                  *)
LEMMA RelaxedType ==
  ASSUME NEW s \in SpfStates, NEW graph \in SpfGraphs, NEW root \in Ids, NEW v \in Ids
  PROVE  Relaxed(s, graph, root, v) \in SpfStates
<1> DEFINE better == {w \in Ids \ (s.visited \cup {v}) :
                        \E d \in Offers(s, graph, v, w) : d < s.dist[w]}
           dist == [w \in Ids |-> IF w \in better THEN Least(Offers(s, graph, v, w))
                                  ELSE s.dist[w]]
           hop  == [w \in Ids |-> IF w \notin better THEN s.hop[w]
                                  ELSE IF v = root THEN w ELSE s.hop[v]]
<1>1. /\ s.visited \in SUBSET Ids /\ s.dist \in [Ids -> 0 .. Infinity]
      /\ s.hop \in [Ids -> Ids \cup {None}]
      /\ Infinity \in Nat
  BY IdsAssumption DEF SpfStates
<1>2. ASSUME NEW w \in Ids, w \in better
      PROVE  Least(Offers(s, graph, v, w)) \in 0 .. Infinity
  <2> DEFINE O == Offers(s, graph, v, w)
  <2>1. O \in SUBSET Nat
    <3> SUFFICES ASSUME NEW f \in graph[v] PROVE s.dist[v] + f[2] \in Nat
      BY DEF Offers
    <3>1. f \in Ids \X Nat
      BY DEF SpfGraphs
    <3>2. f[2] \in Nat
      BY <3>1
    <3> QED BY <1>1, <3>2
  <2>2. PICK d \in O : d < s.dist[w]
    BY <1>2
  <2> HIDE DEF O
  <2>3. Least(O) \in O /\ Least(O) <= d
    BY <2>1, <2>2, NatMin DEF Least
  <2>4. s.dist[w] \in 0 .. Infinity
    BY <1>1
  <2>5. Least(O) \in 0 .. Infinity
    <3> DEFINE m == Least(O)
               e == s.dist[w]
    <3>1. m \in Nat /\ d \in Nat
      BY <2>1, <2>3
    <3>2. e \in Nat /\ e <= Infinity /\ Infinity \in Nat
      BY <2>4, IdsAssumption
    <3>3. d < e /\ m <= d
      BY <2>2, <2>3
    <3> HIDE DEF m, e
    <3>4. m \in 0 .. Infinity
      BY <3>1, <3>2, <3>3
    <3> QED BY <3>4 DEF m
  <2> QED BY <2>5 DEF O
<1> HIDE DEF better
<1>3. dist \in [Ids -> 0 .. Infinity]
  BY <1>1, <1>2
<1>4. hop \in [Ids -> Ids \cup {None}]
  BY <1>1
<1>5. Relaxed(s, graph, root, v) = [visited |-> s.visited \cup {v}, dist |-> dist, hop |-> hop]
  BY DEF Relaxed, better
<1> HIDE DEF dist, hop
<1>6. s.visited \cup {v} \in SUBSET Ids
  BY <1>1
<1> QED BY <1>3, <1>4, <1>5, <1>6 DEF SpfStates

(* A turn of the loop, and the states h that the turns lead to.            *)
SpfTurn(root, graph, s) ==
  IF \A v \in Ids \ s.visited : s.dist[v] = Infinity THEN s
  ELSE Relaxed(s, graph, root, Selected(s))

DijkstraRun(root, graph, h) ==
  /\ h[0] = SpfStart(root) /\ Dijkstra(root, graph) = h[Cardinality(Ids)]
  /\ \A n \in 1 .. Cardinality(Ids) : h[n] = SpfTurn(root, graph, h[n - 1])
  /\ \A n \in 0 .. Cardinality(Ids) : h[n] \in SpfStates

(* The loop of ospf_run_spf runs, through states of their type.            *)
LEMMA DijkstraLoop ==
  ASSUME NEW root \in Ids, NEW graph \in SpfGraphs
  PROVE  \E h : DijkstraRun(root, graph, h)
<1> DEFINE N == Cardinality(Ids)
           start == SpfStart(root)
           turn(s) == IF \A v \in Ids \ s.visited : s.dist[v] = Infinity THEN s
                      ELSE Relaxed(s, graph, root, Selected(s))
           g == [x \in (1 .. N) \X SpfStates |-> turn(x[2])]
           Run(f) == f = [n \in 0 .. N |-> IF n = 0 THEN start ELSE turn(f[n - 1])]
           h == CHOOSE f : Run(f)
<1>1. N \in Nat
  BY FS_CardinalityType, IdsAssumption
<1>2. start \in SpfStates
  BY IdsAssumption DEF SpfStart, SpfStates
<1>3. \A s \in SpfStates : turn(s) \in SpfStates
  <2> SUFFICES ASSUME NEW s \in SpfStates, ~\A v \in Ids \ s.visited : s.dist[v] = Infinity
               PROVE  Relaxed(s, graph, root, Selected(s)) \in SpfStates
    OBVIOUS
  <2>1. Selected(s) \in Ids
    BY SelectedIn
  <2> QED BY <2>1, RelaxedType
<1>4. Dijkstra(root, graph) = h[N]
  BY DEF Dijkstra
<1> HIDE DEF turn, start, N
<1>5. g \in Turns(N, SpfStates)
  BY <1>3 DEF Turns
<1> HIDE DEF g
<1>6. PICK f : LoopOf(N, SpfStates, start, g, f)
  BY <1>1, <1>2, <1>5, LoopExists, Zenon
<1>7. \A n \in 1 .. N : f[n] = turn(f[n - 1])
  <2> SUFFICES ASSUME NEW n \in 1 .. N PROVE f[n] = turn(f[n - 1])
    OBVIOUS
  <2>1. n - 1 \in 0 .. N
    BY <1>1
  <2>2. <<n, f[n - 1]>> \in (1 .. N) \X SpfStates
    BY <1>6, <2>1 DEF LoopOf
  <2> QED BY <1>6, <2>2 DEF LoopOf, g
<1>8. Run(f)
  BY <1>1, <1>6, <1>7 DEF LoopOf
<1>9. Run(h)
  BY <1>8, Zenon
<1> HIDE DEF h
<1>10. h[0] = start /\ \A n \in 1 .. N : h[n] = turn(h[n - 1])
  <2>1. 0 \in 0 .. N /\ \A n \in 1 .. N : n \in 0 .. N /\ n # 0
    BY <1>1
  <2>2. \A n \in 0 .. N : h[n] = IF n = 0 THEN start ELSE turn(h[n - 1])
    BY <1>9, Zenon
  <2> QED BY <2>1, <2>2, Zenon
<1>11. \A n \in 0 .. N : h[n] \in SpfStates
  <2>1. \A n \in 1 .. N : h[n - 1] \in SpfStates => h[n] \in SpfStates
    BY <1>3, <1>10
  <2>2. h[0] \in SpfStates
    BY <1>2, <1>10
  <2> QED BY <1>1, <2>1, <2>2, LoopInvariant
<1> QED BY <1>4, <1>10, <1>11 DEF DijkstraRun, SpfTurn, turn, start, N

(* So does what it ends with.                                              *)
LEMMA DijkstraType ==
  ASSUME NEW root \in Ids, NEW graph \in SpfGraphs
  PROVE  Dijkstra(root, graph) \in SpfStates
<1>1. PICK h : DijkstraRun(root, graph, h)
  BY DijkstraLoop
<1>2. Cardinality(Ids) \in 0 .. Cardinality(Ids)
  BY FS_CardinalityType, IdsAssumption
<1> QED BY <1>1, <1>2 DEF DijkstraRun

-----------------------------------------------------------------------------
(* Paths and what they cost.                                               *)

Joined(graph, n, p) ==
  /\ n \in Nat \ {0} /\ p \in [1 .. n -> Ids]
  /\ \A m \in 1 .. n - 1 : \E e \in graph[p[m]] : e[1] = p[m + 1]

Distinct(n, p) == \A l, m \in 1 .. n : p[l] = p[m] => l = m

(* A path is a function on 1 .. Len(p).                                    *)
LEMMA PathIs ==
  ASSUME NEW graph, NEW a, NEW b, NEW p \in Paths(graph, a, b)
  PROVE  /\ Joined(graph, Len(p), p) /\ Distinct(Len(p), p)
         /\ p[1] = a /\ p[Len(p)] = b
<1>1. PICK n \in 1 .. Cardinality(Ids) : p \in [1 .. n -> Ids]
  BY DEF Paths
<1>2. Cardinality(Ids) \in Nat
  BY FS_CardinalityType, IdsAssumption
<1>3. n \in Nat \ {0} /\ Len(p) = n /\ DOMAIN p = 1 .. n
  BY <1>1, <1>2
<1> QED BY <1>1, <1>3 DEF Paths, Joined, Distinct

(* Distinct vertices joined by edges are a path: no longer than there are  *)
(* vertices.                                                               *)
LEMMA PathMade ==
  ASSUME NEW graph, NEW n, NEW p, Joined(graph, n, p), Distinct(n, p)
  PROVE  p \in Paths(graph, p[1], p[n]) /\ Len(p) = n
<1>1. n \in Nat \ {0} /\ p \in [1 .. n -> Ids] /\ DOMAIN p = 1 .. n /\ Len(p) = n
  BY DEF Joined
<1>2. p \in Injection(1 .. n, Ids)
  BY <1>1 DEF Injection, IsInjective, Distinct
<1>3. Cardinality(1 .. n) <= Cardinality(Ids)
  BY <1>2, FS_Injection, IdsAssumption
<1>4. Cardinality(1 .. n) = n
  <2>1. 1 \in Int /\ n \in Int
    BY <1>1
  <2> QED BY <1>1, <2>1, FS_Interval
<1>5. Cardinality(Ids) \in Nat /\ n \in 1 .. Cardinality(Ids)
  BY <1>1, <1>3, <1>4, FS_CardinalityType, IdsAssumption
<1>6. p \in UNION {[1 .. m -> Ids] : m \in 1 .. Cardinality(Ids)}
  BY <1>1, <1>5
<1>7. \A m \in 1 .. n - 1 : \E e \in graph[p[m]] : e[1] = p[m + 1]
  BY DEF Joined
<1> QED BY <1>1, <1>6, <1>7 DEF Paths, Distinct

(* The cost of an edge is that of the cheapest of several links.           *)
LEMMA EdgeCostIs ==
  ASSUME NEW graph \in SpfGraphs, NEW v \in Ids, NEW w, \E e \in graph[v] : e[1] = w
  PROVE  /\ EdgeCost(graph, v, w) \in Nat
         /\ \E e \in graph[v] : e[1] = w /\ e[2] = EdgeCost(graph, v, w)
         /\ \A e \in graph[v] : e[1] = w => EdgeCost(graph, v, w) <= e[2]
<1> DEFINE S == {e[2] : e \in {f \in graph[v] : f[1] = w}}
<1>1. graph[v] \subseteq Ids \X Nat
  BY DEF SpfGraphs
<1>2. S \in SUBSET Nat /\ S # {}
  BY <1>1
<1>3. \E x \in S : \A y \in S : x <= y
  BY <1>2, NatMin
<1>4. Least(S) \in S /\ \A y \in S : Least(S) <= y
  BY <1>3 DEF Least
<1>5. EdgeCost(graph, v, w) = Least(S)
  BY DEF EdgeCost
<1> QED BY <1>2, <1>4, <1>5

(* The costs of the beginnings of a path add up along it.                  *)
LEMMA CostsAdd ==
  ASSUME NEW graph \in SpfGraphs, NEW n, NEW p, Joined(graph, n, p)
  PROVE  /\ \A m \in 0 .. n - 1 : Costs(graph, p)[m] \in Nat
         /\ Costs(graph, p)[0] = 0
         /\ \A m \in 1 .. n - 1 :
              Costs(graph, p)[m] = Costs(graph, p)[m - 1] + EdgeCost(graph, p[m], p[m + 1])
<1> DEFINE L == n - 1
           price(m) == EdgeCost(graph, p[m], p[m + 1])
           g == [x \in (1 .. L) \X Nat |-> x[2] + price(x[1])]
           Run(f) == f = [m \in 0 .. L |-> IF m = 0 THEN 0 ELSE f[m - 1] + price(m)]
           h == CHOOSE f : Run(f)
<1>1. n \in Nat \ {0} /\ p \in [1 .. n -> Ids] /\ L \in Nat /\ Len(p) = n
  BY DEF Joined
<1>2. \A m \in 1 .. L : price(m) \in Nat
  <2> SUFFICES ASSUME NEW m \in 1 .. L PROVE price(m) \in Nat
    OBVIOUS
  <2>1. p[m] \in Ids /\ \E e \in graph[p[m]] : e[1] = p[m + 1]
    BY <1>1 DEF Joined
  <2> QED BY <2>1, EdgeCostIs
<1>3. Costs(graph, p) = h
  BY <1>1 DEF Costs
<1> HIDE DEF price, L
<1>4. g \in Turns(L, Nat)
  BY <1>2 DEF Turns
<1> HIDE DEF g
<1>5. PICK f : LoopOf(L, Nat, 0, g, f)
  <2>1. 0 \in Nat
    OBVIOUS
  <2> QED BY <1>1, <1>4, <2>1, LoopExists, Zenon
<1>6. \A m \in 1 .. L : f[m] = f[m - 1] + price(m)
  <2> SUFFICES ASSUME NEW m \in 1 .. L PROVE f[m] = f[m - 1] + price(m)
    OBVIOUS
  <2>1. m - 1 \in 0 .. L
    BY <1>1
  <2>2. <<m, f[m - 1]>> \in (1 .. L) \X Nat
    BY <1>5, <2>1 DEF LoopOf
  <2> QED BY <1>5, <2>2 DEF LoopOf, g
<1>7. Run(f)
  BY <1>1, <1>5, <1>6 DEF LoopOf
<1>8. Run(h)
  BY <1>7, Zenon
<1> HIDE DEF h
<1>9. h[0] = 0 /\ \A m \in 1 .. L : h[m] = h[m - 1] + price(m)
  <2>1. 0 \in 0 .. L /\ \A m \in 1 .. L : m \in 0 .. L /\ m # 0
    BY <1>1
  <2>2. \A m \in 0 .. L : h[m] = IF m = 0 THEN 0 ELSE h[m - 1] + price(m)
    BY <1>8, Zenon
  <2> QED BY <2>1, <2>2, Zenon
<1>10. \A m \in 0 .. L : h[m] \in Nat
  <2>1. \A m \in 1 .. L : h[m - 1] \in Nat => h[m] \in Nat
    BY <1>2, <1>9
  <2>2. h[0] \in Nat
    BY <1>9
  <2> QED BY <1>1, <2>1, <2>2, LoopInvariant
<1> QED BY <1>3, <1>9, <1>10 DEF price, L

(* q, of k vertices, is a beginning of p, of n vertices.                   *)
Begins(graph, k, q, n, p) ==
  Joined(graph, k, q) /\ Joined(graph, n, p) /\ k <= n /\ \A m \in 1 .. k : q[m] = p[m]

(* What a beginning costs does not depend on how the path goes on.         *)
LEMMA CostsAgree ==
  ASSUME NEW graph \in SpfGraphs, NEW n, NEW p, NEW k, NEW q, Begins(graph, k, q, n, p)
  PROVE  \A m \in 0 .. k - 1 : Costs(graph, q)[m] = Costs(graph, p)[m]
<1> DEFINE P == {m \in 0 .. k - 1 : Costs(graph, q)[m] = Costs(graph, p)[m]}
<1> USE DEF Begins
<1>1. k \in Nat \ {0} /\ n \in Nat \ {0} /\ k - 1 \in Nat
  BY DEF Joined
<1>2. 0 \in P
  BY <1>1, CostsAdd
<1>3. ASSUME NEW m \in 1 .. k - 1, m - 1 \in P PROVE m \in P
  <2>1. m \in 1 .. n - 1 /\ m \in 1 .. k /\ m + 1 \in 1 .. k /\ m \in 0 .. k - 1
    BY <1>1
  <2>2. Costs(graph, q)[m] = Costs(graph, q)[m - 1] + EdgeCost(graph, q[m], q[m + 1])
    BY CostsAdd
  <2>3. Costs(graph, p)[m] = Costs(graph, p)[m - 1] + EdgeCost(graph, p[m], p[m + 1])
    BY <2>1, CostsAdd
  <2> QED BY <1>3, <2>1, <2>2, <2>3
<1> HIDE DEF P
<1>4. \A m \in 0 .. k - 1 : m \in P
  BY <1>1, <1>2, <1>3, UpTo
<1> QED BY <1>4 DEF P

(* A path costs no less than its beginnings.                               *)
LEMMA CostsRise ==
  ASSUME NEW graph \in SpfGraphs, NEW n, NEW p, Joined(graph, n, p), NEW k \in 0 .. n - 1
  PROVE  Costs(graph, p)[k] <= Costs(graph, p)[n - 1]
<1> DEFINE P == {m \in 0 .. n - 1 : m < k \/ Costs(graph, p)[k] <= Costs(graph, p)[m]}
<1>1. n - 1 \in Nat /\ n \in Nat \ {0} /\ p \in [1 .. n -> Ids]
  BY DEF Joined
<1>2. \A m \in 0 .. n - 1 : Costs(graph, p)[m] \in Nat
  BY CostsAdd
<1>3. 0 \in P
  BY <1>1, <1>2
<1>4. ASSUME NEW m \in 1 .. n - 1, m - 1 \in P PROVE m \in P
  <2>1. Costs(graph, p)[m] = Costs(graph, p)[m - 1] + EdgeCost(graph, p[m], p[m + 1])
    BY CostsAdd
  <2>2. p[m] \in Ids /\ \E e \in graph[p[m]] : e[1] = p[m + 1]
    BY <1>1 DEF Joined
  <2>3. EdgeCost(graph, p[m], p[m + 1]) \in Nat
    BY <2>2, EdgeCostIs
  <2>4. m \in 0 .. n - 1 /\ m - 1 \in 0 .. n - 1
    BY <1>1
  <2> QED BY <1>2, <1>4, <2>1, <2>3, <2>4
<1> HIDE DEF P
<1>5. \A m \in 0 .. n - 1 : m \in P
  BY <1>1, <1>3, <1>4, UpTo
<1>6. n - 1 \in P
  BY <1>1, <1>5
<1> QED BY <1>1, <1>2, <1>6 DEF P

-----------------------------------------------------------------------------
(* Dijkstra's loop.                                                        *)

(* The invariant of the loop.  Every distance found is that of a path over *)
(* visited vertices, whose second vertex is the hop; no path to a visited  *)
(* vertex is shorter; and the edges out of the visited vertices have been  *)
(* taken into account.                                                     *)
Along(graph, root, s, v, p) ==
  /\ p \in Paths(graph, root, v) /\ PathCost(graph, p) = s.dist[v]
  /\ \A m \in 1 .. Len(p) - 1 : p[m] \in s.visited
  /\ v # root => p[2] = s.hop[v]

Reached(graph, root, s) ==
  \A v \in Ids : s.dist[v] # Infinity => \E p : Along(graph, root, s, v, p)

Minimal(graph, root, s) ==
  \A v \in s.visited : /\ s.dist[v] # Infinity
                       /\ \A p \in Paths(graph, root, v) : s.dist[v] <= PathCost(graph, p)

Considered(graph, s) ==
  \A v \in s.visited : \A e \in graph[v] :
    e[1] \notin s.visited /\ s.dist[v] + e[2] < Infinity => s.dist[e[1]] <= s.dist[v] + e[2]

Rooted(root, s) ==
  /\ s.dist[root] = 0
  /\ root \in s.visited \/ (s.visited = {} /\ \A v \in Ids \ {root} : s.dist[v] = Infinity)

SpfInv(graph, root, s) ==
  /\ s \in SpfStates /\ Rooted(root, s)
  /\ Reached(graph, root, s) /\ Minimal(graph, root, s) /\ Considered(graph, s)

(* The path of one vertex.                                                 *)
LEMMA RootPath ==
  ASSUME NEW graph \in SpfGraphs, NEW root \in Ids
  PROVE  /\ <<root>> \in Paths(graph, root, root) /\ PathCost(graph, <<root>>) = 0
         /\ \A p \in Paths(graph, root, root) : Len(p) = 1
<1>1. Joined(graph, 1, <<root>>) /\ Distinct(1, <<root>>)
  BY DEF Joined, Distinct
<1>2. <<root>> \in Paths(graph, root, root) /\ Len(<<root>>) = 1
  BY <1>1, PathMade
<1>3. Costs(graph, <<root>>)[0] = 0
  BY <1>1, CostsAdd
<1>4. ASSUME NEW p \in Paths(graph, root, root) PROVE Len(p) = 1
  <2>1. Joined(graph, Len(p), p) /\ Distinct(Len(p), p) /\ p[1] = root /\ p[Len(p)] = root
    BY PathIs
  <2>2. Len(p) \in Nat \ {0}
    BY <2>1 DEF Joined
  <2>3. 1 \in 1 .. Len(p) /\ Len(p) \in 1 .. Len(p) /\ p[1] = p[Len(p)]
    BY <2>1, <2>2
  <2> QED BY <2>1, <2>3 DEF Distinct
<1> QED BY <1>2, <1>3, <1>4 DEF PathCost

(* A path that goes one edge further, to a vertex it has not met.          *)
LEMMA LongerPath ==
  ASSUME NEW graph \in SpfGraphs, NEW a, NEW v \in Ids, NEW w \in Ids, NEW p \in Paths(graph, a, v),
         \E e \in graph[v] : e[1] = w, \A m \in 1 .. Len(p) : p[m] # w
  PROVE  /\ Append(p, w) \in Paths(graph, a, w) /\ Len(Append(p, w)) = Len(p) + 1
         /\ \A m \in 1 .. Len(p) : Append(p, w)[m] = p[m]
         /\ PathCost(graph, Append(p, w)) = PathCost(graph, p) + EdgeCost(graph, v, w)
<1> DEFINE n == Len(p)
           q == Append(p, w)
<1>1. Joined(graph, n, p) /\ Distinct(n, p) /\ p[1] = a /\ p[n] = v
  BY PathIs
<1>2. n \in Nat \ {0} /\ p \in [1 .. n -> Ids] /\ p \in Seq(Ids)
  <2>1. n \in Nat \ {0} /\ p \in [1 .. n -> Ids]
    BY <1>1 DEF Joined
  <2> QED BY <2>1
<1>3. /\ q \in [1 .. n + 1 -> Ids] /\ Len(q) = n + 1 /\ q[n + 1] = w
      /\ \A m \in 1 .. n : q[m] = p[m]
  <2>1. q \in Seq(Ids) /\ Len(q) = n + 1 /\ q[n + 1] = w /\ \A m \in 1 .. n : q[m] = p[m]
    BY <1>2
  <2>2. \A x \in Seq(Ids) : x \in [1 .. Len(x) -> Ids]
    OBVIOUS
  <2> HIDE DEF q
  <2> QED BY <2>1, <2>2
<1> HIDE DEF n, q
<1>4. \A m \in 1 .. n + 1 : m \in 1 .. n \/ m = n + 1
  BY <1>2
<1>5. Distinct(n + 1, q)
  BY <1>1, <1>3, <1>4 DEF Distinct, n
<1>6. Joined(graph, n + 1, q)
  <2> SUFFICES ASSUME NEW m \in 1 .. n PROVE \E e \in graph[q[m]] : e[1] = q[m + 1]
    BY <1>2, <1>3 DEF Joined
  <2>1. CASE m = n
    BY <1>1, <1>2, <1>3, <2>1
  <2>2. CASE m # n
    <3>1. m \in 1 .. n - 1 /\ m + 1 \in 1 .. n
      BY <1>2, <2>2
    <3> QED BY <1>1, <1>3, <3>1 DEF Joined
  <2> QED BY <2>1, <2>2
<1>7. q \in Paths(graph, a, w)
  <2>1. q[1] = a /\ q[n + 1] = w
    BY <1>1, <1>2, <1>3
  <2> QED BY <1>5, <1>6, <2>1, PathMade
<1>8. n <= n + 1 /\ \A m \in 1 .. n : p[m] = q[m]
  BY <1>2, <1>3
<1>9. \A m \in 0 .. n - 1 : Costs(graph, p)[m] = Costs(graph, q)[m]
  <2>1. Begins(graph, n, p, n + 1, q)
    BY <1>1, <1>6, <1>8 DEF Begins
  <2> QED BY <2>1, CostsAgree
<1>10. n \in 1 .. (n + 1) - 1 /\ n - 1 \in 0 .. n - 1 /\ (n + 1) - 1 = n
  BY <1>2
<1>11. Costs(graph, q)[n] = Costs(graph, q)[n - 1] + EdgeCost(graph, q[n], q[n + 1])
  BY <1>6, <1>10, CostsAdd
<1>12. q[n] = v /\ q[n + 1] = w
  BY <1>1, <1>2, <1>3
<1>13. PathCost(graph, q) = Costs(graph, q)[n] /\ PathCost(graph, p) = Costs(graph, p)[n - 1]
  BY <1>3, <1>10 DEF PathCost, n
<1>14. PathCost(graph, q) = PathCost(graph, p) + EdgeCost(graph, v, w)
  BY <1>9, <1>10, <1>11, <1>12, <1>13
<1> QED BY <1>3, <1>7, <1>14 DEF n, q

(* A path that leaves the visited vertices costs no less than the nearest  *)
(* of the others is away: the vertex it leaves them by has its distance,   *)
(* and the edge it leaves them by was taken into account.                  *)
LEMMA LeavingCosts ==
  ASSUME NEW graph \in SpfGraphs, NEW root \in Ids, NEW s \in SpfStates, root \in s.visited,
         Minimal(graph, root, s), Considered(graph, s),
         NEW M \in 0 .. Infinity, \A w \in Ids \ s.visited : M <= s.dist[w],
         NEW b, b \notin s.visited, NEW p \in Paths(graph, root, b)
  PROVE  M <= PathCost(graph, p)
<1> DEFINE n == Len(p)
           T == {m \in 1 .. n : p[m] \notin s.visited}
<1>1. Joined(graph, n, p) /\ Distinct(n, p) /\ p[1] = root /\ p[n] = b
  BY PathIs
<1>2. n \in Nat \ {0} /\ p \in [1 .. n -> Ids]
  BY <1>1 DEF Joined
<1>3. T \in SUBSET Nat /\ n \in T
  BY <1>1, <1>2
<1>4. PICK k \in T : \A m \in T : k <= m
  <2>1. T # {}
    BY <1>3
  <2> QED BY <1>3, <2>1, NatMin
<1>5. k \in 2 .. n /\ p[k] \notin s.visited /\ p[k] \in Ids
  BY <1>1, <1>2
<1>6. k - 1 \in 1 .. n /\ k - 1 \in 1 .. n - 1 /\ (k - 1) + 1 = k /\ k - 1 \in Nat \ {0} /\ k - 1 < k
  BY <1>2, <1>5
<1>7. p[k - 1] \in s.visited
  BY <1>4, <1>6
<1> HIDE DEF n, T
<1> DEFINE l == k - 1
           q == [m \in 1 .. l |-> p[m]]
           u == p[l]
           w == p[k]
<1>8. l \in Nat \ {0} /\ l <= n /\ l \in 1 .. n - 1 /\ l + 1 = k /\ u \in s.visited /\ u \in Ids
  BY <1>2, <1>6, <1>7
<1> HIDE DEF l
<1>9. q \in [1 .. l -> Ids] /\ \A m \in 1 .. l : q[m] = p[m]
  BY <1>2, <1>8
<1> HIDE DEF q
<1>10. \A m \in 1 .. l : m \in 1 .. n
  BY <1>2, <1>8
<1>11. Distinct(l, q)
  BY <1>1, <1>9, <1>10 DEF Distinct
<1>12. Joined(graph, l, q)
  <2> SUFFICES ASSUME NEW m \in 1 .. l - 1 PROVE \E e \in graph[q[m]] : e[1] = q[m + 1]
    BY <1>8, <1>9 DEF Joined
  <2>1. m \in 1 .. l /\ m + 1 \in 1 .. l /\ m \in 1 .. n - 1
    BY <1>2, <1>8
  <2> QED BY <1>1, <1>9, <2>1 DEF Joined
<1>13. q \in Paths(graph, root, u) /\ Len(q) = l
  <2>1. q[1] = root /\ q[l] = u
    BY <1>1, <1>8, <1>9
  <2> QED BY <1>11, <1>12, <2>1, PathMade
<1>14. s.dist[u] <= PathCost(graph, q)
  BY <1>8, <1>13 DEF Minimal
<1>15. PathCost(graph, q) = Costs(graph, p)[l - 1]
  <2>1. \A m \in 0 .. l - 1 : Costs(graph, q)[m] = Costs(graph, p)[m]
    <3>1. Begins(graph, l, q, n, p)
      BY <1>1, <1>8, <1>9, <1>12 DEF Begins
    <3> QED BY <3>1, CostsAgree
  <2>2. l - 1 \in 0 .. l - 1
    BY <1>8
  <2> QED BY <1>13, <2>1, <2>2 DEF PathCost
<1>16. Costs(graph, p)[l] = Costs(graph, p)[l - 1] + EdgeCost(graph, u, w)
  BY <1>1, <1>8, CostsAdd
<1>17. PICK e \in graph[u] : e[1] = w /\ e[2] = EdgeCost(graph, u, w)
  <2>1. \E f \in graph[u] : f[1] = w
    BY <1>1, <1>8 DEF Joined
  <2> QED BY <1>8, <2>1, EdgeCostIs
<1>18. Costs(graph, p)[l] <= PathCost(graph, p)
  <2>1. l \in 0 .. n - 1
    BY <1>8
  <2> QED BY <1>1, <2>1, CostsRise DEF PathCost, n
<1>19. s.dist[u] + e[2] < Infinity => s.dist[w] <= s.dist[u] + e[2]
  BY <1>5, <1>8, <1>17 DEF Considered
<1>20. M <= s.dist[w]
  BY <1>5
<1>21. /\ s.dist[u] \in Nat /\ s.dist[w] \in Nat /\ e[2] \in Nat /\ M \in Nat /\ M <= Infinity
       /\ Infinity \in Nat /\ Costs(graph, p)[l - 1] \in Nat /\ Costs(graph, p)[l] \in Nat
       /\ PathCost(graph, p) \in Nat
  <2>1. s.dist[u] \in 0 .. Infinity /\ s.dist[w] \in 0 .. Infinity
    BY <1>5, <1>8 DEF SpfStates
  <2>2. graph[u] \subseteq Ids \X Nat
    BY <1>8 DEF SpfGraphs
  <2>3. l - 1 \in 0 .. n - 1 /\ l \in 0 .. n - 1 /\ n - 1 \in 0 .. n - 1
    BY <1>2, <1>8
  <2>4. \A m \in 0 .. n - 1 : Costs(graph, p)[m] \in Nat
    BY <1>1, CostsAdd
  <2>5. PathCost(graph, p) \in Nat
    BY <2>3, <2>4 DEF PathCost, n
  <2> QED BY <2>1, <2>2, <2>3, <2>4, <2>5, IdsAssumption
<1>22. s.dist[u] + e[2] <= PathCost(graph, p)
  BY <1>14, <1>15, <1>16, <1>17, <1>18, <1>21
<1> QED BY <1>19, <1>20, <1>21, <1>22

(* The cost of a path is a number.                                         *)
LEMMA PathCostNat ==
  ASSUME NEW graph \in SpfGraphs, NEW a, NEW b, NEW p \in Paths(graph, a, b)
  PROVE  PathCost(graph, p) \in Nat
<1>1. Joined(graph, Len(p), p)
  BY PathIs
<1>2. Len(p) - 1 \in 0 .. Len(p) - 1
  BY <1>1 DEF Joined
<1> QED BY <1>1, <1>2, CostsAdd DEF PathCost

(* Before the first turn only the root has been reached.                   *)
LEMMA StartInv ==
  ASSUME NEW graph \in SpfGraphs, NEW root \in Ids
  PROVE  SpfInv(graph, root, SpfStart(root))
<1> DEFINE s == SpfStart(root)
<1>1. /\ s.visited = {} /\ s.dist = [v \in Ids |-> IF v = root THEN 0 ELSE Infinity]
      /\ s.hop = [v \in Ids |-> None] /\ s \in SpfStates
  BY IdsAssumption DEF SpfStart, SpfStates
<1> HIDE DEF s
<1>2. Rooted(root, s)
  BY <1>1 DEF Rooted
<1>3. Reached(graph, root, s)
  <2> SUFFICES ASSUME NEW v \in Ids, s.dist[v] # Infinity
               PROVE  \E p : Along(graph, root, s, v, p)
    BY DEF Reached
  <2>1. v = root /\ s.dist[v] = 0
    BY <1>1
  <2>2. Len(<<root>>) = 1 /\ 1 .. 1 - 1 = {}
    OBVIOUS
  <2>3. Along(graph, root, s, v, <<root>>)
    BY <2>1, <2>2, RootPath DEF Along
  <2> QED BY <2>3
<1>4. Minimal(graph, root, s) /\ Considered(graph, s)
  BY <1>1 DEF Minimal, Considered
<1> QED BY <1>1, <1>2, <1>3, <1>4 DEF SpfInv, s

Better(s, graph, v) ==
  {w \in Ids \ (s.visited \cup {v}) : \E d \in Offers(s, graph, v, w) : d < s.dist[w]}

(* What the relaxation of v's edges changes.                               *)
LEMMA RelaxedIs ==
  ASSUME NEW graph \in SpfGraphs, NEW root \in Ids, NEW s \in SpfStates,
         NEW v \in Ids \ s.visited, s.dist[v] # Infinity
  PROVE  LET t == Relaxed(s, graph, root, v)
             B == Better(s, graph, v)
         IN  /\ t.visited = s.visited \cup {v}
             /\ \A w \in B :
                  /\ w \in Ids \ t.visited /\ (\E e \in graph[v] : e[1] = w)
                  /\ t.dist[w] = s.dist[v] + EdgeCost(graph, v, w)
                  /\ t.hop[w] = IF v = root THEN w ELSE s.hop[v]
             /\ \A w \in Ids \ B : t.dist[w] = s.dist[w] /\ t.hop[w] = s.hop[w]
             /\ \A w \in Ids : t.dist[w] <= s.dist[w]
             /\ \A e \in graph[v] : e[1] \notin t.visited /\ s.dist[v] + e[2] < Infinity =>
                  t.dist[e[1]] <= s.dist[v] + e[2]
<1> DEFINE t == Relaxed(s, graph, root, v)
           B == Better(s, graph, v)
           O(w) == Offers(s, graph, v, w)
<1>1. /\ t.visited = s.visited \cup {v}
      /\ \A w \in Ids : t.dist[w] = IF w \in B THEN Least(O(w)) ELSE s.dist[w]
      /\ \A w \in Ids : t.hop[w] = IF w \notin B THEN s.hop[w]
                                   ELSE IF v = root THEN w ELSE s.hop[v]
  BY DEF Relaxed, Better
<1>2. \A w \in B : w \in Ids /\ w \notin s.visited /\ w # v
  BY DEF Better
<1>3. graph[v] \subseteq Ids \X Nat /\ s.dist[v] \in Nat /\ Infinity \in Nat
      /\ \A w \in Ids : s.dist[w] \in Nat
  BY IdsAssumption DEF SpfGraphs, SpfStates
<1>4. \A w, d : d \in O(w) <=>
        \E e \in graph[v] : e[1] = w /\ s.dist[v] + e[2] < Infinity /\ d = s.dist[v] + e[2]
  <2> SUFFICES ASSUME NEW w, NEW d
               PROVE  d \in O(w) <=>
                 \E e \in graph[v] : e[1] = w /\ s.dist[v] + e[2] < Infinity /\ d = s.dist[v] + e[2]
    OBVIOUS
  <2>1. \A e \in graph[v] : s.dist[v] < Infinity - e[2] <=> s.dist[v] + e[2] < Infinity
    BY <1>3
  <2> QED BY <2>1 DEF Offers
<1> HIDE DEF t, B, O
<1>5. \A w \in Ids : O(w) \in SUBSET Nat /\
        (O(w) # {} => Least(O(w)) \in O(w) /\ \A d \in O(w) : Least(O(w)) <= d)
  <2> SUFFICES ASSUME NEW w \in Ids
               PROVE  O(w) \in SUBSET Nat /\
                 (O(w) # {} => Least(O(w)) \in O(w) /\ \A d \in O(w) : Least(O(w)) <= d)
    OBVIOUS
  <2>1. O(w) \in SUBSET Nat
    BY <1>3, <1>4
  <2>2. O(w) # {} => \E x \in O(w) : \A y \in O(w) : x <= y
    BY <2>1, NatMin
  <2> QED BY <2>1, <2>2 DEF Least
<1>6. \A w \in B : O(w) # {} /\ \E d \in O(w) : d < s.dist[w]
  BY DEF Better, B, O
<1>7. ASSUME NEW w \in B
      PROVE  /\ \E e \in graph[v] : e[1] = w
             /\ Least(O(w)) = s.dist[v] + EdgeCost(graph, v, w)
  <2>1. PICK d \in O(w) : d = Least(O(w))
    BY <1>2, <1>5, <1>6
  <2>2. PICK e \in graph[v] : e[1] = w /\ s.dist[v] + e[2] < Infinity /\ d = s.dist[v] + e[2]
    BY <1>4
  <2>3. /\ EdgeCost(graph, v, w) \in Nat /\ EdgeCost(graph, v, w) <= e[2]
        /\ \E f \in graph[v] : f[1] = w /\ f[2] = EdgeCost(graph, v, w)
    BY <2>2, EdgeCostIs
  <2>4. PICK f \in graph[v] : f[1] = w /\ f[2] = EdgeCost(graph, v, w)
    BY <2>3
  <2>5. e[2] \in Nat /\ f[2] \in Nat
    BY <1>3
  <2>6. s.dist[v] + f[2] \in O(w)
    <3>1. s.dist[v] + f[2] < Infinity
      BY <1>3, <2>2, <2>3, <2>4, <2>5
    <3> QED BY <1>4, <2>4, <3>1
  <2>7. Least(O(w)) <= s.dist[v] + f[2]
    BY <1>2, <1>5, <1>6, <2>6
  <2> QED BY <1>3, <2>1, <2>2, <2>3, <2>4, <2>5, <2>7
<1>8. ASSUME NEW w \in Ids PROVE t.dist[w] <= s.dist[w]
  <2>1. CASE w \in B
    <3>1. PICK d \in O(w) : d < s.dist[w]
      BY <1>6, <2>1
    <3>2. Least(O(w)) <= d /\ Least(O(w)) \in Nat /\ d \in Nat /\ s.dist[w] \in Nat
      BY <1>3, <1>5
    <3> QED BY <1>1, <2>1, <3>1, <3>2
  <2>2. CASE w \notin B
    BY <1>1, <1>3, <2>2
  <2> QED BY <2>1, <2>2
<1>9. ASSUME NEW e \in graph[v], e[1] \notin t.visited, s.dist[v] + e[2] < Infinity
      PROVE  t.dist[e[1]] <= s.dist[v] + e[2]
  <2>1. e[1] \in Ids \ (s.visited \cup {v}) /\ e[2] \in Nat
    BY <1>1, <1>3, <1>9
  <2>2. s.dist[v] + e[2] \in O(e[1])
    BY <1>4, <1>9
  <2>3. CASE e[1] \in B
    BY <1>1, <1>5, <2>1, <2>2, <2>3
  <2>4. CASE e[1] \notin B
    <3>1. ~(s.dist[v] + e[2] < s.dist[e[1]])
      BY <2>1, <2>2, <2>4 DEF Better, B, O
    <3>2. t.dist[e[1]] = s.dist[e[1]]
      BY <1>1, <2>1, <2>4
    <3> QED BY <1>3, <2>1, <3>1, <3>2
  <2> QED BY <2>3, <2>4
<1>10. \A w \in B :
         /\ w \in Ids \ t.visited /\ (\E e \in graph[v] : e[1] = w)
         /\ t.dist[w] = s.dist[v] + EdgeCost(graph, v, w)
         /\ t.hop[w] = IF v = root THEN w ELSE s.hop[v]
  BY <1>1, <1>2, <1>7
<1>11. \A w \in Ids \ B : t.dist[w] = s.dist[w] /\ t.hop[w] = s.hop[w]
  BY <1>1
<1> QED BY <1>1, <1>8, <1>9, <1>10, <1>11 DEF t, B

(* A turn of the loop keeps the invariant: no path to the nearest vertex   *)
(* is shorter than the one found.                                          *)
LEMMA RelaxedInv ==
  ASSUME NEW graph \in SpfGraphs, NEW root \in Ids, NEW s, SpfInv(graph, root, s),
         NEW v \in Ids \ s.visited, s.dist[v] # Infinity,
         \A w \in Ids \ s.visited : s.dist[v] <= s.dist[w]
  PROVE  SpfInv(graph, root, Relaxed(s, graph, root, v))
<1> DEFINE t == Relaxed(s, graph, root, v)
           B == Better(s, graph, v)
<1>1. /\ s \in SpfStates /\ Rooted(root, s) /\ Reached(graph, root, s)
      /\ Minimal(graph, root, s) /\ Considered(graph, s)
  BY DEF SpfInv
<1>2. t \in SpfStates
  BY <1>1, RelaxedType
<1>3. t.visited = s.visited \cup {v}
  BY <1>1, RelaxedIs
<1>4. \A w \in B :
        /\ w \in Ids \ t.visited /\ (\E e \in graph[v] : e[1] = w)
        /\ t.dist[w] = s.dist[v] + EdgeCost(graph, v, w)
        /\ t.hop[w] = IF v = root THEN w ELSE s.hop[v]
  BY <1>1, RelaxedIs
<1>5. \A w \in Ids \ B : t.dist[w] = s.dist[w] /\ t.hop[w] = s.hop[w]
  BY <1>1, RelaxedIs
<1>6. /\ \A w \in Ids : t.dist[w] <= s.dist[w]
      /\ \A e \in graph[v] : e[1] \notin t.visited /\ s.dist[v] + e[2] < Infinity =>
           t.dist[e[1]] <= s.dist[v] + e[2]
  BY <1>1, RelaxedIs
<1> HIDE DEF t, B
<1>7. t.visited \subseteq Ids /\ \A u \in t.visited : t.dist[u] = s.dist[u]
  <2>1. s.visited \subseteq Ids
    BY <1>1 DEF SpfStates
  <2> QED BY <1>3, <1>4, <1>5, <2>1
<1>8. \A w \in Ids : s.dist[w] \in 0 .. Infinity /\ t.dist[w] \in 0 .. Infinity
  BY <1>1, <1>2 DEF SpfStates
<1>9. root \in s.visited \/ v = root
  BY <1>1 DEF Rooted
<1>10. Rooted(root, t)
  BY <1>1, <1>3, <1>7, <1>9 DEF Rooted
<1>11. ASSUME NEW w \in B PROVE \E p : Along(graph, root, t, w, p)
  <2>1. PICK p : Along(graph, root, s, v, p)
    BY <1>1 DEF Reached
  <2>2. /\ p \in Paths(graph, root, v) /\ PathCost(graph, p) = s.dist[v]
        /\ \A m \in 1 .. Len(p) - 1 : p[m] \in s.visited
        /\ v # root => p[2] = s.hop[v]
    BY <2>1 DEF Along
  <2>3. p[1] = root /\ p[Len(p)] = v /\ Len(p) \in Nat \ {0}
    BY <2>2, PathIs DEF Joined
  <2>4. \A m \in 1 .. Len(p) : p[m] \in t.visited
    <3>1. \A m \in 1 .. Len(p) : m \in 1 .. Len(p) - 1 \/ m = Len(p)
      BY <2>3
    <3> QED BY <1>3, <2>2, <2>3, <3>1
  <2>5. w \in Ids /\ w \notin t.visited /\ \E e \in graph[v] : e[1] = w
    BY <1>4
  <2>6. \A m \in 1 .. Len(p) : p[m] # w
    BY <2>4, <2>5
  <2> DEFINE q == Append(p, w)
  <2>7. /\ q \in Paths(graph, root, w) /\ Len(q) = Len(p) + 1
        /\ \A m \in 1 .. Len(p) : q[m] = p[m]
        /\ PathCost(graph, q) = PathCost(graph, p) + EdgeCost(graph, v, w)
    BY <2>2, <2>5, <2>6, LongerPath
  <2> HIDE DEF q
  <2>8. PathCost(graph, q) = t.dist[w]
    BY <1>4, <2>2, <2>7
  <2>9. \A m \in 1 .. Len(q) - 1 : q[m] \in t.visited
    BY <2>3, <2>4, <2>7
  <2>10. q[2] = t.hop[w]
    <3>1. q[Len(q)] = w
      BY <2>7, PathIs
    <3>2. CASE v = root
      <4>1. Len(p) = 1
        BY <2>2, <3>2, RootPath
      <4> QED BY <1>4, <2>7, <3>1, <3>2, <4>1
    <3>3. CASE v # root
      <4>1. 2 \in 1 .. Len(p)
        BY <2>3, <3>3
      <4> QED BY <1>4, <2>2, <2>7, <3>3, <4>1
    <3> QED BY <3>2, <3>3
  <2>11. Along(graph, root, t, w, q)
    BY <2>7, <2>8, <2>9, <2>10 DEF Along
  <2> QED BY <2>11
<1>12. Reached(graph, root, t)
  <2> SUFFICES ASSUME NEW w \in Ids, t.dist[w] # Infinity, w \notin B
               PROVE  \E p : Along(graph, root, t, w, p)
    BY <1>11 DEF Reached
  <2>1. t.dist[w] = s.dist[w] /\ t.hop[w] = s.hop[w]
    BY <1>5
  <2>2. PICK p : Along(graph, root, s, w, p)
    BY <1>1, <2>1 DEF Reached
  <2>3. Along(graph, root, t, w, p)
    BY <1>3, <2>1, <2>2 DEF Along
  <2> QED BY <2>3
<1>13. Minimal(graph, root, t)
  <2> SUFFICES ASSUME NEW u \in t.visited
               PROVE  /\ t.dist[u] # Infinity
                      /\ \A p \in Paths(graph, root, u) : t.dist[u] <= PathCost(graph, p)
    BY DEF Minimal
  <2>1. CASE u \in s.visited
    BY <1>1, <1>7, <2>1 DEF Minimal
  <2>2. CASE u = v
    <3> SUFFICES ASSUME NEW p \in Paths(graph, root, v) PROVE s.dist[v] <= PathCost(graph, p)
      BY <1>7, <2>2
    <3>1. CASE root \in s.visited
      <4>1. s.dist[v] \in 0 .. Infinity /\ v \notin s.visited
        BY <1>8
      <4> QED BY <1>1, <3>1, <4>1, LeavingCosts
    <3>2. CASE v = root
      <4>1. PathCost(graph, p) \in Nat /\ s.dist[v] = 0
        BY <1>1, <3>2, PathCostNat DEF Rooted
      <4> QED BY <4>1
    <3> QED BY <1>9, <3>1, <3>2
  <2> QED BY <1>3, <2>1, <2>2
<1>14. Considered(graph, t)
  <2> SUFFICES ASSUME NEW u \in t.visited, NEW e \in graph[u], e[1] \notin t.visited,
                      t.dist[u] + e[2] < Infinity
               PROVE  t.dist[e[1]] <= t.dist[u] + e[2]
    BY DEF Considered
  <2>1. t.dist[u] = s.dist[u] /\ u \in Ids
    BY <1>7
  <2>2. e[1] \in Ids /\ e[2] \in Nat
    BY <2>1 DEF SpfGraphs
  <2>3. CASE u = v
    BY <1>6, <2>1, <2>3
  <2>4. CASE u \in s.visited
    <3>1. s.dist[e[1]] <= s.dist[u] + e[2]
      BY <1>1, <1>3, <2>1, <2>4 DEF Considered
    <3>2. s.dist[e[1]] \in Nat /\ t.dist[e[1]] \in Nat /\ s.dist[u] \in Nat
      <4>1. /\ s.dist[e[1]] \in 0 .. Infinity /\ t.dist[e[1]] \in 0 .. Infinity
            /\ s.dist[u] \in 0 .. Infinity
        BY <1>8, <2>1, <2>2
      <4> HIDE DEF t
      <4> QED BY <4>1, IdsAssumption
    <3> QED BY <1>6, <2>1, <2>2, <3>1, <3>2
  <2> QED BY <1>3, <2>3, <2>4
<1> QED BY <1>2, <1>10, <1>12, <1>13, <1>14 DEF SpfInv, t

Finished(s) == \A v \in Ids \ s.visited : s.dist[v] = Infinity

(* After n turns the loop has finished or has visited n vertices, so after *)
(* as many turns as there are vertices it has finished.                    *)
LEMMA DijkstraInv ==
  ASSUME NEW root \in Ids, NEW graph \in SpfGraphs
  PROVE  SpfInv(graph, root, Dijkstra(root, graph)) /\ Finished(Dijkstra(root, graph))
<1> DEFINE N == Cardinality(Ids)
<1>1. PICK h : DijkstraRun(root, graph, h)
  BY DijkstraLoop
<1> DEFINE P == {n \in 0 .. N : /\ SpfInv(graph, root, h[n])
                                /\ Finished(h[n]) \/ Cardinality(h[n].visited) = n}
<1>2. N \in Nat
  BY FS_CardinalityType, IdsAssumption
<1>3. h[0] = SpfStart(root) /\ \A n \in 1 .. N : h[n] = SpfTurn(root, graph, h[n - 1])
  BY <1>1 DEF DijkstraRun
<1>4. 0 \in P
  <2>1. h[0].visited = {}
    BY <1>3 DEF SpfStart
  <2>2. Cardinality(h[0].visited) = 0
    BY <2>1, FS_EmptySet
  <2>3. SpfInv(graph, root, h[0])
    BY <1>3, StartInv
  <2>4. 0 \in 0 .. N
    BY <1>2
  <2> QED BY <2>2, <2>3, <2>4
<1>5. ASSUME NEW n \in 1 .. N, n - 1 \in P PROVE n \in P
  <2> DEFINE s == h[n - 1]
             v == Selected(s)
  <2>1. /\ SpfInv(graph, root, s) /\ s \in SpfStates
        /\ Finished(s) \/ Cardinality(s.visited) = n - 1
    BY <1>5 DEF SpfInv
  <2>2. h[n] = IF Finished(s) THEN s ELSE Relaxed(s, graph, root, v)
    BY <1>3 DEF SpfTurn, Finished
  <2>3. n \in 0 .. N
    BY <1>2
  <2> HIDE DEF s
  <2>4. CASE Finished(s)
    BY <2>1, <2>2, <2>3, <2>4
  <2>5. CASE ~Finished(s)
    <3>1. PICK u \in Ids \ s.visited : s.dist[u] # Infinity
      BY <2>5 DEF Finished
    <3>2. \A w \in Ids : s.dist[w] \in 0 .. Infinity
      BY <2>1 DEF SpfStates
    <3>3. /\ v \in Ids \ s.visited
          /\ \A w \in Ids \ (s.visited \cup {v}) :
               s.dist[v] < s.dist[w] \/ (s.dist[v] = s.dist[w] /\ v < w)
      BY <2>1, <3>1, SelectedIn
    <3> HIDE DEF v
    <3>4. \A w \in Ids \ s.visited : s.dist[v] <= s.dist[w]
      BY <3>2, <3>3, IdsAssumption
    <3>5. s.dist[v] # Infinity
      BY <3>1, <3>2, <3>3, <3>4, IdsAssumption
    <3>6. SpfInv(graph, root, h[n])
      BY <2>1, <2>2, <2>5, <3>3, <3>4, <3>5, RelaxedInv
    <3>7. h[n].visited = s.visited \cup {v}
      BY <2>1, <2>2, <2>5, <3>3, <3>5, RelaxedIs
    <3>8. Cardinality(s.visited \cup {v}) = (n - 1) + 1
      <4>1. s.visited \subseteq Ids /\ v \notin s.visited
        BY <2>1, <3>3 DEF SpfStates
      <4>2. IsFiniteSet(s.visited)
        BY <4>1, FS_Subset, IdsAssumption
      <4>3. Cardinality(s.visited) = n - 1
        BY <2>1, <2>5
      <4> QED BY <4>1, <4>2, <4>3, FS_AddElement
    <3>9. Cardinality(h[n].visited) = n
      BY <2>3, <3>7, <3>8
    <3> QED BY <2>3, <3>6, <3>9
  <2> QED BY <2>4, <2>5
<1> HIDE DEF P
<1>6. \A n \in 0 .. N : n \in P
  BY <1>2, <1>4, <1>5, UpTo
<1>7. N \in P
  BY <1>2, <1>6
<1>8. SpfInv(graph, root, h[N]) /\ (Finished(h[N]) \/ Cardinality(h[N].visited) = N)
  BY <1>7 DEF P
<1>9. Finished(h[N])
  <2> SUFFICES ASSUME Cardinality(h[N].visited) = N PROVE Finished(h[N])
    BY <1>8
  <2>1. h[N].visited \subseteq Ids
    BY <1>8 DEF SpfInv, SpfStates
  <2>2. h[N].visited = Ids
    BY <2>1, FS_Subset, IdsAssumption
  <2> QED BY <2>2 DEF Finished
<1> QED BY <1>1, <1>8, <1>9 DEF DijkstraRun

(* ospf_run_spf finds a shortest path of every destination in reach, with  *)
(* its cost and first hop, and misses none that costs less than infinity.  *)
LEMMA DijkstraRight ==
  ASSUME NEW root \in Ids, NEW graph \in SpfGraphs, NEW d \in Ids \ {root}
  PROVE  LET s == Dijkstra(root, graph)
         IN  /\ s.dist[d] # Infinity =>
                  \E p \in Shortest(graph, root, d) :
                    PathCost(graph, p) = s.dist[d] /\ p[2] = s.hop[d]
             /\ s.dist[d] = Infinity =>
                  \A p \in Paths(graph, root, d) : Infinity <= PathCost(graph, p)
<1> DEFINE s == Dijkstra(root, graph)
<1>1. /\ s \in SpfStates /\ Rooted(root, s) /\ Reached(graph, root, s)
      /\ Minimal(graph, root, s) /\ Considered(graph, s) /\ Finished(s)
  BY DijkstraInv DEF SpfInv
<1> HIDE DEF s
<1>2. ASSUME s.dist[d] # Infinity
      PROVE  \E p \in Shortest(graph, root, d) : PathCost(graph, p) = s.dist[d] /\ p[2] = s.hop[d]
  <2>1. PICK p : Along(graph, root, s, d, p)
    BY <1>1, <1>2 DEF Reached
  <2>2. d \in s.visited
    BY <1>1, <1>2 DEF Finished
  <2>3. p \in Shortest(graph, root, d)
    BY <1>1, <2>1, <2>2 DEF Minimal, Along, Shortest
  <2> QED BY <2>1, <2>3 DEF Along
<1>3. ASSUME s.dist[d] = Infinity, NEW p \in Paths(graph, root, d)
      PROVE  Infinity <= PathCost(graph, p)
  <2>1. root \in s.visited
    BY <1>1, IdsAssumption DEF Rooted, Finished
  <2>2. d \notin s.visited
    BY <1>1, <1>3 DEF Minimal
  <2>3. Infinity \in 0 .. Infinity /\ \A w \in Ids \ s.visited : Infinity <= s.dist[w]
    BY <1>1, IdsAssumption DEF Finished
  <2> QED BY <1>1, <2>1, <2>2, <2>3, LeavingCosts
<1> QED BY <1>2, <1>3 DEF s

-----------------------------------------------------------------------------
(* The loop over the LSAs of an LSU.                                       *)

Slots  == 1 .. LsdbSize
Lsdbs  == [Slots -> Lsa \cup {Invalid}]
Stores == [db: Lsdbs, changed: Seq(Slots)]

Among(s, x) == \E n \in DOMAIN s : s[n] = x

(* The database has the LSA or a newer version; it is full without its key. *)
Has(db, l)    == \E k \in Matching(db, l.key) : db[k].seq >= l.seq
Full(db, key) == Matching(db, key) = {} /\ \A k \in Slots : db[k] # Invalid

(* Entries stay, and only become newer.                                    *)
Grew(a, b) ==
  \A k \in Slots : a[k] # Invalid =>
    b[k] # Invalid /\ b[k].key = a[k].key /\ b[k].seq >= a[k].seq

(* What an LSA of the LSU does to the store: nothing, or a write of slot k. *)
Wrote(t, l, u, k) ==
  /\ k \in Slots
  /\ \/ t.db[k] = Invalid /\ Matching(t.db, l.key) = {}
     \/ /\ k \in Matching(t.db, l.key) /\ k = First(Matching(t.db, l.key))
        /\ l.seq > t.db[k].seq
  /\ u.db = [t.db EXCEPT ![k] = l]
  /\ u.changed = IF Among(t.changed, k) THEN t.changed ELSE Append(t.changed, k)

(* Entries of a database are LSAs.                                         *)
LEMMA EntryType ==
  ASSUME NEW db \in Lsdbs, NEW k \in Slots, db[k] # Invalid
  PROVE  db[k] \in Lsa /\ db[k].key \in Keys /\ db[k].seq \in Nat /\ db[k].seq \in Seqs
<1>1. db[k] \in Lsa
  BY DEF Lsdbs
<1>2. \A l \in Lsa : l.key \in Keys /\ l.seq \in Seqs /\ l.seq \in Nat
  BY DEF Lsa, Seqs
<1> QED BY <1>1, <1>2

(* The cases of a turn, and its type.                                      *)
LEMMA StoredCases ==
  ASSUME NEW t \in Stores, NEW l \in Lsa
  PROVE  /\ Stored(t, l) \in Stores
         /\ \/ Stored(t, l) = t /\ (Has(t.db, l) \/ Full(t.db, l.key))
            \/ \E k \in Slots : Wrote(t, l, Stored(t, l), k)
<1> DEFINE match == Matching(t.db, l.key)
           free  == {k \in Slots : t.db[k] = Invalid}
           k     == First(IF match # {} THEN match ELSE free)
           u     == Stored(t, l)
<1>1. t.db \in Lsdbs /\ t.changed \in Seq(Slots) /\ l.seq \in Nat
  BY DEF Stores, Lsa, Seqs
<1>2. match \in SUBSET Slots /\ free \in SUBSET Slots /\ Slots \in SUBSET Nat
  BY DEF Matching, Slots
<1>3. u = IF match \cup free = {} \/ (match # {} /\ ~Fresher(t.db[k], l)) THEN t
          ELSE [db |-> [t.db EXCEPT ![k] = l],
                changed |-> IF k \in {t.changed[n] : n \in DOMAIN t.changed} THEN t.changed
                            ELSE Append(t.changed, k)]
  BY DEF Stored, Slots
<1>4. match # {} => k \in match /\ k = First(match)
  BY <1>2, FirstIn
<1>5. match = {} /\ free # {} => k \in free
  BY <1>2, FirstIn
<1> HIDE DEF k, u
<1>6. CASE match \cup free = {}
  <2>1. Full(t.db, l.key) /\ u = t
    BY <1>3, <1>6 DEF Full
  <2> QED BY <2>1 DEF u
<1>7. CASE match # {} /\ ~Fresher(t.db[k], l)
  <2>1. k \in Slots /\ t.db[k] # Invalid /\ ~(l.seq > t.db[k].seq)
    BY <1>2, <1>4, <1>7 DEF Matching, Fresher
  <2>2. t.db[k].seq \in Nat
    BY <1>1, <2>1, EntryType
  <2>3. t.db[k].seq >= l.seq
    BY <1>1, <2>1, <2>2
  <2>4. Has(t.db, l) /\ u = t
    BY <1>3, <1>4, <1>7, <2>3 DEF Has
  <2> QED BY <2>4 DEF u
<1>8. CASE match \cup free # {} /\ ~(match # {} /\ ~Fresher(t.db[k], l))
  <2>1. k \in Slots
    BY <1>2, <1>4, <1>5, <1>8
  <2>2. \/ t.db[k] = Invalid /\ match = {}
        \/ k \in match /\ k = First(match) /\ l.seq > t.db[k].seq
    BY <1>4, <1>5, <1>8 DEF Fresher
  <2>3. u = [db |-> [t.db EXCEPT ![k] = l],
             changed |-> IF k \in {t.changed[n] : n \in DOMAIN t.changed} THEN t.changed
                         ELSE Append(t.changed, k)]
    BY <1>3, <1>8
  <2>4. k \in {t.changed[n] : n \in DOMAIN t.changed} <=> Among(t.changed, k)
    BY DEF Among
  <2>5. /\ u.db = [t.db EXCEPT ![k] = l]
        /\ u.changed = IF Among(t.changed, k) THEN t.changed ELSE Append(t.changed, k)
    BY <2>3, <2>4
  <2>6. Wrote(t, l, u, k)
    BY <2>1, <2>2, <2>5 DEF Wrote
  <2>7. u.db \in Lsdbs
    BY <1>1, <2>1, <2>5 DEF Lsdbs
  <2>8. u.changed \in Seq(Slots)
    BY <1>1, <2>1, <2>5
  <2>9. u \in Stores
    BY <2>3, <2>5, <2>7, <2>8 DEF Stores
  <2> QED BY <2>1, <2>6, <2>9 DEF u
<1> QED BY <1>6, <1>7, <1>8

(* What a database has stays, and so does its being full.                  *)
LEMMA GrewKeeps ==
  ASSUME NEW a \in Lsdbs, NEW b \in Lsdbs, Grew(a, b)
  PROVE  /\ \A l \in Lsa : Has(a, l) => Has(b, l)
         /\ \A key : Full(a, key) => Full(b, key)
<1>1. ASSUME NEW l \in Lsa, Has(a, l) PROVE Has(b, l)
  <2>1. PICK k \in Matching(a, l.key) : a[k].seq >= l.seq
    BY <1>1 DEF Has
  <2>2. k \in Slots /\ a[k] # Invalid /\ a[k].key = l.key
    BY DEF Matching, Slots
  <2>3. b[k] # Invalid /\ b[k].key = l.key /\ b[k].seq >= a[k].seq
    BY <2>2 DEF Grew
  <2>4. a[k].seq \in Nat /\ b[k].seq \in Nat /\ l.seq \in Nat
    BY <2>2, <2>3, EntryType DEF Lsa, Seqs
  <2>5. b[k].seq >= l.seq
    BY <2>1, <2>3, <2>4
  <2> QED BY <2>2, <2>3, <2>5 DEF Has, Matching, Slots
<1>2. ASSUME NEW key, Full(a, key) PROVE Full(b, key)
  BY <1>2 DEF Full, Grew, Matching, Slots
<1> QED BY <1>1, <1>2

(* A write makes a database grow and gives it the LSA.                     *)
LEMMA WroteGrew ==
  ASSUME NEW t \in Stores, NEW u \in Stores, NEW l \in Lsa, NEW k \in Slots, Wrote(t, l, u, k)
  PROVE  /\ Grew(t.db, u.db) /\ Has(u.db, l) /\ u.db[k] = l
         /\ \A j \in Slots \ {k} : u.db[j] = t.db[j]
         /\ \A j : Among(u.changed, j) <=> Among(t.changed, j) \/ j = k
         /\ u.changed # <<>>
<1>1. t.db \in Lsdbs /\ u.db \in Lsdbs /\ t.changed \in Seq(Slots) /\ l.seq \in Nat
  BY DEF Stores, Lsa, Seqs
<1>2. u.db[k] = l /\ \A j \in Slots \ {k} : u.db[j] = t.db[j]
  BY <1>1 DEF Wrote, Lsdbs
<1>3. \A j \in Slots : t.db[j] # Invalid => t.db[j].seq \in Nat
  BY <1>1, EntryType
<1>4. Grew(t.db, u.db)
  <2> SUFFICES ASSUME NEW j \in Slots, t.db[j] # Invalid
               PROVE  /\ u.db[j] # Invalid /\ u.db[j].key = t.db[j].key
                      /\ u.db[j].seq >= t.db[j].seq
    BY DEF Grew
  <2>1. CASE j # k
    BY <1>2, <1>3, <2>1
  <2>2. CASE j = k
    <3>1. t.db[k].key = l.key /\ l.seq > t.db[k].seq
      BY <2>2 DEF Wrote, Matching
    <3> QED BY <1>1, <1>2, <1>3, <2>2, <3>1, Valid
  <2> QED BY <2>1, <2>2
<1>5. Has(u.db, l)
  <2>1. k \in Matching(u.db, l.key)
    BY <1>2, Valid DEF Matching, Slots
  <2>2. u.db[k].seq >= l.seq
    BY <1>1, <1>2
  <2> QED BY <2>1, <2>2 DEF Has
<1>6. \A j : Among(u.changed, j) <=> Among(t.changed, j) \/ j = k
  <2>1. CASE Among(t.changed, k)
    BY <2>1 DEF Wrote
  <2>2. CASE ~Among(t.changed, k)
    <3> DEFINE s == t.changed
    <3>1. u.changed = Append(s, k) /\ s \in Seq(Slots)
      BY <1>1, <2>2 DEF Wrote
    <3> HIDE DEF s
    <3>2. /\ Len(s) \in Nat /\ DOMAIN s = 1 .. Len(s) /\ DOMAIN u.changed = 1 .. Len(s) + 1
          /\ u.changed[Len(s) + 1] = k /\ \A n \in 1 .. Len(s) : u.changed[n] = s[n]
      BY <3>1
    <3>3. \A n : n \in 1 .. Len(s) + 1 <=> n \in 1 .. Len(s) \/ n = Len(s) + 1
      BY <3>2
    <3> QED BY <3>2, <3>3 DEF Among, s
  <2> QED BY <2>1, <2>2
<1>7. u.changed # <<>>
  BY <1>6 DEF Among
<1> QED BY <1>2, <1>4, <1>5, <1>6, <1>7
(* The versions of a database are numbers.                                 *)
LEMMA ContentType ==
  ASSUME NEW db \in Lsdbs, NEW x \in Keys
  PROVE  Content(db)[x] \in {0} \cup Seqs /\ Content(db)[x] \in Nat
<1> DEFINE match == Matching(db, x)
<1>1. Content(db)[x] = IF match = {} THEN 0 ELSE db[First(match)].seq
  BY DEF Content
<1>2. match \in SUBSET Nat /\ \A k \in match : k \in Slots /\ db[k] # Invalid
  BY DEF Matching, Slots
<1>3. CASE match # {}
  <2>1. First(match) \in match
    BY <1>2, <1>3, FirstIn
  <2>2. db[First(match)].seq \in Seqs /\ db[First(match)].seq \in Nat
    BY <1>2, <2>1, EntryType
  <2> HIDE DEF match
  <2> QED BY <1>1, <1>3, <2>2
<1>4. CASE match = {}
  BY <1>1, <1>4
<1> QED BY <1>3, <1>4

(* A write raises the version of its key and leaves the others alone.      *)
LEMMA WroteContent ==
  ASSUME NEW t \in Stores, NEW u \in Stores, NEW l \in Lsa, NEW k \in Slots, Wrote(t, l, u, k)
  PROVE  /\ l.key \in Keys /\ Content(u.db)[l.key] > Content(t.db)[l.key]
         /\ \A x \in Keys \ {l.key} : Content(u.db)[x] = Content(t.db)[x]
<1>1. t.db \in Lsdbs /\ u.db \in Lsdbs /\ l.key \in Keys /\ l.seq \in Nat /\ l.seq > 0
  BY DEF Stores, Lsa, Seqs
<1>2. u.db[k] = l /\ l # Invalid /\ \A j \in Slots \ {k} : u.db[j] = t.db[j]
  BY WroteGrew, Valid
<1>3. \A db, x : x \in Keys =>
        Content(db)[x] = IF Matching(db, x) = {} THEN 0 ELSE db[First(Matching(db, x))].seq
  BY DEF Content
<1>4. ASSUME NEW x \in Keys \ {l.key} PROVE Content(u.db)[x] = Content(t.db)[x]
  <2> DEFINE match == Matching(t.db, x)
  <2>1. k \notin match
    BY <1>4 DEF Wrote, Matching
  <2>2. Matching(u.db, x) = match
    BY <1>2, <1>4, <2>1 DEF Matching, Slots
  <2>3. CASE match = {}
    BY <1>3, <2>2, <2>3
  <2>4. CASE match # {}
    <3>1. match \in SUBSET Nat /\ match \in SUBSET Slots
      BY DEF Matching, Slots
    <3>2. First(match) \in match
      BY <2>4, <3>1, FirstIn
    <3>3. u.db[First(match)] = t.db[First(match)]
      BY <1>2, <2>1, <3>1, <3>2
    <3> HIDE DEF match
    <3> QED BY <1>3, <2>2, <2>4, <3>3 DEF match
  <2> QED BY <2>3, <2>4
<1>5. Content(u.db)[l.key] > Content(t.db)[l.key]
  <2> DEFINE match == Matching(t.db, l.key)
  <2>1. CASE t.db[k] = Invalid /\ match = {}
    <3>1. Matching(u.db, l.key) = {k}
      BY <1>2, <2>1 DEF Matching, Slots
    <3>2. First({k}) = k
      <4>1. {k} \in SUBSET Nat
        BY DEF Slots
      <4> QED BY <4>1, FirstIn
    <3>3. Content(u.db)[l.key] = l.seq
      <4>1. Matching(u.db, l.key) # {} /\ First(Matching(u.db, l.key)) = k
        BY <3>1, <3>2
      <4>2. Content(u.db)[l.key] = u.db[k].seq
        BY <1>1, <1>3, <4>1
      <4> QED BY <1>2, <4>2
    <3>4. Content(t.db)[l.key] = 0
      BY <1>1, <1>3, <2>1
    <3> QED BY <1>1, <3>3, <3>4
  <2>2. CASE k \in match /\ k = First(match) /\ l.seq > t.db[k].seq
    <3>1. Matching(u.db, l.key) = match
      BY <1>2, <2>2 DEF Matching, Slots
    <3> HIDE DEF match
    <3>2. Content(u.db)[l.key] = l.seq
      BY <1>1, <1>2, <1>3, <2>2, <3>1
    <3>3. Content(t.db)[l.key] = t.db[k].seq
      BY <1>1, <1>3, <2>2 DEF match
    <3> QED BY <2>2, <3>2, <3>3
  <2> QED BY <2>1, <2>2 DEF Wrote
<1> QED BY <1>1, <1>4, <1>5

(* After n of the LSAs: the database grew, the slots that differ are noted *)
(* and hold LSAs of the LSU, each LSA is there, superseded or shut out,    *)
(* and versions rose unless nothing changed.                               *)
Took(db, lsas, n, t) ==
  /\ t \in Stores /\ Grew(db, t.db)
  /\ \A k \in Slots : t.db[k] = db[k] \/ Among(t.changed, k)
  /\ \A k \in Slots : Among(t.changed, k) => \E e \in 1 .. n : t.db[k] = lsas[e]
  /\ \A e \in 1 .. n : Has(t.db, lsas[e]) \/ Full(t.db, lsas[e].key)
  /\ \A x \in Keys : Content(t.db)[x] >= Content(db)[x]
  /\ t.changed # <<>> => \E x \in Keys : Content(t.db)[x] > Content(db)[x]

(* A turn takes one LSA more.                                              *)
LEMMA StoredTakes ==
  ASSUME NEW db \in Lsdbs, NEW lsas \in Seq(Lsa), NEW n \in 1 .. Len(lsas),
         NEW t, Took(db, lsas, n - 1, t)
  PROVE  Took(db, lsas, n, Stored(t, lsas[n]))
<1> DEFINE l == lsas[n]
           u == Stored(t, l)
<1>1. t \in Stores /\ t.db \in Lsdbs /\ l \in Lsa /\ n \in Nat
  BY DEF Took, Stores
<1>2. \A e : e \in 1 .. n <=> e \in 1 .. n - 1 \/ e = n
  BY <1>1
<1>3. \A e \in 1 .. n : lsas[e] \in Lsa
  OBVIOUS
<1> HIDE DEF l
<1>4. u \in Stores /\ u.db \in Lsdbs
  BY <1>1, StoredCases DEF Stores
<1> HIDE DEF u
<1>5. CASE u = t /\ (Has(t.db, l) \/ Full(t.db, l.key))
  <2>1. \A e \in 1 .. n : Has(u.db, lsas[e]) \/ Full(u.db, lsas[e].key)
    BY <1>2, <1>5 DEF Took, l
  <2>2. \A k \in Slots : Among(u.changed, k) => \E e \in 1 .. n : u.db[k] = lsas[e]
    BY <1>2, <1>5 DEF Took
  <2>3. Took(db, lsas, n, u)
    BY <1>5, <2>1, <2>2 DEF Took
  <2> QED BY <2>3 DEF u, l
<1>6. CASE \E k \in Slots : Wrote(t, l, u, k)
  <2>1. PICK k \in Slots : Wrote(t, l, u, k)
    BY <1>6
  <2>2. /\ Grew(t.db, u.db) /\ Has(u.db, l) /\ u.db[k] = l
        /\ \A j \in Slots \ {k} : u.db[j] = t.db[j]
        /\ \A j : Among(u.changed, j) <=> Among(t.changed, j) \/ j = k
    BY <1>1, <1>4, <2>1, WroteGrew
  <2>3. /\ l.key \in Keys /\ Content(u.db)[l.key] > Content(t.db)[l.key]
        /\ \A x \in Keys \ {l.key} : Content(u.db)[x] = Content(t.db)[x]
    BY <1>1, <1>4, <2>1, WroteContent
  <2>4. Grew(db, u.db)
    <3> SUFFICES ASSUME NEW j \in Slots, db[j] # Invalid
                 PROVE  /\ u.db[j] # Invalid /\ u.db[j].key = db[j].key
                        /\ u.db[j].seq >= db[j].seq
      BY DEF Grew
    <3>1. t.db[j] # Invalid /\ t.db[j].key = db[j].key /\ t.db[j].seq >= db[j].seq
      BY DEF Took, Grew
    <3>2. u.db[j] # Invalid /\ u.db[j].key = db[j].key /\ u.db[j].seq >= t.db[j].seq
      BY <2>2, <3>1 DEF Grew
    <3>3. db[j].seq \in Nat /\ t.db[j].seq \in Nat /\ u.db[j].seq \in Nat
      BY <1>1, <1>4, <3>1, <3>2, EntryType
    <3> QED BY <3>1, <3>2, <3>3
  <2>5. \A j \in Slots : u.db[j] = db[j] \/ Among(u.changed, j)
    BY <2>2 DEF Took
  <2>6. \A j \in Slots : Among(u.changed, j) => \E e \in 1 .. n : u.db[j] = lsas[e]
    <3> SUFFICES ASSUME NEW j \in Slots, Among(u.changed, j)
                 PROVE  \E e \in 1 .. n : u.db[j] = lsas[e]
      OBVIOUS
    <3>1. CASE j = k
      BY <1>2, <2>2, <3>1 DEF l
    <3>2. CASE j # k
      BY <1>2, <2>2, <3>2 DEF Took
    <3> QED BY <3>1, <3>2
  <2>7. \A e \in 1 .. n : Has(u.db, lsas[e]) \/ Full(u.db, lsas[e].key)
    <3> SUFFICES ASSUME NEW e \in 1 .. n
                 PROVE  Has(u.db, lsas[e]) \/ Full(u.db, lsas[e].key)
      OBVIOUS
    <3>1. CASE e = n
      BY <2>2, <3>1 DEF l
    <3>2. CASE e \in 1 .. n - 1
      BY <1>1, <1>3, <1>4, <2>2, <3>2, GrewKeeps DEF Took
    <3> QED BY <1>2, <3>1, <3>2
  <2>8. \A x \in Keys : /\ Content(u.db)[x] \in Nat /\ Content(t.db)[x] \in Nat
                        /\ Content(db)[x] \in Nat
    BY <1>1, <1>4, ContentType
  <2>9. \A x \in Keys : Content(t.db)[x] >= Content(db)[x]
    BY DEF Took
  <2>10. \A x \in Keys : Content(u.db)[x] >= Content(db)[x]
    <3> SUFFICES ASSUME NEW x \in Keys PROVE Content(u.db)[x] >= Content(db)[x]
      OBVIOUS
    <3>1. CASE x = l.key
      BY <2>3, <2>8, <2>9, <3>1
    <3>2. CASE x # l.key
      BY <2>3, <2>9, <3>2
    <3> QED BY <3>1, <3>2
  <2>11. \E x \in Keys : Content(u.db)[x] > Content(db)[x]
    BY <2>3, <2>8, <2>9
  <2>12. Took(db, lsas, n, u)
    BY <1>4, <2>4, <2>5, <2>6, <2>7, <2>10, <2>11 DEF Took
  <2> QED BY <2>12 DEF u, l
<1> QED BY <1>1, <1>5, <1>6, StoredCases DEF u

(* The whole loop.                                                         *)
LEMMA AppliedTakes ==
  ASSUME NEW db \in Lsdbs, NEW lsas \in Seq(Lsa)
  PROVE  Took(db, lsas, Len(lsas), Applied(db, lsas))
<1> DEFINE N == Len(lsas)
           start == [db |-> db, changed |-> <<>>]
           g == [x \in (1 .. N) \X Stores |-> Stored(x[2], lsas[x[1]])]
           Run(f) == f = [n \in 0 .. N |-> IF n = 0 THEN start ELSE Stored(f[n - 1], lsas[n])]
           h == CHOOSE f : Run(f)
<1>1. N \in Nat
  OBVIOUS
<1>2. start \in Stores
  BY DEF Stores
<1>3. Applied(db, lsas) = h[N]
  BY DEF Applied
<1>4. \A n \in 1 .. N : lsas[n] \in Lsa
  OBVIOUS
<1>5. Took(db, lsas, 0, start)
  <2>1. start.db = db /\ start.changed = <<>>
    OBVIOUS
  <2> HIDE DEF start
  <2>2. \A k : ~Among(start.changed, k)
    BY <2>1 DEF Among
  <2>3. Grew(db, start.db)
    <3>1. \A k \in Slots : db[k] # Invalid => db[k].seq \in Nat
      BY EntryType
    <3> QED BY <2>1, <3>1 DEF Grew
  <2>4. \A x \in Keys : Content(start.db)[x] >= Content(db)[x]
    BY <2>1, ContentType
  <2>5. \A e : e \notin 1 .. 0
    OBVIOUS
  <2> QED BY <1>2, <2>1, <2>2, <2>3, <2>4, <2>5 DEF Took
<1> HIDE DEF start, N
<1>6. g \in Turns(N, Stores)
  BY <1>4, StoredCases DEF Turns
<1> HIDE DEF g
<1>7. PICK f : LoopOf(N, Stores, start, g, f)
  BY <1>1, <1>2, <1>6, LoopExists, Zenon
<1>8. \A n \in 1 .. N : f[n] = Stored(f[n - 1], lsas[n])
  <2> SUFFICES ASSUME NEW n \in 1 .. N PROVE f[n] = Stored(f[n - 1], lsas[n])
    OBVIOUS
  <2>1. n - 1 \in 0 .. N
    BY <1>1
  <2>2. <<n, f[n - 1]>> \in (1 .. N) \X Stores
    BY <1>7, <2>1 DEF LoopOf
  <2> QED BY <1>7, <2>2 DEF LoopOf, g
<1>9. Run(f)
  BY <1>1, <1>7, <1>8 DEF LoopOf
<1>10. Run(h)
  BY <1>9, Zenon
<1> HIDE DEF h
<1>11. h[0] = start /\ \A n \in 1 .. N : h[n] = Stored(h[n - 1], lsas[n])
  <2>1. 0 \in 0 .. N /\ \A n \in 1 .. N : n \in 0 .. N /\ n # 0
    BY <1>1
  <2>2. \A n \in 0 .. N : h[n] = IF n = 0 THEN start ELSE Stored(h[n - 1], lsas[n])
    BY <1>10, Zenon
  <2> QED BY <2>1, <2>2, Zenon
<1> DEFINE P == {n \in 0 .. N : Took(db, lsas, n, h[n])}
<1>12. 0 \in P
  BY <1>1, <1>5, <1>11
<1>13. \A n \in 1 .. N : n - 1 \in P => n \in P
  <2> SUFFICES ASSUME NEW n \in 1 .. N, n - 1 \in P PROVE Took(db, lsas, n, h[n])
    OBVIOUS
  <2>1. Took(db, lsas, n - 1, h[n - 1]) /\ n \in 1 .. Len(lsas)
    BY DEF N
  <2> QED BY <1>11, <2>1, StoredTakes
<1> HIDE DEF P
<1>14. \A n \in 0 .. N : n \in P
  BY <1>1, <1>12, <1>13, UpTo, Zenon
<1>15. N \in P
  BY <1>1, <1>14
<1> QED BY <1>3, <1>15 DEF P, N
-----------------------------------------------------------------------------
(* Types.                                                                  *)

NbrTable == [1 .. MaxNeighbors -> Neighbor \cup {Invalid}]

(* What is in the messages.                                                *)
LEMMA MessageFields ==
  /\ \A m \in Message : m.type = "LSU" => m.lsas \in Seq(Lsa)
  /\ \A m \in Message : m.type = "HELLO" => m.id \in Ids /\ m.seen \in SUBSET Ids
  /\ \A s \in Seq(Lsa) : [type |-> "LSU", lsas |-> s] \in Message
<1> DEFINE H == [type: {"HELLO"}, id: Ids, mask: {Mask[i] : i \in Ifaces}, seen: SUBSET Ids]
           U == [type: {"LSU"}, lsas: Seq(Lsa)]
<1>1. Message = H \cup U
  BY DEF Message
<1>2. \A m \in H : m.type = "HELLO" /\ m.id \in Ids /\ m.seen \in SUBSET Ids
  OBVIOUS
<1>3. \A m \in U : m.type = "LSU" /\ m.lsas \in Seq(Lsa)
  OBVIOUS
<1>4. \A s \in Seq(Lsa) : [type |-> "LSU", lsas |-> s] \in U
  OBVIOUS
<1> HIDE DEF H, U
<1> QED BY <1>1, <1>2, <1>3, <1>4

(* The first frame of a wire leaves it.                                    *)
LEMMA WireTail ==
  ASSUME TypeOK, NEW i \in Ifaces, wire[i] # <<>>
  PROVE  /\ Head(wire[i]) \in Message /\ Tail(wire[i]) \in Seq(Message)
         /\ [wire EXCEPT ![i] = Tail(@)] \in [Ifaces -> Seq(Message)]
<1>1. wire \in [Ifaces -> Seq(Message)] /\ wire[i] \in Seq(Message)
  BY DEF TypeOK
<1>2. Head(wire[i]) \in Message /\ Tail(wire[i]) \in Seq(Message)
  BY <1>1
<1> QED BY <1>1, <1>2

(* ospf_receive of a Hello keeps the types.                                *)
LEMMA ReceiveHelloType ==
  ASSUME TypeOK, NEW i \in Ifaces, ReceiveHello(i)
  PROVE  TypeOK'
<1> DEFINE m     == Head(wire[i])
           r     == Node[i]
           table == nbr[r]
           match == {k \in DOMAIN table : table[k] # Invalid /\ table[k].id = m.id}
           free  == {k \in DOMAIN table : table[k] = Invalid}
           k     == First(IF match # {} THEN match ELSE free)
           e     == [id |-> m.id, iface |-> i, age |-> 0,
                     state |-> IF r \in m.seen THEN "FULL" ELSE "INIT"]
<1>1. wire[i] # <<>> /\ m.type = "HELLO" /\ wire' = [wire EXCEPT ![i] = Tail(@)]
  BY DEF ReceiveHello
<1>2. wire' \in [Ifaces -> Seq(Message)] /\ m \in Message
  BY <1>1, WireTail
<1>3. e \in Neighbor
  BY <1>1, <1>2, MessageFields DEF Neighbor
<1>4. r \in Routers /\ nbr \in [Routers -> NbrTable] /\ table \in NbrTable
  BY TopologyAssumption DEF TypeOK, NbrTable
<1>5. match \cup free # {} => k \in 1 .. MaxNeighbors
  <2>1. DOMAIN table = 1 .. MaxNeighbors
    BY <1>4 DEF NbrTable
  <2> HIDE DEF table
  <2>2. match \in SUBSET (1 .. MaxNeighbors) /\ free \in SUBSET (1 .. MaxNeighbors)
    BY <2>1
  <2> HIDE DEF match, free
  <2>3. (IF match # {} THEN match ELSE free) \in SUBSET Nat
    BY <2>2
  <2> QED BY <2>2, <2>3, FirstIn
<1>6. nbr' = IF m.id = Node[i] \/ m.mask # Mask[i] \/ match \cup free = {} THEN nbr
             ELSE [nbr EXCEPT ![r][k] = e]
  BY DEF ReceiveHello
<1> HIDE DEF e, k, match, free
<1>7. nbr' \in [Routers -> NbrTable]
  BY <1>3, <1>4, <1>5, <1>6 DEF NbrTable
<1> QED BY <1>2, <1>7 DEF TypeOK, ReceiveHello, NbrTable

(* The Hello timer keeps the types.                                        *)
LEMMA HelloTimerType ==
  ASSUME TypeOK, NEW r \in Routers, HelloTimer(r)
  PROVE  TypeOK'
<1>1. ASSUME NEW i \in Ifaces PROVE Hello(i) \in Message
  <2> DEFINE seen == {nbr[Node[i]][k].id : k \in LiveAt(Node[i], i)}
             H == [type: {"HELLO"}, id: Ids, mask: {Mask[j] : j \in Ifaces}, seen: SUBSET Ids]
  <2>1. Node[i] \in Routers /\ Node[i] \in Ids
    BY TopologyAssumption
  <2>2. nbr[Node[i]] \in NbrTable
    BY <2>1 DEF TypeOK, NbrTable
  <2>3. \A k \in LiveAt(Node[i], i) : nbr[Node[i]][k] \in Neighbor
    BY <2>2 DEF LiveAt, NbrTable
  <2>4. seen \in SUBSET Ids
    BY <2>3 DEF Neighbor
  <2> HIDE DEF seen
  <2>5. [type |-> "HELLO", id |-> Node[i], mask |-> Mask[i], seen |-> seen] \in H
    BY <2>1, <2>4
  <2>6. Hello(i) = [type |-> "HELLO", id |-> Node[i], mask |-> Mask[i], seen |-> seen]
    BY DEF Hello, seen
  <2> QED BY <2>5, <2>6 DEF Message
<1>2. \A i \in Ifaces : Peer[i] \in Ifaces /\ wire[i] \in Seq(Message)
  BY TopologyAssumption DEF TypeOK
<1>3. \A i \in Ifaces : Append(wire[i], Hello(Peer[i])) \in Seq(Message)
  BY <1>1, <1>2
<1>4. wire' = [i \in Ifaces |-> IF Node[Peer[i]] = r /\ i # Origin /\ Sendable(i)
                                THEN Append(wire[i], Hello(Peer[i])) ELSE wire[i]]
  BY DEF HelloTimer
<1>5. wire' \in [Ifaces -> Seq(Message)]
  BY <1>2, <1>3, <1>4
<1>6. timer' \in [Routers -> [hello: 0 .. 1, dead: 0 .. Dead]]
  <2>1. timer \in [Routers -> [hello: 0 .. 1, dead: 0 .. Dead]] /\ 1 \in 0 .. 1
    BY DEF TypeOK
  <2>2. timer' = [timer EXCEPT ![r].hello = 1]
    BY DEF HelloTimer
  <2> QED BY <2>1, <2>2
<1> QED BY <1>5, <1>6 DEF TypeOK, HelloTimer

(* A scan: the neighbours that are old are DOWN, the others as they were.  *)
LEMMA ScanIs ==
  ASSUME TypeOK, NEW r \in Routers, NEW old, old \in SUBSET (1 .. MaxNeighbors),
         NEW due, Scan(r, old, due), \A k \in old : nbr[r][k] # Invalid
  PROVE  /\ nbr' \in [Routers -> NbrTable]
         /\ timer' \in [Routers -> [hello: 0 .. 1, dead: 0 .. Dead]]
         /\ timer[r].dead = 0 /\ timer'[r].dead = Dead
         /\ \A q \in Routers \ {r} : nbr'[q] = nbr[q] /\ timer'[q] = timer[q]
         /\ \A k \in 1 .. MaxNeighbors : k \notin old => nbr'[r][k] = nbr[r][k]
         /\ \A k \in old : nbr'[r][k].state = "DOWN"
<1> DEFINE table == nbr[r]
           new == [k \in 1 .. MaxNeighbors |->
                     IF k \in old THEN [table[k] EXCEPT !.state = "DOWN"] ELSE table[k]]
<1>1. nbr \in [Routers -> NbrTable] /\ table \in NbrTable
      /\ timer \in [Routers -> [hello: 0 .. 1, dead: 0 .. Dead]]
  BY DEF TypeOK, NbrTable
<1>2. nbr' = [nbr EXCEPT ![r] = new]
  BY DEF Scan
<1>3. timer[r].dead = 0 /\ timer' = [timer EXCEPT ![r].dead = Dead]
  BY DEF Scan
<1>4. \A k \in old : /\ table[k] \in Neighbor /\ [table[k] EXCEPT !.state = "DOWN"] \in Neighbor
                     /\ [table[k] EXCEPT !.state = "DOWN"].state = "DOWN"
  <2>1. \A k \in old : table[k] \in Neighbor
    BY <1>1 DEF NbrTable
  <2>2. \A n \in Neighbor : /\ [n EXCEPT !.state = "DOWN"] \in Neighbor
                            /\ [n EXCEPT !.state = "DOWN"].state = "DOWN"
    BY DEF Neighbor
  <2> QED BY <2>1, <2>2
<1>5. new \in NbrTable
  BY <1>1, <1>4 DEF NbrTable
<1>6. /\ \A k \in 1 .. MaxNeighbors : k \notin old => new[k] = table[k]
      /\ \A k \in old : new[k].state = "DOWN"
  BY <1>4
<1> HIDE DEF new
<1>7. nbr' \in [Routers -> NbrTable] /\ nbr'[r] = new /\ \A q \in Routers \ {r} : nbr'[q] = nbr[q]
  BY <1>1, <1>2, <1>5
<1>8. /\ timer' \in [Routers -> [hello: 0 .. 1, dead: 0 .. Dead]] /\ timer'[r].dead = Dead
      /\ \A q \in Routers \ {r} : timer'[q] = timer[q]
  BY <1>1, <1>3, SizesAssumption
<1> QED BY <1>3, <1>6, <1>7, <1>8

(* The dead scan keeps the types.                                          *)
LEMMA DeadTimerType ==
  ASSUME TypeOK, NEW r \in Routers, DeadTimer(r)
  PROVE  TypeOK'
<1> DEFINE old == Silent(r, Dead)
           due == IF old = {} THEN 0 ELSE 1
<1>1. Scan(r, old, due) /\ old \in SUBSET (1 .. MaxNeighbors) /\ \A k \in old : nbr[r][k] # Invalid
  BY DEF DeadTimer, Silent
<1>2. due \in Nat
  OBVIOUS
<1> HIDE DEF old, due
<1>3. nbr' \in [Routers -> NbrTable] /\ timer' \in [Routers -> [hello: 0 .. 1, dead: 0 .. Dead]]
  BY <1>1, ScanIs
<1>4. spf' \in [Routers -> Nat]
  BY <1>1, <1>2 DEF Scan, TypeOK
<1> QED BY <1>1, <1>3, <1>4 DEF TypeOK, Scan, NbrTable

(* The graph of any content has edges between ids with a metric each.      *)
LEMMA GraphType ==
  ASSUME NEW c \in Contents
  PROVE  Graph(c) \in SpfGraphs
<1> SUFFICES ASSUME NEW v \in Ids
             PROVE  UNION {Edges[k][c[k]] : k \in {l \in Keys : Adv[l] = v /\ c[l] > 0}}
                      \subseteq Ids \X Nat
  BY DEF Graph, SpfGraphs
<1>1. ASSUME NEW k \in Keys, c[k] > 0 PROVE Edges[k][c[k]] \subseteq Ids \X Nat
  <2>1. c[k] \in {0} \cup Seqs
    BY DEF Contents
  <2>2. c[k] \in Seqs
    BY <1>1, <2>1
  <2> QED BY <2>2, TopologyAssumption
<1> QED BY <1>1

(* The SPF timer keeps the types.                                          *)
LEMMA SpfTimerType ==
  ASSUME TypeOK, NEW r \in Routers, SpfTimer(r)
  PROVE  TypeOK'
<1> DEFINE toward(f, d) == {k \in Usable(r) : nbr[r][k].id = f.is.hop[d]}
           found(f) == [d \in Ids |->
             IF d = r \/ f.is.dist[d] = Infinity \/ toward(f, d) = {} THEN NoRoute
             ELSE [via |-> nbr[r][First(toward(f, d))].iface, metric |-> f.is.dist[d]]]
<1>1. PICK f \in Found : f.root = r /\ routes' = [routes EXCEPT ![r] = found(f)]
  BY DEF SpfTimer
<1>2. f.is \in SpfStates
  <2>1. PICK c \in Contents, q \in Routers :
          f = [content |-> c, root |-> q, is |-> Dijkstra(q, Graph(c))]
    BY DEF Found
  <2>2. f.is = Dijkstra(q, Graph(c)) /\ q \in Ids
    BY <2>1, TopologyAssumption
  <2> QED BY <2>2, GraphType, DijkstraType
<1>3. \A d \in Ids : f.is.dist[d] \in 0 .. Infinity
  BY <1>2 DEF SpfStates
<1>4. ASSUME NEW d \in Ids, toward(f, d) # {}
      PROVE  nbr[r][First(toward(f, d))].iface \in Ifaces
  <2>1. toward(f, d) \in SUBSET Nat
    BY DEF Usable
  <2>2. First(toward(f, d)) \in toward(f, d)
    BY <1>4, <2>1, FirstIn
  <2>3. \A k \in toward(f, d) : k \in 1 .. MaxNeighbors /\ nbr[r][k] # Invalid
    BY DEF Usable
  <2>4. nbr[r] \in NbrTable
    BY DEF TypeOK, NbrTable
  <2>5. nbr[r][First(toward(f, d))] \in Neighbor
    BY <2>2, <2>3, <2>4 DEF NbrTable
  <2> QED BY <2>5 DEF Neighbor
<1> HIDE DEF toward
<1>5. \A d \in Ids : f.is.dist[d] # Infinity => f.is.dist[d] \in 0 .. Infinity - 1
  BY <1>3, IdsAssumption
<1>6. found(f) \in [Ids -> Route \cup {NoRoute}]
  <2> SUFFICES ASSUME NEW d \in Ids, f.is.dist[d] # Infinity, toward(f, d) # {}
               PROVE  [via |-> nbr[r][First(toward(f, d))].iface, metric |-> f.is.dist[d]]
                        \in Route
    OBVIOUS
  <2> QED BY <1>4, <1>5 DEF Route
<1> HIDE DEF found
<1>7. routes' \in [Routers -> [Ids -> Route \cup {NoRoute}]]
  BY <1>1, <1>6 DEF TypeOK
<1>8. spf' \in [Routers -> Nat]
  <2>1. spf \in [Routers -> Nat] /\ spf[r] > 0 /\ spf' = [spf EXCEPT ![r] = @ - 1]
    BY DEF SpfTimer, TypeOK
  <2> QED BY <2>1
<1> QED BY <1>7, <1>8 DEF TypeOK, SpfTimer

(* The passage of time keeps the types.                                    *)
LEMMA TickType ==
  ASSUME TypeOK, Tick
  PROVE  TypeOK'
<1>1. \A n \in Neighbor : Older(n) \in Neighbor
  BY DEF Older, Neighbor
<1>2. Older(Invalid) = Invalid
  BY DEF Older
<1>3. nbr' \in [Routers -> NbrTable]
  <2>1. nbr \in [Routers -> NbrTable]
    BY DEF TypeOK, NbrTable
  <2>2. nbr' = [r \in Routers |-> [k \in 1 .. MaxNeighbors |-> Older(nbr[r][k])]]
    BY DEF Tick
  <2>3. \A r \in Routers, k \in 1 .. MaxNeighbors : Older(nbr[r][k]) \in Neighbor \cup {Invalid}
    BY <1>1, <1>2, <2>1 DEF NbrTable
  <2> QED BY <2>2, <2>3 DEF NbrTable
<1>4. timer' \in [Routers -> [hello: 0 .. 1, dead: 0 .. Dead]]
  <2>1. \A r \in Routers : /\ timer[r].hello \in 0 .. 1 /\ timer[r].dead \in 0 .. Dead
                           /\ timer[r].hello > 0 /\ timer[r].dead > 0
    BY DEF TypeOK, Tick, NoneDue
  <2>2. \A r \in Routers : timer[r].hello - 1 \in 0 .. 1 /\ timer[r].dead - 1 \in 0 .. Dead
    BY <2>1, SizesAssumption
  <2>3. timer' = [r \in Routers |->
                    [hello |-> timer[r].hello - 1, dead |-> timer[r].dead - 1]]
    BY DEF Tick
  <2> QED BY <2>2, <2>3
<1> QED BY <1>3, <1>4 DEF TypeOK, Tick, NbrTable
(* ospf_receive of an LSU: the database takes it, and a frame for each     *)
(* changed slot leaves by out, which are interfaces of the router.         *)
Lsus(t) == [n \in DOMAIN t.changed |-> [type |-> "LSU", lsas |-> <<t.db[t.changed[n]]>>]]

Rest(i, j) == IF j = i THEN Tail(wire[j]) ELSE wire[j]

Flooded(i, t, out) ==
  /\ Took(lsdb[Node[i]], Head(wire[i]).lsas, Len(Head(wire[i]).lsas), t)
  /\ \A j \in out : j \in Ifaces /\ Node[j] = Node[i]
  /\ lsdb' = [lsdb EXCEPT ![Node[i]] = t.db]
  /\ wire' = [j \in Ifaces |->
       IF Peer[j] \in out \ {Origin} THEN Rest(i, j) \o Lsus(t) ELSE Rest(i, j)]
  /\ spf' = [spf EXCEPT ![Node[i]] = IF t.changed # <<>> THEN @ + 1 ELSE @]
  /\ missed' = IF t.changed = <<>> THEN missed
               ELSE missed \cup {j \in Ifaces \ (out \cup {i}) : Node[j] = Node[i]}

(* What a received LSU is, and that its LSAs are stored and flooded in     *)
(* turn.                                                                   *)
LEMMA ReceiveLsuIs ==
  ASSUME TypeOK, NEW i \in Ifaces, ReceiveLsu(i)
  PROVE  /\ Node[i] \in Routers /\ lsdb[Node[i]] \in Lsdbs
         /\ Head(wire[i]) \in Message /\ Head(wire[i]).type = "LSU"
         /\ Head(wire[i]).lsas \in Seq(Lsa) /\ wire[i] # <<>>
         /\ \E t, out : Flooded(i, t, out)
<1> DEFINE r   == Node[i]
           m   == Head(wire[i])
           t   == Applied(lsdb[r], m.lsas)
           out == FloodedOut(r, i)
<1>1. r \in Routers /\ lsdb[r] \in Lsdbs
  BY TopologyAssumption DEF TypeOK, Lsdbs, Slots
<1>2. wire[i] # <<>> /\ m.type = "LSU"
  BY DEF ReceiveLsu
<1>3. m \in Message /\ m.lsas \in Seq(Lsa)
  BY <1>2, WireTail, MessageFields
<1>4. Took(lsdb[r], m.lsas, Len(m.lsas), t)
  BY <1>1, <1>3, AppliedTakes
<1>5. \A j \in out : j \in Ifaces /\ Node[j] = r
  BY <1>1, TopologyAssumption DEF FloodedOut
<1>6. /\ lsdb' = [lsdb EXCEPT ![r] = t.db]
      /\ wire' = [j \in Ifaces |->
           IF Peer[j] \in out \ {Origin} THEN Rest(i, j) \o Lsus(t) ELSE Rest(i, j)]
      /\ spf' = [spf EXCEPT ![r] = IF t.changed # <<>> THEN @ + 1 ELSE @]
      /\ missed' = IF t.changed = <<>> THEN missed
                   ELSE missed \cup {j \in Ifaces \ (out \cup {i}) : Node[j] = r}
  <2> DEFINE P(x, y) ==
        /\ lsdb' = [lsdb EXCEPT ![r] = x.db]
        /\ wire' = [j \in Ifaces |->
             IF Peer[j] \in y \ {Origin} THEN Rest(i, j) \o Lsus(x) ELSE Rest(i, j)]
        /\ spf' = [spf EXCEPT ![r] = IF x.changed # <<>> THEN @ + 1 ELSE @]
        /\ missed' = IF x.changed = <<>> THEN missed
                     ELSE missed \cup {j \in Ifaces \ (y \cup {i}) : Node[j] = r}
  <2>1. \E x \in {t}, y \in {out} : P(x, y)
    BY Zenon DEF ReceiveLsu, Rest, Lsus
  <2> HIDE DEF t, out, P
  <2>2. P(t, out)
    BY <2>1, Zenon
  <2> QED BY <2>2 DEF P
<1> HIDE DEF t, out
<1>7. Flooded(i, t, out)
  BY <1>4, <1>5, <1>6 DEF Flooded
<1> QED BY <1>1, <1>2, <1>3, <1>7

(* The frames of a flood carry the changed entries.                        *)
LEMMA LsusType ==
  ASSUME NEW db, NEW lsas, NEW n, NEW t, Took(db, lsas, n, t), lsas \in Seq(Lsa), n = Len(lsas)
  PROVE  /\ Lsus(t) \in Seq(Message) /\ Len(Lsus(t)) = Len(t.changed)
         /\ DOMAIN Lsus(t) = DOMAIN t.changed
         /\ \A e \in DOMAIN t.changed :
              /\ t.changed[e] \in Slots /\ t.db[t.changed[e]] \in Lsa
              /\ Lsus(t)[e] = [type |-> "LSU", lsas |-> <<t.db[t.changed[e]]>>]
<1>1. t.changed \in Seq(Slots) /\ t.db \in Lsdbs
  BY DEF Took, Stores
<1>2. \A e \in DOMAIN t.changed : t.changed[e] \in Slots
  BY <1>1
<1>3. \A e \in 1 .. n : lsas[e] \in Lsa
  OBVIOUS
<1>4. \A e \in DOMAIN t.changed : t.db[t.changed[e]] \in Lsa
  BY <1>2, <1>3 DEF Took, Among
<1>5. \A e \in DOMAIN t.changed : [type |-> "LSU", lsas |-> <<t.db[t.changed[e]]>>] \in Message
  <2> SUFFICES ASSUME NEW e \in DOMAIN t.changed
               PROVE  [type |-> "LSU", lsas |-> <<t.db[t.changed[e]]>>] \in Message
    OBVIOUS
  <2>1. <<t.db[t.changed[e]]>> \in Seq(Lsa)
    BY <1>4
  <2> QED BY <2>1, MessageFields
<1>6. DOMAIN t.changed = 1 .. Len(t.changed) /\ Len(t.changed) \in Nat
  BY <1>1
<1>7. \A e \in DOMAIN t.changed : Lsus(t)[e] = [type |-> "LSU", lsas |-> <<t.db[t.changed[e]]>>]
  BY DEF Lsus
<1>8. Lsus(t) \in Seq(Message) /\ Len(Lsus(t)) = Len(t.changed) /\ DOMAIN Lsus(t) = DOMAIN t.changed
  <2>1. Lsus(t) \in [1 .. Len(t.changed) -> Message]
    BY <1>5, <1>6 DEF Lsus
  <2> QED BY <1>6, <2>1
<1> QED BY <1>2, <1>4, <1>7, <1>8

(* ospf_receive of an LSU keeps the types.                                 *)
LEMMA ReceiveLsuType ==
  ASSUME TypeOK, NEW i \in Ifaces, ReceiveLsu(i)
  PROVE  TypeOK'
<1> DEFINE r == Node[i]
<1>1. /\ r \in Routers /\ lsdb[r] \in Lsdbs /\ wire[i] # <<>> /\ Head(wire[i]).lsas \in Seq(Lsa)
      /\ \E t, out : Flooded(i, t, out)
  BY ReceiveLsuIs
<1>2. PICK t, out : Flooded(i, t, out)
  BY <1>1
<1>3. t.db \in Lsdbs /\ t.changed \in Seq(Slots)
  BY <1>2 DEF Flooded, Took, Stores
<1>4. Lsus(t) \in Seq(Message)
  BY <1>1, <1>2, LsusType DEF Flooded
<1>5. \A j \in Ifaces : Rest(i, j) \in Seq(Message)
  BY <1>1, WireTail DEF Rest, TypeOK
<1>6. wire' \in [Ifaces -> Seq(Message)]
  <2>1. \A j \in Ifaces : Rest(i, j) \o Lsus(t) \in Seq(Message)
    BY <1>4, <1>5
  <2>2. wire' = [j \in Ifaces |->
          IF Peer[j] \in out \ {Origin} THEN Rest(i, j) \o Lsus(t) ELSE Rest(i, j)]
    BY <1>2 DEF Flooded
  <2> QED BY <1>5, <2>1, <2>2
<1>7. lsdb' \in [Routers -> Lsdbs]
  BY <1>1, <1>2, <1>3 DEF TypeOK, Flooded, Lsdbs, Slots
<1>8. spf' \in [Routers -> Nat]
  BY <1>1, <1>2 DEF TypeOK, Flooded
<1>9. missed' \subseteq Ifaces
  BY <1>2 DEF TypeOK, Flooded
<1> QED BY <1>6, <1>7, <1>8, <1>9 DEF TypeOK, ReceiveLsu, Lsdbs, Slots

(* The speaker, losses and interface changes keep the types.               *)
LEMMA EnvironmentType ==
  ASSUME TypeOK, Environment
  PROVE  TypeOK'
<1>1. ASSUME NEW lsas \in Updates, Speak(lsas) PROVE TypeOK'
  <2>1. lsas \in Seq(Lsa) /\ Origin \in Ifaces
    BY TopologyAssumption
  <2> DEFINE m == [type |-> "LSU", lsas |-> lsas]
  <2>2. m \in Message
    BY <2>1, MessageFields
  <2> HIDE DEF m
  <2>3. wire \in [Ifaces -> Seq(Message)] /\ wire' = [wire EXCEPT ![Origin] = Append(@, m)]
    BY <1>1 DEF TypeOK, Speak, m
  <2>4. wire' \in [Ifaces -> Seq(Message)]
    BY <2>1, <2>2, <2>3
  <2>5. updates' \in 0 .. MaxUpdates
    BY <1>1, SizesAssumption DEF TypeOK, Speak
  <2> QED BY <1>1, <2>4, <2>5 DEF TypeOK, Speak
<1>2. Fault => faults' \in 0 .. MaxFaults
  BY SizesAssumption DEF TypeOK, Fault
<1>3. ASSUME NEW i \in Fragile, Lose(i) PROVE TypeOK'
  <2>1. i \in Ifaces /\ Peer[i] \in Ifaces
    BY SizesAssumption, TopologyAssumption
  <2>2. wire' \in [Ifaces -> Seq(Message)]
    BY <1>3, <2>1, WireTail DEF Lose
  <2>3. missed' \subseteq Ifaces
    BY <1>3, <2>1 DEF Lose, TypeOK
  <2> QED BY <1>2, <1>3, <2>2, <2>3 DEF TypeOK, Lose
<1>4. ASSUME NEW i \in Fragile, Flap(i) PROVE TypeOK'
  <2>1. up' \subseteq Ifaces
    BY <1>4, SizesAssumption DEF Flap, TypeOK
  <2> QED BY <1>2, <1>4, <2>1 DEF TypeOK, Flap
<1> QED BY <1>1, <1>3, <1>4 DEF Environment

(* The initial state has the types.                                        *)
LEMMA InitType == Init => TypeOK
<1> SUFFICES ASSUME Init PROVE TypeOK
  OBVIOUS
<1>1. timer \in [Routers -> [hello: 0 .. 1, dead: 0 .. Dead]]
  <2>1. \A r \in Routers : FirstScan[r] \in 0 .. Dead
    BY TopologyAssumption
  <2>2. 1 \in 0 .. 1
    OBVIOUS
  <2>3. timer = [r \in Routers |-> [hello |-> 1, dead |-> FirstScan[r]]]
    BY DEF Init
  <2> QED BY <2>1, <2>2, <2>3
<1>2. 0 \in 0 .. MaxUpdates /\ 0 \in 0 .. MaxFaults
  BY SizesAssumption
<1>3. <<>> \in Seq(Message)
  OBVIOUS
<1> QED BY <1>1, <1>2, <1>3 DEF Init, TypeOK

(* Every step keeps the types.                                             *)
LEMMA NextType == TypeOK /\ [Next]_vars => TypeOK'
<1> SUFFICES ASSUME TypeOK, [Next]_vars PROVE TypeOK'
  OBVIOUS
<1>1. CASE Environment
  BY <1>1, EnvironmentType
<1>2. ASSUME NEW i \in Ifaces, ReceiveHello(i) PROVE TypeOK'
  BY <1>2, ReceiveHelloType
<1>3. ASSUME NEW i \in Ifaces, ReceiveLsu(i) PROVE TypeOK'
  BY <1>3, ReceiveLsuType
<1>4. ASSUME NEW r \in Routers, HelloTimer(r) PROVE TypeOK'
  BY <1>4, HelloTimerType
<1>5. ASSUME NEW r \in Routers, DeadTimer(r) PROVE TypeOK'
  BY <1>5, DeadTimerType
<1>6. ASSUME NEW r \in Routers, SpfTimer(r) PROVE TypeOK'
  BY <1>6, SpfTimerType
<1>7. CASE Tick
  BY <1>7, TickType
<1>8. CASE UNCHANGED vars
  BY <1>8 DEF vars, TypeOK
<1> QED BY <1>1, <1>2, <1>3, <1>4, <1>5, <1>6, <1>7, <1>8 DEF Next, Step
-----------------------------------------------------------------------------
(* Silence is noticed.                                                     *)

(* A neighbour that is not DOWN was heard so recently that the next scan   *)
(* comes before two dead intervals have passed.                            *)
Punctual ==
  \A r \in Routers, k \in 1 .. MaxNeighbors :
    nbr[r][k] # Invalid /\ nbr[r][k].state # "DOWN" =>
      nbr[r][k].age + timer[r].dead < 2 * Dead

(* What the proofs need to know of a neighbour and of the timers.          *)
LEMMA NeighborFields ==
  ASSUME TypeOK, NEW r \in Routers
  PROVE  /\ timer[r].dead \in 0 .. Dead /\ timer[r].hello \in 0 .. 1
         /\ \A k \in 1 .. MaxNeighbors : nbr[r][k] # Invalid =>
              nbr[r][k] \in Neighbor /\ nbr[r][k].age \in Nat
<1>1. timer[r] \in [hello: 0 .. 1, dead: 0 .. Dead] /\ nbr[r] \in NbrTable
  BY DEF TypeOK, NbrTable
<1>2. \A k \in 1 .. MaxNeighbors : nbr[r][k] # Invalid => nbr[r][k] \in Neighbor
  BY <1>1 DEF NbrTable
<1>3. \A n \in Neighbor : n.age \in Nat
  BY DEF Neighbor
<1> QED BY <1>1, <1>2, <1>3

(* No step makes a neighbour outlive its silence.                          *)
LEMMA NextPunctual == TypeOK /\ Punctual /\ [Next]_vars => Punctual'
<1> SUFFICES ASSUME TypeOK, Punctual, [Next]_vars PROVE Punctual'
  OBVIOUS
<1>1. CASE UNCHANGED <<nbr, timer>>
  BY <1>1 DEF Punctual
<1>2. ASSUME NEW i \in Ifaces, ReceiveHello(i) PROVE Punctual'
  <2> DEFINE m     == Head(wire[i])
             q     == Node[i]
             table == nbr[q]
             match == {k \in DOMAIN table : table[k] # Invalid /\ table[k].id = m.id}
             free  == {k \in DOMAIN table : table[k] = Invalid}
             j     == First(IF match # {} THEN match ELSE free)
             e     == [id |-> m.id, iface |-> i, age |-> 0,
                       state |-> IF q \in m.seen THEN "FULL" ELSE "INIT"]
  <2>1. timer' = timer /\ (nbr' = nbr \/ nbr' = [nbr EXCEPT ![q][j] = e])
    BY <1>2 DEF ReceiveHello
  <2>2. e.age = 0
    OBVIOUS
  <2> HIDE DEF e, j
  <2>3. nbr \in [Routers -> NbrTable]
    BY DEF TypeOK, NbrTable
  <2>4. ASSUME NEW r \in Routers, NEW k \in 1 .. MaxNeighbors
        PROVE  nbr'[r][k] = nbr[r][k] \/ nbr'[r][k] = e
    BY <2>1, <2>3 DEF NbrTable
  <2>5. ASSUME NEW r \in Routers PROVE 0 + timer[r].dead < 2 * Dead
    BY NeighborFields, SizesAssumption
  <2> QED BY <2>1, <2>2, <2>4, <2>5 DEF Punctual
<1>3. ASSUME NEW r \in Routers, HelloTimer(r) PROVE Punctual'
  <2>1. nbr' = nbr /\ timer' = [timer EXCEPT ![r].hello = 1]
    BY <1>3 DEF HelloTimer
  <2>2. \A q \in Routers : timer'[q].dead = timer[q].dead
    BY <2>1 DEF TypeOK
  <2> QED BY <2>1, <2>2 DEF Punctual
<1>4. ASSUME NEW r \in Routers, DeadTimer(r) PROVE Punctual'
  <2> DEFINE old == Silent(r, Dead)
  <2>1. PICK due : Scan(r, old, due)
    BY <1>4 DEF DeadTimer
  <2>2. old \in SUBSET (1 .. MaxNeighbors) /\ \A k \in old : nbr[r][k] # Invalid
    BY DEF Silent
  <2>3. \A k \in 1 .. MaxNeighbors : k \notin old /\ nbr[r][k] # Invalid /\ nbr[r][k].state # "DOWN"
          => ~(nbr[r][k].age >= Dead)
    BY DEF Silent
  <2> HIDE DEF old
  <2>4. /\ timer'[r].dead = Dead
        /\ \A q \in Routers \ {r} : nbr'[q] = nbr[q] /\ timer'[q] = timer[q]
        /\ \A k \in 1 .. MaxNeighbors : k \notin old => nbr'[r][k] = nbr[r][k]
        /\ \A k \in old : nbr'[r][k].state = "DOWN"
    BY <2>1, <2>2, ScanIs
  <2> SUFFICES ASSUME NEW q \in Routers, NEW k \in 1 .. MaxNeighbors,
                      nbr'[q][k] # Invalid, nbr'[q][k].state # "DOWN"
               PROVE  nbr'[q][k].age + timer'[q].dead < 2 * Dead
    BY DEF Punctual
  <2>5. CASE q # r
    BY <2>4, <2>5 DEF Punctual
  <2>6. CASE q = r
    <3>1. k \notin old /\ nbr'[r][k] = nbr[r][k]
      BY <2>4, <2>6
    <3>2. nbr[r][k].age \in Nat /\ ~(nbr[r][k].age >= Dead)
      BY <2>3, <2>6, <3>1, NeighborFields
    <3> QED BY <2>4, <2>6, <3>1, <3>2, SizesAssumption
  <2> QED BY <2>5, <2>6
<1>5. CASE Tick
  <2> SUFFICES ASSUME NEW q \in Routers, NEW k \in 1 .. MaxNeighbors,
                      nbr'[q][k] # Invalid, nbr'[q][k].state # "DOWN"
               PROVE  nbr'[q][k].age + timer'[q].dead < 2 * Dead
    BY DEF Punctual
  <2> DEFINE n == nbr[q][k]
  <2>1. nbr'[q][k] = Older(n) /\ timer'[q].dead = timer[q].dead - 1
    BY <1>5 DEF Tick
  <2>2. n # Invalid /\ n.state # "DOWN"
    BY <2>1 DEF Older
  <2>3. n \in Neighbor /\ n.age \in Nat /\ timer[q].dead \in Nat
        /\ n.age + timer[q].dead < 2 * Dead
    BY <2>2, NeighborFields DEF Punctual
  <2> HIDE DEF n
  <2>4. Older(n).age = n.age + 1
    BY <2>2, <2>3 DEF Older, Neighbor
  <2> QED BY <2>1, <2>3, <2>4, SizesAssumption
<1>6. ASSUME NEW i \in Ifaces, ReceiveLsu(i) PROVE UNCHANGED <<nbr, timer>>
  BY <1>6 DEF ReceiveLsu
<1>7. ASSUME NEW r \in Routers, SpfTimer(r) PROVE UNCHANGED <<nbr, timer>>
  BY <1>7 DEF SpfTimer
<1>8. Environment => UNCHANGED <<nbr, timer>>
  BY DEF Environment, Speak, Lose, Flap
<1>9. UNCHANGED vars => UNCHANGED <<nbr, timer>>
  BY DEF vars
<1> QED BY <1>1, <1>2, <1>3, <1>4, <1>5, <1>6, <1>7, <1>8, <1>9 DEF Next, Step

-----------------------------------------------------------------------------
(* Calculations.                                                           *)

Known(db) == {v \in Keys \X Seqs : v[2] <= Content(db)[v[1]]}

(* Between a scan and the next step of time it may add one calculation.    *)
Pending ==
  \A r \in Routers :
    spf[r] <= (IF timer[r].dead = 0 THEN 0 ELSE 1) + Cardinality(Known(lsdb[r]))

(* The versions known are finitely many, and more when one rises.          *)
LEMMA KnownGrows ==
  ASSUME NEW a \in Lsdbs, NEW b \in Lsdbs, \A x \in Keys : Content(b)[x] >= Content(a)[x]
  PROVE  /\ Cardinality(Known(a)) \in Nat /\ Cardinality(Known(b)) \in Nat
         /\ Cardinality(Known(a)) <= Cardinality(Known(b))
         /\ (\E x \in Keys : Content(b)[x] > Content(a)[x]) =>
              Cardinality(Known(a)) + 1 <= Cardinality(Known(b))
<1>1. IsFiniteSet(Keys \X Seqs)
  <2>1. IsFiniteSet(Seqs)
    <3>1. 1 \in Int /\ 2 \in Int
      OBVIOUS
    <3>2. IsFiniteSet(1 .. 2)
      BY <3>1, FS_Interval, Zenon
    <3> QED BY <3>2 DEF Seqs
  <2> QED BY <2>1, TopologyAssumption, FS_Product
<1>2. \A db : Known(db) \in SUBSET (Keys \X Seqs)
  BY DEF Known
<1>3. IsFiniteSet(Known(a)) /\ IsFiniteSet(Known(b))
  BY <1>1, <1>2, FS_Subset
<1>4. Cardinality(Known(a)) \in Nat /\ Cardinality(Known(b)) \in Nat
  BY <1>3, FS_CardinalityType
<1>5. \A x \in Keys : /\ Content(a)[x] \in Nat /\ Content(b)[x] \in Nat
                      /\ Content(b)[x] \in {0} \cup Seqs
  BY ContentType
<1>6. Known(a) \in SUBSET Known(b)
  <2> SUFFICES ASSUME NEW v \in Known(a) PROVE v \in Known(b)
    OBVIOUS
  <2>1. v \in Keys \X Seqs /\ v[1] \in Keys /\ v[2] \in Nat /\ v[2] <= Content(a)[v[1]]
    BY DEF Known, Seqs
  <2>2. v[2] <= Content(b)[v[1]]
    BY <1>5, <2>1
  <2> QED BY <2>1, <2>2 DEF Known
<1>7. /\ Cardinality(Known(a)) <= Cardinality(Known(b))
      /\ Cardinality(Known(b)) = Cardinality(Known(a)) => Known(b) = Known(a)
  BY <1>3, <1>6, FS_Subset
<1>8. ASSUME NEW x \in Keys, Content(b)[x] > Content(a)[x] PROVE Known(b) # Known(a)
  <2> DEFINE v == <<x, Content(b)[x]>>
  <2>1. Content(b)[x] \in Seqs
    BY <1>5, <1>8
  <2>2. v \in Known(b)
    BY <1>5, <2>1 DEF Known
  <2>3. v \notin Known(a)
    BY <1>5, <1>8 DEF Known
  <2> QED BY <2>2, <2>3
<1> QED BY <1>4, <1>7, <1>8

(* No step schedules a calculation without something new to calculate.     *)
LEMMA NextPending == TypeOK /\ Pending /\ [Next]_vars => Pending'
<1> SUFFICES ASSUME TypeOK, Pending, [Next]_vars PROVE Pending'
  OBVIOUS
<1>1. /\ \A r \in Routers : spf[r] \in Nat /\ lsdb[r] \in Lsdbs
      /\ \A r \in Routers : Cardinality(Known(lsdb[r])) \in Nat
  <2>1. \A r \in Routers : spf[r] \in Nat /\ lsdb[r] \in Lsdbs
    BY DEF TypeOK, Lsdbs, Slots
  <2>2. ASSUME NEW db \in Lsdbs PROVE Cardinality(Known(db)) \in Nat
    <3>1. \A x \in Keys : Content(db)[x] >= Content(db)[x]
      BY ContentType
    <3> QED BY <3>1, KnownGrows
  <2> QED BY <2>1, <2>2
<1>2. CASE UNCHANGED <<spf, timer, lsdb>>
  BY <1>2 DEF Pending
<1>3. ASSUME NEW r \in Routers, HelloTimer(r) PROVE Pending'
  <2>1. UNCHANGED <<spf, lsdb>> /\ timer' = [timer EXCEPT ![r].hello = 1]
    BY <1>3 DEF HelloTimer
  <2>2. \A q \in Routers : timer'[q].dead = timer[q].dead
    BY <2>1 DEF TypeOK
  <2> QED BY <2>1, <2>2 DEF Pending
<1>4. ASSUME NEW r \in Routers, DeadTimer(r) PROVE Pending'
  <2> DEFINE old == Silent(r, Dead)
             due == IF old = {} THEN 0 ELSE 1
  <2>1. Scan(r, old, due) /\ old \in SUBSET (1 .. MaxNeighbors) /\ \A k \in old : nbr[r][k] # Invalid
    BY <1>4 DEF DeadTimer, Silent
  <2>2. due \in 0 .. 1
    OBVIOUS
  <2> HIDE DEF old, due
  <2>3. /\ timer[r].dead = 0 /\ timer'[r].dead = Dead
        /\ \A q \in Routers \ {r} : timer'[q] = timer[q]
    BY <2>1, ScanIs
  <2>4. lsdb' = lsdb /\ spf' = [spf EXCEPT ![r] = @ + due]
    BY <2>1 DEF Scan
  <2>5. spf'[r] = spf[r] + due /\ \A q \in Routers \ {r} : spf'[q] = spf[q]
    BY <2>4 DEF TypeOK
  <2> SUFFICES ASSUME NEW q \in Routers
               PROVE  spf'[q] <= (IF timer'[q].dead = 0 THEN 0 ELSE 1)
                                   + Cardinality(Known(lsdb[q]))
    BY <2>4 DEF Pending
  <2>6. CASE q # r
    BY <2>3, <2>5, <2>6 DEF Pending
  <2>7. CASE q = r
    <3>1. spf[r] <= 0 + Cardinality(Known(lsdb[r]))
      BY <2>3 DEF Pending
    <3>2. Dead # 0
      BY SizesAssumption
    <3> QED BY <1>1, <2>2, <2>3, <2>5, <2>7, <3>1, <3>2
  <2> QED BY <2>6, <2>7
<1>5. ASSUME NEW r \in Routers, SpfTimer(r) PROVE Pending'
  <2>1. UNCHANGED <<timer, lsdb>> /\ spf' = [spf EXCEPT ![r] = @ - 1]
    BY <1>5 DEF SpfTimer
  <2>2. \A q \in Routers : spf'[q] <= spf[q] /\ spf'[q] \in Int
    BY <1>1, <2>1 DEF TypeOK
  <2> SUFFICES ASSUME NEW q \in Routers
               PROVE  spf'[q] <= (IF timer[q].dead = 0 THEN 0 ELSE 1)
                                   + Cardinality(Known(lsdb[q]))
    BY <2>1 DEF Pending
  <2>3. spf[q] <= (IF timer[q].dead = 0 THEN 0 ELSE 1) + Cardinality(Known(lsdb[q]))
    BY DEF Pending
  <2> QED BY <1>1, <2>2, <2>3
<1>6. CASE Tick
  <2>1. UNCHANGED <<spf, lsdb>> /\ \A r \in Routers : spf[r] = 0
    BY <1>6 DEF Tick
  <2> QED BY <1>1, <2>1 DEF Pending
<1>7. ASSUME NEW i \in Ifaces, ReceiveLsu(i) PROVE Pending'
  <2> DEFINE r == Node[i]
  <2>1. r \in Routers /\ \E t, out : Flooded(i, t, out)
    BY <1>7, ReceiveLsuIs
  <2>2. PICK t, out : Flooded(i, t, out)
    BY <2>1
  <2>3. timer' = timer
    BY <1>7 DEF ReceiveLsu
  <2>4. /\ lsdb'[r] = t.db /\ \A q \in Routers \ {r} : lsdb'[q] = lsdb[q]
        /\ spf'[r] = IF t.changed # <<>> THEN spf[r] + 1 ELSE spf[r]
        /\ \A q \in Routers \ {r} : spf'[q] = spf[q]
    BY <2>1, <2>2 DEF Flooded, TypeOK
  <2>5. /\ t.db \in Lsdbs /\ \A x \in Keys : Content(t.db)[x] >= Content(lsdb[r])[x]
        /\ t.changed # <<>> => \E x \in Keys : Content(t.db)[x] > Content(lsdb[r])[x]
    BY <2>2 DEF Flooded, Took, Stores
  <2> DEFINE c == Cardinality(Known(lsdb[r]))
             d == Cardinality(Known(t.db))
  <2>6. c \in Nat /\ d \in Nat /\ c <= d /\ (t.changed # <<>> => c + 1 <= d)
    BY <1>1, <2>1, <2>5, KnownGrows
  <2> SUFFICES ASSUME NEW q \in Routers
               PROVE  spf'[q] <= (IF timer[q].dead = 0 THEN 0 ELSE 1)
                                   + Cardinality(Known(lsdb'[q]))
    BY <2>3 DEF Pending
  <2>7. CASE q # r
    BY <2>4, <2>7 DEF Pending
  <2>8. CASE q = r
    <3>1. spf[r] <= (IF timer[r].dead = 0 THEN 0 ELSE 1) + c
      BY <2>1 DEF Pending
    <3>2. lsdb'[r] = t.db
      BY <2>4
    <3> HIDE DEF c
    <3> QED BY <1>1, <2>1, <2>4, <2>6, <2>8, <3>1, <3>2
  <2> QED BY <2>7, <2>8
<1>8. ASSUME NEW i \in Ifaces, ReceiveHello(i) PROVE UNCHANGED <<spf, timer, lsdb>>
  BY <1>8 DEF ReceiveHello
<1>9. Environment => UNCHANGED <<spf, timer, lsdb>>
  BY DEF Environment, Speak, Lose, Flap
<1>10. UNCHANGED vars => UNCHANGED <<spf, timer, lsdb>>
  BY DEF vars
<1> QED BY <1>2, <1>3, <1>4, <1>5, <1>6, <1>7, <1>8, <1>9, <1>10 DEF Next, Step
-----------------------------------------------------------------------------
(* Flooding.                                                               *)

Frames(w) == {w[n] : n \in DOMAIN w}

(* A frame that carries l or a newer version; a frame the database of its  *)
(* sender backs.                                                           *)
Carries(m, l) ==
  m.type = "LSU" /\ \E e \in DOMAIN m.lsas : m.lsas[e].key = l.key /\ m.lsas[e].seq >= l.seq

Backed(m, db) == m.type = "LSU" => \A e \in DOMAIN m.lsas : Has(db, m.lsas[e])

(* What the routers of a link sent over it they have themselves: the       *)
(* interface an LSA came in by needs no copy.                              *)
HeldBySender ==
  \A i \in Ifaces \ {Origin} : \A m \in Frames(wire[i]) : Backed(m, lsdb[Node[Peer[i]]])

(* FloodReaches with the databases and wires named.                        *)
Reaches(db, w, l) == Has(db, l) \/ Full(db, l.key) \/ \E m \in Frames(w) : Carries(m, l)

LinksReach ==
  \A i \in Ifaces \ ({Origin} \cup missed) : \A k \in Slots :
    lsdb[Node[i]][k] # Invalid =>
      Reaches(lsdb[Node[Peer[i]]], wire[Peer[i]], lsdb[Node[i]][k])

(* FloodReaches, link by link.                                             *)
LEMMA LinksReachIs == LinksReach <=> FloodReaches
<1>1. \A w, l : (\E m \in Frames(w) : Carries(m, l)) <=>
        \E n \in DOMAIN w : LET m == w[n]
                            IN  m.type = "LSU" /\ \E e \in DOMAIN m.lsas :
                                  m.lsas[e].key = l.key /\ m.lsas[e].seq >= l.seq
  BY DEF Frames, Carries
<1>2. \A db, w, l : Reaches(db, w, l) <=>
        \/ \E n \in Matching(db, l.key) : db[n].seq >= l.seq
        \/ Matching(db, l.key) = {} /\ \A n \in 1 .. LsdbSize : db[n] # Invalid
        \/ \E n \in DOMAIN w : LET m == w[n]
                               IN  m.type = "LSU" /\ \E e \in DOMAIN m.lsas :
                                     m.lsas[e].key = l.key /\ m.lsas[e].seq >= l.seq
  BY <1>1, Zenon DEF Reaches, Has, Full, Slots
<1> QED BY <1>2, Zenon DEF LinksReach, FloodReaches, Slots

(* The frames of a wire that is read from and written to.                  *)
LEMMA FramesOf ==
  ASSUME NEW w \in Seq(Message)
  PROVE  /\ \A m \in Frames(w) : m \in Message
         /\ w # <<>> => Frames(w) = Frames(Tail(w)) \cup {Head(w)}
         /\ \A m \in Message : Frames(Append(w, m)) = Frames(w) \cup {m}
         /\ \A v \in Seq(Message) : Frames(w \o v) = Frames(w) \cup Frames(v)
<1>1. \A m \in Frames(w) : m \in Message
  BY DEF Frames
<1>2. ASSUME w # <<>> PROVE Frames(w) = Frames(Tail(w)) \cup {Head(w)}
  <2>1. /\ Len(w) \in Nat /\ Len(w) >= 1 /\ DOMAIN w = 1 .. Len(w) /\ Head(w) = w[1]
        /\ Tail(w) \in Seq(Message) /\ Len(Tail(w)) = Len(w) - 1
        /\ DOMAIN Tail(w) = 1 .. Len(w) - 1
        /\ \A n \in 1 .. Len(w) - 1 : Tail(w)[n] = w[n + 1]
    BY <1>2
  <2>2. \A n \in 1 .. Len(w) : n = 1 \/ (n - 1 \in 1 .. Len(w) - 1 /\ w[n] = Tail(w)[n - 1])
    BY <2>1
  <2>3. \A n \in 1 .. Len(w) - 1 : n + 1 \in 1 .. Len(w)
    BY <2>1
  <2>4. ASSUME NEW n \in 1 .. Len(w) PROVE w[n] \in Frames(Tail(w)) \cup {Head(w)}
    BY <2>1, <2>2 DEF Frames
  <2>5. ASSUME NEW n \in 1 .. Len(w) - 1 PROVE Tail(w)[n] \in Frames(w)
    BY <2>1, <2>3 DEF Frames
  <2>6. Head(w) \in Frames(w)
    BY <2>1 DEF Frames
  <2>7. Frames(w) \subseteq Frames(Tail(w)) \cup {Head(w)}
    BY <2>1, <2>4 DEF Frames
  <2>8. Frames(Tail(w)) \subseteq Frames(w)
    BY <2>1, <2>5 DEF Frames
  <2> QED BY <2>6, <2>7, <2>8
<1>3. ASSUME NEW m \in Message PROVE Frames(Append(w, m)) = Frames(w) \cup {m}
  <2> DEFINE v == Append(w, m)
  <2>1. /\ Len(w) \in Nat /\ DOMAIN w = 1 .. Len(w) /\ DOMAIN v = 1 .. Len(w) + 1
        /\ v[Len(w) + 1] = m /\ \A n \in 1 .. Len(w) : v[n] = w[n]
    OBVIOUS
  <2>2. \A n : n \in 1 .. Len(w) + 1 <=> n \in 1 .. Len(w) \/ n = Len(w) + 1
    BY <2>1
  <2> HIDE DEF v
  <2>3. Frames(v) = Frames(w) \cup {m}
    BY <2>1, <2>2 DEF Frames
  <2> QED BY <2>3 DEF v
<1>4. ASSUME NEW v \in Seq(Message) PROVE Frames(w \o v) = Frames(w) \cup Frames(v)
  <2> DEFINE u == w \o v
  <2>1. /\ Len(w) \in Nat /\ Len(v) \in Nat
        /\ DOMAIN w = 1 .. Len(w) /\ DOMAIN v = 1 .. Len(v) /\ DOMAIN u = 1 .. Len(w) + Len(v)
    OBVIOUS
  <2>2. \A n \in 1 .. Len(w) : n \in DOMAIN u /\ u[n] = w[n]
    OBVIOUS
  <2>3. \A n \in 1 .. Len(v) : n + Len(w) \in DOMAIN u /\ u[n + Len(w)] = v[n]
    OBVIOUS
  <2>4. \A n \in 1 .. Len(w) + Len(v) : n \in 1 .. Len(w) \/ (n - Len(w) \in 1 .. Len(v)
                                                           /\ u[n] = v[n - Len(w)])
    BY <2>1
  <2> HIDE DEF u
  <2>5. ASSUME NEW n \in 1 .. Len(w) + Len(v) PROVE u[n] \in Frames(w) \cup Frames(v)
    <3>1. CASE n \in 1 .. Len(w)
      BY <2>1, <2>2, <3>1 DEF Frames
    <3>2. CASE n - Len(w) \in 1 .. Len(v) /\ u[n] = v[n - Len(w)]
      BY <2>1, <3>2 DEF Frames
    <3> QED BY <2>4, <3>1, <3>2
  <2>6. Frames(u) \subseteq Frames(w) \cup Frames(v)
    BY <2>1, <2>5 DEF Frames
  <2>7. Frames(w) \subseteq Frames(u)
    BY <2>1, <2>2 DEF Frames
  <2>8. ASSUME NEW n \in 1 .. Len(v) PROVE v[n] \in Frames(u)
    BY <2>3 DEF Frames
  <2>9. Frames(v) \subseteq Frames(u)
    BY <2>1, <2>8 DEF Frames
  <2>10. Frames(u) = Frames(w) \cup Frames(v)
    BY <2>6, <2>7, <2>9
  <2> QED BY <2>10 DEF u
<1> QED BY <1>1, <1>2, <1>3, <1>4

(* What a carried version means for a database that took it.               *)
LEMMA CarriedTaken ==
  ASSUME NEW m \in Message, NEW l \in Lsa, Carries(m, l), NEW db \in Lsdbs,
         \A e \in DOMAIN m.lsas : Has(db, m.lsas[e]) \/ Full(db, m.lsas[e].key)
  PROVE  Has(db, l) \/ Full(db, l.key)
<1>1. m.lsas \in Seq(Lsa)
  BY MessageFields DEF Carries
<1>2. PICK e \in DOMAIN m.lsas : m.lsas[e].key = l.key /\ m.lsas[e].seq >= l.seq
  BY DEF Carries
<1> DEFINE x == m.lsas[e]
<1>3. x \in Lsa
  BY <1>1
<1> HIDE DEF x
<1>4. x.key = l.key /\ x.seq >= l.seq /\ (Has(db, x) \/ Full(db, x.key))
  BY <1>2 DEF x
<1>5. CASE Has(db, x)
  <2>1. PICK k \in Matching(db, x.key) : db[k].seq >= x.seq
    BY <1>5 DEF Has
  <2>2. db[k].seq \in Nat
    BY EntryType DEF Matching, Slots
  <2>3. x.seq \in Nat /\ l.seq \in Nat
    BY <1>3 DEF Lsa, Seqs
  <2>4. db[k].seq >= l.seq
    BY <1>4, <2>1, <2>2, <2>3
  <2> QED BY <1>4, <2>4 DEF Has
<1> QED BY <1>4, <1>5

(* Wires that lose no LSU and are written nothing that is not backed keep  *)
(* the two invariants, if no database changes.                             *)
LEMMA WiresKeep ==
  ASSUME HeldBySender, LinksReach, lsdb' = lsdb, missed \subseteq missed',
         \A i \in Ifaces \ {Origin} : \A m \in Frames(wire'[i]) :
           m \in Frames(wire[i]) \/ m.type # "LSU",
         \A i \in Ifaces \ {Origin} : \A m \in Frames(wire[i]) :
           m \in Frames(wire'[i]) \/ m.type # "LSU" \/ Peer[i] \in missed'
  PROVE  HeldBySender' /\ LinksReach'
<1>1. \A i \in Ifaces \ {Origin} : Peer[i] \in Ifaces \ {Origin} /\ Peer[Peer[i]] = i
  BY TopologyAssumption
<1>2. HeldBySender'
  BY DEF HeldBySender, Backed
<1>3. ASSUME NEW i \in Ifaces \ ({Origin} \cup missed'), NEW k \in Slots,
             lsdb[Node[i]][k] # Invalid
      PROVE  Reaches(lsdb[Node[Peer[i]]], wire'[Peer[i]], lsdb[Node[i]][k])
  <2>1. Reaches(lsdb[Node[Peer[i]]], wire[Peer[i]], lsdb[Node[i]][k])
    BY <1>3 DEF LinksReach
  <2>2. \A m \in Frames(wire[Peer[i]]) : m \in Frames(wire'[Peer[i]]) \/ m.type # "LSU"
    BY <1>1
  <2> QED BY <2>1, <2>2 DEF Reaches, Carries
<1> QED BY <1>2, <1>3 DEF LinksReach
(* The step that matters: an LSU is taken, and passed on.                  *)
LEMMA ReceiveLsuReaches ==
  ASSUME TypeOK, HeldBySender, LinksReach, NEW i \in Ifaces, ReceiveLsu(i)
  PROVE  HeldBySender' /\ LinksReach'
<1> DEFINE r == Node[i]
           m == Head(wire[i])
<1>1. /\ r \in Routers /\ lsdb[r] \in Lsdbs /\ m \in Message /\ m.type = "LSU"
      /\ m.lsas \in Seq(Lsa) /\ wire[i] # <<>>
      /\ \E t, out : Flooded(i, t, out)
  BY ReceiveLsuIs
<1>2. PICK t, out : Flooded(i, t, out)
  BY <1>1
<1>3. /\ Took(lsdb[r], m.lsas, Len(m.lsas), t)
      /\ \A j \in out : j \in Ifaces /\ Node[j] = r
  BY <1>2 DEF Flooded
<1>4. t.db \in Lsdbs /\ t.changed \in Seq(Slots) /\ Grew(lsdb[r], t.db)
  BY <1>3 DEF Took, Stores
<1>5. DOMAIN m.lsas = 1 .. Len(m.lsas) /\ \A e \in DOMAIN m.lsas : m.lsas[e] \in Lsa
  BY <1>1
<1>6. /\ \A k \in Slots : t.db[k] = lsdb[r][k] \/ Among(t.changed, k)
      /\ \A k \in Slots : Among(t.changed, k) => \E e \in DOMAIN m.lsas : t.db[k] = m.lsas[e]
      /\ \A e \in DOMAIN m.lsas : Has(t.db, m.lsas[e]) \/ Full(t.db, m.lsas[e].key)
  BY <1>3, <1>5 DEF Took
<1> HIDE DEF m
<1>7. \A j \in Ifaces : Node[j] \in Routers /\ Peer[j] \in Ifaces /\ Peer[Peer[j]] = j
                        /\ (Peer[j] = Origin <=> j = Origin)
  BY TopologyAssumption
<1>8. lsdb'[r] = t.db /\ \A q \in Routers \ {r} : lsdb'[q] = lsdb[q]
  BY <1>1, <1>2 DEF Flooded, TypeOK
<1>9. \A q \in Routers : lsdb[q] \in Lsdbs /\ lsdb'[q] \in Lsdbs
  BY <1>4, <1>8 DEF TypeOK, Lsdbs, Slots
<1>10. \A q \in Routers : /\ \A l \in Lsa : Has(lsdb[q], l) => Has(lsdb'[q], l)
                          /\ \A key : Full(lsdb[q], key) => Full(lsdb'[q], key)
  BY <1>1, <1>4, <1>8, GrewKeeps
<1>11. \A j \in Ifaces : wire[j] \in Seq(Message) /\ Rest(i, j) \in Seq(Message)
  BY <1>1, WireTail DEF Rest, TypeOK
<1>12. /\ Lsus(t) \in Seq(Message) /\ DOMAIN Lsus(t) = DOMAIN t.changed
       /\ \A e \in DOMAIN t.changed :
            /\ t.changed[e] \in Slots /\ t.db[t.changed[e]] \in Lsa
            /\ Lsus(t)[e] = [type |-> "LSU", lsas |-> <<t.db[t.changed[e]]>>]
  BY <1>1, <1>3, LsusType
<1>13. \A j \in Ifaces :
         Frames(wire'[j]) = IF Peer[j] \in out \ {Origin}
                            THEN Frames(Rest(i, j)) \cup Frames(Lsus(t)) ELSE Frames(Rest(i, j))
  <2> SUFFICES ASSUME NEW j \in Ifaces
               PROVE  Frames(wire'[j]) = IF Peer[j] \in out \ {Origin}
                            THEN Frames(Rest(i, j)) \cup Frames(Lsus(t)) ELSE Frames(Rest(i, j))
    OBVIOUS
  <2>1. wire'[j] = IF Peer[j] \in out \ {Origin} THEN Rest(i, j) \o Lsus(t) ELSE Rest(i, j)
    BY <1>2 DEF Flooded
  <2>2. Frames(Rest(i, j) \o Lsus(t)) = Frames(Rest(i, j)) \cup Frames(Lsus(t))
    BY <1>11, <1>12, FramesOf
  <2> QED BY <2>1, <2>2
<1>14. \A j \in Ifaces : /\ Frames(Rest(i, j)) \subseteq Frames(wire[j])
                         /\ \A x \in Frames(wire[j]) : x \in Frames(Rest(i, j)) \/ (j = i /\ x = m)
  <2>1. Frames(wire[i]) = Frames(Tail(wire[i])) \cup {m}
    BY <1>1, <1>11, FramesOf DEF m
  <2> QED BY <2>1 DEF Rest
<1>15. HeldBySender'
  <2> SUFFICES ASSUME NEW j \in Ifaces \ {Origin}, NEW x \in Frames(wire'[j])
               PROVE  Backed(x, lsdb'[Node[Peer[j]]])
    BY DEF HeldBySender
  <2> DEFINE q == Node[Peer[j]]
  <2>1. CASE x \in Frames(wire[j])
    <3>1. Backed(x, lsdb[q]) /\ q \in Routers /\ x \in Message
      BY <1>7, <1>11, <2>1, FramesOf DEF HeldBySender
    <3>2. x.type = "LSU" => x.lsas \in Seq(Lsa)
      BY <3>1, MessageFields
    <3>3. x.type = "LSU" => \A e \in DOMAIN x.lsas : x.lsas[e] \in Lsa
      BY <3>2
    <3> QED BY <1>10, <3>1, <3>3 DEF Backed
  <2>2. CASE x \in Frames(Lsus(t)) /\ Peer[j] \in out
    <3>1. PICK e \in DOMAIN t.changed : x = [type |-> "LSU", lsas |-> <<t.db[t.changed[e]]>>]
      BY <1>12, <2>2 DEF Frames
    <3> DEFINE k == t.changed[e]
               l == t.db[k]
    <3>2. k \in Slots /\ l \in Lsa
      BY <1>12
    <3>3. x.lsas = <<l>>
      BY <3>1
    <3> HIDE DEF l, k
    <3>4. Has(t.db, l)
      <4>1. k \in Matching(t.db, l.key)
        BY <3>2, Valid DEF Matching, Slots, l
      <4>2. t.db[k].seq >= l.seq
        BY <3>2 DEF l, Lsa, Seqs
      <4> QED BY <4>1, <4>2 DEF Has
    <3>5. \A n \in DOMAIN x.lsas : x.lsas[n] = l
      BY <3>3
    <3>6. q = r
      BY <1>3, <2>2
    <3> QED BY <1>8, <3>4, <3>5, <3>6 DEF Backed
  <2>3. x \in Frames(Rest(i, j)) \/ (x \in Frames(Lsus(t)) /\ Peer[j] \in out)
    BY <1>13
  <2> QED BY <1>14, <2>1, <2>2, <2>3
<1>16. LinksReach'
  <2> SUFFICES ASSUME NEW j \in Ifaces \ ({Origin} \cup missed'), NEW k \in Slots,
                      lsdb'[Node[j]][k] # Invalid
               PROVE  Reaches(lsdb'[Node[Peer[j]]], wire'[Peer[j]], lsdb'[Node[j]][k])
    BY DEF LinksReach
  <2> DEFINE l == lsdb'[Node[j]][k]
             p == Peer[j]
             q == Node[Peer[j]]
  <2>1. /\ p \in Ifaces /\ p # Origin /\ Peer[p] = j /\ q \in Routers /\ q = Node[p]
        /\ Node[j] \in Routers
    BY <1>7
  <2>2. l \in Lsa
    BY <1>9, <2>1, EntryType
  <2>3. CASE l = lsdb[Node[j]][k]
    <3>1. j \notin missed
      BY <1>2 DEF Flooded
    <3>2. Reaches(lsdb[q], wire[p], l)
      BY <2>3, <3>1 DEF LinksReach
    <3>3. CASE Has(lsdb[q], l) \/ Full(lsdb[q], l.key)
      BY <1>10, <2>1, <2>2, <3>3 DEF Reaches
    <3>4. CASE \E x \in Frames(wire[p]) : Carries(x, l)
      <4>1. PICK x \in Frames(wire[p]) : Carries(x, l)
        BY <3>4
      <4>2. CASE x \in Frames(Rest(i, p))
        <5>1. x \in Frames(wire'[p])
          BY <1>13, <2>1, <4>2
        <5> HIDE DEF l
        <5>2. Reaches(lsdb'[q], wire'[p], l)
          BY <4>1, <5>1 DEF Reaches
        <5> QED BY <5>2 DEF l
      <4>3. CASE p = i /\ x = m
        <5>1. q = r
          BY <2>1, <4>3
        <5> HIDE DEF l
        <5>2. Has(t.db, l) \/ Full(t.db, l.key)
          BY <1>1, <1>4, <1>6, <2>2, <4>1, <4>3, CarriedTaken
        <5>3. Reaches(lsdb'[q], wire'[p], l)
          BY <1>8, <5>1, <5>2 DEF Reaches
        <5> QED BY <5>3 DEF l
      <4> QED BY <1>14, <2>1, <4>2, <4>3
    <3> QED BY <3>2, <3>3, <3>4 DEF Reaches
  <2>4. CASE l # lsdb[Node[j]][k]
    <3>1. Node[j] = r /\ l = t.db[k]
      BY <1>8, <2>1, <2>4
    <3>2. Among(t.changed, k)
      BY <1>6, <2>4, <3>1
    <3>3. t.changed # <<>>
      BY <3>2 DEF Among
    <3>4. j \in out \/ j = i
      BY <1>2, <3>1, <3>3 DEF Flooded
    <3>5. CASE j \in out
      <4>1. PICK e \in DOMAIN t.changed : t.changed[e] = k
        BY <3>2 DEF Among
      <4>2. Lsus(t)[e] = [type |-> "LSU", lsas |-> <<l>>]
        BY <1>12, <3>1, <4>1
      <4> HIDE DEF l
      <4> DEFINE x == [type |-> "LSU", lsas |-> <<l>>]
      <4>3. x \in Frames(Lsus(t))
        BY <1>12, <4>2 DEF Frames
      <4>4. x \in Frames(wire'[p])
        BY <1>13, <2>1, <3>5, <4>3
      <4>5. Carries(x, l)
        <5>1. x.type = "LSU" /\ x.lsas = <<l>>
          OBVIOUS
        <5>2. 1 \in DOMAIN x.lsas /\ x.lsas[1] = l
          BY <5>1
        <5>3. l.seq >= l.seq
          BY <2>2 DEF Lsa, Seqs
        <5> HIDE DEF x
        <5> QED BY <5>1, <5>2, <5>3 DEF Carries
      <4>6. Reaches(lsdb'[q], wire'[p], l)
        BY <4>4, <4>5 DEF Reaches
      <4> QED BY <4>6 DEF l
    <3>6. CASE j = i
      <4>1. PICK e \in DOMAIN m.lsas : l = m.lsas[e]
        BY <1>6, <3>1, <3>2
      <4>2. m \in Frames(wire[i])
        BY <1>1, <1>11, FramesOf DEF m
      <4>3. Backed(m, lsdb[q])
        BY <3>6, <4>2 DEF HeldBySender
      <4> HIDE DEF l
      <4>4. Has(lsdb[q], l)
        BY <1>1, <4>1, <4>3 DEF Backed
      <4>5. Reaches(lsdb'[q], wire'[p], l)
        BY <1>10, <2>1, <2>2, <4>4 DEF Reaches
      <4> QED BY <4>5 DEF l
    <3> QED BY <3>4, <3>5, <3>6
  <2> QED BY <2>3, <2>4
<1> QED BY <1>15, <1>16

(* No step leaves a link behind that has not been told of a stored LSA.    *)
LEMMA NextReaches ==
  TypeOK /\ HeldBySender /\ LinksReach /\ [Next]_vars => HeldBySender' /\ LinksReach'
<1> SUFFICES ASSUME TypeOK, HeldBySender, LinksReach, [Next]_vars
             PROVE  HeldBySender' /\ LinksReach'
  OBVIOUS
<1> DEFINE Goal == HeldBySender' /\ LinksReach'
<1>1. \A i \in Ifaces : wire[i] \in Seq(Message) /\ Peer[i] \in Ifaces
  BY TopologyAssumption DEF TypeOK
<1>2. CASE UNCHANGED <<wire, lsdb, missed>>
  BY <1>2 DEF HeldBySender, LinksReach
<1>3. ASSUME NEW i \in Ifaces, ReceiveHello(i) PROVE Goal
  <2>1. /\ wire[i] # <<>> /\ Head(wire[i]).type = "HELLO" /\ lsdb' = lsdb /\ missed' = missed
        /\ wire' = [wire EXCEPT ![i] = Tail(@)]
    BY <1>3 DEF ReceiveHello
  <2>2. wire'[i] = Tail(wire[i]) /\ \A j \in Ifaces : j # i => wire'[j] = wire[j]
    BY <2>1 DEF TypeOK
  <2>3. Frames(wire[i]) = Frames(Tail(wire[i])) \cup {Head(wire[i])}
    BY <1>1, <2>1, FramesOf
  <2>4. /\ \A j \in Ifaces \ {Origin} : \A m \in Frames(wire'[j]) :
             m \in Frames(wire[j]) \/ m.type # "LSU"
        /\ \A j \in Ifaces \ {Origin} : \A m \in Frames(wire[j]) :
             m \in Frames(wire'[j]) \/ m.type # "LSU" \/ Peer[j] \in missed'
    BY <2>1, <2>2, <2>3
  <2> QED BY <2>1, <2>4, WiresKeep
<1>4. ASSUME NEW i \in Ifaces, ReceiveLsu(i) PROVE Goal
  BY <1>4, ReceiveLsuReaches
<1>5. ASSUME NEW r \in Routers, HelloTimer(r) PROVE Goal
  <2>1. lsdb' = lsdb /\ missed' = missed
    BY <1>5 DEF HelloTimer
  <2>2. \A j \in Ifaces : Hello(j).type = "HELLO"
    BY DEF Hello
  <2>3. \A j \in Ifaces : wire'[j] = wire[j] \/ wire'[j] = Append(wire[j], Hello(Peer[j]))
    BY <1>5 DEF HelloTimer
  <2>4. ASSUME NEW j \in Ifaces
        PROVE  /\ \A m \in Frames(wire'[j]) : m \in Frames(wire[j]) \/ m.type # "LSU"
               /\ \A m \in Frames(wire[j]) : m \in Frames(wire'[j])
    <3>1. CASE wire'[j] = wire[j]
      BY <3>1
    <3>2. CASE wire'[j] = Append(wire[j], Hello(Peer[j]))
      <4>1. Frames(wire'[j]) = Frames(wire[j]) \cup {Hello(Peer[j])}
        <5> DEFINE w == wire[j]
                   x == Hello(Peer[j])
        <5>1. w \in Seq(Message)
          BY <1>1
        <5> HIDE DEF w, x
        <5>2. /\ Len(w) \in Nat /\ DOMAIN w = 1 .. Len(w) /\ DOMAIN Append(w, x) = 1 .. Len(w) + 1
              /\ Append(w, x)[Len(w) + 1] = x /\ \A n \in 1 .. Len(w) : Append(w, x)[n] = w[n]
          BY <5>1
        <5>3. \A n : n \in 1 .. Len(w) + 1 <=> n \in 1 .. Len(w) \/ n = Len(w) + 1
          BY <5>2
        <5>4. Frames(Append(w, x)) = Frames(w) \cup {x}
          BY <5>2, <5>3 DEF Frames
        <5> QED BY <3>2, <5>4 DEF w, x
      <4>2. Hello(Peer[j]).type # "LSU"
        BY <1>1, <2>2
      <4> QED BY <4>1, <4>2
    <3> QED BY <2>3, <3>1, <3>2
  <2> QED BY <2>1, <2>4, WiresKeep
<1>6. ASSUME NEW lsas \in Updates, Speak(lsas) PROVE Goal
  <2>1. lsdb' = lsdb /\ missed' = missed /\ \A j \in Ifaces \ {Origin} : wire'[j] = wire[j]
    BY <1>6 DEF Speak, TypeOK
  <2> QED BY <2>1, WiresKeep
<1>7. ASSUME NEW i \in Fragile, Lose(i) PROVE Goal
  <2>1. /\ i \in Ifaces /\ wire[i] # <<>> /\ lsdb' = lsdb /\ missed' = missed \cup {Peer[i]}
        /\ wire' = [wire EXCEPT ![i] = Tail(@)]
    BY <1>7, SizesAssumption DEF Lose
  <2>2. wire'[i] = Tail(wire[i]) /\ \A j \in Ifaces : j # i => wire'[j] = wire[j]
    BY <2>1 DEF TypeOK
  <2>3. Frames(wire[i]) = Frames(Tail(wire[i])) \cup {Head(wire[i])}
    BY <1>1, <2>1, FramesOf
  <2>4. /\ \A j \in Ifaces \ {Origin} : \A m \in Frames(wire'[j]) :
             m \in Frames(wire[j]) \/ m.type # "LSU"
        /\ \A j \in Ifaces \ {Origin} : \A m \in Frames(wire[j]) :
             m \in Frames(wire'[j]) \/ m.type # "LSU" \/ Peer[j] \in missed'
    BY <2>1, <2>2, <2>3
  <2> QED BY <2>1, <2>4, WiresKeep
<1>8. /\ \A r \in Routers : DeadTimer(r) \/ SpfTimer(r) => UNCHANGED <<wire, lsdb, missed>>
      /\ \A i \in Fragile : Flap(i) => UNCHANGED <<wire, lsdb, missed>>
      /\ Tick \/ UNCHANGED vars => UNCHANGED <<wire, lsdb, missed>>
  BY DEF DeadTimer, Scan, SpfTimer, Flap, Tick, vars
<1> QED BY <1>2, <1>3, <1>4, <1>5, <1>6, <1>7, <1>8 DEF Next, Environment, Step

-----------------------------------------------------------------------------
(* Routes.                                                                 *)

(* A Hello names the router at the other end of the link, and so does the  *)
(* neighbour it made.                                                      *)
Named ==
  /\ \A i \in Ifaces : \A m \in Frames(wire[i]) : m.type = "HELLO" => m.id = Node[Peer[i]]
  /\ \A r \in Routers, k \in 1 .. MaxNeighbors :
       nbr[r][k] # Invalid => nbr[r][k].id = Node[Peer[nbr[r][k].iface]]

(* Any shortest path gives the best cost and one of the best hops.         *)
LEMMA BestIs ==
  ASSUME NEW c \in Contents, NEW r \in Routers, NEW d \in Ids \ {r},
         NEW p \in Shortest(Graph(c), r, d)
  PROVE  Best[c][r][d].cost = PathCost(Graph(c), p) /\ p[2] \in Best[c][r][d].hops
<1> DEFINE g == Graph(c)
           S == Shortest(g, r, d)
           x == CHOOSE q \in S : TRUE
           b == [cost |-> IF S = {} THEN Infinity ELSE PathCost(g, x), hops |-> {q[2] : q \in S}]
<1>1. Best[c][r][d] = b
  BY DEF Best
<1>2. x \in S /\ S # {} /\ S \subseteq Paths(g, r, d)
  BY DEF Shortest
<1>3. g \in SpfGraphs
  BY GraphType
<1>4. PathCost(g, p) <= PathCost(g, x) /\ PathCost(g, x) <= PathCost(g, p)
  BY <1>2 DEF Shortest
<1>5. PathCost(g, p) \in Nat /\ PathCost(g, x) \in Nat
  BY <1>2, <1>3, PathCostNat
<1>6. PathCost(g, x) = PathCost(g, p)
  BY <1>4, <1>5
<1>7. b.cost = PathCost(g, x) /\ b.hops = {q[2] : q \in S}
  BY <1>2
<1> HIDE DEF b, S, x
<1>8. p[2] \in {q[2] : q \in S}
  BY DEF S
<1> QED BY <1>1, <1>6, <1>7, <1>8

(* ospf_run_spf: a destination that the loop reached and whose first hop   *)
(* is a neighbour heard of gets a route over it, every other has none.     *)
LEMMA Calculates ==
  ASSUME TypeOK, Named, NEW r \in Routers, SpfTimer(r)
  PROVE  LET c == Content(lsdb[r])
             s == Dijkstra(r, Graph(c))
         IN  /\ c \in Contents
             /\ \A d \in Ids :
                  IF d = r \/ s.dist[d] = Infinity \/ ~Up(r, s.hop[d])
                  THEN routes'[r][d] = NoRoute
                  ELSE /\ routes'[r][d].metric = s.dist[d]
                       /\ Node[Peer[routes'[r][d].via]] = s.hop[d]
<1> DEFINE toward(f, d) == {k \in Usable(r) : nbr[r][k].id = f.is.hop[d]}
           found(f) == [d \in Ids |->
             IF d = r \/ f.is.dist[d] = Infinity \/ toward(f, d) = {} THEN NoRoute
             ELSE [via |-> nbr[r][First(toward(f, d))].iface, metric |-> f.is.dist[d]]]
           c == Content(lsdb[r])
           s == Dijkstra(r, Graph(c))
<1>1. PICK f \in Found : /\ f.root = r /\ f.content = c
                         /\ routes' = [routes EXCEPT ![r] = found(f)]
  BY DEF SpfTimer
<1>2. c \in Contents /\ f.is = s
  BY <1>1 DEF Found
<1>3. routes'[r] = found(f)
  BY <1>1 DEF TypeOK
<1>4. ASSUME NEW d \in Ids
      PROVE  /\ Up(r, s.hop[d]) <=> toward(f, d) # {}
             /\ toward(f, d) # {} =>
                  Node[Peer[nbr[r][First(toward(f, d))].iface]] = s.hop[d]
  <2>1. toward(f, d) \in SUBSET Nat
    BY DEF Usable
  <2>2. \A k \in toward(f, d) : k \in 1 .. MaxNeighbors /\ nbr[r][k] # Invalid /\ nbr[r][k].id = s.hop[d]
    BY <1>2 DEF Usable
  <2>3. Up(r, s.hop[d]) <=> toward(f, d) # {}
    BY <1>2 DEF Up, Usable
  <2> HIDE DEF toward, s
  <2>4. toward(f, d) # {} => First(toward(f, d)) \in toward(f, d)
    BY <2>1, FirstIn
  <2> QED BY <2>2, <2>3, <2>4 DEF Named
<1> HIDE DEF toward, s, c
<1>5. ASSUME NEW d \in Ids
      PROVE  IF d = r \/ s.dist[d] = Infinity \/ ~Up(r, s.hop[d])
             THEN routes'[r][d] = NoRoute
             ELSE /\ routes'[r][d].metric = s.dist[d]
                  /\ Node[Peer[routes'[r][d].via]] = s.hop[d]
  <2>1. routes'[r][d] = IF d = r \/ s.dist[d] = Infinity \/ toward(f, d) = {} THEN NoRoute
             ELSE [via |-> nbr[r][First(toward(f, d))].iface, metric |-> s.dist[d]]
    BY <1>2, <1>3
  <2> QED BY <1>4, <2>1
<1> QED BY <1>2, <1>5 DEF s, c

(* A step keeps the routes right that starts no router's last calculation, *)
(* and leaves the others' databases and routes alone and their neighbours  *)
(* up.                                                                     *)
LEMMA RoutesKeep ==
  ASSUME RoutesShortest,
         \A r \in Routers : spf'[r] = 0 =>
           /\ spf[r] = 0 /\ routes'[r] = routes[r] /\ lsdb'[r] = lsdb[r]
           /\ \A id : Up(r, id) => Up(r, id)'
  PROVE  RoutesShortest'
BY DEF RoutesShortest

(* What a received Hello does to the neighbour table: at most one slot is  *)
(* written, a free one or the sender's.                                    *)
LEMMA ReceiveHelloIs ==
  ASSUME TypeOK, NEW i \in Ifaces, ReceiveHello(i)
  PROVE  /\ wire[i] # <<>> /\ Head(wire[i]).type = "HELLO"
         /\ wire' = [wire EXCEPT ![i] = Tail(@)]
         /\ \A r \in Routers, k \in 1 .. MaxNeighbors :
              \/ nbr'[r][k] = nbr[r][k]
              \/ /\ nbr'[r][k].id = Head(wire[i]).id /\ nbr'[r][k].iface = i
                 /\ nbr'[r][k] # Invalid /\ nbr'[r][k].state # "DOWN"
                 /\ nbr[r][k] = Invalid \/ nbr[r][k].id = Head(wire[i]).id
<1> DEFINE m     == Head(wire[i])
           q     == Node[i]
           table == nbr[q]
           match == {k \in DOMAIN table : table[k] # Invalid /\ table[k].id = m.id}
           free  == {k \in DOMAIN table : table[k] = Invalid}
           j     == First(IF match # {} THEN match ELSE free)
           e     == [id |-> m.id, iface |-> i, age |-> 0,
                     state |-> IF q \in m.seen THEN "FULL" ELSE "INIT"]
<1>1. wire[i] # <<>> /\ m.type = "HELLO" /\ wire' = [wire EXCEPT ![i] = Tail(@)]
  BY DEF ReceiveHello
<1>2. nbr' = nbr \/ (match \cup free # {} /\ nbr' = [nbr EXCEPT ![q][j] = e])
  BY DEF ReceiveHello
<1>3. nbr \in [Routers -> NbrTable] /\ q \in Routers /\ DOMAIN table = 1 .. MaxNeighbors
  BY TopologyAssumption DEF TypeOK, NbrTable
<1>4. match \cup free # {} => table[j] = Invalid \/ table[j].id = m.id
  <2>1. match \in SUBSET Nat /\ free \in SUBSET Nat
    BY <1>3
  <2>2. /\ \A k \in match : table[k].id = m.id
        /\ \A k \in free : table[k] = Invalid
    OBVIOUS
  <2> HIDE DEF match, free
  <2> QED BY <2>1, <2>2, FirstIn
<1>5. e.id = m.id /\ e.iface = i /\ e # Invalid /\ e.state # "DOWN"
  <2>1. e.id = m.id /\ e.iface = i /\ e.state # "DOWN"
    OBVIOUS
  <2>2. e # Invalid
    <3>1. "id" \in DOMAIN e /\ "id" \notin DOMAIN Invalid
      BY DEF Invalid
    <3> QED BY <3>1
  <2> QED BY <2>1, <2>2
<1> HIDE DEF e, j, match, free
<1>6. ASSUME NEW r \in Routers, NEW k \in 1 .. MaxNeighbors
      PROVE  nbr'[r][k] = nbr[r][k] \/ (r = q /\ k = j /\ nbr'[r][k] = e /\ match \cup free # {})
  <2> HIDE DEF q
  <2>1. CASE nbr' = nbr
    BY <2>1
  <2>2. CASE match \cup free # {} /\ nbr' = [nbr EXCEPT ![q][j] = e]
    BY <1>3, <2>2 DEF NbrTable
  <2> QED BY <1>2, <2>1, <2>2
<1> QED BY <1>1, <1>4, <1>5, <1>6

(* The scan marks neighbours and writes nothing else of them.              *)
LEMMA ScanKeepsNames ==
  ASSUME TypeOK, NEW r \in Routers, DeadTimer(r)
  PROVE  /\ wire' = wire
         /\ \A q \in Routers, k \in 1 .. MaxNeighbors :
              nbr'[q][k] # Invalid =>
                /\ nbr[q][k] # Invalid
                /\ nbr'[q][k].id = nbr[q][k].id /\ nbr'[q][k].iface = nbr[q][k].iface
<1> DEFINE old == Silent(r, Dead)
           table == nbr[r]
           new == [k \in 1 .. MaxNeighbors |->
                     IF k \in old THEN [table[k] EXCEPT !.state = "DOWN"] ELSE table[k]]
<1>1. wire' = wire /\ nbr' = [nbr EXCEPT ![r] = new]
  BY DEF DeadTimer, Scan
<1>2. nbr \in [Routers -> NbrTable] /\ table \in NbrTable
  BY DEF TypeOK, NbrTable
<1>3. ASSUME NEW k \in 1 .. MaxNeighbors, new[k] # Invalid
      PROVE  table[k] # Invalid /\ new[k].id = table[k].id /\ new[k].iface = table[k].iface
  <2>1. CASE k \in old
    <3>1. table[k] \in Neighbor /\ table[k] # Invalid
      BY <1>2, <2>1 DEF Silent, NbrTable
    <3>2. \A n \in Neighbor : /\ [n EXCEPT !.state = "DOWN"].id = n.id
                              /\ [n EXCEPT !.state = "DOWN"].iface = n.iface
      BY DEF Neighbor
    <3> QED BY <2>1, <3>1, <3>2
  <2>2. CASE k \notin old
    BY <1>3, <2>2
  <2> QED BY <2>1, <2>2
<1> HIDE DEF new
<1>4. nbr'[r] = new /\ \A q \in Routers \ {r} : nbr'[q] = nbr[q]
  BY <1>1, <1>2
<1> QED BY <1>1, <1>3, <1>4

(* Every step keeps the names.                                             *)
LEMMA NextNamed == TypeOK /\ Named /\ [Next]_vars => Named'
<1> SUFFICES ASSUME TypeOK, Named, [Next]_vars PROVE Named'
  OBVIOUS
<1>1. \A i \in Ifaces : wire[i] \in Seq(Message) /\ Peer[i] \in Ifaces /\ Peer[Peer[i]] = i
  BY TopologyAssumption DEF TypeOK
<1>2. CASE UNCHANGED <<nbr, wire>>
  BY <1>2 DEF Named
<1>3. ASSUME nbr' = nbr,
             \A i \in Ifaces : \A m \in Frames(wire'[i]) :
               m \in Frames(wire[i]) \/ m.type # "HELLO" \/ m.id = Node[Peer[i]]
      PROVE  Named'
  BY <1>3 DEF Named
<1>4. ASSUME NEW i \in Ifaces, wire[i] # <<>>, wire' = [wire EXCEPT ![i] = Tail(@)]
      PROVE  \A j \in Ifaces : \A m \in Frames(wire'[j]) : m \in Frames(wire[j])
  <2>1. wire'[i] = Tail(wire[i]) /\ \A j \in Ifaces : j # i => wire'[j] = wire[j]
    BY <1>4 DEF TypeOK
  <2>2. Frames(wire[i]) = Frames(Tail(wire[i])) \cup {Head(wire[i])}
    BY <1>1, <1>4, FramesOf
  <2> QED BY <2>1, <2>2
<1>5. ASSUME NEW i \in Ifaces, ReceiveHello(i) PROVE Named'
  <2>1. /\ wire[i] # <<>> /\ Head(wire[i]).type = "HELLO"
        /\ wire' = [wire EXCEPT ![i] = Tail(@)]
        /\ \A r \in Routers, k \in 1 .. MaxNeighbors :
             \/ nbr'[r][k] = nbr[r][k]
             \/ nbr'[r][k].id = Head(wire[i]).id /\ nbr'[r][k].iface = i
    BY <1>5, ReceiveHelloIs
  <2>2. Head(wire[i]) \in Frames(wire[i])
    BY <1>1, <2>1, FramesOf
  <2>3. Head(wire[i]).id = Node[Peer[i]]
    BY <2>1, <2>2 DEF Named
  <2>4. \A j \in Ifaces : \A m \in Frames(wire'[j]) : m \in Frames(wire[j])
    BY <1>4, <2>1
  <2> QED BY <2>1, <2>3, <2>4 DEF Named
<1>6. ASSUME NEW i \in Ifaces, ReceiveLsu(i) PROVE Named'
  <2>1. PICK t, out : Flooded(i, t, out)
    BY <1>6, ReceiveLsuIs
  <2>2. wire[i] # <<>> /\ Head(wire[i]).lsas \in Seq(Lsa) /\ nbr' = nbr
    BY <1>6, ReceiveLsuIs DEF ReceiveLsu
  <2>3. Lsus(t) \in Seq(Message) /\ \A e \in DOMAIN Lsus(t) : Lsus(t)[e].type = "LSU"
    <3>1. Took(lsdb[Node[i]], Head(wire[i]).lsas, Len(Head(wire[i]).lsas), t)
      BY <2>1 DEF Flooded
    <3>2. /\ Lsus(t) \in Seq(Message) /\ DOMAIN Lsus(t) = DOMAIN t.changed
          /\ \A e \in DOMAIN t.changed : Lsus(t)[e] = [type |-> "LSU", lsas |-> <<t.db[t.changed[e]]>>]
      BY <2>2, <3>1, LsusType
    <3>3. ASSUME NEW e \in DOMAIN Lsus(t) PROVE Lsus(t)[e].type = "LSU"
      <4>1. Lsus(t)[e] = [type |-> "LSU", lsas |-> <<t.db[t.changed[e]]>>]
        BY <3>2
      <4> QED BY <4>1
    <3> QED BY <3>2, <3>3
  <2>4. ASSUME NEW j \in Ifaces
        PROVE  Rest(i, j) \in Seq(Message) /\ \A m \in Frames(Rest(i, j)) : m \in Frames(wire[j])
    <3>1. Tail(wire[i]) \in Seq(Message) /\ Frames(wire[i]) = Frames(Tail(wire[i])) \cup {Head(wire[i])}
      BY <1>1, <2>2, WireTail, FramesOf
    <3> QED BY <1>1, <3>1 DEF Rest
  <2>5. ASSUME NEW j \in Ifaces, NEW m \in Frames(wire'[j])
        PROVE  m \in Frames(wire[j]) \/ m.type # "HELLO"
    <3>1. wire'[j] = Rest(i, j) \/ wire'[j] = Rest(i, j) \o Lsus(t)
      BY <2>1 DEF Flooded
    <3>2. Frames(Rest(i, j) \o Lsus(t)) = Frames(Rest(i, j)) \cup Frames(Lsus(t))
      BY <2>3, <2>4, FramesOf
    <3>3. \A x \in Frames(Lsus(t)) : x.type = "LSU"
      BY <2>3 DEF Frames
    <3> QED BY <2>4, <2>5, <3>1, <3>2, <3>3
  <2> QED BY <1>3, <2>2, <2>5
<1>7. ASSUME NEW r \in Routers, HelloTimer(r) PROVE Named'
  <2>1. nbr' = nbr /\ \A j \in Ifaces : wire'[j] = wire[j] \/ wire'[j] = Append(wire[j], Hello(Peer[j]))
    BY <1>7 DEF HelloTimer
  <2>2. \A j \in Ifaces : Hello(j).id = Node[j]
    BY DEF Hello
  <2>3. ASSUME NEW j \in Ifaces, NEW m \in Frames(wire'[j])
        PROVE  m \in Frames(wire[j]) \/ m.id = Node[Peer[j]]
    <3> DEFINE w == wire[j]
               x == Hello(Peer[j])
    <3>1. w \in Seq(Message) /\ x.id = Node[Peer[j]]
      BY <1>1, <2>2
    <3>2. m \in Frames(w) \/ m \in Frames(Append(w, x))
      BY <2>1, <2>3
    <3> HIDE DEF w, x
    <3>3. \A n \in DOMAIN Append(w, x) : Append(w, x)[n] = x \/ (n \in DOMAIN w /\ Append(w, x)[n] = w[n])
      BY <3>1
    <3>4. m \in Frames(w) \/ m = x
      BY <3>2, <3>3 DEF Frames
    <3> QED BY <3>1, <3>4 DEF w
  <2> QED BY <1>3, <2>1, <2>3
<1>8. ASSUME NEW r \in Routers, DeadTimer(r) PROVE Named'
  BY <1>8, ScanKeepsNames DEF Named
<1>9. CASE Tick
  <2>1. wire' = wire
    BY <1>9 DEF Tick
  <2> SUFFICES ASSUME NEW r \in Routers, NEW k \in 1 .. MaxNeighbors, nbr'[r][k] # Invalid
               PROVE  nbr'[r][k].id = Node[Peer[nbr'[r][k].iface]]
    BY <2>1 DEF Named
  <2> DEFINE n == nbr[r][k]
  <2>2. nbr'[r][k] = Older(n)
    BY <1>9 DEF Tick
  <2>3. n # Invalid
    BY <2>2 DEF Older
  <2>4. n \in Neighbor /\ n.id = Node[Peer[n.iface]]
    BY <2>3, NeighborFields DEF Named
  <2> HIDE DEF n
  <2>5. Older(n).id = n.id /\ Older(n).iface = n.iface
    BY <2>4 DEF Older, Neighbor
  <2> QED BY <2>2, <2>4, <2>5
<1>10. ASSUME NEW lsas \in Updates, Speak(lsas) PROVE Named'
  <2> DEFINE w == wire[Origin]
             x == [type |-> "LSU", lsas |-> lsas]
  <2>1. /\ nbr' = nbr /\ Origin \in Ifaces /\ wire'[Origin] = Append(w, x)
        /\ \A j \in Ifaces : j # Origin => wire'[j] = wire[j]
    BY <1>10, TopologyAssumption DEF Speak, TypeOK
  <2>2. x \in Message /\ x.type = "LSU" /\ w \in Seq(Message)
    BY <1>1, <2>1, TopologyAssumption, MessageFields
  <2> HIDE DEF w, x
  <2>3. Frames(Append(w, x)) = Frames(w) \cup {x}
    BY <2>2, FramesOf
  <2>4. \A i \in Ifaces : \A m \in Frames(wire'[i]) : m \in Frames(wire[i]) \/ m.type # "HELLO"
    BY <2>1, <2>2, <2>3 DEF w
  <2> QED BY <1>3, <2>1, <2>4
<1>11. ASSUME NEW i \in Fragile, Lose(i) PROVE Named'
  <2>1. i \in Ifaces /\ wire[i] # <<>> /\ nbr' = nbr /\ wire' = [wire EXCEPT ![i] = Tail(@)]
    BY <1>11, SizesAssumption DEF Lose
  <2> QED BY <1>3, <1>4, <2>1
<1>12. /\ \A r \in Routers : SpfTimer(r) => UNCHANGED <<nbr, wire>>
       /\ \A i \in Fragile : Flap(i) => UNCHANGED <<nbr, wire>>
       /\ UNCHANGED vars => UNCHANGED <<nbr, wire>>
  BY DEF SpfTimer, Flap, vars
<1> QED BY <1>2, <1>5, <1>6, <1>7, <1>8, <1>9, <1>10, <1>11, <1>12 DEF Next, Environment, Step

(* The calculation gives right routes, whatever they were before.          *)
LEMMA CalculatesRight ==
  ASSUME TypeOK, Named, NEW r \in Routers, SpfTimer(r), NEW d \in Ids, routes'[r][d] # NoRoute
  PROVE  LET best == Best[Content(lsdb[r])][r][d]
             hop  == Node[Peer[routes'[r][d].via]]
         IN  /\ d # r /\ routes'[r][d].metric = best.cost
             /\ hop \in best.hops /\ Up(r, hop)
<1> DEFINE c == Content(lsdb[r])
           g == Graph(c)
           s == Dijkstra(r, g)
<1>1. /\ c \in Contents /\ d # r /\ s.dist[d] # Infinity /\ Up(r, s.hop[d])
      /\ routes'[r][d].metric = s.dist[d] /\ Node[Peer[routes'[r][d].via]] = s.hop[d]
  <2>1. /\ c \in Contents
        /\ IF d = r \/ s.dist[d] = Infinity \/ ~Up(r, s.hop[d])
           THEN routes'[r][d] = NoRoute
           ELSE routes'[r][d].metric = s.dist[d] /\ Node[Peer[routes'[r][d].via]] = s.hop[d]
    BY Calculates
  <2> HIDE DEF c, s
  <2> QED BY <2>1
<1>2. g \in SpfGraphs /\ r \in Ids
  BY <1>1, GraphType, TopologyAssumption
<1> HIDE DEF c, g
<1>3. PICK p \in Shortest(g, r, d) : PathCost(g, p) = s.dist[d] /\ p[2] = s.hop[d]
  BY <1>1, <1>2, DijkstraRight
<1>4. Best[c][r][d].cost = PathCost(g, p) /\ p[2] \in Best[c][r][d].hops
  BY <1>1, <1>3, BestIs DEF g
<1> HIDE DEF s
<1> QED BY <1>1, <1>3, <1>4 DEF c

(* Every step keeps the routes right.                                      *)
LEMMA NextShortest ==
  TypeOK /\ Named /\ RoutesShortest /\ [Next]_vars => RoutesShortest'
<1> SUFFICES ASSUME TypeOK, Named, RoutesShortest, [Next]_vars PROVE RoutesShortest'
  OBVIOUS
<1>1. CASE UNCHANGED <<nbr, lsdb, routes, spf>>
  BY <1>1, RoutesKeep DEF Up
<1>2. ASSUME NEW i \in Ifaces, ReceiveHello(i) PROVE RoutesShortest'
  <2>1. UNCHANGED <<lsdb, routes, spf>>
    BY <1>2 DEF ReceiveHello
  <2>2. ASSUME NEW r \in Routers, NEW id, Up(r, id) PROVE Up(r, id)'
    BY <1>2, <2>2, ReceiveHelloIs DEF Up
  <2> QED BY <2>1, <2>2, RoutesKeep
<1>3. ASSUME NEW i \in Ifaces, ReceiveLsu(i) PROVE RoutesShortest'
  <2> DEFINE q == Node[i]
  <2>1. q \in Routers /\ lsdb[q] \in Lsdbs /\ \E t, out : Flooded(i, t, out)
    BY <1>3, ReceiveLsuIs
  <2>2. PICK t, out : Flooded(i, t, out)
    BY <2>1
  <2>3. UNCHANGED <<nbr, routes>>
    BY <1>3 DEF ReceiveLsu
  <2>4. /\ lsdb'[q] = t.db /\ \A r \in Routers \ {q} : lsdb'[r] = lsdb[r]
        /\ spf'[q] = IF t.changed # <<>> THEN spf[q] + 1 ELSE spf[q]
        /\ \A r \in Routers \ {q} : spf'[r] = spf[r]
    BY <2>1, <2>2 DEF Flooded, TypeOK
  <2>5. t.changed = <<>> => t.db = lsdb[q]
    <3>1. t.db \in Lsdbs /\ \A k \in Slots : t.db[k] = lsdb[q][k] \/ Among(t.changed, k)
      BY <2>2 DEF Flooded, Took, Stores
    <3>2. t.changed = <<>> => \A k \in Slots : ~Among(t.changed, k)
      BY DEF Among
    <3> QED BY <2>1, <3>1, <3>2 DEF Lsdbs
  <2>6. spf[q] \in Nat
    BY <2>1 DEF TypeOK
  <2>7. spf'[q] = 0 => t.changed = <<>> /\ spf[q] = 0
    BY <2>4, <2>6
  <2>8. \A r \in Routers : spf'[r] = 0 => spf[r] = 0 /\ lsdb'[r] = lsdb[r]
    BY <2>4, <2>5, <2>7
  <2> QED BY <2>3, <2>8, RoutesKeep DEF Up
<1>4. ASSUME NEW q \in Routers, DeadTimer(q) PROVE RoutesShortest'
  <2> DEFINE old == Silent(q, Dead)
             due == IF old = {} THEN 0 ELSE 1
  <2>1. Scan(q, old, due) /\ old \in SUBSET (1 .. MaxNeighbors) /\ \A k \in old : nbr[q][k] # Invalid
    BY <1>4 DEF DeadTimer, Silent
  <2>2. due \in Nat /\ (due = 0 => old = {})
    OBVIOUS
  <2> HIDE DEF old, due
  <2>3. /\ \A r \in Routers \ {q} : nbr'[r] = nbr[r]
        /\ \A k \in 1 .. MaxNeighbors : k \notin old => nbr'[q][k] = nbr[q][k]
    BY <2>1, ScanIs
  <2>4. UNCHANGED <<lsdb, routes>> /\ spf' = [spf EXCEPT ![q] = @ + due]
    BY <2>1 DEF Scan
  <2>5. spf'[q] = spf[q] + due /\ spf[q] \in Nat /\ \A r \in Routers \ {q} : spf'[r] = spf[r]
    BY <2>4 DEF TypeOK
  <2>6. spf'[q] = 0 => spf[q] = 0 /\ old = {}
    BY <2>2, <2>5
  <2>7. ASSUME NEW r \in Routers, spf'[r] = 0
        PROVE  spf[r] = 0 /\ \A k \in 1 .. MaxNeighbors : nbr'[r][k] = nbr[r][k]
    BY <2>3, <2>5, <2>6, <2>7
  <2>8. \A r \in Routers : spf'[r] = 0 => spf[r] = 0 /\ \A id : Up(r, id) => Up(r, id)'
    BY <2>7 DEF Up
  <2> QED BY <2>4, <2>8, RoutesKeep
<1>5. ASSUME NEW q \in Routers, SpfTimer(q) PROVE RoutesShortest'
  <2>1. UNCHANGED <<nbr, lsdb>> /\ \A r \in Routers \ {q} : routes'[r] = routes[r] /\ spf'[r] = spf[r]
    BY <1>5 DEF SpfTimer, TypeOK
  <2>2. ASSUME NEW r \in Routers, spf'[r] = 0, NEW d \in Ids, routes'[r][d] # NoRoute
        PROVE  LET best == Best[Content(lsdb[r])][r][d]
                   hop  == Node[Peer[routes'[r][d].via]]
               IN  /\ d # r /\ routes'[r][d].metric = best.cost
                   /\ hop \in best.hops /\ Up(r, hop)
    <3>1. CASE r = q
      BY <1>5, <2>2, <3>1, CalculatesRight
    <3>2. CASE r # q
      <4>1. spf[r] = 0 /\ routes'[r] = routes[r]
        BY <2>1, <2>2, <3>2
      <4> QED BY <2>2, <4>1 DEF RoutesShortest
    <3> QED BY <3>1, <3>2
  <2>3. \A r \in Routers : \A id : Up(r, id) => Up(r, id)'
    BY <2>1 DEF Up
  <2> QED BY <2>1, <2>2, <2>3 DEF RoutesShortest
<1>6. CASE Tick
  <2>1. UNCHANGED <<lsdb, routes, spf>>
    BY <1>6 DEF Tick
  <2>2. ASSUME NEW r \in Routers, NEW id, Up(r, id) PROVE Up(r, id)'
    <3>1. PICK k \in 1 .. MaxNeighbors : nbr[r][k] # Invalid /\ nbr[r][k].id = id /\ nbr[r][k].state # "DOWN"
      BY <2>2 DEF Up
    <3> DEFINE n == nbr[r][k]
    <3>2. nbr'[r][k] = Older(n) /\ n \in Neighbor /\ n # Invalid /\ n.id = id /\ n.state # "DOWN"
      BY <1>6, <3>1, NeighborFields DEF Tick
    <3> HIDE DEF n
    <3>3. Older(n) \in Neighbor /\ Older(n).id = n.id /\ Older(n).state = n.state
      BY <3>2 DEF Older, Neighbor
    <3> QED BY <3>2, <3>3, Valid DEF Up
  <2> QED BY <2>1, <2>2, RoutesKeep
<1>7. /\ \A r \in Routers : HelloTimer(r) => UNCHANGED <<nbr, lsdb, routes, spf>>
      /\ Environment \/ UNCHANGED vars => UNCHANGED <<nbr, lsdb, routes, spf>>
  BY DEF HelloTimer, Environment, Speak, Lose, Flap, vars
<1> QED BY <1>1, <1>2, <1>3, <1>4, <1>5, <1>6, <1>7 DEF Next, Step

-----------------------------------------------------------------------------
(* The theorems.                                                           *)

(* The inductive invariant.                                                *)
Inv == TypeOK /\ Punctual /\ Pending /\ HeldBySender /\ LinksReach /\ Named /\ RoutesShortest

(* The initial state satisfies the invariant.                              *)
LEMMA InitInv == Init => Inv
<1> SUFFICES ASSUME Init PROVE Inv
  OBVIOUS
<1>1. TypeOK
  BY InitType
<1>2. Punctual /\ HeldBySender /\ LinksReach /\ Named
  <2>1. /\ \A r \in Routers, k \in 1 .. MaxNeighbors : nbr[r][k] = Invalid
        /\ \A r \in Routers, k \in Slots : lsdb[r][k] = Invalid
        /\ \A i \in Ifaces : wire[i] = <<>> /\ Node[i] \in Routers
    BY TopologyAssumption DEF Init, Slots
  <2>2. \A i \in Ifaces : Frames(wire[i]) = {}
    BY <2>1 DEF Frames
  <2> QED BY <2>1, <2>2 DEF Punctual, HeldBySender, LinksReach, Named
<1>3. Pending
  <2> SUFFICES ASSUME NEW r \in Routers
               PROVE  spf[r] <= (IF timer[r].dead = 0 THEN 0 ELSE 1) + Cardinality(Known(lsdb[r]))
    BY DEF Pending
  <2>1. lsdb[r] \in Lsdbs /\ spf[r] = 0
    BY <1>1 DEF TypeOK, Lsdbs, Slots, Init
  <2>2. \A x \in Keys : Content(lsdb[r])[x] >= Content(lsdb[r])[x]
    BY <2>1, ContentType
  <2>3. Cardinality(Known(lsdb[r])) \in Nat
    BY <2>1, <2>2, KnownGrows
  <2> QED BY <2>1, <2>3
<1>4. RoutesShortest
  BY DEF Init, RoutesShortest
<1> QED BY <1>1, <1>2, <1>3, <1>4 DEF Inv

(* Every step keeps the invariant.                                         *)
LEMMA NextInv == Inv /\ [Next]_vars => Inv'
BY NextType, NextPunctual, NextPending, NextReaches, NextNamed, NextShortest DEF Inv

(* ospf_hello_timer, ospf_receive and ospf_dead_timer: the tables keep     *)
(* their types, and no neighbour is taken for alive two dead intervals     *)
(* after it was last heard, whenever the routers' scans fall.              *)
THEOREM NeighborsSound == Spec => []NeighborInv
<1>1. Init => Inv
  BY InitInv
<1>2. Inv /\ [Next]_vars => Inv'
  BY NextInv
<1>3. Inv => NeighborInv
  <2> SUFFICES ASSUME Inv, NEW r \in Routers, NEW k \in 1 .. MaxNeighbors,
                      nbr[r][k] # Invalid, nbr[r][k].state # "DOWN"
               PROVE  nbr[r][k].age < 2 * Dead
    BY DEF Inv, NeighborInv, SilenceNoticed
  <2>1. nbr[r][k].age + timer[r].dead < 2 * Dead /\ TypeOK
    BY DEF Inv, Punctual
  <2>2. nbr[r][k].age \in Nat /\ timer[r].dead \in Nat
    BY <2>1, NeighborFields
  <2> QED BY <2>1, <2>2, SizesAssumption
<1> QED BY <1>1, <1>2, <1>3, PTL DEF Spec

(* ospf_receive and ospf_flood_lsa: over every link that no LSA was held   *)
(* back from or lost on, what one router has stored the other has, has     *)
(* newer, has no room for, or is about to receive.                         *)
THEOREM FloodsReach == Spec => []FloodReaches
<1>1. Init => Inv
  BY InitInv
<1>2. Inv /\ [Next]_vars => Inv'
  BY NextInv
<1>3. Inv => FloodReaches
  BY LinksReachIs DEF Inv
<1> QED BY <1>1, <1>2, <1>3, PTL DEF Spec

(* Every flood dies out: the calculations pending at a router are no more  *)
(* than the versions it has stored and one for a scan.                     *)
THEOREM FloodsEnd == Spec => []CalculationsBounded
<1>1. Init => Inv
  BY InitInv
<1>2. Inv /\ [Next]_vars => Inv'
  BY NextInv
<1>3. Inv => CalculationsBounded
  <2> SUFFICES ASSUME Inv, NEW r \in Routers
               PROVE  spf[r] <= 1 + Cardinality(Known(lsdb[r]))
    BY DEF CalculationsBounded, Known
  <2>1. TypeOK /\ spf[r] <= (IF timer[r].dead = 0 THEN 0 ELSE 1) + Cardinality(Known(lsdb[r]))
    BY DEF Inv, Pending
  <2>2. lsdb[r] \in Lsdbs /\ spf[r] \in Nat
    BY <2>1 DEF TypeOK, Lsdbs, Slots
  <2>3. \A x \in Keys : Content(lsdb[r])[x] >= Content(lsdb[r])[x]
    BY <2>2, ContentType
  <2>4. Cardinality(Known(lsdb[r])) \in Nat
    BY <2>2, <2>3, KnownGrows
  <2> QED BY <2>1, <2>2, <2>4
<1> QED BY <1>1, <1>2, <1>3, PTL DEF Spec

(* ospf_run_spf, ospf_receive and ospf_dead_timer: a router with no        *)
(* calculation pending has no route but along a shortest path of its own   *)
(* database and towards a neighbour that is not DOWN.  Every change of the *)
(* database or of a neighbour's state starts a calculation, and a          *)
(* calculation is Dijkstra's.                                              *)
THEOREM RoutesRight == Spec => []RoutesShortest
<1>1. Init => Inv
  BY InitInv
<1>2. Inv /\ [Next]_vars => Inv'
  BY NextInv
<1>3. Inv => RoutesShortest
  BY DEF Inv
<1> QED BY <1>1, <1>2, <1>3, PTL DEF Spec

(* No path costs OSPF_INFINITY, 2^32 - 1: a metric has 16 bits, and a path *)
(* has at most OSPF_SPF_MAX_NODES vertices, of which there are 1281.       *)
Affordable ==
  \A c \in Contents, a, b \in Ids : \A p \in Paths(Graph(c), a, b) : PathCost(Graph(c), p) < Infinity

(* ospf_run_spf leaves out no destination that a path of the database      *)
(* leads to, if the hops it could take are neighbours heard of.            *)
THEOREM RoutesLeaveOutNone ==
  ASSUME Affordable
  PROVE  Spec => RoutesComplete
<1> DEFINE Whole(r) == \A d \in Ids \ {r} :
             LET best == Best[Content(lsdb[r])][r][d]
             IN  best.hops # {} /\ (\A h \in best.hops : Up(r, h)) => routes'[r][d] # NoRoute
<1>1. ASSUME Inv, Next, NEW r \in Routers, spf'[r] < spf[r] PROVE SpfTimer(r)
  <2>1. TypeOK /\ spf[r] \in Nat
    BY <1>1 DEF Inv, TypeOK
  <2>2. spf'[r] # spf[r]
    BY <1>1, <2>1
  <2>3. ASSUME NEW q \in Routers, SpfTimer(q) PROVE q = r
    BY <1>1, <2>1, <2>3 DEF SpfTimer, TypeOK
  <2>4. ASSUME NEW q \in Routers, DeadTimer(q) PROVE FALSE
    <3> DEFINE due == IF Silent(q, Dead) = {} THEN 0 ELSE 1
    <3>1. spf' = [spf EXCEPT ![q] = @ + due]
      BY <2>4 DEF DeadTimer, Scan
    <3>2. due \in Nat
      OBVIOUS
    <3> HIDE DEF due
    <3>3. spf'[r] = spf[r] \/ spf'[r] = spf[r] + due
      BY <2>1, <3>1 DEF TypeOK
    <3> QED BY <1>1, <2>1, <3>2, <3>3
  <2>5. ASSUME NEW i \in Ifaces, ReceiveLsu(i) PROVE FALSE
    <3>1. PICK t, out : Flooded(i, t, out)
      BY <2>1, <2>5, ReceiveLsuIs
    <3>2. spf'[r] = spf[r] \/ spf'[r] = spf[r] + 1
      BY <2>1, <3>1 DEF Flooded, TypeOK
    <3> QED BY <1>1, <2>1, <3>2
  <2>6. /\ \A i \in Ifaces : ReceiveHello(i) => spf' = spf
        /\ \A q \in Routers : HelloTimer(q) => spf' = spf
        /\ Tick \/ Environment => spf' = spf
    BY DEF ReceiveHello, HelloTimer, Tick, Environment, Speak, Lose, Flap
  <2> QED BY <1>1, <2>2, <2>3, <2>4, <2>5, <2>6 DEF Next, Step
<1>2. ASSUME Inv, NEW r \in Routers, SpfTimer(r) PROVE Whole(r)
  <2> SUFFICES ASSUME NEW d \in Ids \ {r}, Best[Content(lsdb[r])][r][d].hops # {},
                      \A h \in Best[Content(lsdb[r])][r][d].hops : Up(r, h)
               PROVE  routes'[r][d] # NoRoute
    OBVIOUS
  <2> DEFINE c == Content(lsdb[r])
             g == Graph(c)
             s == Dijkstra(r, g)
  <2>1. /\ c \in Contents
        /\ IF d = r \/ s.dist[d] = Infinity \/ ~Up(r, s.hop[d])
           THEN routes'[r][d] = NoRoute ELSE routes'[r][d].metric = s.dist[d]
    BY <1>2, Calculates DEF Inv
  <2>2. g \in SpfGraphs /\ r \in Ids
    BY <2>1, GraphType, TopologyAssumption
  <2>3. PICK q : q \in Paths(g, r, d)
    BY <2>1 DEF Best, Shortest
  <2>4. PathCost(g, q) < Infinity /\ PathCost(g, q) \in Nat
    BY <2>1, <2>2, <2>3, PathCostNat DEF Affordable
  <2> HIDE DEF c, g
  <2>5. s.dist[d] # Infinity
    <3>1. s.dist[d] = Infinity => Infinity <= PathCost(g, q)
      BY <2>2, <2>3, DijkstraRight
    <3> QED BY <2>4, <3>1, IdsAssumption
  <2>6. PICK p \in Shortest(g, r, d) : p[2] = s.hop[d]
    BY <2>2, <2>5, DijkstraRight
  <2>7. Up(r, s.hop[d])
    BY <2>1, <2>6, BestIs DEF c, g
  <2> HIDE DEF s
  <2>8. routes'[r][d].metric = s.dist[d]
    BY <2>1, <2>5, <2>7
  <2>9. NoRoute.metric = Infinity
    BY DEF NoRoute
  <2> QED BY <2>5, <2>8, <2>9
<1>3. Inv /\ [Next]_vars =>
        [\A r \in Routers : spf'[r] < spf[r] => Whole(r)]_vars
  BY <1>1, <1>2
<1>4. Init => Inv
  BY InitInv
<1>5. Inv /\ [Next]_vars => Inv'
  BY NextInv
<1> QED BY <1>3, <1>4, <1>5, PTL DEF Spec, RoutesComplete

=============================================================================
