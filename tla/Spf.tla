--------------------------------- MODULE Spf ---------------------------------
(***************************************************************************)
(* The shortest-path calculation of ospf_run_spf (src/src/protocols/        *)
(* ospf.c) as operators on a directed graph, and what it is to compute.     *)
(*                                                                          *)
(* A graph is a function from a router to the set of its edges             *)
(* <<to, metric>>.  Only router LSAs and point-to-point links make edges.   *)
(* Vertices are named by their router id; the vertex array of the code     *)
(* holds one per id that an LSA mentions, and an id that none mentions is   *)
(* one that stays at an infinite distance.                                  *)
(***************************************************************************)
EXTENDS Naturals, Sequences, FiniteSets

CONSTANTS
  Ids,       \* router ids, ordered as numbers
  Infinity   \* OSPF_INFINITY

ASSUME IdsAssumption ==
  Ids \subseteq Nat /\ IsFiniteSet(Ids) /\ Infinity \in Nat \ {0}

None == "none"

(* The vertices before the first iteration.                                *)
SpfStart(root) ==
  [visited |-> {},
   dist    |-> [v \in Ids |-> IF v = root THEN 0 ELSE Infinity],
   hop     |-> [v \in Ids |-> None]]

(* Mutant: the nearest vertex is any one within reach, the lowest id first. *)
SelectedFirst(s) ==
  CHOOSE v \in Ids \ s.visited :
    /\ s.dist[v] # Infinity
    /\ \A w \in Ids \ s.visited : s.dist[w] # Infinity => v <= w

(* The unvisited vertex of least distance, of those the lowest id.          *)
Selected(s) ==
  CHOOSE v \in Ids \ s.visited :
    \A w \in Ids \ (s.visited \cup {v}) :
      s.dist[v] < s.dist[w] \/ (s.dist[v] = s.dist[w] /\ v < w)

(* The candidate distances of w by the edges that leave v.                  *)
Offers(s, graph, v, w) ==
  {s.dist[v] + e[2] : e \in {f \in graph[v] : f[1] = w /\ s.dist[v] < Infinity - f[2]}}

Least(S) == CHOOSE n \in S : \A m \in S : n <= m

(* The relaxation of the edges of v.  The path to a vertex changes only for *)
(* a shorter one.                                                           *)
Relaxed(s, graph, root, v) ==
  LET better == {w \in Ids \ (s.visited \cup {v}) :
                   \E d \in Offers(s, graph, v, w) : d < s.dist[w]}
  IN  [visited |-> s.visited \cup {v},
       dist |-> [w \in Ids |-> IF w \in better THEN Least(Offers(s, graph, v, w))
                               ELSE s.dist[w]],
       hop  |-> [w \in Ids |-> IF w \notin better THEN s.hop[w]
                               ELSE IF v = root THEN w ELSE s.hop[v]]]

(* The loop: at most one iteration per vertex, until none is in reach.      *)
Dijkstra(root, graph) ==
  LET step[n \in 0 .. Cardinality(Ids)] ==
        IF n = 0 THEN SpfStart(root)
        ELSE LET s == step[n - 1]
             IN  IF \A v \in Ids \ s.visited : s.dist[v] = Infinity THEN s
                 ELSE Relaxed(s, graph, root, Selected(s))
  IN  step[Cardinality(Ids)]

-----------------------------------------------------------------------------
(* The reference definition.                                               *)

(* The paths from a to b: sequences of distinct vertices joined by edges.   *)
Paths(graph, a, b) ==
  {p \in UNION {[1 .. n -> Ids] : n \in 1 .. Cardinality(Ids)} :
     /\ p[1] = a /\ p[Len(p)] = b
     /\ \A m, n \in DOMAIN p : p[m] = p[n] => m = n
     /\ \A n \in 1 .. Len(p) - 1 : \E e \in graph[p[n]] : e[1] = p[n + 1]}

EdgeCost(graph, v, w) == Least({e[2] : e \in {f \in graph[v] : f[1] = w}})

(* What the first n edges of a path cost.                                   *)
Costs(graph, p) ==
  LET cost[n \in 0 .. Len(p) - 1] ==
        IF n = 0 THEN 0 ELSE cost[n - 1] + EdgeCost(graph, p[n], p[n + 1])
  IN  cost

PathCost(graph, p) == Costs(graph, p)[Len(p) - 1]

Shortest(graph, a, b) ==
  {p \in Paths(graph, a, b) :
     \A q \in Paths(graph, a, b) : PathCost(graph, p) <= PathCost(graph, q)}

=============================================================================
