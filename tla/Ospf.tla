-------------------------------- MODULE Ospf --------------------------------
(***************************************************************************)
(* OSPF on several routers (src/src/protocols/ospf.c): neighbours kept by   *)
(* Hellos and a periodic scan, link-state databases filled by flooding, and *)
(* routes calculated from both some time after a change.                    *)
(*                                                                          *)
(* No code originates LSAs, so they stem from an external speaker behind    *)
(* the interface Origin.  An LSA is its key and its sequence number; Edges  *)
(* gives the links that a version lists.  A step of time is one Hello       *)
(* interval: packets arrive and the short SPF delay ends within the step    *)
(* they started in, in any order.  last_hello_ts is kept as an age.  The    *)
(* counters of the three tables are written and never read, and are left    *)
(* out; the RIB is taken to have room (module Routing).                     *)
(***************************************************************************)
EXTENDS Spf

CONSTANTS
  Routers,      \* ids of the routers modelled
  Ifaces,       \* their interfaces, which stand for their addresses too
  Node,         \* the router an interface belongs to
  Peer,         \* the other end of an interface's link
  Origin,       \* the interface that faces the external speaker; Peer of itself
  Enabled,      \* each router's interfaces, in the order ospf_enable_iface
                \* was called for them
  Mask,         \* the network mask of an interface
  Keys,         \* LSA keys (lsa_id, adv_router)
  Adv,          \* the advertising router of a key
  Edges,        \* the point-to-point links <<to, metric>> of a key's versions
  Updates,      \* the LSUs the speaker may send: sequences of LSAs
  LsdbSize,     \* OSPF_LSDB_SIZE
  MaxNeighbors, \* OSPF_MAX_NEIGHBORS
  Dead,         \* OSPF_DEAD_INTERVAL_US in Hello intervals
  FirstScan,    \* time until a router's first dead scan: routers may start at
                \* different times before the first Hello arrives anywhere
  Fragile,      \* bound: the interfaces that faults befall
  MaxUpdates,   \* bound: LSUs of the speaker
  MaxFaults     \* bound: frames lost, interfaces changed

(* The versions of an LSA, by sequence number.                              *)
Seqs == 1 .. 2

Lsa == [key: Keys, seq: Seqs]

ASSUME TopologyAssumption ==
  /\ Routers \subseteq Ids /\ Node \in [Ifaces -> Routers]
  /\ Origin \in Ifaces /\ Peer \in [Ifaces -> Ifaces]
  /\ \A i \in Ifaces : Peer[Peer[i]] = i /\ (Peer[i] = i <=> i = Origin)
  /\ \A r \in Routers : {Enabled[r][n] : n \in DOMAIN Enabled[r]} = {i \in Ifaces : Node[i] = r}
  /\ Adv \in [Keys -> Ids] /\ IsFiniteSet(Keys)
  /\ \A k \in Keys, n \in Seqs : Edges[k][n] \subseteq Ids \X Nat
  /\ Updates \subseteq Seq(Lsa) /\ FirstScan \in [Routers -> 0 .. Dead]
ASSUME SizesAssumption ==
  /\ LsdbSize \in Nat \ {0} /\ MaxNeighbors \in Nat \ {0} /\ Dead \in Nat \ {0, 1}
  /\ MaxUpdates \in Nat /\ MaxFaults \in Nat /\ Fragile \subseteq Ifaces \ {Origin}

(* A neighbour; Invalid is a slot, of either table, whose valid flag is 0.  *)
Neighbor == [id: Ids, iface: Ifaces, state: {"DOWN", "INIT", "FULL"}, age: Nat]
Invalid  == [state |-> "INVALID"]

Message ==
  [type: {"HELLO"}, id: Ids, mask: {Mask[i] : i \in Ifaces}, seen: SUBSET Ids]
    \cup [type: {"LSU"}, lsas: Seq(Lsa)]

(* An OSPF route of the route table; its next hop is the peer of via.       *)
Route   == [via: Ifaces, metric: 0 .. Infinity - 1]
NoRoute == [metric |-> Infinity]

VARIABLES
  nbr,      \* each router's neighbour table
  lsdb,     \* each router's link-state database
  routes,   \* each router's routes of protocol OSPF, by destination id
  timer,    \* time until each router's next Hello and dead scan
  spf,      \* the number of SPF events pending at each router
  wire,     \* the packets in flight to each interface, oldest first
  up,       \* the interfaces that are up
  updates,  \* bounded: LSUs the speaker has sent
  faults,   \* bounded
  missed    \* history: interfaces that a changed LSA was not sent out of, or
            \* whose frame was lost

vars == <<nbr, lsdb, routes, timer, spf, wire, up, updates, faults, missed>>

TypeOK ==
  /\ nbr \in [Routers -> [1 .. MaxNeighbors -> Neighbor \cup {Invalid}]]
  /\ lsdb \in [Routers -> [1 .. LsdbSize -> Lsa \cup {Invalid}]]
  /\ routes \in [Routers -> [Ids -> Route \cup {NoRoute}]]
  /\ timer \in [Routers -> [hello: 0 .. 1, dead: 0 .. Dead]]
  /\ spf \in [Routers -> Nat]
  /\ wire \in [Ifaces -> Seq(Message)]
  /\ up \subseteq Ifaces /\ missed \subseteq Ifaces
  /\ updates \in 0 .. MaxUpdates /\ faults \in 0 .. MaxFaults

Init ==
  /\ nbr = [r \in Routers |-> [k \in 1 .. MaxNeighbors |-> Invalid]]
  /\ lsdb = [r \in Routers |-> [k \in 1 .. LsdbSize |-> Invalid]]
  /\ routes = [r \in Routers |-> [d \in Ids |-> NoRoute]]
  /\ timer = [r \in Routers |-> [hello |-> 1, dead |-> FirstScan[r]]]
  /\ spf = [r \in Routers |-> 0]
  /\ wire = [i \in Ifaces |-> <<>>]
  /\ up = Ifaces /\ updates = 0 /\ faults = 0
  /\ missed = {}

(* ip_output to the multicast group succeeds on an interface that is up and *)
(* whose peer is up.                                                        *)
Sendable(i) == {i, Peer[i]} \subseteq up

(* No packet is in flight: links are fast against the SPF delay and the     *)
(* timers' periods.                                                         *)
Quiet == \A i \in Ifaces : wire[i] = <<>>

(* The periodic timers due now have fired.                                  *)
NoneDue == \A r \in Routers : timer[r].hello > 0 /\ timer[r].dead > 0

First(S) == CHOOSE k \in S : \A l \in S : k <= l

-----------------------------------------------------------------------------
(* Hellos.                                                                  *)

LiveAt(r, i) == {k \in 1 .. MaxNeighbors :
                   /\ nbr[r][k] # Invalid
                   /\ nbr[r][k].iface = i /\ nbr[r][k].state # "DOWN"}

(* ospf_send_hello: the neighbours heard on this interface are listed.      *)
Hello(i) ==
  [type |-> "HELLO", id |-> Node[i], mask |-> Mask[i],
   seen |-> {nbr[Node[i]][k].id : k \in LiveAt(Node[i], i)}]

(* ospf_hello_timer: a Hello on every interface that can send.  The timers  *)
(* of one instant fire in the order they were scheduled in.                 *)
HelloTimer(r) ==
  /\ timer[r].hello = 0 /\ Quiet
  /\ \A q \in Routers : timer[q].hello = 0 => r <= q
  /\ wire' = [i \in Ifaces |->
       IF Node[Peer[i]] = r /\ i # Origin /\ Sendable(i)
       THEN Append(wire[i], Hello(Peer[i])) ELSE wire[i]]
  /\ timer' = [timer EXCEPT ![r].hello = 1]
  /\ UNCHANGED <<nbr, lsdb, routes, spf, up, updates, faults, missed>>

(* The Hello branch of ospf_receive.  The sender takes its old slot or the  *)
(* first free one; its interface is the one heard on last.  SPF is not      *)
(* scheduled.                                                               *)
ReceiveHello(i) ==
  /\ wire[i] # <<>> /\ Head(wire[i]).type = "HELLO"
  /\ LET m     == Head(wire[i])
         table == nbr[Node[i]]
         match == {k \in DOMAIN table : table[k] # Invalid /\ table[k].id = m.id}
         free  == {k \in DOMAIN table : table[k] = Invalid}
         k     == First(IF match # {} THEN match ELSE free)
     IN  nbr' = IF m.id = Node[i] \/ m.mask # Mask[i] \/ match \cup free = {} THEN nbr
                ELSE [nbr EXCEPT ![Node[i]][k] =
                        [id |-> m.id, iface |-> i, age |-> 0,
                         state |-> IF Node[i] \in m.seen THEN "FULL" ELSE "INIT"]]
  /\ wire' = [wire EXCEPT ![i] = Tail(@)]
  /\ UNCHANGED <<lsdb, routes, timer, spf, up, updates, faults, missed>>

Silent(r, age) ==
  {k \in 1 .. MaxNeighbors : /\ nbr[r][k] # Invalid /\ nbr[r][k].state # "DOWN"
                             /\ nbr[r][k].age >= age}

(* A scan marks the neighbours old and schedules as many SPF events as due. *)
Scan(r, old, due) ==
  /\ timer[r].dead = 0 /\ Quiet
  /\ nbr' = [nbr EXCEPT ![r] = [k \in 1 .. MaxNeighbors |->
                IF k \in old THEN [@[k] EXCEPT !.state = "DOWN"] ELSE @[k]]]
  /\ spf' = [spf EXCEPT ![r] = @ + due]
  /\ timer' = [timer EXCEPT ![r].dead = Dead]
  /\ UNCHANGED <<lsdb, routes, wire, up, updates, faults, missed>>

(* Mutants: the scan waits one interval too long; it schedules no SPF.      *)
DeadTimerLate(r)  == Scan(r, Silent(r, 2 * Dead), IF Silent(r, 2 * Dead) = {} THEN 0 ELSE 1)
DeadTimerNoSpf(r) == Scan(r, Silent(r, Dead), 0)

(* ospf_dead_timer: neighbours not heard for a dead interval are DOWN.      *)
DeadTimer(r) == Scan(r, Silent(r, Dead), IF Silent(r, Dead) = {} THEN 0 ELSE 1)

-----------------------------------------------------------------------------
(* Flooding.                                                                *)

Matching(db, key) == {k \in 1 .. LsdbSize : db[k] # Invalid /\ db[k].key = key}

(* Mutants: an equal version is stored again; any version is.               *)
FresherOrEqual(stored, l) == l.seq >= stored.seq
FresherAny(stored, l) == l.seq # stored.seq

(* A received LSA replaces the entry of its key if it is newer.             *)
Fresher(stored, l) == l.seq > stored.seq

(* An LSA without an entry takes a free slot or is left out.  t holds the   *)
(* database and the slots changed so far, in order.                         *)
Stored(t, l) ==
  LET match == Matching(t.db, l.key)
      free  == {k \in 1 .. LsdbSize : t.db[k] = Invalid}
      k     == First(IF match # {} THEN match ELSE free)
  IN  IF match \cup free = {} \/ (match # {} /\ ~Fresher(t.db[k], l)) THEN t
      ELSE [db |-> [t.db EXCEPT ![k] = l],
            changed |-> IF k \in {t.changed[n] : n \in DOMAIN t.changed} THEN t.changed
                        ELSE Append(t.changed, k)]

(* The loop of ospf_receive over the LSAs of an LSU.                        *)
Applied(db, lsas) ==
  LET scan[n \in 0 .. Len(lsas)] ==
        IF n = 0 THEN [db |-> db, changed |-> <<>>] ELSE Stored(scan[n - 1], lsas[n])
  IN  scan[Len(lsas)]

(* ospf_flood_lsa: the interfaces an LSA leaves by.  The first one that     *)
(* cannot send ends the loop.                                               *)
FloodedOut(r, except) ==
  {Enabled[r][n] : n \in {m \in DOMAIN Enabled[r] :
     /\ Enabled[r][m] # except
     /\ \A l \in 1 .. m : Enabled[r][l] = except \/ Sendable(Enabled[r][l])}}

(* The LSU branch of ospf_receive; whoever sent it, a neighbour or not.     *)
ReceiveLsu(i) ==
  /\ wire[i] # <<>> /\ Head(wire[i]).type = "LSU"
  /\ \E t \in {Applied(lsdb[Node[i]], Head(wire[i]).lsas)}, out \in {FloodedOut(Node[i], i)} :
       LET r    == Node[i]
           lsus == [n \in DOMAIN t.changed |->
                      [type |-> "LSU", lsas |-> <<t.db[t.changed[n]]>>]]
           rest(j) == IF j = i THEN Tail(wire[j]) ELSE wire[j]
       IN  /\ lsdb' = [lsdb EXCEPT ![r] = t.db]
           /\ wire' = [j \in Ifaces |->
                IF Peer[j] \in out \ {Origin} THEN rest(j) \o lsus ELSE rest(j)]
           /\ spf' = [spf EXCEPT ![r] = IF t.changed # <<>> THEN @ + 1 ELSE @]
           /\ missed' = IF t.changed = <<>> THEN missed
                        ELSE missed \cup {j \in Ifaces \ (out \cup {i}) : Node[j] = r}
  /\ UNCHANGED <<nbr, routes, timer, up, updates, faults>>

-----------------------------------------------------------------------------
(* Routes.                                                                  *)

(* The versions that a database holds, 0 where it has none.                 *)
Content(db) ==
  [k \in Keys |-> IF Matching(db, k) = {} THEN 0 ELSE db[First(Matching(db, k))].seq]

(* The contents that fit.                                                   *)
Contents == {c \in [Keys -> {0} \cup Seqs] : Cardinality({k \in Keys : c[k] > 0}) <= LsdbSize}

(* The graph of a database: the links of all entries of a router.           *)
Graph(c) ==
  [v \in Ids |-> UNION {Edges[k][c[k]] : k \in {l \in Keys : Adv[l] = v /\ c[l] > 0}}]

(* What the loop finds from every database content at every router.         *)
Found == {[content |-> c, root |-> r, is |-> Dijkstra(r, Graph(c))] : c \in Contents, r \in Routers}

(* Mutant: only adjacent neighbours.                                        *)
UsableFull(r) == {k \in 1 .. MaxNeighbors : nbr[r][k] # Invalid /\ nbr[r][k].state = "FULL"}

(* The neighbours through which a route may lead.                           *)
Usable(r) == {k \in 1 .. MaxNeighbors : nbr[r][k] # Invalid /\ nbr[r][k].state # "DOWN"}

(* ospf_spf_timer and ospf_run_spf: all OSPF routes are replaced.           *)
SpfTimer(r) ==
  /\ spf[r] > 0 /\ Quiet /\ NoneDue
  /\ \E f \in Found :
       LET toward(d) == {k \in Usable(r) : nbr[r][k].id = f.is.hop[d]}
       IN  /\ f.root = r /\ f.content = Content(lsdb[r])
           /\ routes' = [routes EXCEPT ![r] = [d \in Ids |->
                IF d = r \/ f.is.dist[d] = Infinity \/ toward(d) = {} THEN NoRoute
                ELSE [via |-> nbr[r][First(toward(d))].iface, metric |-> f.is.dist[d]]]]
  /\ spf' = [spf EXCEPT ![r] = @ - 1]
  /\ UNCHANGED <<nbr, lsdb, timer, wire, up, updates, faults, missed>>

-----------------------------------------------------------------------------
(* The environment.                                                         *)

(* The speaker sends an LSU.                                                *)
Speak(lsas) ==
  /\ updates < MaxUpdates /\ Origin \in up /\ NoneDue
  /\ \A i \in Ifaces : \A n \in DOMAIN wire[i] : wire[i][n].type # "HELLO"
  /\ updates' = updates + 1
  /\ wire' = [wire EXCEPT ![Origin] = Append(@, [type |-> "LSU", lsas |-> lsas])]
  /\ UNCHANGED <<nbr, lsdb, routes, timer, spf, up, faults, missed>>

Fault == faults < MaxFaults /\ faults' = faults + 1

(* A frame is dropped at an interface that is IFACE_ERR_DISABLED.           *)
Lose(i) ==
  /\ Fault /\ wire[i] # <<>>
  /\ wire' = [wire EXCEPT ![i] = Tail(@)]
  /\ missed' = missed \cup {Peer[i]}
  /\ UNCHANGED <<nbr, lsdb, routes, timer, spf, up, updates>>

(* interface_set_up.                                                        *)
Flap(i) ==
  /\ Fault
  /\ up' = IF i \in up THEN up \ {i} ELSE up \cup {i}
  /\ UNCHANGED <<nbr, lsdb, routes, timer, spf, wire, updates, missed>>

(* Time passes when nothing is due.  The age of a DOWN neighbour is not     *)
(* looked at any more.                                                      *)
Older(n) == IF n = Invalid \/ n.state = "DOWN" THEN n ELSE [n EXCEPT !.age = @ + 1]

Tick ==
  /\ Quiet /\ NoneDue /\ \A r \in Routers : spf[r] = 0
  /\ timer' = [r \in Routers |->
       [hello |-> timer[r].hello - 1, dead |-> timer[r].dead - 1]]
  /\ nbr' = [r \in Routers |-> [k \in 1 .. MaxNeighbors |-> Older(nbr[r][k])]]
  /\ UNCHANGED <<lsdb, routes, spf, wire, up, updates, faults, missed>>

-----------------------------------------------------------------------------

Environment ==
  \/ \E lsas \in Updates : Speak(lsas)
  \/ \E i \in Fragile : Lose(i) \/ Flap(i)

Step ==
  \/ \E i \in Ifaces : ReceiveHello(i) \/ ReceiveLsu(i)
  \/ \E r \in Routers : HelloTimer(r) \/ DeadTimer(r) \/ SpfTimer(r)
  \/ Tick

Next == Environment \/ Step

(* The scheduler goes on dispatching the next event; no event is promised   *)
(* more than its turn.                                                      *)
Fairness == WF_vars(Step)

Spec == Init /\ [][Next]_vars /\ Fairness

-----------------------------------------------------------------------------
(* Properties.                                                              *)

(* No neighbour is taken for alive for two dead intervals after it was      *)
(* heard: the scan runs once per interval and marks what is that old.       *)
SilenceNoticed ==
  \A r \in Routers, k \in 1 .. MaxNeighbors :
    nbr[r][k] # Invalid /\ nbr[r][k].state # "DOWN" => nbr[r][k].age < 2 * Dead

(* The neighbour tables are sound, whenever Hellos come or fail to come.    *)
NeighborInv == TypeOK /\ SilenceNoticed

(* What a router has stored its neighbour on a link has too, or newer, or   *)
(* it is in flight on that link, or the neighbour's database is full,       *)
(* unless an LSA was not sent over the link or a frame on it was lost.  So  *)
(* databases agree once the flood is over, whatever order old and new       *)
(* versions went round in.                                                  *)
FloodReaches ==
  \A i \in Ifaces \ ({Origin} \cup missed) : \A k \in 1 .. LsdbSize :
    LET l  == lsdb[Node[i]][k]
        db == lsdb[Node[Peer[i]]]
    IN  l # Invalid =>
          \/ \E n \in Matching(db, l.key) : db[n].seq >= l.seq
          \/ Matching(db, l.key) = {} /\ \A n \in 1 .. LsdbSize : db[n] # Invalid
          \/ \E n \in DOMAIN wire[Peer[i]] :
               LET m == wire[Peer[i]][n]
               IN  m.type = "LSU" /\ \E e \in DOMAIN m.lsas :
                     m.lsas[e].key = l.key /\ m.lsas[e].seq >= l.seq

(* What is right for the contents of a database: for a router and a         *)
(* destination the least cost of a path, and the second routers of the      *)
(* paths of that cost.                                                      *)
Best ==
  [c \in Contents |-> [r \in Routers |-> [d \in Ids \ {r} |->
     LET paths == Shortest(Graph(c), r, d)
     IN  [cost |-> IF paths = {} THEN Infinity
                   ELSE PathCost(Graph(c), CHOOSE p \in paths : TRUE),
          hops |-> {p[2] : p \in paths}]]]]

Up(r, id) == \E k \in 1 .. MaxNeighbors :
               nbr[r][k] # Invalid /\ nbr[r][k].id = id /\ nbr[r][k].state # "DOWN"

(* A router whose calculation is not pending has no route but along a       *)
(* shortest path of its own database, of that path's cost, and towards a    *)
(* neighbour that is not DOWN: whichever of database and neighbours changed *)
(* last, and in whatever order the scheduled calculations ran.              *)
RoutesShortest ==
  \A r \in Routers : spf[r] = 0 =>
    \A d \in Ids : routes[r][d] # NoRoute =>
      LET best == Best[Content(lsdb[r])][r][d]
          hop  == Node[Peer[routes[r][d].via]]
      IN  /\ d # r /\ routes[r][d].metric = best.cost
          /\ hop \in best.hops /\ Up(r, hop)

(* A calculation leaves out no destination: it has a route if all the first *)
(* hops it could take are neighbours heard of.                              *)
RoutesComplete ==
  [][\A r \in Routers : spf'[r] < spf[r] =>
       \A d \in Ids \ {r} :
         LET best == Best[Content(lsdb[r])][r][d]
         IN  best.hops # {} /\ (\A h \in best.hops : Up(r, h)) => routes'[r][d] # NoRoute]_vars

(* A router has at most one calculation pending for each version it has     *)
(* stored and one for a dead scan: nothing that is passed round a cycle of  *)
(* routers is stored and passed on twice, so that every flood dies out.     *)
CalculationsBounded ==
  \A r \in Routers :
    LET seen == Content(lsdb[r])
    IN  spf[r] <= 1 + Cardinality({v \in Keys \X Seqs : v[2] <= seen[v[1]]})

(* Two routers take each other for FULL over every link that works and has  *)
(* one mask.                                                                *)
Adjacent ==
  \A i \in Ifaces \ {Origin} : Sendable(i) /\ Mask[i] = Mask[Peer[i]] =>
    \E k \in 1 .. MaxNeighbors :
      /\ nbr[Node[i]][k] # Invalid /\ nbr[Node[i]][k].id = Node[Peer[i]]
      /\ nbr[Node[i]][k].state = "FULL"

(* No route leads over a link that is down.                                 *)
RoutesWithdrawn ==
  \A r \in Routers, d \in Ids : routes[r][d] # NoRoute => Sendable(routes[r][d].via)

(* Whatever Hellos were lost and interfaces went down or came up, in the    *)
(* end the routers at both ends of every working link are adjacent, and the *)
(* routes over links that are down are gone.                                *)
Settles == <>[](Adjacent /\ RoutesWithdrawn)

=============================================================================
