--------------------------------- MODULE Rip ---------------------------------
(***************************************************************************)
(* RIP on several routers (src/src/protocols/rip.c): databases filled by   *)
(* updates, split horizon, and the three periodic scans, with time.        *)
(*                                                                         *)
(* Routers never announce networks of their own, so all routes stem from an *)
(* external speaker behind the interface Origin.  Time is in steps in which *)
(* every timer counts down; an update arrives in the step it is sent in    *)
(* (link delays are far below the periods), and events of one step come in *)
(* any order.  last_update is kept as the age of the entry.  The updates   *)
(* are taken to reach rip_receive (see the README), to fit one datagram, and *)
(* the RIB to have room; that table is the subject of module Routing.        *)
(***************************************************************************)
EXTENDS Naturals, Sequences, FiniteSets

CONSTANTS
  Routers,
  Ifaces,    \* the routers' interfaces, which stand for their addresses too
  Node,      \* the router an interface belongs to
  Peer,      \* the other end of an interface's link
  Origin,    \* the interface that faces the external speaker; Peer of itself
  Distance,  \* links between a router and the external speaker
  Prefixes,
  DbSize,    \* RIP_DB_SIZE
  Infinity,  \* RIP_INFINITY
  Update,    \* RIP_UPDATE_INTERVAL_US
  Timeout,   \* RIP_TIMEOUT_US
  Gc,        \* RIP_GC_US
  MaxFaults  \* bound: updates lost, interfaces changed, returns of the speaker

ASSUME TopologyAssumption ==
  /\ Node \in [Ifaces -> Routers]
  /\ Origin \in Ifaces /\ Peer \in [Ifaces -> Ifaces]
  /\ \A i \in Ifaces : Peer[Peer[i]] = i /\ (Peer[i] = i <=> i = Origin)
  /\ Distance \in [Routers -> Nat \ {0}]
ASSUME SizesAssumption ==
  /\ IsFiniteSet(Prefixes)
  /\ DbSize \in Nat \ {0} /\ Infinity \in Nat \ {0, 1} /\ MaxFaults \in Nat
  /\ Update \in Nat \ {0} /\ Timeout \in Nat \ {0} /\ Gc \in 1 .. Timeout

Slots == 1 .. DbSize

(* A RipRouteInfo; Invalid is one whose valid flag is 0.                   *)
Hops    == Ifaces \cup {"speaker"}
Info    == [prefix: Prefixes, state: {"ACTIVE", "GC"}, metric: 1 .. Infinity,
            hop: Hops, iface: Ifaces, age: Nat]
Invalid == [state |-> "INVALID"]

(* A RIP route of the route table.                                         *)
Route   == [hop: Hops, iface: Ifaces, metric: 1 .. Infinity]
NoRoute == [metric |-> 0]

(* A response: its source address and its entries.                         *)
Entry    == [prefix: Prefixes, metric: 1 .. Infinity, hop: Hops \cup {"zero"}]
Response == [src: Hops, entries: Seq(Entry)]

VARIABLES
  started,  \* the routers that run RIP
  db,       \* each router's RIP database
  count,    \* db_count
  routes,   \* each router's routes of protocol RIP
  timer,    \* time until each router's next update, timeout and gc event
  wire,     \* the updates in flight to each interface, oldest first
  up,       \* the interfaces that are up
  speaking, \* the prefixes the external speaker announces
  silence,  \* time until the speaker's next update
  faults    \* bounded

tables == <<db, count, routes>>
vars   == <<started, tables, timer, wire, up, speaking, silence, faults>>

TypeOK ==
  /\ started \subseteq Routers
  /\ db \in [Routers -> [Slots -> Info \cup {Invalid}]]
  /\ count \in [Routers -> 0 .. DbSize]
  /\ routes \in [Routers -> [Prefixes -> Route \cup {NoRoute}]]
  /\ timer \in [Routers -> [update: 0 .. Update, timeout: 0 .. Timeout, gc: 0 .. Gc]]
  /\ wire \in [Ifaces -> Seq(Response)]
  /\ up \subseteq Ifaces /\ speaking \subseteq Prefixes
  /\ silence \in 0 .. Update /\ faults \in 0 .. MaxFaults

Init ==
  /\ started = {}
  /\ db = [r \in Routers |-> [k \in Slots |-> Invalid]]
  /\ count = [r \in Routers |-> 0]
  /\ routes = [r \in Routers |-> [p \in Prefixes |-> NoRoute]]
  /\ timer = [r \in Routers |-> [update |-> Update, timeout |-> Timeout, gc |-> Gc]]
  /\ wire = [i \in Ifaces |-> <<>>]
  /\ up = Ifaces /\ speaking = Prefixes /\ silence = Update /\ faults = 0

Valid(r, k) == db[r][k] # Invalid

-----------------------------------------------------------------------------
(* Reception.                                                              *)

(* Mutant: the hop to the neighbour is not counted.                        *)
CandidateMetricFlat(m) == m

(* The received metric plus one hop, capped.                               *)
CandidateMetric(m) == IF m + 1 > Infinity THEN Infinity ELSE m + 1

(* The tables of one router: [db, count, routes].                          *)
TablesOf(r) == [db |-> db[r], count |-> count[r], routes |-> routes[r]]

SetTables(r, t) ==
  /\ db' = [db EXCEPT ![r] = t.db]
  /\ count' = [count EXCEPT ![r] = t.count]
  /\ routes' = [routes EXCEPT ![r] = t.routes]

First(S) == CHOOSE k \in S : \A l \in S : k <= l

Matching(t, p) == {k \in Slots : t.db[k] # Invalid /\ t.db[k].prefix = p}

(* Mutant: the route of an unreachable prefix stays installed.             *)
PoisonedEntry(t, i, e) ==
  LET k == First(Matching(t, e.prefix))
  IN  IF Matching(t, e.prefix) = {} THEN t
      ELSE [t EXCEPT !.db[k] = [@ EXCEPT !.state = "GC", !.metric = Infinity,
                                         !.iface = i, !.age = 0]]

(* An unreachable prefix: the entry, if there is one, moves to garbage     *)
(* collection, whoever announced it, and its age starts again.             *)
Poisoned(t, i, e) ==
  LET k == First(Matching(t, e.prefix))
  IN  IF Matching(t, e.prefix) = {} THEN t
      ELSE [t EXCEPT !.db[k] = [@ EXCEPT !.state = "GC", !.metric = Infinity,
                                         !.iface = i, !.age = 0],
                     !.routes[e.prefix] = NoRoute]

(* A reachable prefix replaces its entry, whoever announced that one and at *)
(* whatever metric, or takes the first free slot; a full database ignores it. *)
Learned(t, i, src, e) ==
  LET match == Matching(t, e.prefix)
      free  == {k \in Slots : t.db[k] = Invalid}
      k     == First(IF match # {} THEN match ELSE free)
      hop   == IF e.hop = "zero" THEN src ELSE e.hop
      m     == CandidateMetric(e.metric)
  IN  IF match = {} /\ free = {} THEN t
      ELSE [db     |-> [t.db EXCEPT ![k] =
                          [prefix |-> e.prefix, state |-> "ACTIVE", metric |-> m,
                           hop |-> hop, iface |-> i, age |-> 0]],
            count  |-> IF match = {} THEN t.count + 1 ELSE t.count,
            routes |-> [t.routes EXCEPT ![e.prefix] =
                          [hop |-> hop, iface |-> i, metric |-> m]]]

(* The loop of rip_receive over the entries.                               *)
Merged(t, i, msg) ==
  LET entry(u, e) == IF CandidateMetric(e.metric) = Infinity THEN Poisoned(u, i, e)
                     ELSE Learned(u, i, msg.src, e)
      scan[n \in 0 .. Len(msg.entries)] ==
        IF n = 0 THEN t ELSE entry(scan[n - 1], msg.entries[n])
  IN  scan[Len(msg.entries)]

(* rip_receive; the port of a router that does not run RIP is not bound.   *)
Receive(i) ==
  /\ wire[i] # <<>>
  /\ wire' = [wire EXCEPT ![i] = Tail(@)]
  /\ IF Node[i] \in started
     THEN SetTables(Node[i], Merged(TablesOf(Node[i]), i, Head(wire[i])))
     ELSE UNCHANGED tables
  /\ UNCHANGED <<started, timer, up, speaking, silence, faults>>

-----------------------------------------------------------------------------
(* The periodic events.                                                    *)

(* The entries of a response, in the order of the slots S they come from.  *)
EntriesOf(r, S) ==
  LET scan[n \in 0 .. DbSize] ==
        IF n = 0 THEN <<>>
        ELSE IF n \in S
             THEN Append(scan[n - 1], [prefix |-> db[r][n].prefix,
                                       metric |-> db[r][n].metric, hop |-> db[r][n].hop])
             ELSE scan[n - 1]
  IN  scan[DbSize]

(* Mutant: no split horizon.                                               *)
AnnouncedBack(r, i) == EntriesOf(r, {k \in Slots : Valid(r, k)})

(* Mutant: unreachable entries are announced on every interface.           *)
AnnouncedPoison(r, i) ==
  EntriesOf(r, {k \in Slots : Valid(r, k) /\ (db[r][k].iface # i \/ db[r][k].state = "GC")})

(* rip_send_update: the entries an interface announces.  Those learned on  *)
(* it are left out; unreachable ones are not.                              *)
Announced(r, i) == EntriesOf(r, {k \in Slots : Valid(r, k) /\ db[r][k].iface # i})

(* rip_update_handler: one response per interface; nothing is sent from or *)
(* to an interface that is down, and nothing if there is nothing to say.   *)
RipUpdate(r) ==
  /\ r \in started /\ timer[r].update = 0
  /\ LET sent(i)   == Node[i] = r /\ Peer[i] # i /\ {i, Peer[i]} \subseteq up
                        /\ Announced(r, i) # <<>>
         onto(i)   == IF sent(Peer[i])
                      THEN Append(wire[i], [src |-> Peer[i],
                                            entries |-> Announced(r, Peer[i])])
                      ELSE wire[i]
     IN  wire' = [i \in Ifaces |-> onto(i)]
  /\ timer' = [timer EXCEPT ![r].update = Update]
  /\ UNCHANGED <<started, tables, up, speaking, silence, faults>>

(* Mutant: the threshold of the collection is used for the timeout.        *)
ExpiredLate(e) == e.age > Timeout + Gc

Expired(e) == e.age > Timeout

(* rip_timeout_handler: active entries that were not refreshed for longer  *)
(* than the timeout become unreachable and lose their route.               *)
RipTimeout(r) ==
  /\ r \in started /\ timer[r].timeout = 0
  /\ LET old == {k \in Slots : Valid(r, k) /\ db[r][k].state = "ACTIVE" /\ Expired(db[r][k])}
     IN  /\ db' = [db EXCEPT ![r] = [k \in Slots |->
                     IF k \in old
                     THEN [@[k] EXCEPT !.metric = Infinity, !.state = "GC"] ELSE @[k]]]
         /\ routes' = [routes EXCEPT ![r] = [p \in Prefixes |->
                         IF \E k \in old : db[r][k].prefix = p THEN NoRoute ELSE @[p]]]
  /\ timer' = [timer EXCEPT ![r].timeout = Timeout]
  /\ UNCHANGED <<started, count, wire, up, speaking, silence, faults>>

(* rip_gc_handler: entries in garbage collection are released when the     *)
(* last news is older than both periods.                                   *)
RipGc(r) ==
  /\ r \in started /\ timer[r].gc = 0
  /\ LET old == {k \in Slots : Valid(r, k) /\ db[r][k].state = "GC"
                                 /\ db[r][k].age > Timeout + Gc}
     IN  /\ db' = [db EXCEPT ![r] = [k \in Slots |->
                     IF k \in old THEN Invalid ELSE @[k]]]
         /\ count' = [count EXCEPT ![r] = @ - Cardinality(old)]
  /\ timer' = [timer EXCEPT ![r].gc = Gc]
  /\ UNCHANGED <<started, routes, wire, up, speaking, silence, faults>>

-----------------------------------------------------------------------------
(* The environment.                                                        *)

(* rip_init, and rip_enable_iface for the router's interfaces.  When RIP's *)
(* port is taken, udp_bind fails and rip_init returns before it schedules  *)
(* the timers: the router neither receives nor sends, as if not started.   *)
Start(r) ==
  /\ r \notin started
  /\ started' = started \cup {r} \/ UNCHANGED started
  /\ UNCHANGED <<tables, timer, wire, up, speaking, silence, faults>>

(* The external speaker sends response msg.                                *)
Speak(entries) ==
  wire' = IF entries # <<>> /\ Origin \in up
          THEN [wire EXCEPT ![Origin] = Append(@, [src |-> "speaker", entries |-> entries])]
          ELSE wire

(* Its periodic update.                                                    *)
SpeakerUpdate ==
  /\ silence = 0
  /\ \E s \in [1 .. Cardinality(speaking) -> speaking] :
       /\ \A p \in speaking : \E n \in DOMAIN s : s[n] = p
       /\ Speak([n \in DOMAIN s |-> [prefix |-> s[n], metric |-> 1, hop |-> "zero"]])
  /\ silence' = Update
  /\ UNCHANGED <<started, tables, timer, up, speaking, faults>>

(* It stops announcing a prefix, with or without saying so.                *)
Withdraw(p) ==
  /\ p \in speaking
  /\ speaking' = speaking \ {p}
  /\ \/ UNCHANGED wire
     \/ Speak(<<[prefix |-> p, metric |-> Infinity, hop |-> "zero"]>>)
  /\ UNCHANGED <<started, tables, timer, up, silence, faults>>

Fault == faults < MaxFaults /\ faults' = faults + 1

(* It announces a prefix again.                                            *)
Resume(p) ==
  /\ Fault /\ p \notin speaking
  /\ speaking' = speaking \cup {p}
  /\ UNCHANGED <<started, tables, timer, wire, up, silence>>

(* An update is dropped at a disabled interface.                           *)
Lose(i) ==
  /\ Fault /\ wire[i] # <<>>
  /\ wire' = [wire EXCEPT ![i] = Tail(@)]
  /\ UNCHANGED <<started, tables, timer, up, speaking, silence>>

(* interface_set_up.                                                       *)
Flap(i) ==
  /\ Fault
  /\ up' = IF i \in up THEN up \ {i} ELSE up \cup {i}
  /\ UNCHANGED <<started, tables, timer, wire, speaking, silence>>

(* Time passes when no event is due.                                       *)
Due(r) == r \in started /\ (timer[r].update = 0 \/ timer[r].timeout = 0 \/ timer[r].gc = 0)

Older(e) == IF e = Invalid THEN e ELSE [e EXCEPT !.age = @ + 1]

Tick ==
  /\ \A i \in Ifaces : wire[i] = <<>>
  /\ silence # 0 /\ \A r \in Routers : ~Due(r)
  /\ timer' = [r \in Routers |->
       IF r \in started
       THEN [update |-> timer[r].update - 1, timeout |-> timer[r].timeout - 1,
             gc |-> timer[r].gc - 1]
       ELSE timer[r]]
  /\ db' = [r \in Routers |-> [k \in Slots |-> Older(db[r][k])]]
  /\ silence' = silence - 1
  /\ UNCHANGED <<started, count, routes, wire, up, speaking, faults>>

-----------------------------------------------------------------------------

Environment ==
  \/ \E r \in Routers : Start(r)
  \/ \E p \in Prefixes : Withdraw(p) \/ Resume(p)
  \/ \E i \in Ifaces : Lose(i) \/ Flap(i)

Next ==
  \/ Environment
  \/ SpeakerUpdate
  \/ \E i \in Ifaces : Receive(i)
  \/ \E r \in Routers : RipUpdate(r) \/ RipTimeout(r) \/ RipGc(r)
  \/ Tick

(* The scheduler dispatches every event when its time has come.            *)
Fairness ==
  /\ WF_vars(Tick) /\ WF_vars(SpeakerUpdate)
  /\ \A i \in Ifaces : WF_vars(Receive(i))
  /\ \A r \in Routers : WF_vars(RipUpdate(r) \/ RipTimeout(r) \/ RipGc(r))

Spec == Init /\ [][Next]_vars /\ Fairness

-----------------------------------------------------------------------------
(* Properties.                                                             *)

(* The route table holds a route of protocol RIP exactly for the active    *)
(* entries, with their next hop, interface and metric; no prefix has two   *)
(* entries, and db_count is their number, whatever order updates, timeouts *)
(* and collections come in.                                                *)
TablesAgree ==
  \A r \in Routers :
    /\ count[r] = Cardinality({k \in Slots : Valid(r, k)})
    /\ \A k, l \in Slots :
         Valid(r, k) /\ Valid(r, l) /\ db[r][k].prefix = db[r][l].prefix => k = l
    /\ \A p \in Prefixes :
         LET active == {k \in Slots : Valid(r, k) /\ db[r][k].prefix = p
                                        /\ db[r][k].state = "ACTIVE"}
         IN  routes[r][p] # NoRoute \/ active # {} =>
               \E k \in active : routes[r][p] =
                 [hop |-> db[r][k].hop, iface |-> db[r][k].iface,
                  metric |-> db[r][k].metric]

(* Database, count and route table of a router are sound.                  *)
DatabaseInv == TypeOK /\ TablesAgree

(* No route outlives its last refresh by more than two timeout periods     *)
(* (the scan runs once a period and spares what is exactly as old), and no *)
(* entry its last news by more than those and one collection period.       *)
NothingLingers ==
  \A r \in Routers, k \in Slots : Valid(r, k) =>
    /\ db[r][k].state = "ACTIVE" => db[r][k].age <= 2 * Timeout
    /\ db[r][k].age <= 2 * Timeout + Gc

(* In a tree of routers two neighbours never route a prefix to each other: *)
(* split horizon, with updates that were sent before a change still in     *)
(* flight.                                                                 *)
NoMutualRoutes ==
  \A i \in Ifaces \ {Origin}, p \in Prefixes :
    ~ /\ routes[Node[i]][p] # NoRoute /\ routes[Node[i]][p].iface = i
      /\ routes[Node[Peer[i]]][p] # NoRoute /\ routes[Node[Peer[i]]][p].iface = Peer[i]

(* While the speaker announces its prefixes and the network is whole, each *)
(* router comes to have a stable route, of as many hops as it is away.     *)
Converges ==
  <>[](speaking = Prefixes /\ started = Routers /\ up = Ifaces) =>
    <>[](\A r \in Routers, p \in Prefixes : routes[r][p].metric = Distance[r] + 1)

(* Once nobody announces a prefix, all databases become empty.  23_rip.md  *)
(* calls garbage collection the second phase of removing a stale route.    *)
Collected ==
  <>[](speaking = {}) => <>[](\A r \in Routers, k \in Slots : ~Valid(r, k))

=============================================================================
