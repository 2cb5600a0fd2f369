------------------------------ MODULE Routing -------------------------------
(***************************************************************************)
(* The routes of one router: its RouteTable, the routing protocols that    *)
(* add, delete and flush routes in it, and the static-route configuration  *)
(* that is installed into it (src/src/routing/static_route.c).             *)
(***************************************************************************)
EXTENDS RouteTable

CONSTANTS
  StaticSize,  \* STATIC_ROUTE_MAX_ROUTES
  Dests,       \* the destinations routes are given for: pairs <<address, length>>
  Dynamic,     \* the protocols that learn routes
  Hops,        \* next hops with their egress interface
  Metrics,     \* route metrics
  MaxRoutes    \* bound: RIB entries created, the largest sequence number

ASSUME StaticAssumption  == StaticSize \in Nat \ {0}
ASSUME DestsAssumption   == Dests \subseteq Addresses \X (0 .. Width)
ASSUME DynamicAssumption == "STATIC" \notin Dynamic
ASSUME MetricAssumption  == Metrics \subseteq Nat
ASSUME RoutesAssumption  == MaxRoutes \in Nat

StaticSlots == 1 .. StaticSize

VARIABLES
  table,   \* Router.route_tbl
  statics, \* StaticRouteTable.routes
  lost     \* history: STATIC routes were flushed behind the configuration's
           \* back, and static_route_apply has not put them back yet

vars == <<table, statics, lost>>

NoStatic == [valid |-> FALSE]

StaticRoute ==
  [prefix: Addresses, len: 0 .. Width, hop: Hops, metric: Metrics, installed: BOOLEAN]

RibEntry ==
  [prefix: Addresses, len: 0 .. Width, proto: Dynamic \cup {"STATIC"}, hop: Hops,
   metric: Metrics, seq: 1 .. MaxRoutes]

TypeOK ==
  /\ table.rib \in [RibSlots -> RibEntry \cup {NoRoute}]
  /\ table.selected \subseteq RibSlots
  /\ table.next \in 1 .. MaxRoutes + 1
  /\ Len(table.fib) <= RibSize
  /\ statics \in [StaticSlots -> StaticRoute \cup {NoStatic}]
  /\ lost \in BOOLEAN

(* route_table_init in router_create, and static_route_init.               *)
Init ==
  /\ table = EmptyTable
  /\ statics = [i \in StaticSlots |-> NoStatic]
  /\ lost = FALSE

(* Bound on every action that may create a RIB entry.                      *)
MayCreate == table.next <= MaxRoutes

-----------------------------------------------------------------------------
(* router_add_route, router_del_route and route_table_flush_proto, called  *)
(* by RIP and OSPF for their own routes.                                   *)

Learn(proto, dest, hop, metric) ==
  /\ MayCreate
  /\ table' = RouteTableAdd(table, dest[1], dest[2], proto, hop, metric)
  /\ UNCHANGED <<statics, lost>>

Withdraw(proto, dest) ==
  /\ table' = RouteTableDelete(table, dest[1], dest[2], proto)
  /\ UNCHANGED <<statics, lost>>

(* The flush of STATIC is a call of the owner of the router.               *)
FlushProto(proto) ==
  /\ table' = RouteTableFlushProto(table, proto)
  /\ lost' = (lost \/ proto = "STATIC")
  /\ UNCHANGED statics

-----------------------------------------------------------------------------
(* static_route.c.                                                         *)

Configured(prefix, len) ==
  {i \in StaticSlots :
     statics[i] # NoStatic /\ statics[i].prefix = prefix /\ statics[i].len = len}

FreeStatic == {i \in StaticSlots : statics[i] = NoStatic}

Config(prefix, len, hop, metric) ==
  [prefix |-> prefix, len |-> len, hop |-> hop, metric |-> metric, installed |-> TRUE]

(* Mutant: the result of router_add_route is not looked at.                *)
StaticAddUnchecked(dest, hop, metric) ==
  LET prefix == Normalized(dest[1], dest[2])
      slots  == IF Configured(prefix, dest[2]) # {}
                THEN Configured(prefix, dest[2]) ELSE FreeStatic
  IN  /\ MayCreate
      /\ slots # {}
      /\ table' = RouteTableAdd(table, prefix, dest[2], "STATIC", hop, metric)
      /\ statics' = [statics EXCEPT ![First(slots)] = Config(prefix, dest[2], hop, metric)]
      /\ UNCHANGED lost

(* static_route_add: the record of the prefix, or else the first free one, *)
(* is written after the route went into the RIB; refused when the          *)
(* configuration or the RIB is full.                                       *)
StaticAdd(dest, hop, metric) ==
  LET prefix == Normalized(dest[1], dest[2])
      slots  == IF Configured(prefix, dest[2]) # {}
                THEN Configured(prefix, dest[2]) ELSE FreeStatic
  IN  /\ MayCreate
      /\ slots # {}
      /\ AddFits(table, prefix, dest[2], "STATIC")
      /\ table' = RouteTableAdd(table, prefix, dest[2], "STATIC", hop, metric)
      /\ statics' = [statics EXCEPT ![First(slots)] = Config(prefix, dest[2], hop, metric)]
      /\ UNCHANGED lost

(* static_route_delete: the record is cleared whether or not the route was *)
(* still in the table.                                                     *)
StaticDelete(dest) ==
  LET slots == Configured(Normalized(dest[1], dest[2]), dest[2])
      s     == statics[First(slots)]
  IN  /\ slots # {}
      /\ table' = IF s.installed THEN RouteTableDelete(table, s.prefix, s.len, "STATIC")
                  ELSE table
      /\ statics' = [statics EXCEPT ![First(slots)] = NoStatic]
      /\ UNCHANGED lost

(* One record of static_route_apply; ok turns FALSE at the first route the *)
(* RIB refuses, and the rest is left alone.                                *)
Apply(s, i) ==
  LET e    == s.statics[i]
      fits == AddFits(s.table, e.prefix, e.len, "STATIC")
  IN  CASE ~s.ok \/ e = NoStatic -> s
        [] s.ok /\ e # NoStatic ->
             [table   |-> RouteTableAdd(s.table, e.prefix, e.len, "STATIC", e.hop, e.metric),
              statics |-> [s.statics EXCEPT ![i].installed = fits],
              ok      |-> fits]

(* static_route_apply.                                                     *)
StaticApply ==
  LET scan[i \in 0 .. StaticSize] ==
        IF i = 0 THEN [table |-> table, statics |-> statics, ok |-> TRUE]
        ELSE Apply(scan[i - 1], i)
      s == scan[StaticSize]
  IN  /\ s.table.next <= MaxRoutes + 1
      /\ table' = s.table
      /\ statics' = s.statics
      /\ lost' = (lost /\ ~s.ok)

(* static_route_flush: the routes of all installed records are deleted and *)
(* every record is cleared.                                                *)
StaticFlush ==
  LET installed == {<<statics[i].prefix, statics[i].len>> :
                      i \in {j \in StaticSlots :
                               statics[j] # NoStatic /\ statics[j].installed}}
  IN  /\ table' = Rebuilt([i \in RibSlots |->
                     IF /\ table.rib[i] # NoRoute
                        /\ table.rib[i].proto = "STATIC"
                        /\ <<table.rib[i].prefix, table.rib[i].len>> \in installed
                     THEN NoRoute ELSE table.rib[i]], table.next)
      /\ statics' = [i \in StaticSlots |-> NoStatic]
      /\ UNCHANGED lost

-----------------------------------------------------------------------------

Next ==
  \/ \E proto \in Dynamic, dest \in Dests, hop \in Hops, metric \in Metrics :
       Learn(proto, dest, hop, metric)
  \/ \E proto \in Dynamic, dest \in Dests : Withdraw(proto, dest)
  \/ \E proto \in Dynamic \cup {"STATIC"} : FlushProto(proto)
  \/ \E dest \in Dests, hop \in Hops, metric \in Metrics : StaticAdd(dest, hop, metric)
  \/ \E dest \in Dests : StaticDelete(dest)
  \/ StaticApply
  \/ StaticFlush

Spec == Init /\ [][Next]_vars

-----------------------------------------------------------------------------
(* Properties.                                                             *)

Candidates == {table.rib[i] : i \in RibSlots} \ {NoRoute}

(* r is preferred to s: lower distance, then lower metric, then older.     *)
Preferred(r, s) ==
  LET rank(x) == <<AdminDistance(x.proto), x.metric, x.seq>>
  IN  \E n \in 1 .. 3 : /\ \A m \in 1 .. n - 1 : rank(r)[m] = rank(s)[m]
                        /\ rank(r)[n] < rank(s)[n]

(* The winner a lookup must find: of the candidates that match dst, the    *)
(* longest prefix, and among its candidates the preferred one.             *)
Best(dst) ==
  {r \in Candidates :
     /\ Matches(r, dst)
     /\ \A s \in Candidates \ {r} :
          Matches(s, dst) => s.len < r.len \/ (s.len = r.len /\ Preferred(r, s))}

(* route_table_lookup answers every address with the route that the whole  *)
(* RIB makes the best, also after updates in place, reused slots, flushes  *)
(* and refused additions: the incremental rebuild loses nothing.           *)
LookupIsBest ==
  \A dst \in Addresses :
    LET f == RouteTableLookup(table, dst)
    IN  IF f = NoRoute THEN \A r \in Candidates : ~Matches(r, dst)
        ELSE \E r \in Best(dst) : Selection(r, f.rib) = f /\ table.rib[f.rib] = r

(* The RIB holds one candidate per prefix, length and protocol, whatever   *)
(* host bits the callers leave in their prefixes, and sequence numbers are *)
(* not given twice.                                                        *)
UniqueKeys ==
  \A i, j \in RibSlots :
    table.rib[i] # NoRoute /\ table.rib[j] # NoRoute /\ i # j =>
      /\ ~(SamePrefix(table.rib[i], table.rib[j]) /\ table.rib[i].proto = table.rib[j].proto)
      /\ table.rib[i].seq # table.rib[j].seq

(* The selected flags are exactly the routes the FIB uses, one per prefix. *)
SelectedExact ==
  /\ table.selected = {table.fib[j].rib : j \in 1 .. Len(table.fib)}
  /\ \A i, j \in 1 .. Len(table.fib) :
       SamePrefix(table.fib[i], table.fib[j]) => i = j

(* RIB, selected flags and FIB fit together after every operation, also    *)
(* after one that was refused half-way.                                    *)
RibInv == TypeOK /\ UniqueKeys /\ SelectedExact

StaticRib == {r \in Candidates : r.proto = "STATIC"}

Mirrors(r, s) == SamePrefix(r, s) /\ r.hop = s.hop /\ r.metric = s.metric

(* Every STATIC route in the table belongs to a configured record that     *)
(* says it is installed, with the same next hop and metric: nothing is     *)
(* left behind that static_route_delete could not remove.                  *)
NoOrphanStatic ==
  \A r \in StaticRib :
    \E i \in StaticSlots :
      statics[i] # NoStatic /\ statics[i].installed /\ Mirrors(r, statics[i])

(* Every configured record has its route in the table, unless the STATIC   *)
(* routes were flushed from the table; then static_route_apply, once it    *)
(* succeeds, puts all of them back.                                        *)
StaticMirrored ==
  ~lost => \A i \in StaticSlots :
             statics[i] # NoStatic =>
               statics[i].installed /\ \E r \in StaticRib : Mirrors(r, statics[i])

(* The static configuration and the STATIC routes of the table agree, in   *)
(* both directions.                                                        *)
StaticAgrees == NoOrphanStatic /\ StaticMirrored

=============================================================================
