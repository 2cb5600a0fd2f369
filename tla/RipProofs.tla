----------------------------- MODULE RipProofs -----------------------------
(***************************************************************************)
(* Proofs about the RIP databases and the routes they install, for every   *)
(* network of routers, every size of the database and all periods in which *)
(* the collection period is no longer than the timeout.                    *)
(***************************************************************************)
EXTENDS Rip, InductionLemmas, FiniteSetTheorems

(* The first of a non-empty set of slots is one of them.                   *)
LEMMA FirstSlot ==
  ASSUME NEW S \in SUBSET Slots, S # {}
  PROVE  First(S) \in S
<1>1. S \in SUBSET Nat
  BY SizesAssumption DEF Slots
<1>2. \E x \in S : \A y \in S : x <= y
  BY <1>1, NatMin
<1> QED BY <1>2 DEF First

(* Sets of slots are finite.                                               *)
LEMMA SlotSets ==
  ASSUME NEW S \in SUBSET Slots
  PROVE  IsFiniteSet(S) /\ Cardinality(S) \in 0 .. DbSize
<1>1. IsFiniteSet(Slots) /\ Cardinality(Slots) = DbSize
  BY SizesAssumption, FS_Interval DEF Slots
<1>2. IsFiniteSet(S) /\ Cardinality(S) <= DbSize
  BY <1>1, FS_Subset
<1> QED BY <1>2, FS_CardinalityType

(* Entries and routes in use are told from unused ones by their fields.    *)
LEMMA Unused == /\ \A e \in Info : e # Invalid
                /\ \A q \in Route : q # NoRoute
<1>1. ASSUME NEW e \in Info, e = Invalid PROVE FALSE
  <2>1. DOMAIN e = {"prefix", "state", "metric", "hop", "iface", "age"}
        /\ DOMAIN Invalid = {"state"}
    BY DEF Invalid, Info
  <2> QED BY <1>1, <2>1
<1>2. ASSUME NEW q \in Route, q = NoRoute PROVE FALSE
  <2>1. DOMAIN q = {"hop", "iface", "metric"} /\ DOMAIN NoRoute = {"metric"}
    BY DEF NoRoute, Route
  <2> QED BY <1>2, <2>1
<1> QED BY <1>1, <1>2

-----------------------------------------------------------------------------
(* The tables of one router.                                               *)

Tables == [db: [Slots -> Info \cup {Invalid}], count: 0 .. DbSize,
           routes: [Prefixes -> Route \cup {NoRoute}]]

Timers == [update: 0 .. Update, timeout: 0 .. Timeout, gc: 0 .. Gc]

Used(t) == {k \in Slots : t.db[k] # Invalid}

(* The route an entry installs.                                            *)
RouteOf(e) == [hop |-> e.hop, iface |-> e.iface, metric |-> e.metric]

Active(t, p) == {k \in Used(t) : t.db[k].prefix = p /\ t.db[k].state = "ACTIVE"}

Unique(t) == \A k, l \in Used(t) : t.db[k].prefix = t.db[l].prefix => k = l

Agrees(t) == \A p \in Prefixes :
  t.routes[p] # NoRoute \/ Active(t, p) # {} =>
    \E k \in Active(t, p) : t.routes[p] = RouteOf(t.db[k])

(* What TablesAgree says of one router.                                    *)
Sound(t) == t.count = Cardinality(Used(t)) /\ Unique(t) /\ Agrees(t)

(* The time to the next scan is part of the age an entry may reach.        *)
InTime(t, tm) == \A k \in Used(t) :
  /\ t.db[k].state = "ACTIVE" => t.db[k].age + tm.timeout <= 2 * Timeout
  /\ t.db[k].age + tm.gc <= 2 * Timeout + Gc

(* All entries were learned on interfaces of V.                            *)
LearnedOn(t, V) == \A k \in Used(t) : t.db[k].iface \in V

Good(tm, V) == {t \in Tables : Sound(t) /\ InTime(t, tm) /\ LearnedOn(t, V)}

(* u is t with e put in slot k, the only one for its prefix, and with its  *)
(* route if it is active and none if it is not.                            *)
Put(t, k, e, u) ==
  /\ \A l \in Used(t) : t.db[l].prefix = e.prefix => l = k
  /\ k \in Used(t) => t.db[k].prefix = e.prefix
  /\ u.db = [t.db EXCEPT ![k] = e]
  /\ u.count = IF k \in Used(t) THEN t.count ELSE t.count + 1
  /\ u.routes = [t.routes EXCEPT ![e.prefix] =
                   IF e.state = "ACTIVE" THEN RouteOf(e) ELSE NoRoute]

(* Tables stay good when an entry newly heard of is put in its slot.       *)
LEMMA PutGood ==
  ASSUME NEW tm \in Timers, NEW V \in SUBSET Ifaces, NEW t \in Good(tm, V),
         NEW e \in Info, e.iface \in V, e.age = 0,
         NEW k \in Slots,
         NEW u \in Tables, Put(t, k, e, u)
  PROVE  u \in Good(tm, V)
<1> USE DEF Put
<1>1. t \in Tables /\ Sound(t) /\ InTime(t, tm) /\ LearnedOn(t, V)
  BY DEF Good
<1>2. e # Invalid /\ e.prefix \in Prefixes /\ RouteOf(e) # NoRoute
  <2>1. RouteOf(e) \in Route /\ e.prefix \in Prefixes
    BY DEF RouteOf, Route, Info
  <2> QED BY <2>1, Unused
<1>3. u.db[k] = e /\ \A l \in Slots : l # k => u.db[l] = t.db[l]
  BY <1>1 DEF Tables
<1>4. Used(u) = Used(t) \cup {k} /\ Used(t) \in SUBSET Slots
  BY <1>2, <1>3 DEF Used
<1>5. u.count = Cardinality(Used(u))
  <2>1. IsFiniteSet(Used(t))
    BY <1>4, SlotSets
  <2>2. Cardinality(Used(t) \cup {k})
          = IF k \in Used(t) THEN Cardinality(Used(t)) ELSE Cardinality(Used(t)) + 1
    BY <2>1, FS_AddElement
  <2>3. t.count = Cardinality(Used(t))
    BY <1>1 DEF Sound
  <2> QED BY <1>4, <2>2, <2>3
<1>6. Unique(u)
  <2> SUFFICES ASSUME NEW l \in Used(u), NEW m \in Used(u), u.db[l].prefix = u.db[m].prefix
               PROVE  l = m
    BY DEF Unique
  <2>1. l \in Slots /\ m \in Slots
    BY DEF Used
  <2>2. CASE l # k /\ m # k
    BY <1>1, <1>3, <1>4, <2>1, <2>2 DEF Sound, Unique
  <2>3. CASE l = k /\ m # k
    BY <1>3, <1>4, <2>1, <2>3
  <2>4. CASE l # k /\ m = k
    BY <1>3, <1>4, <2>1, <2>4
  <2> QED BY <2>2, <2>3, <2>4
<1>7. Agrees(u)
  <2> SUFFICES ASSUME NEW p \in Prefixes, u.routes[p] # NoRoute \/ Active(u, p) # {}
               PROVE  \E l \in Active(u, p) : u.routes[p] = RouteOf(u.db[l])
    BY DEF Agrees
  <2>1. CASE p = e.prefix
    <3>1. u.routes[p] = IF e.state = "ACTIVE" THEN RouteOf(e) ELSE NoRoute
      BY <1>1, <2>1 DEF Tables
    <3>2. \A l \in Active(u, p) : l = k
      BY <1>3, <1>4, <1>6, <2>1 DEF Active, Unique, Used
    <3>3. e.state = "ACTIVE"
      BY <1>3, <3>1, <3>2 DEF Active
    <3>4. k \in Active(u, p)
      BY <1>3, <1>4, <2>1, <3>3 DEF Active
    <3> QED BY <1>3, <3>1, <3>3, <3>4
  <2>2. CASE p # e.prefix
    <3>1. u.routes[p] = t.routes[p]
      BY <1>1, <2>2 DEF Tables
    <3>2. Active(u, p) = Active(t, p) /\ k \notin Active(u, p)
      BY <1>3, <1>4, <2>2 DEF Active, Used
    <3>3. PICK l \in Active(t, p) : t.routes[p] = RouteOf(t.db[l])
      BY <1>1, <3>1, <3>2 DEF Sound, Agrees
    <3>4. u.db[l] = t.db[l]
      BY <1>3, <3>2, <3>3 DEF Active, Used
    <3> QED BY <3>1, <3>2, <3>3, <3>4
  <2> QED BY <2>1, <2>2
<1>8. InTime(u, tm)
  <2> SUFFICES ASSUME NEW l \in Used(u)
               PROVE  /\ u.db[l].state = "ACTIVE" => u.db[l].age + tm.timeout <= 2 * Timeout
                      /\ u.db[l].age + tm.gc <= 2 * Timeout + Gc
    BY DEF InTime
  <2>1. CASE l = k
    <3>1. tm.timeout \in 0 .. Timeout /\ tm.gc \in 0 .. Gc
      BY DEF Timers
    <3> QED BY <1>3, <2>1, <3>1, SizesAssumption
  <2>2. CASE l # k
    BY <1>1, <1>3, <1>4, <2>2 DEF InTime, Used
  <2> QED BY <2>1, <2>2
<1>9. LearnedOn(u, V)
  BY <1>1, <1>3, <1>4 DEF LearnedOn, Used
<1> QED BY <1>5, <1>6, <1>7, <1>8, <1>9 DEF Good, Sound

(* The candidate metric is a metric.                                       *)
LEMMA MetricType ==
  ASSUME NEW m \in 1 .. Infinity
  PROVE  CandidateMetric(m) \in 1 .. Infinity
BY SizesAssumption DEF CandidateMetric

(* An unreachable entry keeps the tables good.                             *)
LEMMA PoisonedGood ==
  ASSUME NEW tm \in Timers, NEW V \in SUBSET Ifaces, NEW t \in Good(tm, V),
         NEW i \in V, NEW e \in Entry
  PROVE  Poisoned(t, i, e) \in Good(tm, V)
<1> DEFINE k == First(Matching(t, e.prefix))
           x == [t.db[k] EXCEPT !.state = "GC", !.metric = Infinity, !.iface = i, !.age = 0]
           u == [t EXCEPT !.db[k] = x, !.routes[e.prefix] = NoRoute]
<1>1. CASE Matching(t, e.prefix) = {}
  BY <1>1 DEF Poisoned
<1>2. CASE Matching(t, e.prefix) # {}
  <2>1. Matching(t, e.prefix) \in SUBSET Slots
    BY DEF Matching
  <2>2. k \in Matching(t, e.prefix)
    BY <1>2, <2>1, FirstSlot
  <2> HIDE DEF k
  <2>3. k \in Slots /\ t.db[k] # Invalid /\ t.db[k].prefix = e.prefix
    BY <2>2 DEF Matching
  <2>4. t \in Tables /\ Sound(t)
    BY DEF Good
  <2>5. t.db[k] \in Info
    BY <2>3, <2>4 DEF Tables
  <2>6. /\ x \in Info /\ x.prefix = e.prefix /\ x.iface = i /\ x.age = 0
        /\ x.state = "GC"
    <3>1. i \in Ifaces /\ Infinity \in 1 .. Infinity
      BY SizesAssumption
    <3> QED BY <2>3, <2>5, <3>1 DEF Info
  <2>7. Poisoned(t, i, e) = u
    BY <1>2 DEF Poisoned, k
  <2> HIDE DEF x
  <2>8. e.prefix \in Prefixes
    BY DEF Entry
  <2>9. /\ u \in Tables /\ u.db = [t.db EXCEPT ![k] = x] /\ u.count = t.count
        /\ u.routes = [t.routes EXCEPT ![e.prefix] = NoRoute]
    BY <2>3, <2>4, <2>6, <2>8 DEF Tables
  <2> HIDE DEF u
  <2>10. k \in Used(t) /\ \A l \in Used(t) : t.db[l].prefix = e.prefix => l = k
    BY <2>3, <2>4 DEF Used, Sound, Unique
  <2>11. Put(t, k, x, u)
    BY <2>3, <2>6, <2>9, <2>10 DEF Put
  <2>12. u \in Good(tm, V)
    BY <2>3, <2>6, <2>9, <2>11, PutGood
  <2> QED BY <2>7, <2>12
<1> QED BY <1>1, <1>2

(* A reachable entry keeps the tables good, in a slot of its own, in a new *)
(* one or in none.                                                         *)
LEMMA LearnedGood ==
  ASSUME NEW tm \in Timers, NEW V \in SUBSET Ifaces, NEW t \in Good(tm, V),
         NEW i \in V, NEW src \in Hops, NEW e \in Entry
  PROVE  Learned(t, i, src, e) \in Good(tm, V)
<1> DEFINE match == Matching(t, e.prefix)
           free  == {k \in Slots : t.db[k] = Invalid}
           k     == First(IF match # {} THEN match ELSE free)
           hop   == IF e.hop = "zero" THEN src ELSE e.hop
           m     == CandidateMetric(e.metric)
           x     == [prefix |-> e.prefix, state |-> "ACTIVE", metric |-> m,
                     hop |-> hop, iface |-> i, age |-> 0]
           u     == [db     |-> [t.db EXCEPT ![k] = x],
                     count  |-> IF match = {} THEN t.count + 1 ELSE t.count,
                     routes |-> [t.routes EXCEPT ![e.prefix] =
                                   [hop |-> hop, iface |-> i, metric |-> m]]]
<1>1. CASE match = {} /\ free = {}
  BY <1>1 DEF Learned
<1>2. CASE ~(match = {} /\ free = {})
  <2>1. Learned(t, i, src, e) = u
    BY <1>2 DEF Learned
  <2>2. match \in SUBSET Slots /\ free \in SUBSET Slots
    BY DEF Matching
  <2>3. k \in IF match # {} THEN match ELSE free
    BY <1>2, <2>2, FirstSlot
  <2> HIDE DEF k
  <2>4. t \in Tables /\ Sound(t)
    BY DEF Good
  <2>5. k \in Slots /\ (k \in Used(t) <=> match # {})
    BY <2>3 DEF Used, Matching
  <2>6. /\ k \in Used(t) => t.db[k].prefix = e.prefix
        /\ \A l \in Used(t) : t.db[l].prefix = e.prefix => l = k
    BY <2>3, <2>4, <2>5 DEF Used, Matching, Sound, Unique
  <2>7. e.prefix \in Prefixes /\ m \in 1 .. Infinity /\ hop \in Hops /\ i \in Ifaces
    BY MetricType DEF Entry
  <2> HIDE DEF m, hop
  <2>8. /\ x \in Info /\ x.prefix = e.prefix /\ x.iface = i /\ x.age = 0
        /\ x.state = "ACTIVE" /\ [hop |-> hop, iface |-> i, metric |-> m] = RouteOf(x)
        /\ RouteOf(x) \in Route
    BY <2>7 DEF Info, RouteOf, Route
  <2> HIDE DEF x
  <2>9. u.count \in 0 .. DbSize
    <3>1. t.count = Cardinality(Used(t)) /\ Used(t) \in SUBSET Slots /\ t.count \in 0 .. DbSize
      BY <2>4 DEF Sound, Used, Tables
    <3>2. CASE match = {}
      <4>1. k \notin Used(t) /\ Used(t) \cup {k} \in SUBSET Slots
        BY <2>5, <3>1, <3>2
      <4>2. Cardinality(Used(t) \cup {k}) = Cardinality(Used(t)) + 1
        BY <3>1, <4>1, SlotSets, FS_AddElement
      <4>3. Cardinality(Used(t) \cup {k}) \in 0 .. DbSize
        BY <4>1, SlotSets
      <4> QED BY <3>1, <3>2, <4>2, <4>3
    <3> QED BY <3>1, <3>2
  <2>10. /\ u.db = [t.db EXCEPT ![k] = x]
         /\ u.routes = [t.routes EXCEPT ![e.prefix] = RouteOf(x)]
         /\ u.count = IF k \in Used(t) THEN t.count ELSE t.count + 1
    BY <2>5, <2>8
  <2>11. u \in Tables
    <3>1. u.db \in [Slots -> Info \cup {Invalid}]
      BY <2>4, <2>5, <2>8 DEF Tables
    <3>2. u.routes \in [Prefixes -> Route \cup {NoRoute}]
      BY <2>4, <2>7, <2>8 DEF Tables
    <3> QED BY <2>9, <3>1, <3>2 DEF Tables
  <2> HIDE DEF u
  <2>12. Put(t, k, x, u)
    BY <2>6, <2>8, <2>10 DEF Put
  <2>13. u \in Good(tm, V)
    BY <2>5, <2>8, <2>11, <2>12, PutGood
  <2> QED BY <2>1, <2>13
<1> QED BY <1>1, <1>2

(* The loop of rip_receive keeps the tables good, whatever it is given.    *)
LEMMA MergedGood ==
  ASSUME NEW tm \in Timers, NEW V \in SUBSET Ifaces, NEW t \in Good(tm, V),
         NEW i \in V, NEW msg \in Response
  PROVE  Merged(t, i, msg) \in Good(tm, V)
<1> DEFINE S == Good(tm, V)
           L == Len(msg.entries)
           turn(u, e) == IF CandidateMetric(e.metric) = Infinity THEN Poisoned(u, i, e)
                         ELSE Learned(u, i, msg.src, e)
           g == [x \in (1 .. L) \X S |-> turn(x[2], msg.entries[x[1]])]
           Scan(f) == f = [n \in 0 .. L |->
                             IF n = 0 THEN t ELSE turn(f[n - 1], msg.entries[n])]
<1>1. msg.entries \in Seq(Entry) /\ msg.src \in Hops /\ L \in Nat
  BY DEF Response
<1>2. ASSUME NEW u \in S, NEW n \in 1 .. L
      PROVE  turn(u, msg.entries[n]) \in S
  <2>1. msg.entries[n] \in Entry
    BY <1>1
  <2> QED BY <1>1, <2>1, PoisonedGood, LearnedGood
<1>3. \A x \in (1 .. L) \X S : turn(x[2], msg.entries[x[1]]) \in S
  BY <1>2
<1>4. g \in Turns(L, S) /\ t \in S
  BY <1>3 DEF Turns
<1> HIDE DEF S, L, turn, g
<1>5. PICK f : LoopOf(L, S, t, g, f)
  BY <1>1, <1>4, LoopExists, Zenon
<1>6. \A n \in 1 .. L : f[n] = turn(f[n - 1], msg.entries[n])
  <2> SUFFICES ASSUME NEW n \in 1 .. L PROVE f[n] = turn(f[n - 1], msg.entries[n])
    OBVIOUS
  <2>1. n - 1 \in 0 .. L
    BY <1>1
  <2>2. <<n, f[n - 1]>> \in (1 .. L) \X S
    BY <1>5, <2>1 DEF LoopOf
  <2> QED BY <1>5, <2>2 DEF LoopOf, g
<1>7. Scan(f)
  BY <1>1, <1>5, <1>6 DEF LoopOf
<1>8. Merged(t, i, msg) = (CHOOSE h : Scan(h))[L]
  BY DEF Merged, turn, L
<1> DEFINE h == CHOOSE h : Scan(h)
<1>9. Scan(h)
  BY <1>7, Zenon
<1> HIDE DEF h
<1>10. h[0] \in S /\ \A n \in 1 .. L : h[n - 1] \in S => h[n] \in S
  <2>1. h[0] = t /\ \A n \in 1 .. L : h[n] = turn(h[n - 1], msg.entries[n])
    BY <1>1, <1>9
  <2> QED BY <1>2, <2>1 DEF S
<1>11. \A n \in 0 .. L : h[n] \in S
  BY <1>1, <1>10, LoopInvariant
<1>12. h[L] \in S
  BY <1>1, <1>11
<1> QED BY <1>8, <1>12 DEF h, S

(* The tables after the timeout scan, the collection and a step of time.   *)
TimedOut(t, old) ==
  [db     |-> [k \in Slots |->
                 IF k \in old THEN [t.db[k] EXCEPT !.metric = Infinity, !.state = "GC"]
                 ELSE t.db[k]],
   count  |-> t.count,
   routes |-> [p \in Prefixes |->
                 IF \E k \in old : t.db[k].prefix = p THEN NoRoute ELSE t.routes[p]]]

Released(t, old) ==
  [db     |-> [k \in Slots |-> IF k \in old THEN Invalid ELSE t.db[k]],
   count  |-> t.count - Cardinality(old),
   routes |-> t.routes]

Aged(t) ==
  [db |-> [k \in Slots |-> Older(t.db[k])], count |-> t.count, routes |-> t.routes]

ExpiredSlots(t) ==
  {k \in Slots : t.db[k] # Invalid /\ t.db[k].state = "ACTIVE" /\ Expired(t.db[k])}

StaleSlots(t) ==
  {k \in Slots : t.db[k] # Invalid /\ t.db[k].state = "GC" /\ t.db[k].age > Timeout + Gc}

(* The timeout scan, which leaves no active entry older than the timeout.  *)
LEMMA TimeoutGood ==
  ASSUME NEW tm \in Timers, NEW V \in SUBSET Ifaces, NEW t \in Good(tm, V)
  PROVE  TimedOut(t, ExpiredSlots(t)) \in Good([tm EXCEPT !.timeout = Timeout], V)
<1> DEFINE old == ExpiredSlots(t)
           u   == TimedOut(t, old)
<1> HIDE DEF old, u
<1>1. t \in Tables /\ Sound(t) /\ InTime(t, tm) /\ LearnedOn(t, V)
  BY DEF Good
<1>2. old \in SUBSET Used(t) /\ Used(t) \in SUBSET Slots
  BY DEF Used, old, ExpiredSlots
<1>3. \A k \in Used(t) : t.db[k] \in Info
  BY <1>1 DEF Tables, Used
<1>4. ASSUME NEW k \in Used(t)
      PROVE  /\ u.db[k] \in Info
             /\ u.db[k].prefix = t.db[k].prefix /\ u.db[k].iface = t.db[k].iface
             /\ u.db[k].age = t.db[k].age
             /\ k \in old => u.db[k].state = "GC"
             /\ k \notin old => u.db[k] = t.db[k]
  <2>1. Infinity \in 1 .. Infinity /\ k \in Slots /\ t.db[k] \in Info
    BY <1>2, <1>3, SizesAssumption
  <2>2. u.db[k] = IF k \in old THEN [t.db[k] EXCEPT !.metric = Infinity, !.state = "GC"]
                  ELSE t.db[k]
    BY <2>1 DEF u, TimedOut
  <2> QED BY <2>1, <2>2 DEF Info
<1>5. \A k \in Slots \ Used(t) : u.db[k] = Invalid
  BY <1>2 DEF Used, u, TimedOut
<1>6. Used(u) = Used(t)
  BY <1>2, <1>4, <1>5, Unused DEF Used
<1>7. u \in Tables
  <2>1. \A k \in Slots : u.db[k] \in Info \cup {Invalid}
    BY <1>4, <1>5
  <2>2. u.db \in [Slots -> Info \cup {Invalid}]
    BY <2>1 DEF u, TimedOut
  <2>3. u.routes \in [Prefixes -> Route \cup {NoRoute}]
    BY <1>1 DEF Tables, u, TimedOut
  <2> QED BY <1>1, <2>2, <2>3 DEF Tables, u, TimedOut
<1>8. Unique(u)
  BY <1>1, <1>4, <1>6 DEF Unique, Sound
<1>9. \A p \in Prefixes : Active(u, p) = Active(t, p) \ old
  BY <1>4, <1>6 DEF Active
<1>10. Agrees(u)
  <2> SUFFICES ASSUME NEW p \in Prefixes, u.routes[p] # NoRoute \/ Active(u, p) # {}
               PROVE  \E l \in Active(u, p) : u.routes[p] = RouteOf(u.db[l])
    BY DEF Agrees
  <2>1. u.routes[p] = IF \E k \in old : t.db[k].prefix = p THEN NoRoute ELSE t.routes[p]
    BY DEF u, TimedOut
  <2>2. CASE \E k \in old : t.db[k].prefix = p
    <3>1. Active(u, p) = {}
      BY <1>1, <1>2, <1>9, <2>2 DEF Active, Sound, Unique
    <3> QED BY <2>1, <2>2, <3>1
  <2>3. CASE ~ \E k \in old : t.db[k].prefix = p
    <3>1. Active(u, p) = Active(t, p)
      BY <1>9, <2>3 DEF Active
    <3>2. PICK l \in Active(t, p) : t.routes[p] = RouteOf(t.db[l])
      BY <1>1, <2>1, <2>3, <3>1 DEF Sound, Agrees
    <3>3. u.db[l] = t.db[l]
      BY <1>4, <1>9, <3>1, <3>2 DEF Active
    <3> QED BY <2>1, <2>3, <3>1, <3>2, <3>3
  <2> QED BY <2>2, <2>3
<1>11. InTime(u, [tm EXCEPT !.timeout = Timeout])
  <2> DEFINE tn == [tm EXCEPT !.timeout = Timeout]
  <2>1. tn.timeout = Timeout /\ tn.gc = tm.gc
    BY DEF Timers
  <2> HIDE DEF tn
  <2> SUFFICES ASSUME NEW k \in Used(t)
               PROVE  /\ u.db[k].state = "ACTIVE" => u.db[k].age + tn.timeout <= 2 * Timeout
                      /\ u.db[k].age + tn.gc <= 2 * Timeout + Gc
    BY <1>6 DEF InTime, tn
  <2>2. t.db[k].age \in Nat /\ k \in Slots /\ u.db[k].age = t.db[k].age
    BY <1>2, <1>3, <1>4 DEF Info
  <2>3. u.db[k].age + tn.gc <= 2 * Timeout + Gc
    BY <1>1, <2>1, <2>2 DEF InTime
  <2>4. ASSUME u.db[k].state = "ACTIVE" PROVE u.db[k].age + tn.timeout <= 2 * Timeout
    <3>1. k \notin old /\ t.db[k].state = "ACTIVE" /\ t.db[k] # Invalid
      BY <1>4, <2>4 DEF Used
    <3>2. t.db[k].age <= Timeout
      BY <2>2, <3>1, SizesAssumption DEF Expired, old, ExpiredSlots
    <3> QED BY <2>1, <2>2, <3>2, SizesAssumption
  <2> QED BY <2>3, <2>4
<1>12. LearnedOn(u, V)
  BY <1>1, <1>4, <1>6 DEF LearnedOn
<1>13. u.count = Cardinality(Used(u))
  BY <1>1, <1>6 DEF Sound, u, TimedOut
<1> QED BY <1>7, <1>8, <1>10, <1>11, <1>12, <1>13 DEF Good, Sound, u, old

(* The collection, which takes no active entry and leaves none that is     *)
(* older than both periods.                                                *)
LEMMA GcGood ==
  ASSUME NEW tm \in Timers, NEW V \in SUBSET Ifaces, NEW t \in Good(tm, V)
  PROVE  Released(t, StaleSlots(t)) \in Good([tm EXCEPT !.gc = Gc], V)
<1> DEFINE old == StaleSlots(t)
           u   == Released(t, old)
<1> HIDE DEF old, u
<1>1. t \in Tables /\ Sound(t) /\ InTime(t, tm) /\ LearnedOn(t, V)
  BY DEF Good
<1>2. old \in SUBSET Used(t) /\ Used(t) \in SUBSET Slots
  BY DEF Used, old, StaleSlots
<1>3. Used(u) = Used(t) \ old /\ \A k \in Used(u) : u.db[k] = t.db[k]
  BY <1>2 DEF Used, u, Released
<1>4. u.count = Cardinality(Used(u)) /\ u.count \in 0 .. DbSize
  <2>1. IsFiniteSet(Used(t)) /\ Used(t) \cap old = old /\ Used(u) \in SUBSET Slots
    BY <1>2, <1>3, SlotSets
  <2>2. Cardinality(Used(t) \ old) = Cardinality(Used(t)) - Cardinality(old)
    <3>1. \A S : IsFiniteSet(S) => Cardinality(S \ old) = Cardinality(S) - Cardinality(S \cap old)
      BY FS_Difference
    <3> QED BY <2>1, <3>1
  <2>3. t.count = Cardinality(Used(t)) /\ u.count = t.count - Cardinality(old)
    BY <1>1 DEF Sound, u, Released
  <2>4. u.count = Cardinality(Used(u))
    BY <1>3, <2>2, <2>3
  <2> QED BY <2>1, <2>4, SlotSets
<1>5. u \in Tables
  <2>1. u.db \in [Slots -> Info \cup {Invalid}]
    BY <1>1 DEF Tables, u, Released
  <2> QED BY <1>1, <1>4, <2>1 DEF Tables, u, Released
<1>6. Unique(u)
  BY <1>1, <1>3 DEF Unique, Sound
<1>7. \A p \in Prefixes : Active(u, p) = Active(t, p)
  BY <1>2, <1>3 DEF Active, old, StaleSlots
<1>8. Agrees(u)
  <2> SUFFICES ASSUME NEW p \in Prefixes, u.routes[p] # NoRoute \/ Active(u, p) # {}
               PROVE  \E l \in Active(u, p) : u.routes[p] = RouteOf(u.db[l])
    BY DEF Agrees
  <2>1. u.routes[p] = t.routes[p] /\ Active(u, p) = Active(t, p)
    BY <1>7 DEF u, Released
  <2>2. PICK l \in Active(t, p) : t.routes[p] = RouteOf(t.db[l])
    BY <1>1, <2>1 DEF Sound, Agrees
  <2>3. u.db[l] = t.db[l]
    BY <1>3, <2>1, <2>2 DEF Active
  <2> QED BY <2>1, <2>2, <2>3
<1>9. InTime(u, [tm EXCEPT !.gc = Gc])
  <2> DEFINE tn == [tm EXCEPT !.gc = Gc]
  <2>1. tn.gc = Gc /\ tn.timeout = tm.timeout /\ tm.timeout \in 0 .. Timeout
    BY DEF Timers
  <2> HIDE DEF tn
  <2> SUFFICES ASSUME NEW k \in Used(u)
               PROVE  /\ u.db[k].state = "ACTIVE" => u.db[k].age + tn.timeout <= 2 * Timeout
                      /\ u.db[k].age + tn.gc <= 2 * Timeout + Gc
    BY DEF InTime, tn
  <2>2. /\ k \in Used(t) /\ k \notin old /\ k \in Slots /\ u.db[k] = t.db[k]
        /\ t.db[k] # Invalid
    BY <1>2, <1>3 DEF Used
  <2>3. t.db[k] \in Info /\ t.db[k].age \in Nat /\ t.db[k].state \in {"ACTIVE", "GC"}
    BY <1>1, <2>2 DEF Tables, Info
  <2>4. t.db[k].state = "ACTIVE" => t.db[k].age + tm.timeout <= 2 * Timeout
    BY <1>1, <2>2 DEF InTime
  <2>5. CASE t.db[k].state = "ACTIVE"
    BY <2>1, <2>2, <2>3, <2>4, <2>5, SizesAssumption
  <2>6. CASE t.db[k].state = "GC"
    <3>1. t.db[k].age <= Timeout + Gc
      BY <2>2, <2>3, <2>6, SizesAssumption DEF old, StaleSlots
    <3> QED BY <2>1, <2>2, <2>3, <2>6, <3>1, SizesAssumption
  <2> QED BY <2>3, <2>5, <2>6
<1>10. LearnedOn(u, V)
  BY <1>1, <1>3 DEF LearnedOn
<1> QED BY <1>4, <1>5, <1>6, <1>8, <1>9, <1>10 DEF Good, Sound, u, old

(* A step of time brings entries nearer to their scans.                    *)
LEMMA OlderGood ==
  ASSUME NEW tm \in Timers, NEW V \in SUBSET Ifaces, NEW t \in Good(tm, V),
         NEW tn, tn.timeout = tm.timeout - 1, tn.gc = tm.gc - 1
  PROVE  Aged(t) \in Good(tn, V)
<1> DEFINE u == Aged(t)
<1> HIDE DEF u
<1>1. t \in Tables /\ Sound(t) /\ InTime(t, tm) /\ LearnedOn(t, V)
  BY DEF Good
<1>2. Used(t) \in SUBSET Slots /\ \A k \in Used(t) : t.db[k] \in Info
  BY <1>1 DEF Used, Tables
<1>3. ASSUME NEW k \in Used(t)
      PROVE  /\ u.db[k] \in Info /\ u.db[k].age = t.db[k].age + 1 /\ t.db[k].age \in Nat
             /\ u.db[k].prefix = t.db[k].prefix /\ u.db[k].state = t.db[k].state
             /\ u.db[k].hop = t.db[k].hop /\ u.db[k].iface = t.db[k].iface
             /\ u.db[k].metric = t.db[k].metric
  <2>1. k \in Slots /\ t.db[k] \in Info /\ t.db[k] # Invalid
    BY <1>2 DEF Used
  <2>2. u.db[k] = [t.db[k] EXCEPT !.age = t.db[k].age + 1]
    BY <2>1 DEF Older, u, Aged
  <2> QED BY <2>1, <2>2 DEF Info
<1>4. \A k \in Slots \ Used(t) : u.db[k] = Invalid
  BY DEF Used, Older, u, Aged
<1>5. Used(u) = Used(t)
  BY <1>2, <1>3, <1>4, Unused DEF Used
<1>6. u \in Tables
  <2>1. \A k \in Slots : u.db[k] \in Info \cup {Invalid}
    BY <1>3, <1>4
  <2>2. u.db \in [Slots -> Info \cup {Invalid}]
    BY <2>1 DEF u, Aged
  <2> QED BY <1>1, <2>2 DEF Tables, u, Aged
<1>7. Unique(u)
  BY <1>1, <1>3, <1>5 DEF Unique, Sound
<1>8. \A p \in Prefixes : Active(u, p) = Active(t, p)
  BY <1>3, <1>5 DEF Active
<1>9. Agrees(u)
  <2> SUFFICES ASSUME NEW p \in Prefixes, u.routes[p] # NoRoute \/ Active(u, p) # {}
               PROVE  \E l \in Active(u, p) : u.routes[p] = RouteOf(u.db[l])
    BY DEF Agrees
  <2>1. u.routes[p] = t.routes[p] /\ Active(u, p) = Active(t, p)
    BY <1>8 DEF u, Aged
  <2>2. PICK l \in Active(t, p) : t.routes[p] = RouteOf(t.db[l])
    BY <1>1, <2>1 DEF Sound, Agrees
  <2>3. RouteOf(u.db[l]) = RouteOf(t.db[l])
    BY <1>3, <2>2 DEF Active, RouteOf
  <2> QED BY <2>1, <2>2, <2>3
<1>10. InTime(u, tn)
  <2> SUFFICES ASSUME NEW k \in Used(t)
               PROVE  /\ u.db[k].state = "ACTIVE" => u.db[k].age + tn.timeout <= 2 * Timeout
                      /\ u.db[k].age + tn.gc <= 2 * Timeout + Gc
    BY <1>5 DEF InTime
  <2>1. tm.timeout \in Nat /\ tm.gc \in Nat
    BY SizesAssumption DEF Timers
  <2> QED BY <1>1, <1>3, <2>1, SizesAssumption DEF InTime
<1>11. LearnedOn(u, V)
  BY <1>1, <1>3, <1>5 DEF LearnedOn
<1>12. u.count = Cardinality(Used(u))
  BY <1>1, <1>5 DEF Sound, u, Aged
<1> QED BY <1>6, <1>7, <1>9, <1>10, <1>11, <1>12 DEF Good, Sound, u

-----------------------------------------------------------------------------
(* Responses.                                                              *)

(* The entries taken from slots in use are entries of a response, and from *)
(* no slots come none.                                                     *)
LEMMA EntriesType ==
  ASSUME TypeOK, NEW r \in Routers, NEW T \in SUBSET {k \in Slots : Valid(r, k)}
  PROVE  EntriesOf(r, T) \in Seq(Entry) /\ (T = {} => EntriesOf(r, T) = <<>>)
<1> DEFINE S == IF T = {} THEN {<<>>} ELSE Seq(Entry)
           e(n) == [prefix |-> db[r][n].prefix, metric |-> db[r][n].metric,
                    hop |-> db[r][n].hop]
           turn(u, n) == IF n \in T THEN Append(u, e(n)) ELSE u
           g == [x \in (1 .. DbSize) \X S |-> turn(x[2], x[1])]
           Scan(f) == f = [n \in 0 .. DbSize |-> IF n = 0 THEN <<>> ELSE turn(f[n - 1], n)]
<1>1. DbSize \in Nat /\ <<>> \in S
  BY SizesAssumption
<1>2. ASSUME NEW u \in S, NEW n \in 1 .. DbSize
      PROVE  turn(u, n) \in S
  <2>1. CASE n \in T
    <3>1. db[r][n] \in Info
      <4>1. n \in Slots /\ db[r][n] # Invalid
        BY <2>1 DEF Valid
      <4>2. db[r] \in [Slots -> Info \cup {Invalid}]
        BY DEF TypeOK
      <4> QED BY <4>1, <4>2
    <3>2. e(n) \in Entry
      BY <3>1 DEF Info, Entry
    <3> HIDE DEF e
    <3> QED BY <2>1, <3>2
  <2>2. CASE n \notin T
    BY <2>2
  <2> QED BY <2>1, <2>2
<1> HIDE DEF S, turn
<1>3. g \in Turns(DbSize, S)
  BY <1>2 DEF Turns
<1>4. EntriesOf(r, T) = (CHOOSE f : Scan(f))[DbSize]
  BY DEF EntriesOf, turn
<1> HIDE DEF g
<1>5. PICK f : LoopOf(DbSize, S, <<>>, g, f)
  BY <1>1, <1>3, LoopExists, Zenon
<1>6. \A n \in 1 .. DbSize : f[n] = turn(f[n - 1], n)
  <2> SUFFICES ASSUME NEW n \in 1 .. DbSize PROVE f[n] = turn(f[n - 1], n)
    OBVIOUS
  <2>1. n - 1 \in 0 .. DbSize
    BY <1>1
  <2>2. <<n, f[n - 1]>> \in (1 .. DbSize) \X S
    BY <1>5, <2>1 DEF LoopOf
  <2> QED BY <1>5, <2>2 DEF LoopOf, g
<1>7. Scan(f)
  BY <1>1, <1>5, <1>6 DEF LoopOf
<1> DEFINE h == CHOOSE f1 : Scan(f1)
<1>8. Scan(h)
  BY <1>7, Zenon
<1> HIDE DEF h
<1>9. h[0] \in S /\ \A n \in 1 .. DbSize : h[n - 1] \in S => h[n] \in S
  <2>1. h[0] = <<>> /\ \A n \in 1 .. DbSize : h[n] = turn(h[n - 1], n)
    BY <1>1, <1>8
  <2> QED BY <1>1, <1>2, <2>1
<1>10. h[DbSize] \in S
  BY <1>1, <1>9, LoopInvariant
<1>11. EntriesOf(r, T) \in S
  BY <1>4, <1>10, Zenon DEF h
<1>12. <<>> \in Seq(Entry)
  OBVIOUS
<1> QED BY <1>11, <1>12, Zenon DEF S

-----------------------------------------------------------------------------
(* The inductive invariant.  V gives the interfaces on which a router may  *)
(* come to learn routes.                                                   *)

(* Nothing is learned at interfaces other than those of V: the peer of any *)
(* other one hears news on one interface only, and does not return them.   *)
Closed(V) ==
  /\ V \in [Routers -> SUBSET Ifaces] /\ Origin \in V[Node[Origin]]
  /\ \A i \in Ifaces \ {Origin} : i \in V[Node[i]] \/ V[Node[Peer[i]]] \subseteq {Peer[i]}

AllGood(V) == \A r \in Routers : TablesOf(r) \in Good(timer[r], V[r])

(* A router that does not run RIP has learned nothing.                     *)
IdleEmpty == \A r \in Routers \ started, k \in Slots : db[r][k] = Invalid

(* Updates are in flight only to where something may be learned.           *)
WiresOn(V) == \A i \in Ifaces : wire[i] # <<>> => i \in V[Node[i]]

Inv(V) == TypeOK /\ AllGood(V) /\ IdleEmpty /\ WiresOn(V)

(* The tables of a router are typed in a sound state.                      *)
LEMMA TablesType ==
  ASSUME NEW V, Inv(V), NEW r \in Routers
  PROVE  /\ TablesOf(r) \in Tables /\ TablesOf(r) \in Good(timer[r], V[r])
         /\ timer[r] \in Timers
BY DEF Inv, TypeOK, AllGood, Good, Timers

(* Good tables for every router are typed ones.                            *)
LEMMA GoodTyped ==
  ASSUME NEW d, NEW c, NEW q, d = [r \in Routers |-> d[r]], c = [r \in Routers |-> c[r]],
         q = [r \in Routers |-> q[r]],
         \A r \in Routers : [db |-> d[r], count |-> c[r], routes |-> q[r]] \in Tables
  PROVE  /\ d \in [Routers -> [Slots -> Info \cup {Invalid}]]
         /\ c \in [Routers -> 0 .. DbSize]
         /\ q \in [Routers -> [Prefixes -> Route \cup {NoRoute}]]
<1>1. \A r \in Routers : /\ d[r] \in [Slots -> Info \cup {Invalid}]
                         /\ c[r] \in 0 .. DbSize
                         /\ q[r] \in [Prefixes -> Route \cup {NoRoute}]
  BY DEF Tables
<1> QED BY <1>1

(* What leaves all tables and timers alone keeps them good.                *)
LEMMA TablesKept ==
  ASSUME NEW V, Inv(V), UNCHANGED <<tables, timer>>, started \subseteq started'
  PROVE  /\ AllGood(V)' /\ IdleEmpty'
         /\ db' \in [Routers -> [Slots -> Info \cup {Invalid}]]
         /\ count' \in [Routers -> 0 .. DbSize]
         /\ routes' \in [Routers -> [Prefixes -> Route \cup {NoRoute}]]
         /\ timer' \in [Routers -> Timers]
BY DEF Inv, TypeOK, AllGood, IdleEmpty, TablesOf, tables, Timers

(* Taking an update off a wire.                                            *)
LEMMA TailKept ==
  ASSUME NEW V, Inv(V), NEW i \in Ifaces, wire[i] # <<>>,
         wire' = [wire EXCEPT ![i] = Tail(@)]
  PROVE  /\ wire' \in [Ifaces -> Seq(Response)] /\ WiresOn(V)'
         /\ Head(wire[i]) \in Response /\ i \in V[Node[i]]
<1>1. wire \in [Ifaces -> Seq(Response)] /\ WiresOn(V)
  BY DEF Inv, TypeOK
<1>2. Head(wire[i]) \in Response /\ Tail(wire[i]) \in Seq(Response)
  BY <1>1
<1>3. wire' \in [Ifaces -> Seq(Response)]
  BY <1>1, <1>2
<1>4. \A j \in Ifaces : j # i => wire'[j] = wire[j]
  BY <1>1
<1> QED BY <1>1, <1>2, <1>3, <1>4 DEF WiresOn

-----------------------------------------------------------------------------
(* The steps.                                                              *)

(* rip_receive.                                                            *)
LEMMA ReceiveKeeps ==
  ASSUME NEW V, Closed(V), Inv(V), NEW i \in Ifaces, Receive(i)
  PROVE  Inv(V)'
<1> DEFINE r == Node[i]
           t == Merged(TablesOf(r), i, Head(wire[i]))
<1>1. /\ wire[i] # <<>> /\ wire' = [wire EXCEPT ![i] = Tail(@)]
      /\ UNCHANGED <<started, timer, up, speaking, silence, faults>>
      /\ IF r \in started THEN SetTables(r, t) ELSE UNCHANGED tables
  BY DEF Receive
<1>2. /\ wire' \in [Ifaces -> Seq(Response)] /\ WiresOn(V)'
      /\ Head(wire[i]) \in Response /\ i \in V[r]
  BY <1>1, TailKept
<1>3. r \in Routers /\ V[r] \in SUBSET Ifaces
  BY TopologyAssumption DEF Closed
<1>4. /\ TypeOK /\ AllGood(V) /\ IdleEmpty
  BY DEF Inv
<1>5. /\ AllGood(V)' /\ IdleEmpty'
      /\ db' \in [Routers -> [Slots -> Info \cup {Invalid}]]
      /\ count' \in [Routers -> 0 .. DbSize]
      /\ routes' \in [Routers -> [Prefixes -> Route \cup {NoRoute}]]
  <2>1. CASE r \notin started
    BY <1>1, <2>1, TablesKept
  <2>2. CASE r \in started
    <3>1. t \in Good(timer[r], V[r])
      BY <1>2, <1>3, TablesType, MergedGood
    <3> HIDE DEF t, r
    <3>2. SetTables(r, t) /\ timer' = timer /\ started' = started
      BY <1>1, <2>2
    <3>3. TablesOf(r)' = t /\ \A q \in Routers : q # r => TablesOf(q)' = TablesOf(q)
      <4>1. t \in Tables
        BY <3>1 DEF Good
      <4>2. t = [db |-> t.db, count |-> t.count, routes |-> t.routes]
        BY <4>1 DEF Tables
      <4>3. db'[r] = t.db /\ count'[r] = t.count /\ routes'[r] = t.routes
        BY <1>3, <1>4, <3>2 DEF SetTables, TypeOK
      <4> QED BY <1>4, <3>2, <4>2, <4>3 DEF TablesOf, SetTables, TypeOK
    <3>4. AllGood(V)'
      BY <1>4, <3>1, <3>2, <3>3 DEF AllGood
    <3>5. IdleEmpty'
      BY <1>4, <2>2, <3>2 DEF IdleEmpty, SetTables, TypeOK
    <3>6. /\ db' = [q \in Routers |-> db'[q]] /\ count' = [q \in Routers |-> count'[q]]
          /\ routes' = [q \in Routers |-> routes'[q]]
      BY <1>4, <3>2 DEF SetTables, TypeOK
    <3>7. \A q \in Routers :
            [db |-> db'[q], count |-> count'[q], routes |-> routes'[q]] \in Tables
      BY <3>4 DEF AllGood, Good, TablesOf
    <3>8. /\ db' \in [Routers -> [Slots -> Info \cup {Invalid}]]
          /\ count' \in [Routers -> 0 .. DbSize]
          /\ routes' \in [Routers -> [Prefixes -> Route \cup {NoRoute}]]
      BY <3>6, <3>7, GoodTyped
    <3> QED BY <3>4, <3>5, <3>8
  <2> QED BY <2>1, <2>2
<1>6. TypeOK'
  BY <1>1, <1>2, <1>4, <1>5 DEF TypeOK
<1> QED BY <1>2, <1>5, <1>6 DEF Inv

(* rip_update_handler: split horizon keeps news from where they came.      *)
LEMMA UpdateKeeps ==
  ASSUME NEW V, Closed(V), Inv(V), NEW r \in Routers, RipUpdate(r)
  PROVE  Inv(V)'
<1> DEFINE sent(i) == Node[i] = r /\ Peer[i] # i /\ {i, Peer[i]} \subseteq up
                        /\ Announced(r, i) # <<>>
           msg(i)  == [src |-> Peer[i], entries |-> Announced(r, Peer[i])]
<1>1. /\ wire' = [i \in Ifaces |-> IF sent(Peer[i]) THEN Append(wire[i], msg(i)) ELSE wire[i]]
      /\ timer' = [timer EXCEPT ![r].update = Update]
      /\ UNCHANGED <<started, tables, up, speaking, silence, faults>>
  BY DEF RipUpdate
<1>2. TypeOK /\ AllGood(V) /\ IdleEmpty /\ WiresOn(V)
  BY DEF Inv
<1>3. ASSUME NEW i \in Ifaces
      PROVE  Announced(r, i) \in Seq(Entry) /\ (V[r] \subseteq {i} => Announced(r, i) = <<>>)
  <2> DEFINE T == {k \in Slots : Valid(r, k) /\ db[r][k].iface # i}
  <2>1. T \in SUBSET {k \in Slots : Valid(r, k)}
    OBVIOUS
  <2>2. V[r] \subseteq {i} => T = {}
    <3>1. LearnedOn(TablesOf(r), V[r])
      BY <1>2 DEF AllGood, Good
    <3> QED BY <3>1 DEF LearnedOn, Used, TablesOf, Valid
  <2>3. Announced(r, i) = EntriesOf(r, T)
    BY DEF Announced
  <2> HIDE DEF T
  <2> QED BY <1>2, <2>1, <2>2, <2>3, EntriesType, Zenon
<1>4. \A i \in Ifaces : Peer[i] \in Ifaces
  BY TopologyAssumption
<1>5. \A i \in Ifaces : msg(i) \in Response
  BY <1>3, <1>4 DEF Response, Hops
<1>6. ASSUME NEW i \in Ifaces, sent(Peer[i])
      PROVE  i \in V[Node[i]]
  <2>1. i # Origin /\ Node[Peer[i]] = r /\ Announced(r, Peer[i]) # <<>>
    BY <1>6, TopologyAssumption
  <2> QED BY <1>3, <1>4, <2>1 DEF Closed
<1> HIDE DEF sent, msg
<1>7. wire' \in [Ifaces -> Seq(Response)] /\ WiresOn(V)'
  <2>1. \A i \in Ifaces : Append(wire[i], msg(i)) \in Seq(Response)
    BY <1>2, <1>5 DEF TypeOK
  <2>2. wire' \in [Ifaces -> Seq(Response)]
    BY <1>1, <1>2, <2>1 DEF TypeOK
  <2>3. ASSUME NEW i \in Ifaces, wire'[i] # <<>> PROVE i \in V[Node[i]]
    <3>1. CASE sent(Peer[i])
      BY <1>6, <3>1
    <3>2. CASE ~sent(Peer[i])
      BY <1>1, <1>2, <2>3, <3>2 DEF WiresOn
    <3> QED BY <3>1, <3>2
  <2> QED BY <2>2, <2>3 DEF WiresOn
<1>8. timer' \in [Routers -> Timers]
      /\ \A q \in Routers : timer'[q].timeout = timer[q].timeout /\ timer'[q].gc = timer[q].gc
  <2>1. timer \in [Routers -> Timers]
    BY <1>2 DEF TypeOK, Timers
  <2>2. Update \in 0 .. Update
    BY SizesAssumption
  <2> QED BY <1>1, <2>1, <2>2 DEF Timers
<1>9. AllGood(V)' /\ IdleEmpty'
  <2>1. db' = db /\ count' = count /\ routes' = routes /\ started' = started
    BY <1>1 DEF tables
  <2>2. \A q \in Routers : TablesOf(q)' = TablesOf(q)
    BY <2>1 DEF TablesOf
  <2>3. AllGood(V)'
    BY <1>2, <1>8, <2>2 DEF AllGood, Good, InTime
  <2> QED BY <1>2, <2>1, <2>3 DEF IdleEmpty
<1>10. TypeOK'
  BY <1>1, <1>2, <1>7, <1>8 DEF TypeOK, tables, Timers
<1> QED BY <1>7, <1>9, <1>10 DEF Inv

(* A step that gives every router good tables and timers, and touches      *)
(* neither the wires nor which routers run.                                *)
LEMMA ScanKeeps ==
  ASSUME NEW V, Inv(V), UNCHANGED <<started, wire>>, AllGood(V)', IdleEmpty',
         db' = [r \in Routers |-> db'[r]], count' = [r \in Routers |-> count'[r]],
         routes' = [r \in Routers |-> routes'[r]], timer' \in [Routers -> Timers],
         UNCHANGED <<up, speaking, faults>>, silence' \in 0 .. Update
  PROVE  Inv(V)'
<1>1. \A q \in Routers :
        [db |-> db'[q], count |-> count'[q], routes |-> routes'[q]] \in Tables
  BY DEF AllGood, Good, TablesOf
<1>2. /\ db' \in [Routers -> [Slots -> Info \cup {Invalid}]]
      /\ count' \in [Routers -> 0 .. DbSize]
      /\ routes' \in [Routers -> [Prefixes -> Route \cup {NoRoute}]]
  BY <1>1, GoodTyped
<1>3. TypeOK'
  BY <1>2 DEF Inv, TypeOK, Timers
<1> QED BY <1>3 DEF Inv, WiresOn

(* rip_timeout_handler.                                                    *)
LEMMA TimeoutKeeps ==
  ASSUME NEW V, Closed(V), Inv(V), NEW r \in Routers, RipTimeout(r)
  PROVE  Inv(V)'
<1> DEFINE old == {k \in Slots : Valid(r, k) /\ db[r][k].state = "ACTIVE" /\ Expired(db[r][k])}
<1>1. /\ r \in started
      /\ db' = [db EXCEPT ![r] = [k \in Slots |->
                  IF k \in old
                  THEN [db[r][k] EXCEPT !.metric = Infinity, !.state = "GC"] ELSE db[r][k]]]
      /\ routes' = [routes EXCEPT ![r] = [p \in Prefixes |->
                      IF \E k \in old : db[r][k].prefix = p THEN NoRoute ELSE routes[r][p]]]
      /\ timer' = [timer EXCEPT ![r].timeout = Timeout]
      /\ UNCHANGED <<started, count, wire, up, speaking, silence, faults>>
  BY DEF RipTimeout
<1>2. TypeOK /\ AllGood(V) /\ IdleEmpty
  BY DEF Inv
<1>3. old = ExpiredSlots(TablesOf(r))
  BY DEF ExpiredSlots, TablesOf, Valid
<1> HIDE DEF old
<1>4. TablesOf(r)' = TimedOut(TablesOf(r), old)
  BY <1>1, <1>2 DEF TablesOf, TimedOut, TypeOK
<1>5. \A q \in Routers : q # r => TablesOf(q)' = TablesOf(q)
  BY <1>1, <1>2 DEF TablesOf, TypeOK
<1>6. timer \in [Routers -> Timers] /\ Timeout \in 0 .. Timeout
  BY <1>2, SizesAssumption DEF TypeOK, Timers
<1>7. /\ timer' \in [Routers -> Timers] /\ timer'[r] = [timer[r] EXCEPT !.timeout = Timeout]
      /\ \A q \in Routers : q # r => timer'[q] = timer[q]
  BY <1>1, <1>6 DEF Timers
<1>8. TablesOf(r)' \in Good(timer'[r], V[r])
  <2>1. TablesOf(r) \in Good(timer[r], V[r]) /\ timer[r] \in Timers /\ V[r] \in SUBSET Ifaces
    BY TablesType DEF Closed
  <2> QED BY <1>3, <1>4, <1>7, <2>1, TimeoutGood
<1>9. AllGood(V)'
  BY <1>2, <1>5, <1>7, <1>8 DEF AllGood
<1>10. IdleEmpty'
  BY <1>1, <1>2 DEF IdleEmpty, TypeOK
<1>11. /\ db' = [q \in Routers |-> db'[q]] /\ count' = [q \in Routers |-> count'[q]]
       /\ routes' = [q \in Routers |-> routes'[q]] /\ silence' \in 0 .. Update
  BY <1>1, <1>2 DEF TypeOK
<1> QED BY <1>1, <1>7, <1>9, <1>10, <1>11, ScanKeeps

(* rip_gc_handler.                                                         *)
LEMMA GcKeeps ==
  ASSUME NEW V, Closed(V), Inv(V), NEW r \in Routers, RipGc(r)
  PROVE  Inv(V)'
<1> DEFINE old == {k \in Slots : Valid(r, k) /\ db[r][k].state = "GC"
                                   /\ db[r][k].age > Timeout + Gc}
<1>1. /\ r \in started
      /\ db' = [db EXCEPT ![r] = [k \in Slots |->
                  IF k \in old THEN Invalid ELSE db[r][k]]]
      /\ count' = [count EXCEPT ![r] = count[r] - Cardinality(old)]
      /\ timer' = [timer EXCEPT ![r].gc = Gc]
      /\ UNCHANGED <<started, routes, wire, up, speaking, silence, faults>>
  BY DEF RipGc
<1>2. TypeOK /\ AllGood(V) /\ IdleEmpty
  BY DEF Inv
<1>3. old = StaleSlots(TablesOf(r))
  BY DEF StaleSlots, TablesOf, Valid
<1> HIDE DEF old
<1>4. TablesOf(r)' = Released(TablesOf(r), old)
  BY <1>1, <1>2 DEF TablesOf, Released, TypeOK
<1>5. \A q \in Routers : q # r => TablesOf(q)' = TablesOf(q)
  BY <1>1, <1>2 DEF TablesOf, TypeOK
<1>6. timer \in [Routers -> Timers] /\ Gc \in 0 .. Gc
  BY <1>2, SizesAssumption DEF TypeOK, Timers
<1>7. /\ timer' \in [Routers -> Timers] /\ timer'[r] = [timer[r] EXCEPT !.gc = Gc]
      /\ \A q \in Routers : q # r => timer'[q] = timer[q]
  BY <1>1, <1>6 DEF Timers
<1>8. TablesOf(r)' \in Good(timer'[r], V[r])
  <2>1. TablesOf(r) \in Good(timer[r], V[r]) /\ timer[r] \in Timers /\ V[r] \in SUBSET Ifaces
    BY TablesType DEF Closed
  <2> QED BY <1>3, <1>4, <1>7, <2>1, GcGood
<1>9. AllGood(V)'
  BY <1>2, <1>5, <1>7, <1>8 DEF AllGood
<1>10. IdleEmpty'
  BY <1>1, <1>2 DEF IdleEmpty, TypeOK
<1>11. /\ db' = [q \in Routers |-> db'[q]] /\ count' = [q \in Routers |-> count'[q]]
       /\ routes' = [q \in Routers |-> routes'[q]] /\ silence' \in 0 .. Update
  BY <1>1, <1>2 DEF TypeOK
<1> QED BY <1>1, <1>7, <1>9, <1>10, <1>11, ScanKeeps

(* Time passes.                                                            *)
LEMMA TickKeeps ==
  ASSUME NEW V, Closed(V), Inv(V), Tick
  PROVE  Inv(V)'
<1>1. /\ \A r \in Routers : ~Due(r)
      /\ silence # 0 /\ silence' = silence - 1
      /\ timer' = [r \in Routers |->
           IF r \in started
           THEN [update |-> timer[r].update - 1, timeout |-> timer[r].timeout - 1,
                 gc |-> timer[r].gc - 1]
           ELSE timer[r]]
      /\ db' = [r \in Routers |-> [k \in Slots |-> Older(db[r][k])]]
      /\ UNCHANGED <<started, count, routes, wire, up, speaking, faults>>
  BY DEF Tick
<1>2. TypeOK /\ AllGood(V) /\ IdleEmpty
  BY DEF Inv
<1>3. timer \in [Routers -> Timers]
  BY <1>2 DEF TypeOK, Timers
<1>4. timer' \in [Routers -> Timers]
  <2> SUFFICES ASSUME NEW r \in Routers PROVE timer'[r] \in Timers
    BY <1>1
  <2>1. CASE r \in started
    <3>1. timer[r].update # 0 /\ timer[r].timeout # 0 /\ timer[r].gc # 0
      BY <1>1, <2>1 DEF Due
    <3>2. /\ timer[r].update \in 0 .. Update /\ timer[r].timeout \in 0 .. Timeout
          /\ timer[r].gc \in 0 .. Gc
      BY <1>3 DEF Timers
    <3>3. timer'[r] = [update |-> timer[r].update - 1, timeout |-> timer[r].timeout - 1,
                       gc |-> timer[r].gc - 1]
      BY <1>1, <2>1
    <3> QED BY <3>1, <3>2, <3>3, SizesAssumption DEF Timers
  <2>2. CASE r \notin started
    BY <1>1, <1>3, <2>2
  <2> QED BY <2>1, <2>2
<1>5. \A r \in Routers : TablesOf(r)' = Aged(TablesOf(r))
  BY <1>1, <1>2 DEF TablesOf, Aged, TypeOK
<1>6. ASSUME NEW r \in Routers
      PROVE  TablesOf(r)' \in Good(timer'[r], V[r])
  <2>1. TablesOf(r) \in Good(timer[r], V[r]) /\ timer[r] \in Timers /\ V[r] \in SUBSET Ifaces
    BY TablesType DEF Closed
  <2>2. CASE r \in started
    <3>1. timer'[r].timeout = timer[r].timeout - 1 /\ timer'[r].gc = timer[r].gc - 1
      BY <1>1, <2>2
    <3> QED BY <1>5, <2>1, <3>1, OlderGood
  <2>3. CASE r \notin started
    <3>1. \A k \in Slots : Older(db[r][k]) = db[r][k]
      BY <1>2, <2>3 DEF IdleEmpty, Older
    <3>2. db'[r] = db[r]
      BY <1>1, <1>2, <3>1 DEF TypeOK
    <3>3. TablesOf(r)' = TablesOf(r) /\ timer'[r] = timer[r]
      BY <1>1, <2>3, <3>2 DEF TablesOf
    <3> QED BY <2>1, <3>3
  <2> QED BY <2>2, <2>3
<1>7. AllGood(V)'
  BY <1>6 DEF AllGood
<1>8. IdleEmpty'
  BY <1>1, <1>2 DEF IdleEmpty, Older
<1>9. /\ db' = [q \in Routers |-> db'[q]] /\ count' = [q \in Routers |-> count'[q]]
      /\ routes' = [q \in Routers |-> routes'[q]] /\ silence' \in 0 .. Update
  BY <1>1, <1>2, SizesAssumption DEF TypeOK
<1> QED BY <1>1, <1>4, <1>7, <1>8, <1>9, ScanKeeps

(* The speaker's responses come in at Origin.                              *)
LEMMA SpeakKeeps ==
  ASSUME NEW V, Closed(V), Inv(V), NEW es \in Seq(Entry), Speak(es)
  PROVE  wire' \in [Ifaces -> Seq(Response)] /\ WiresOn(V)'
<1> DEFINE m == [src |-> "speaker", entries |-> es]
<1>1. wire \in [Ifaces -> Seq(Response)] /\ WiresOn(V)
  BY DEF Inv, TypeOK
<1>2. m \in Response
  BY DEF Response, Hops
<1>3. wire' = [wire EXCEPT ![Origin] = Append(wire[Origin], m)] \/ wire' = wire
  BY Zenon DEF Speak
<1> HIDE DEF m
<1>4. Append(wire[Origin], m) \in Seq(Response) /\ Origin \in Ifaces
  BY <1>1, <1>2, TopologyAssumption
<1>5. wire' \in [Ifaces -> Seq(Response)] /\ \A i \in Ifaces : i # Origin => wire'[i] = wire[i]
  BY <1>1, <1>3, <1>4
<1>6. WiresOn(V)'
  BY <1>1, <1>5 DEF WiresOn, Closed
<1> QED BY <1>5, <1>6

(* A step of the environment that may change the wires.                    *)
LEMMA OutsideKeeps ==
  ASSUME NEW V, Closed(V), Inv(V), UNCHANGED <<tables, timer>>, started \subseteq started',
         started' \subseteq Routers, wire' \in [Ifaces -> Seq(Response)], WiresOn(V)',
         up' \subseteq Ifaces, speaking' \subseteq Prefixes, silence' \in 0 .. Update,
         faults' \in 0 .. MaxFaults
  PROVE  Inv(V)'
<1>1. /\ AllGood(V)' /\ IdleEmpty'
      /\ db' \in [Routers -> [Slots -> Info \cup {Invalid}]]
      /\ count' \in [Routers -> 0 .. DbSize]
      /\ routes' \in [Routers -> [Prefixes -> Route \cup {NoRoute}]]
      /\ timer' \in [Routers -> Timers]
  BY TablesKept
<1> QED BY <1>1 DEF Inv, TypeOK, Timers

(* The speaker announces or withdraws.                                     *)
LEMMA SpeakerKeeps ==
  ASSUME NEW V, Closed(V), Inv(V), SpeakerUpdate
  PROVE  Inv(V)'
<1>1. PICK s \in [1 .. Cardinality(speaking) -> speaking] :
        Speak([n \in DOMAIN s |-> [prefix |-> s[n], metric |-> 1, hop |-> "zero"]])
  BY DEF SpeakerUpdate
<1> DEFINE es == [n \in DOMAIN s |-> [prefix |-> s[n], metric |-> 1, hop |-> "zero"]]
<1>2. speaking \subseteq Prefixes
  BY DEF Inv, TypeOK
<1>3. es \in Seq(Entry)
  <2>1. Cardinality(speaking) \in Nat
    BY <1>2, SizesAssumption, FS_Subset, FS_CardinalityType
  <2>2. \A n \in 1 .. Cardinality(speaking) :
          [prefix |-> s[n], metric |-> 1, hop |-> "zero"] \in Entry
    BY <1>1, <1>2, SizesAssumption DEF Entry
  <2> QED BY <2>1, <2>2
<1> HIDE DEF es
<1>4. wire' \in [Ifaces -> Seq(Response)] /\ WiresOn(V)'
  BY <1>1, <1>3, SpeakKeeps DEF es
<1>5. Update \in 0 .. Update
  BY SizesAssumption
<1> QED BY <1>4, <1>5, OutsideKeeps DEF SpeakerUpdate, Inv, TypeOK

(* Losses, interface changes and a speaker that falls silent.              *)
LEMMA EnvironmentKeeps ==
  ASSUME NEW V, Closed(V), Inv(V), Environment
  PROVE  Inv(V)'
<1>1. /\ started \subseteq Routers /\ up \subseteq Ifaces /\ speaking \subseteq Prefixes
      /\ silence \in 0 .. Update /\ faults \in 0 .. MaxFaults
      /\ wire \in [Ifaces -> Seq(Response)] /\ WiresOn(V)
  BY DEF Inv, TypeOK
<1>2. Fault => faults' \in 0 .. MaxFaults
  BY <1>1, SizesAssumption DEF Fault
<1>3. UNCHANGED wire => wire' \in [Ifaces -> Seq(Response)] /\ WiresOn(V)'
  BY <1>1 DEF WiresOn
<1>4. ASSUME NEW r \in Routers, Start(r) PROVE Inv(V)'
  BY <1>1, <1>3, <1>4, OutsideKeeps DEF Start
<1>5. ASSUME NEW p \in Prefixes, Withdraw(p) PROVE Inv(V)'
  <2> DEFINE es == <<[prefix |-> p, metric |-> Infinity, hop |-> "zero"]>>
  <2>1. es \in Seq(Entry)
    BY SizesAssumption DEF Entry
  <2> HIDE DEF es
  <2>2. UNCHANGED wire \/ Speak(es)
    BY <1>5 DEF Withdraw, es
  <2>3. wire' \in [Ifaces -> Seq(Response)] /\ WiresOn(V)'
    BY <1>3, <2>1, <2>2, SpeakKeeps
  <2> QED BY <1>1, <1>5, <2>3, OutsideKeeps DEF Withdraw
<1>6. ASSUME NEW p \in Prefixes, Resume(p) PROVE Inv(V)'
  BY <1>1, <1>2, <1>3, <1>6, OutsideKeeps DEF Resume
<1>7. ASSUME NEW i \in Ifaces, Lose(i) PROVE Inv(V)'
  <2>1. wire' \in [Ifaces -> Seq(Response)] /\ WiresOn(V)'
    BY <1>7, TailKept DEF Lose
  <2> QED BY <1>1, <1>2, <1>7, <2>1, OutsideKeeps DEF Lose
<1>8. ASSUME NEW i \in Ifaces, Flap(i) PROVE Inv(V)'
  BY <1>1, <1>2, <1>3, <1>8, OutsideKeeps DEF Flap
<1> QED BY <1>4, <1>5, <1>6, <1>7, <1>8 DEF Environment

-----------------------------------------------------------------------------
(* The theorems.                                                           *)

(* The databases of all routers, their timers and the updates in flight    *)
(* start sound.                                                            *)
LEMMA InitInv ==
  ASSUME NEW V, Init
  PROVE  Inv(V)
<1>1. TypeOK
  BY SizesAssumption DEF Init, TypeOK
<1>2. IdleEmpty /\ WiresOn(V)
  BY DEF Init, IdleEmpty, WiresOn
<1>3. ASSUME NEW r \in Routers
      PROVE  TablesOf(r) \in Good(timer[r], V[r])
  <2>1. TablesOf(r) = [db |-> [k \in Slots |-> Invalid], count |-> 0,
                       routes |-> [p \in Prefixes |-> NoRoute]]
    BY DEF TablesOf, Init
  <2>2. TablesOf(r) \in Tables
    BY <2>1, SizesAssumption DEF Tables
  <2>3. Used(TablesOf(r)) = {}
    BY <2>1 DEF Used
  <2>4. TablesOf(r).count = Cardinality(Used(TablesOf(r)))
    BY <2>1, <2>3, FS_EmptySet
  <2>5. Unique(TablesOf(r)) /\ InTime(TablesOf(r), timer[r]) /\ LearnedOn(TablesOf(r), V[r])
    BY <2>3 DEF Unique, InTime, LearnedOn
  <2>6. Agrees(TablesOf(r))
    BY <2>1, <2>3 DEF Agrees, Active
  <2> QED BY <2>2, <2>4, <2>5, <2>6 DEF Good, Sound
<1> QED BY <1>1, <1>2, <1>3 DEF Inv, AllGood

(* Every step keeps them so.                                               *)
LEMMA NextInv ==
  ASSUME NEW V, Closed(V), Inv(V), [Next]_vars
  PROVE  Inv(V)'
<1>1. CASE Environment
  BY <1>1, EnvironmentKeeps
<1>2. CASE SpeakerUpdate
  BY <1>2, SpeakerKeeps
<1>3. ASSUME NEW i \in Ifaces, Receive(i) PROVE Inv(V)'
  BY <1>3, ReceiveKeeps
<1>4. ASSUME NEW r \in Routers, RipUpdate(r) \/ RipTimeout(r) \/ RipGc(r) PROVE Inv(V)'
  BY <1>4, UpdateKeeps, TimeoutKeeps, GcKeeps
<1>5. CASE Tick
  BY <1>5, TickKeeps
<1>6. CASE UNCHANGED vars
  BY <1>6, OutsideKeeps DEF vars, Inv, TypeOK, WiresOn
<1> QED BY <1>1, <1>2, <1>3, <1>4, <1>5, <1>6 DEF Next

(* Nothing restricts where routes may be learned in general.               *)
LEMMA AnyClosed == Closed([r \in Routers |-> Ifaces])
BY TopologyAssumption DEF Closed

(* rip.c installs a route exactly for its active entries, keeps one entry  *)
(* per prefix and counts them, in any order of updates and scans.          *)
THEOREM DatabaseSound == Spec => []DatabaseInv
<1> DEFINE V == [r \in Routers |-> Ifaces]
<1>1. Inv(V) => DatabaseInv
  <2> SUFFICES ASSUME Inv(V), NEW r \in Routers
               PROVE  /\ count[r] = Cardinality({k \in Slots : Valid(r, k)})
                      /\ \A k, l \in Slots :
                           Valid(r, k) /\ Valid(r, l) /\ db[r][k].prefix = db[r][l].prefix
                             => k = l
                      /\ \A p \in Prefixes :
                           LET active == {k \in Slots : Valid(r, k) /\ db[r][k].prefix = p
                                                          /\ db[r][k].state = "ACTIVE"}
                           IN  routes[r][p] # NoRoute \/ active # {} =>
                                 \E k \in active : routes[r][p] =
                                   [hop |-> db[r][k].hop, iface |-> db[r][k].iface,
                                    metric |-> db[r][k].metric]
    BY DEF DatabaseInv, TablesAgree, Inv
  <2>1. Sound(TablesOf(r))
    BY DEF Inv, AllGood, Good
  <2>2. Used(TablesOf(r)) = {k \in Slots : Valid(r, k)}
    BY DEF Used, TablesOf, Valid
  <2>3. count[r] = Cardinality({k \in Slots : Valid(r, k)})
    BY <2>1, <2>2 DEF Sound, TablesOf
  <2>4. \A k, l \in Slots :
          Valid(r, k) /\ Valid(r, l) /\ db[r][k].prefix = db[r][l].prefix => k = l
    BY <2>1, <2>2 DEF Sound, Unique, TablesOf
  <2>5. ASSUME NEW p \in Prefixes
        PROVE  LET active == {k \in Slots : Valid(r, k) /\ db[r][k].prefix = p
                                              /\ db[r][k].state = "ACTIVE"}
               IN  routes[r][p] # NoRoute \/ active # {} =>
                     \E k \in active : routes[r][p] =
                       [hop |-> db[r][k].hop, iface |-> db[r][k].iface,
                        metric |-> db[r][k].metric]
    <3>1. Active(TablesOf(r), p) = {k \in Slots : Valid(r, k) /\ db[r][k].prefix = p
                                                    /\ db[r][k].state = "ACTIVE"}
      BY <2>2 DEF Active, TablesOf
    <3>2. \A k \in Slots : RouteOf(db[r][k]) =
            [hop |-> db[r][k].hop, iface |-> db[r][k].iface, metric |-> db[r][k].metric]
      BY DEF RouteOf
    <3>3. routes[r][p] # NoRoute \/ Active(TablesOf(r), p) # {} =>
            \E k \in Active(TablesOf(r), p) : routes[r][p] = RouteOf(db[r][k])
      BY <2>1 DEF Sound, Agrees, TablesOf
    <3> QED BY <3>1, <3>2, <3>3
  <2> QED BY <2>3, <2>4, <2>5
<1>2. Init => Inv(V)
  BY InitInv
<1>3. Inv(V) /\ [Next]_vars => Inv(V)'
  BY AnyClosed, NextInv
<1> HIDE DEF V
<1> QED BY <1>1, <1>2, <1>3, PTL DEF Spec

(* rip_timeout_handler and rip_gc_handler forget a route within two        *)
(* timeout periods of its last refresh, and the entry one collection       *)
(* period later.                                                           *)
THEOREM EntriesExpire == Spec => []NothingLingers
<1> DEFINE V == [r \in Routers |-> Ifaces]
<1>1. Inv(V) => NothingLingers
  <2> SUFFICES ASSUME Inv(V), NEW r \in Routers, NEW k \in Slots, Valid(r, k)
               PROVE  /\ db[r][k].state = "ACTIVE" => db[r][k].age <= 2 * Timeout
                      /\ db[r][k].age <= 2 * Timeout + Gc
    BY DEF NothingLingers
  <2>1. db[r][k] \in Info /\ db[r][k].age \in Nat
    BY DEF Inv, TypeOK, Valid, Info
  <2>2. timer[r].timeout \in Nat /\ timer[r].gc \in Nat
    BY SizesAssumption DEF Inv, TypeOK
  <2>3. InTime(TablesOf(r), timer[r]) /\ k \in Used(TablesOf(r)) /\ TablesOf(r).db = db[r]
    BY DEF Inv, AllGood, Good, Used, TablesOf, Valid
  <2>4. /\ db[r][k].state = "ACTIVE" => db[r][k].age + timer[r].timeout <= 2 * Timeout
        /\ db[r][k].age + timer[r].gc <= 2 * Timeout + Gc
    BY <2>3 DEF InTime
  <2> QED BY <2>1, <2>2, <2>4, SizesAssumption
<1>2. Init => Inv(V)
  BY InitInv
<1>3. Inv(V) /\ [Next]_vars => Inv(V)'
  BY AnyClosed, NextInv
<1> HIDE DEF V
<1> QED BY <1>1, <1>2, <1>3, PTL DEF Spec

(* Every router has one interface towards the speaker: of the two ends of  *)
(* each link between routers exactly one is the interface by which its     *)
(* router comes nearer.                                                    *)
TreeOf(uplink) ==
  /\ uplink \in [Routers -> Ifaces] /\ uplink[Node[Origin]] = Origin
  /\ \A i \in Ifaces \ {Origin} :
       (i = uplink[Node[i]]) <=> (Peer[i] # uplink[Node[Peer[i]]])

(* Split horizon: in every tree of routers, however deep and wide, no two  *)
(* neighbours ever route a prefix to each other, whatever is lost and      *)
(* whichever interfaces go down.  (Where links form a cycle they may.)     *)
THEOREM SplitHorizon ==
  ASSUME NEW CONSTANT uplink, TreeOf(uplink)
  PROVE  Spec => []NoMutualRoutes
<1> DEFINE V == [r \in Routers |-> {uplink[r]}]
<1>1. Closed(V)
  BY TopologyAssumption DEF Closed, TreeOf
<1>2. Inv(V) => NoMutualRoutes
  <2> SUFFICES ASSUME Inv(V), NEW i \in Ifaces \ {Origin}, NEW p \in Prefixes,
                      routes[Node[i]][p] # NoRoute, routes[Node[i]][p].iface = i,
                      routes[Node[Peer[i]]][p] # NoRoute,
                      routes[Node[Peer[i]]][p].iface = Peer[i]
               PROVE  FALSE
    BY DEF NoMutualRoutes
  <2>1. ASSUME NEW r \in Routers, routes[r][p] # NoRoute
        PROVE  routes[r][p].iface = uplink[r]
    <3>1. Sound(TablesOf(r)) /\ LearnedOn(TablesOf(r), {uplink[r]})
      BY DEF Inv, AllGood, Good
    <3>2. PICK k \in Active(TablesOf(r), p) : routes[r][p] = RouteOf(TablesOf(r).db[k])
      BY <2>1, <3>1 DEF Sound, Agrees, TablesOf
    <3>3. TablesOf(r).db[k].iface = uplink[r]
      BY <3>1, <3>2 DEF Active, LearnedOn
    <3> QED BY <3>2, <3>3 DEF RouteOf
  <2>2. Node[i] \in Routers /\ Node[Peer[i]] \in Routers
    BY TopologyAssumption
  <2> QED BY <2>1, <2>2 DEF TreeOf
<1>3. Init => Inv(V)
  BY InitInv
<1>4. Inv(V) /\ [Next]_vars => Inv(V)'
  BY <1>1, NextInv
<1> HIDE DEF V
<1> QED BY <1>2, <1>3, <1>4, PTL DEF Spec

=============================================================================
