---------------------------- MODULE EngineProofs ----------------------------
(***************************************************************************)
(* Proofs about the engine for every set of event types, every width of    *)
(* the clock, every initial capacity and every number of events.           *)
(***************************************************************************)
EXTENDS Engine, WellFoundedInduction, TLAPS

-----------------------------------------------------------------------------
(* Extremal elements of sets of natural numbers.                           *)

(* A non-empty set of natural numbers has a least element.                 *)
LEMMA NatMin ==
  ASSUME NEW T \in SUBSET Nat, T # {}
  PROVE  \E x \in T : \A y \in T : x <= y
<1>1. PICK x \in T : \A y \in T : ~(<<y, x>> \in OpToRel(<, Nat))
  BY NatLessThanWellFounded, WFMin, Zenon
<1>2. \A y \in T : ~(y < x)
  BY <1>1 DEF OpToRel
<1> QED BY <1>2

(* A non-empty bounded set of natural numbers has a greatest element.      *)
LEMMA NatMax ==
  ASSUME NEW n \in Nat, NEW T \in SUBSET (0 .. n), T # {}
  PROVE  \E x \in T : \A y \in T : y <= x
<1> DEFINE U == {u \in 0 .. n : n - u \in T}
<1>1. PICK t \in T : TRUE
  OBVIOUS
<1>2. n - t \in U /\ U \in SUBSET Nat
  OBVIOUS
<1>3. PICK u \in U : \A v \in U : u <= v
  BY <1>2, NatMin
<1>4. \A y \in T : n - y \in U
  OBVIOUS
<1> HIDE DEF U
<1>5. \A y \in T : u <= n - y
  BY <1>3, <1>4
<1>6. n - u \in T /\ u \in 0 .. n
  BY <1>3 DEF U
<1> QED BY <1>5, <1>6

-----------------------------------------------------------------------------
(* The insertion of event_queue_push.                                      *)

(* The shift loop stops at a well-defined index.                           *)
LEMMA InsertionIndexSpec ==
  ASSUME NEW q \in Seq(Event), NEW e \in Event
  PROVE  LET k == InsertionIndex(q, e)
         IN  /\ k \in 0 .. Len(q)
             /\ k > 0 => StaysBehind(q[k], e)
             /\ \A j \in (k + 1) .. Len(q) : ~StaysBehind(q[j], e)
<1> DEFINE T == {k \in 0 .. Len(q) : k > 0 => StaysBehind(q[k], e)}
<1>1. Len(q) \in Nat
  OBVIOUS
<1>2. 0 \in T /\ T \in SUBSET (0 .. Len(q))
  BY <1>1
<1>3. PICK x \in T : \A y \in T : y <= x
  BY <1>1, <1>2, NatMax
<1>4. \A j \in (x + 1) .. Len(q) : ~StaysBehind(q[j], e)
  <2> SUFFICES ASSUME NEW j \in (x + 1) .. Len(q), StaysBehind(q[j], e)
               PROVE  FALSE
    OBVIOUS
  <2>1. j \in T
    BY <1>1, <1>3
  <2> QED BY <1>1, <1>3, <2>1
<1>5. \E k \in 0 .. Len(q) :
         /\ k > 0 => StaysBehind(q[k], e)
         /\ \A j \in (k + 1) .. Len(q) : ~StaysBehind(q[j], e)
  BY <1>3, <1>4
<1> QED BY <1>5 DEF InsertionIndex

(* Inserting keeps the array typed, one longer, and adds exactly e.        *)
LEMMA InsertType ==
  ASSUME NEW q \in Seq(Event), NEW e \in Event
  PROVE  /\ Insert(q, e) \in Seq(Event)
         /\ Len(Insert(q, e)) = Len(q) + 1
<1> DEFINE k == InsertionIndex(q, e)
<1>1. k \in 0 .. Len(q) /\ Len(q) \in Nat
  BY InsertionIndexSpec
<1> HIDE DEF k
<1>2. \A i \in 1 .. Len(q) + 1 :
        (IF i <= k THEN q[i] ELSE IF i = k + 1 THEN e ELSE q[i - 1]) \in Event
  <2> SUFFICES ASSUME NEW i \in 1 .. Len(q) + 1
               PROVE  (IF i <= k THEN q[i] ELSE IF i = k + 1 THEN e ELSE q[i - 1]) \in Event
    OBVIOUS
  <2>1. CASE i <= k
    BY <1>1, <2>1
  <2>2. CASE i = k + 1
    BY <1>1, <2>2
  <2>3. CASE i > k + 1
    <3>1. i - 1 \in 1 .. Len(q)
      BY <1>1, <2>3
    <3> QED BY <1>1, <2>3, <3>1
  <2> QED BY <1>1, <2>1, <2>2, <2>3
<1>3. Insert(q, e) = [i \in 1 .. Len(q) + 1 |->
                       IF i <= k THEN q[i] ELSE IF i = k + 1 THEN e ELSE q[i - 1]]
  BY DEF Insert, k
<1> QED BY <1>1, <1>2, <1>3

(* Where each entry of the new array comes from.                           *)
LEMMA InsertEntries ==
  ASSUME NEW q \in Seq(Event), NEW e \in Event
  PROVE  LET k == InsertionIndex(q, e)
         IN  /\ k \in 0 .. Len(q)
             /\ Insert(q, e)[k + 1] = e
             /\ \A i \in 1 .. k : Insert(q, e)[i] = q[i]
             /\ \A i \in (k + 2) .. Len(q) + 1 : Insert(q, e)[i] = q[i - 1]
<1> DEFINE k == InsertionIndex(q, e)
<1>1. k \in 0 .. Len(q) /\ Len(q) \in Nat
  BY InsertionIndexSpec
<1>3. Insert(q, e) = [i \in 1 .. Len(q) + 1 |->
                       IF i <= k THEN q[i] ELSE IF i = k + 1 THEN e ELSE q[i - 1]]
  BY DEF Insert
<1> HIDE DEF k
<1>4. Insert(q, e)[k + 1] = e
  BY <1>1, <1>3
<1>5. \A i \in 1 .. k : Insert(q, e)[i] = q[i]
  BY <1>1, <1>3
<1>6. \A i \in (k + 2) .. Len(q) + 1 : Insert(q, e)[i] = q[i - 1]
  BY <1>1, <1>3
<1> QED BY <1>1, <1>4, <1>5, <1>6 DEF k

(* The new array holds the old entries and e, and nothing else.            *)
LEMMA InsertRange ==
  ASSUME NEW q \in Seq(Event), NEW e \in Event
  PROVE  /\ \A i \in 1 .. Len(q) + 1 :
              \/ Insert(q, e)[i] = e
              \/ \E j \in 1 .. Len(q) : Insert(q, e)[i] = q[j]
         /\ \A j \in 1 .. Len(q) : \E i \in 1 .. Len(q) + 1 : Insert(q, e)[i] = q[j]
         /\ \E i \in 1 .. Len(q) + 1 : Insert(q, e)[i] = e
<1> DEFINE k == InsertionIndex(q, e)
           r == Insert(q, e)
<1>1. /\ k \in 0 .. Len(q) /\ Len(q) \in Nat
      /\ r[k + 1] = e
      /\ \A i \in 1 .. k : r[i] = q[i]
      /\ \A i \in (k + 2) .. Len(q) + 1 : r[i] = q[i - 1]
  BY InsertEntries
<1> HIDE DEF k, r
<1>2. \A i \in 1 .. Len(q) + 1 : r[i] = e \/ \E j \in 1 .. Len(q) : r[i] = q[j]
  <2> TAKE i \in 1 .. Len(q) + 1
  <2>1. CASE i <= k
    BY <1>1, <2>1
  <2>2. CASE i = k + 1
    BY <1>1, <2>2
  <2>3. CASE i > k + 1
    <3>1. i \in (k + 2) .. Len(q) + 1 /\ i - 1 \in 1 .. Len(q)
      BY <1>1, <2>3
    <3> QED BY <1>1, <3>1
  <2> QED BY <1>1, <2>1, <2>2, <2>3
<1>3. \A j \in 1 .. Len(q) : \E i \in 1 .. Len(q) + 1 : r[i] = q[j]
  <2> TAKE j \in 1 .. Len(q)
  <2>1. CASE j <= k
    BY <1>1, <2>1
  <2>2. CASE j > k
    <3>1. /\ j + 1 \in (k + 2) .. Len(q) + 1 /\ j + 1 \in 1 .. Len(q) + 1
          /\ (j + 1) - 1 = j
      BY <1>1, <2>2
    <3> QED BY <1>1, <3>1
  <2> QED BY <1>1, <2>1, <2>2
<1>4. k + 1 \in 1 .. Len(q) + 1
  BY <1>1
<1> QED BY <1>1, <1>2, <1>3, <1>4 DEF r

(* The fields the order of the queue looks at.                             *)
LEMMA EventFields ==
  ASSUME NEW e \in Event
  PROVE  /\ e.ts \in Times /\ e.ts \in Nat /\ e.born \in Times /\ e.born \in Nat
         /\ e.seq = 0
         /\ e.id \in Ids /\ e.id \in Nat \ {0}
         /\ e.type \in Types /\ e.cb \in BOOLEAN
<1>1. e.ts \in Times /\ e.born \in Times
  BY DEF Event
<1>2. e.seq = 0 /\ e.id \in Ids
  BY DEF Event
<1>3. e.type \in Types /\ e.cb \in BOOLEAN
  BY DEF Event
<1> QED BY <1>1, <1>2, <1>3, TimeAssumption, EventsAssumption DEF Times, Ids

(* event_queue_push keeps the array sorted when e is newer than all it     *)
(* holds, although every sequence field is 0.                              *)
LEMMA InsertSorted ==
  ASSUME NEW q \in Seq(Event), NEW e \in Event,
         Sorted(q), \A i \in 1 .. Len(q) : q[i].id < e.id
  PROVE  Sorted(Insert(q, e))
<1> DEFINE k == InsertionIndex(q, e)
           r == Insert(q, e)
<1>1. /\ k \in 0 .. Len(q) /\ Len(q) \in Nat
      /\ r[k + 1] = e
      /\ \A i \in 1 .. k : r[i] = q[i]
      /\ \A i \in (k + 2) .. Len(q) + 1 : r[i] = q[i - 1]
  BY InsertEntries
<1>2. Len(r) = Len(q) + 1
  BY InsertType
<1>3. /\ k > 0 => StaysBehind(q[k], e)
      /\ \A j \in (k + 1) .. Len(q) : ~StaysBehind(q[j], e)
  BY InsertionIndexSpec
<1> HIDE DEF k, r
<1>t. /\ \A i \in 1 .. Len(q) : q[i].ts \in Nat /\ q[i].seq = 0 /\ q[i].id \in Nat
      /\ e.ts \in Nat /\ e.seq = 0 /\ e.id \in Nat
  <2>1. \A i \in 1 .. Len(q) : q[i] \in Event
    OBVIOUS
  <2> QED BY <2>1, EventFields
<1>4. \A i \in 1 .. k : Before(q[i], e)
  <2> SUFFICES ASSUME NEW i \in 1 .. k  PROVE Before(q[i], e)
    OBVIOUS
  <2>1. k \in 1 .. Len(q) /\ i \in 1 .. Len(q) /\ (i < k \/ i = k)
    BY <1>1
  <2>2. q[k].ts <= e.ts
    BY <1>3, <1>t, <2>1 DEF StaysBehind
  <2>3. q[i].ts <= q[k].ts
    BY <1>t, <2>1 DEF Sorted, Before
  <2> QED BY <1>t, <2>1, <2>2, <2>3 DEF Before
<1>5. \A j \in (k + 1) .. Len(q) : Before(e, q[j])
  BY <1>1, <1>3, <1>t DEF StaysBehind, Before
<1>6. \A i, j \in 1 .. Len(q) + 1 : i < j => Before(r[i], r[j])
  <2> SUFFICES ASSUME NEW i \in 1 .. Len(q) + 1, NEW j \in 1 .. Len(q) + 1, i < j
               PROVE  Before(r[i], r[j])
    OBVIOUS
  <2>1. CASE j <= k
    BY <1>1, <2>1 DEF Sorted
  <2>2. CASE j = k + 1
    BY <1>1, <1>4, <2>2
  <2>3. CASE j > k + 1
    <3>1. r[j] = q[j - 1] /\ j - 1 \in (k + 1) .. Len(q) /\ j - 1 \in 1 .. Len(q)
      BY <1>1, <2>3
    <3>2. CASE i <= k
      <4>1. r[i] = q[i] /\ i \in 1 .. Len(q) /\ i < j - 1
        BY <1>1, <2>3, <3>2
      <4> QED BY <3>1, <4>1 DEF Sorted
    <3>3. CASE i = k + 1
      BY <1>1, <1>5, <3>1, <3>3
    <3>4. CASE i > k + 1
      <4>1. r[i] = q[i - 1] /\ i - 1 \in 1 .. Len(q) /\ i - 1 < j - 1
        BY <1>1, <3>4
      <4> QED BY <3>1, <4>1 DEF Sorted
    <3> QED BY <1>1, <3>2, <3>3, <3>4
  <2> QED BY <1>1, <2>1, <2>2, <2>3
<1> QED BY <1>2, <1>6 DEF Sorted, r

(* An array without duplicates stays so when a new event is inserted.      *)
LEMMA InsertDistinct ==
  ASSUME NEW q \in Seq(Event), NEW e \in Event,
         \A i, j \in 1 .. Len(q) : q[i].id = q[j].id => i = j,
         \A i \in 1 .. Len(q) : q[i].id # e.id
  PROVE  \A i, j \in 1 .. Len(q) + 1 :
           Insert(q, e)[i].id = Insert(q, e)[j].id => i = j
<1> DEFINE k == InsertionIndex(q, e)
           r == Insert(q, e)
<1>1. /\ k \in 0 .. Len(q) /\ Len(q) \in Nat
      /\ r[k + 1] = e
      /\ \A i \in 1 .. k : r[i] = q[i]
      /\ \A i \in (k + 2) .. Len(q) + 1 : r[i] = q[i - 1]
  BY InsertEntries
<1> HIDE DEF k, r
<1> DEFINE old(i) == IF i <= k THEN i ELSE i - 1
<1>2. \A i \in 1 .. Len(q) + 1 :
        i # k + 1 => r[i] = q[old(i)] /\ old(i) \in 1 .. Len(q)
  <2> SUFFICES ASSUME NEW i \in 1 .. Len(q) + 1, i # k + 1
               PROVE  r[i] = q[old(i)] /\ old(i) \in 1 .. Len(q)
    OBVIOUS
  <2>1. CASE i <= k
    BY <1>1, <2>1
  <2>2. CASE i > k + 1
    <3>1. i \in (k + 2) .. Len(q) + 1 /\ i - 1 \in 1 .. Len(q) /\ ~(i <= k)
      BY <1>1, <2>2
    <3> QED BY <1>1, <3>1
  <2> QED BY <1>1, <2>1, <2>2
<1>3. \A i, j \in 1 .. Len(q) + 1 :
        i # k + 1 /\ j # k + 1 /\ old(i) = old(j) => i = j
  BY <1>1
<1> HIDE DEF old
<1>4. \A i, j \in 1 .. Len(q) + 1 : r[i].id = r[j].id => i = j
  <2> SUFFICES ASSUME NEW i \in 1 .. Len(q) + 1, NEW j \in 1 .. Len(q) + 1,
                      r[i].id = r[j].id
               PROVE  i = j
    OBVIOUS
  <2>1. CASE i = k + 1
    BY <1>1, <1>2, <2>1
  <2>2. CASE j = k + 1
    BY <1>1, <1>2, <2>2
  <2>3. CASE i # k + 1 /\ j # k + 1
    BY <1>2, <1>3, <2>3
  <2> QED BY <2>1, <2>2, <2>3
<1> QED BY <1>4 DEF r

(* event_queue_pop: the rest of the array.                                 *)
LEMMA TailEntries ==
  ASSUME NEW q \in Seq(Event), q # <<>>
  PROVE  /\ Head(q) \in Event /\ Head(q) = q[1]
         /\ Tail(q) \in Seq(Event) /\ Len(Tail(q)) = Len(q) - 1 /\ Len(q) \in Nat \ {0}
         /\ \A i \in 1 .. Len(q) - 1 : Tail(q)[i] = q[i + 1]
OBVIOUS

-----------------------------------------------------------------------------
(* The inductive invariant.                                                *)

(* What is queued and was not scheduled in the past is still to come.      *)
QueuePunctual ==
  \A i \in 1 .. Len(queue) : queue[i].ts >= queue[i].born => queue[i].ts >= now

(* An event is held exactly between its pop and its release, and only      *)
(* inside a call.                                                          *)
ControlMatches ==
  /\ cur # NoEvent <=> at \in {"handler", "return"}
  /\ at \in {"loop", "handler", "return"} => loop \in {"step", "sched", "sim"}

Inv ==
  /\ TypeOK
  /\ QueueSorted
  /\ QueueFits
  /\ EventsConserved
  /\ OnTime
  /\ QueuePunctual
  /\ ControlMatches

(* No event is the empty slot.                                             *)
LEMMA NoEventIsNone == NoEvent \notin Event /\ NoEvent.id = 0
<1>1. NoEvent.id = 0
  BY DEF NoEvent
<1>2. NoEvent.id # 0 \/ NoEvent \notin Event
  BY EventFields
<1> QED BY <1>1, <1>2

(* simulator_create leaves an engine that satisfies the invariant.         *)
LEMMA InitInv == Init => Inv
<1> SUFFICES ASSUME Init PROVE Inv
  OBVIOUS
<1>0. Len(queue) = 0 /\ queue \in Seq(Event)
  BY DEF Init
<1>1. TypeOK
  <2>1. now \in Times /\ endTime \in Times /\ nextId \in 1 .. MaxEvents + 1
    BY TimeAssumption, EventsAssumption DEF Init, Times
  <2>2. fate \in [Ids -> Fates] /\ handlers \in [Types -> BOOLEAN]
    BY DEF Init, Fates
  <2>3. running \in BOOLEAN /\ stepped \in BOOLEAN /\ stopAsked \in BOOLEAN
    BY Zenon DEF Init
  <2> QED BY <1>0, <2>1, <2>2, <2>3, CapacityAssumption DEF Init, TypeOK
<1>2. QueueSorted /\ QueuePunctual /\ QueueFits
  BY <1>0, CapacityAssumption DEF Init, QueueSorted, Sorted, QueuePunctual, QueueFits
<1>3. EventsConserved
  <2>1. {queue[i].id : i \in 1 .. Len(queue)} = {}
    BY <1>0
  <2>2. \A i \in Ids : fate[i] = "unborn" /\ i >= nextId
    BY EventsAssumption DEF Init, Ids
  <2> QED BY <1>0, <2>1, <2>2 DEF Init, EventsConserved
<1>4. OnTime /\ ControlMatches
  BY DEF Init, OnTime, ControlMatches
<1> QED BY <1>1, <1>2, <1>3, <1>4 DEF Inv

(* The record event_create fills in is an event, newer than every other.   *)
LEMMA NewEventType ==
  ASSUME Inv, nextId <= MaxEvents,
         NEW type \in Types, NEW ts \in Times, NEW cb \in BOOLEAN
  PROVE  LET e == NewEvent(type, ts, cb)
         IN  /\ e \in Event /\ e.id = nextId /\ e.ts = ts /\ e.born = now
             /\ fate[nextId] = "unborn" /\ nextId \in Ids
             /\ \A i \in 1 .. Len(queue) : queue[i].id < nextId
<1>1. nextId \in Ids /\ now \in Times /\ nextId \in Nat
  BY EventsAssumption DEF Inv, TypeOK, Ids
<1>2. NewEvent(type, ts, cb) \in Event
  BY <1>1 DEF NewEvent, Event
<1>3. fate[nextId] = "unborn"
  BY <1>1 DEF Inv, EventsConserved
<1>4. \A i \in 1 .. Len(queue) : queue[i].id < nextId
  <2> SUFFICES ASSUME NEW i \in 1 .. Len(queue)  PROVE queue[i].id < nextId
    OBVIOUS
  <2>1. queue[i] \in Event
    BY DEF Inv, TypeOK
  <2>2. queue[i].id \in Ids /\ queue[i].id \in Nat
    BY <2>1, EventFields
  <2>3. fate[queue[i].id] = "queued"
    BY DEF Inv, EventsConserved
  <2>4. ~(queue[i].id >= nextId)
    BY <2>2, <2>3 DEF Inv, EventsConserved
  <2> QED BY <1>1, <2>2, <2>4
<1> QED BY <1>1, <1>2, <1>3, <1>4 DEF NewEvent

(* event_queue_push, whether it succeeds or realloc fails.                 *)
LEMMA CreatesInv ==
  ASSUME Inv, NEW type \in Types, NEW ts \in Times, NEW cb \in BOOLEAN,
         NEW onFailure \in {"rejected", "leaked"},
         Creates(type, ts, cb, onFailure)
  PROVE  Inv'
<1> DEFINE e == NewEvent(type, ts, cb)
<1>0. nextId <= MaxEvents /\ nextId' = nextId + 1
  BY DEF Creates
<1>1. /\ e \in Event /\ e.id = nextId /\ e.ts = ts /\ e.born = now
      /\ fate[nextId] = "unborn" /\ nextId \in Ids
      /\ \A i \in 1 .. Len(queue) : queue[i].id < nextId
  BY <1>0, NewEventType
<1>2. EventQueuePush(e, onFailure)
  BY DEF Creates
<1> HIDE DEF e
<1>3. /\ queue \in Seq(Event) /\ Len(queue) \in Nat /\ capacity \in Nat \ {0}
      /\ fate \in [Ids -> Fates] /\ nextId \in Nat /\ now \in Nat /\ ts \in Nat
  BY TimeAssumption DEF Inv, TypeOK, Times
<1>4. PICK f \in {"queued", "rejected", "leaked"} :
        /\ fate' = [fate EXCEPT ![nextId] = f]
        /\ \/ /\ f = "queued"
              /\ queue' = Insert(queue, e) /\ capacity' = Grown(queue, capacity)
           \/ /\ f # "queued"
              /\ queue' = queue /\ capacity' = capacity
  BY <1>1, <1>2 DEF EventQueuePush
<1>u. UNCHANGED <<now, running, handlers, endTime, at, loop, cur,
                  stepped, stopAsked>>
  BY DEF Creates
<1>5. /\ queue' \in Seq(Event) /\ capacity' \in Nat \ {0}
      /\ Len(queue') <= capacity'
  <2>1. CASE f = "queued"
    <3>1. queue' \in Seq(Event) /\ Len(queue') = Len(queue) + 1
      BY <1>1, <1>3, <1>4, <2>1, InsertType
    <3>2. capacity' = IF Len(queue) >= capacity THEN 2 * capacity ELSE capacity
      BY <1>4, <2>1 DEF Grown
    <3>3. Len(queue) <= capacity
      BY DEF Inv, QueueFits
    <3>4. capacity' \in Nat \ {0} /\ Len(queue) + 1 <= capacity'
      BY <1>3, <3>2, <3>3
    <3> QED BY <3>1, <3>4
  <2>2. CASE f # "queued"
    BY <1>3, <1>4, <2>2 DEF Inv, QueueFits
  <2> QED BY <2>1, <2>2
<1>6. TypeOK'
  <2>1. fate' \in [Ids -> Fates]
    BY <1>1, <1>3, <1>4 DEF Fates
  <2>2. nextId' \in 1 .. MaxEvents + 1
    BY <1>0, <1>3, EventsAssumption DEF Inv, TypeOK
  <2> QED BY <1>5, <1>u, <2>1, <2>2 DEF Inv, TypeOK
<1>7. QueueSorted'
  BY <1>1, <1>3, <1>4, InsertSorted DEF Inv, QueueSorted
<1>8. QueuePunctual'
  <2>1. CASE f = "queued"
    <3>1. \A i \in 1 .. Len(queue) + 1 :
            queue'[i] = e \/ \E j \in 1 .. Len(queue) : queue'[i] = queue[j]
      BY <1>1, <1>3, <1>4, <2>1, InsertRange
    <3>2. Len(queue') = Len(queue) + 1
      BY <1>1, <1>3, <1>4, <2>1, InsertType
    <3> QED BY <1>1, <1>u, <3>1, <3>2 DEF Inv, QueuePunctual
  <2>2. CASE f # "queued"
    BY <1>4, <1>u, <2>2 DEF Inv, QueuePunctual
  <2> QED BY <2>1, <2>2
<1>9. EventsConserved'
  <2>1. {queue'[i].id : i \in 1 .. Len(queue')} = {i \in Ids : fate'[i] = "queued"}
    <3>1. CASE f = "queued"
      <4>1. /\ \A i \in 1 .. Len(queue) + 1 :
                 queue'[i] = e \/ \E j \in 1 .. Len(queue) : queue'[i] = queue[j]
            /\ \A j \in 1 .. Len(queue) :
                 \E i \in 1 .. Len(queue) + 1 : queue'[i] = queue[j]
            /\ \E i \in 1 .. Len(queue) + 1 : queue'[i] = e
        <5>1. queue' = Insert(queue, e) /\ queue \in Seq(Event) /\ e \in Event
          BY <1>1, <1>3, <1>4, <3>1
        <5> QED BY <5>1, InsertRange
      <4>2. Len(queue') = Len(queue) + 1
        BY <1>1, <1>3, <1>4, <3>1, InsertType
      <4>3. {queue'[i].id : i \in 1 .. Len(queue')} =
              {queue[i].id : i \in 1 .. Len(queue)} \cup {nextId}
        <5>1. ASSUME NEW x \in {queue'[i].id : i \in 1 .. Len(queue')}
              PROVE  x \in {queue[i].id : i \in 1 .. Len(queue)} \cup {nextId}
          <6>1. PICK i \in 1 .. Len(queue) + 1 : x = queue'[i].id
            BY <4>2, <5>1
          <6> QED BY <1>1, <4>1, <6>1
        <5>2. ASSUME NEW j \in 1 .. Len(queue)
              PROVE  queue[j].id \in {queue'[i].id : i \in 1 .. Len(queue')}
          BY <4>1, <4>2
        <5>3. nextId \in {queue'[i].id : i \in 1 .. Len(queue')}
          BY <1>1, <4>1, <4>2
        <5> QED BY <5>1, <5>2, <5>3
      <4>4. {i \in Ids : fate'[i] = "queued"} =
              {i \in Ids : fate[i] = "queued"} \cup {nextId}
        BY <1>1, <1>3, <1>4, <3>1
      <4> QED BY <4>3, <4>4 DEF Inv, EventsConserved
    <3>2. CASE f # "queued"
      <4>1. {i \in Ids : fate'[i] = "queued"} = {i \in Ids : fate[i] = "queued"}
        BY <1>1, <1>3, <1>4, <3>2
      <4>2. {queue'[i].id : i \in 1 .. Len(queue')} =
              {queue[i].id : i \in 1 .. Len(queue)}
        BY <1>4, <3>2
      <4> QED BY <4>1, <4>2 DEF Inv, EventsConserved
    <3> QED BY <3>1, <3>2
  <2>2. {i \in Ids : fate'[i] = "running"} = {i \in Ids : fate[i] = "running"}
    BY <1>1, <1>3, <1>4
  <2>3. \A i \in Ids : fate'[i] = "unborn" <=> i >= nextId'
    <3> SUFFICES ASSUME NEW i \in Ids  PROVE fate'[i] = "unborn" <=> i >= nextId'
      OBVIOUS
    <3>1. i \in Nat
      BY DEF Ids
    <3>2. CASE i = nextId
      BY <1>0, <1>3, <1>4, <3>1, <3>2
    <3>3. CASE i # nextId
      BY <1>0, <1>3, <1>4, <3>1, <3>3 DEF Inv, EventsConserved
    <3> QED BY <3>2, <3>3
  <2>4. \A i, j \in 1 .. Len(queue') : queue'[i].id = queue'[j].id => i = j
    <3>1. CASE f = "queued"
      <4>1. queue' = Insert(queue, e) /\ Len(queue') = Len(queue) + 1
        BY <1>1, <1>3, <1>4, <3>1, InsertType
      <4>2. \A i \in 1 .. Len(queue) : queue[i].id # e.id
        <5>1. \A i \in 1 .. Len(queue) : queue[i] \in Event
          BY <1>3
        <5> QED BY <1>1, <1>3, <5>1, EventFields
      <4>3. \A i, j \in 1 .. Len(queue) : queue[i].id = queue[j].id => i = j
        BY DEF Inv, EventsConserved
      <4> QED BY <1>1, <1>3, <4>1, <4>2, <4>3, InsertDistinct
    <3>2. CASE f # "queued"
      BY <1>4, <3>2 DEF Inv, EventsConserved
    <3> QED BY <3>1, <3>2
  <2> QED BY <1>u, <2>1, <2>2, <2>3, <2>4 DEF Inv, EventsConserved
<1>10. OnTime' /\ ControlMatches'
  BY <1>u DEF Inv, OnTime, ControlMatches
<1> QED BY <1>5, <1>6, <1>7, <1>8, <1>9, <1>10 DEF Inv, QueueFits

(* scheduler_step up to the handler.                                       *)
LEMMA PopInv == ASSUME Inv, Pop PROVE Inv'
<1> DEFINE e == Head(queue)
<1>1. /\ queue \in Seq(Event) /\ queue # <<>> /\ at = "loop"
      /\ cur' = e /\ queue' = Tail(queue)
      /\ now' = IF e.ts > now THEN e.ts ELSE now
      /\ at' \in {"handler", "return"}
      /\ fate' = [fate EXCEPT ![e.id] = "running"]
      /\ UNCHANGED <<capacity, running, handlers, endTime, loop,
                     nextId, stepped, stopAsked>>
  BY DEF Inv, TypeOK, Pop
<1>2. /\ e \in Event /\ e = queue[1]
      /\ queue' \in Seq(Event) /\ Len(queue') = Len(queue) - 1 /\ Len(queue) \in Nat \ {0}
      /\ \A i \in 1 .. Len(queue) - 1 : queue'[i] = queue[i + 1]
  BY <1>1, TailEntries
<1> HIDE DEF e
<1>3. e.ts \in Times /\ e.ts \in Nat /\ e.born \in Nat /\ e.id \in Ids
  BY <1>2, EventFields
<1>4. now \in Times /\ now \in Nat /\ fate \in [Ids -> Fates] /\ capacity \in Nat
  BY TimeAssumption DEF Inv, TypeOK, Times
<1>5. cur = NoEvent
  BY <1>1 DEF Inv, ControlMatches
<1>6. cur' # NoEvent
  BY <1>1, <1>2, NoEventIsNone
<1>7. TypeOK'
  <2>1. fate' \in [Ids -> Fates] /\ now' \in Times
    BY <1>1, <1>3, <1>4 DEF Fates
  <2> QED BY <1>1, <1>2, <2>1 DEF Inv, TypeOK
<1>8. QueueSorted'
  BY <1>2 DEF Inv, QueueSorted, Sorted
<1>9. QueueFits'
  <2>1. Len(queue) <= capacity /\ capacity' = capacity
    BY <1>1 DEF Inv, QueueFits
  <2>2. Len(queue') <= capacity'
    BY <1>2, <1>4, <2>1
  <2> QED BY <2>2 DEF QueueFits
<1>10. EventsConserved'
  <2>1. \A i \in 2 .. Len(queue) : queue[i].id # e.id
    BY <1>2 DEF Inv, EventsConserved
  <2>2. \A i, j \in 1 .. Len(queue') : queue'[i].id = queue'[j].id => i = j
    <3> SUFFICES ASSUME NEW i \in 1 .. Len(queue'), NEW j \in 1 .. Len(queue'),
                        queue'[i].id = queue'[j].id
                 PROVE  i = j
      OBVIOUS
    <3>1. /\ i + 1 \in 1 .. Len(queue) /\ j + 1 \in 1 .. Len(queue)
          /\ queue[i + 1].id = queue[j + 1].id
      BY <1>2
    <3>2. i + 1 = j + 1
      BY <3>1 DEF Inv, EventsConserved
    <3> QED BY <3>2
  <2>3. {queue'[i].id : i \in 1 .. Len(queue')} =
          {queue[i].id : i \in 1 .. Len(queue)} \ {e.id}
    <3>1. ASSUME NEW i \in 1 .. Len(queue')
          PROVE  queue'[i].id \in {queue[j].id : j \in 1 .. Len(queue)} \ {e.id}
      <4>1. i + 1 \in 2 .. Len(queue) /\ queue'[i] = queue[i + 1]
        BY <1>2
      <4>2. i + 1 \in 1 .. Len(queue)
        BY <1>2
      <4> QED BY <2>1, <4>1, <4>2
    <3>2. ASSUME NEW j \in 1 .. Len(queue), queue[j].id # e.id
          PROVE  queue[j].id \in {queue'[i].id : i \in 1 .. Len(queue')}
      <4>1. j # 1
        BY <1>2, <3>2
      <4>2. j - 1 \in 1 .. Len(queue') /\ queue'[j - 1] = queue[(j - 1) + 1]
        BY <1>2, <4>1
      <4>3. (j - 1) + 1 = j
        OBVIOUS
      <4> QED BY <4>2, <4>3
    <3> QED BY <3>1, <3>2
  <2>4. fate[e.id] = "queued"
    <3>1. 1 \in 1 .. Len(queue)
      BY <1>2
    <3> QED BY <1>2, <3>1 DEF Inv, EventsConserved
  <2>5. {i \in Ids : fate'[i] = "queued"} = {i \in Ids : fate[i] = "queued"} \ {e.id}
    BY <1>1, <1>3, <1>4
  <2>6. {i \in Ids : fate'[i] = "running"} = {cur'.id}
    <3>1. {i \in Ids : fate[i] = "running"} = {}
      BY <1>5 DEF Inv, EventsConserved
    <3> QED BY <1>1, <1>3, <1>4, <3>1
  <2>7. \A i \in Ids : fate'[i] = "unborn" <=> i >= nextId'
    BY <1>1, <1>3, <1>4, <2>4 DEF Inv, EventsConserved
  <2> QED BY <1>6, <2>2, <2>3, <2>5, <2>6, <2>7 DEF Inv, EventsConserved
<1>11. e.ts >= e.born => e.ts >= now
  <2>1. 1 \in 1 .. Len(queue)
    BY <1>2
  <2> QED BY <1>2, <2>1 DEF Inv, QueuePunctual
<1>12. OnTime'
  BY <1>1, <1>3, <1>4, <1>11 DEF OnTime
<1>13. QueuePunctual'
  <2> SUFFICES ASSUME NEW i \in 1 .. Len(queue'), queue'[i].ts >= queue'[i].born
               PROVE  queue'[i].ts >= now'
    BY DEF QueuePunctual
  <2>1. i + 1 \in 1 .. Len(queue) /\ 1 \in 1 .. Len(queue) /\ 1 < i + 1
        /\ queue'[i] = queue[i + 1]
    BY <1>2
  <2>2. queue[i + 1].ts \in Nat
    <3>1. queue[i + 1] \in Event
      BY <1>1, <2>1
    <3> QED BY <3>1, EventFields
  <2>3. queue[i + 1].ts >= now
    BY <2>1 DEF Inv, QueuePunctual
  <2>4. Before(queue[1], queue[i + 1])
    BY <2>1 DEF Inv, QueueSorted, Sorted
  <2>5. queue[i + 1].ts >= e.ts
    BY <1>2, <1>3, <2>2, <2>4 DEF Before
  <2> QED BY <1>1, <1>3, <1>4, <2>1, <2>2, <2>3, <2>5
<1>14. ControlMatches'
  BY <1>1, <1>6 DEF Inv, ControlMatches
<1> QED BY <1>7, <1>8, <1>9, <1>10, <1>12, <1>13, <1>14 DEF Inv

(* scheduler_step after the handler, and the test of the run loop.         *)
LEMMA ReturnInv == ASSUME Inv, Return PROVE Inv'
<1>1. /\ at \in {"handler", "return"}
      /\ fate' = [fate EXCEPT ![cur.id] = "done"]
      /\ cur' = NoEvent
      /\ at' \in {"idle", "loop"}
      /\ loop' = (IF at' = "idle" THEN "none" ELSE loop)
      /\ stepped' = TRUE
      /\ UNCHANGED <<queue, capacity, now, handlers, endTime,
                     nextId, stopAsked>>
  BY DEF Return
<1>2. running' \in BOOLEAN
  <2>1. running' = running \/ running' = ~LoopEnds
    BY DEF Return, RunningAfter
  <2>2. running \in BOOLEAN
    BY DEF Inv, TypeOK
  <2> QED BY <2>1, <2>2, Zenon
<1>3. cur # NoEvent /\ cur \in Event
  BY <1>1 DEF Inv, ControlMatches, TypeOK
<1>4. cur.id \in Ids /\ fate \in [Ids -> Fates] /\ fate[cur.id] = "running"
  <2>1. cur.id \in Ids
    BY <1>3, EventFields
  <2>2. {i \in Ids : fate[i] = "running"} = {cur.id}
    BY <1>3 DEF Inv, EventsConserved
  <2> QED BY <2>1, <2>2 DEF Inv, TypeOK
<1>5. TypeOK'
  <2>1. fate' \in [Ids -> Fates]
    BY <1>1, <1>4 DEF Fates
  <2>2. at' \in {"idle", "loop", "handler", "return", "freed"}
        /\ loop' \in {"none", "step", "sched", "sim"}
    BY <1>1 DEF Inv, TypeOK
  <2>3. stepped' \in BOOLEAN
    BY <1>1, Zenon
  <2> QED BY <1>1, <1>2, <2>1, <2>2, <2>3 DEF Inv, TypeOK
<1>6. EventsConserved'
  <2>1. {i \in Ids : fate'[i] = "queued"} = {i \in Ids : fate[i] = "queued"}
    BY <1>1, <1>4
  <2>2. {i \in Ids : fate'[i] = "running"} = {}
    <3>1. {i \in Ids : fate[i] = "running"} = {cur.id}
      BY <1>3 DEF Inv, EventsConserved
    <3> QED BY <1>1, <1>4, <3>1
  <2>3. \A i \in Ids : fate'[i] = "unborn" <=> i >= nextId'
    BY <1>1, <1>4 DEF Inv, EventsConserved
  <2> QED BY <1>1, <2>1, <2>2, <2>3 DEF Inv, EventsConserved
<1>7. QueueSorted' /\ QueueFits' /\ QueuePunctual'
  BY <1>1 DEF Inv, QueueSorted, QueueFits, QueuePunctual
<1>8. OnTime'
  BY <1>1 DEF OnTime
<1>9. ControlMatches'
  BY <1>1 DEF Inv, ControlMatches
<1> QED BY <1>5, <1>6, <1>7, <1>8, <1>9 DEF Inv

(* simulator_free.                                                         *)
LEMMA FreeInv == ASSUME Inv, Free PROVE Inv'
<1>1. /\ at = "idle" /\ at' = "freed" /\ queue' = <<>>
      /\ fate' = [i \in Ids |-> IF fate[i] = "queued" THEN "drained" ELSE fate[i]]
      /\ UNCHANGED <<capacity, now, running, handlers, endTime, loop, cur,
                     nextId, stepped, stopAsked>>
  BY DEF Free
<1>2. queue' \in Seq(Event) /\ Len(queue') = 0
  BY <1>1
<1>3. fate \in [Ids -> Fates] /\ capacity \in Nat
  BY DEF Inv, TypeOK
<1>4. TypeOK'
  <2>1. fate' \in [Ids -> Fates]
    BY <1>1, <1>3 DEF Fates
  <2> QED BY <1>1, <1>2, <2>1 DEF Inv, TypeOK
<1>5. EventsConserved'
  <2>1. {i \in Ids : fate'[i] = "queued"} = {}
    BY <1>1
  <2>2. {i \in Ids : fate'[i] = "running"} = {i \in Ids : fate[i] = "running"}
    BY <1>1
  <2>3. \A i \in Ids : fate'[i] = "unborn" <=> i >= nextId'
    BY <1>1 DEF Inv, EventsConserved
  <2>4. {queue'[i].id : i \in 1 .. Len(queue')} = {}
    BY <1>2
  <2> QED BY <1>1, <1>2, <2>1, <2>2, <2>3, <2>4 DEF Inv, EventsConserved
<1>6. QueueSorted' /\ QueueFits' /\ QueuePunctual'
  BY <1>1, <1>2, <1>3 DEF QueueSorted, Sorted, QueueFits, QueuePunctual
<1>7. OnTime' /\ ControlMatches'
  BY <1>1 DEF Inv, OnTime, ControlMatches
<1> QED BY <1>4, <1>5, <1>6, <1>7 DEF Inv

(* The operations that touch neither the queue nor the events.             *)
LEMMA ControlInv ==
  ASSUME Inv,
         \/ \E type \in Types, fn \in BOOLEAN : Register(type, fn)
         \/ Stop
         \/ \E t \in Times : SetEndTime(t)
         \/ \E kind \in {"step", "sched", "sim"} : Enter(kind)
         \/ Exhausted
  PROVE  Inv'
<1>1. UNCHANGED <<queue, capacity, now, cur, fate, nextId>>
  BY DEF Register, Stop, SetEndTime, Enter, Exhausted, history
<1>2. TypeOK' /\ ControlMatches'
  <2>0. /\ running \in BOOLEAN /\ stepped \in BOOLEAN /\ stopAsked \in BOOLEAN
        /\ handlers \in [Types -> BOOLEAN]
    BY DEF Inv, TypeOK
  <2>1. ASSUME NEW type \in Types, NEW fn \in BOOLEAN, Register(type, fn)
        PROVE  TypeOK' /\ ControlMatches'
    <3>1. handlers' \in [Types -> BOOLEAN]
      BY <2>0, <2>1 DEF Register
    <3> QED BY <1>1, <2>1, <3>1 DEF Register, history, Inv, TypeOK, ControlMatches
  <2>2. CASE Stop
    <3>1. running' \in BOOLEAN /\ stopAsked' \in BOOLEAN
      BY <2>2, Zenon DEF Stop
    <3> QED BY <1>1, <2>2, <3>1 DEF Stop, Inv, TypeOK, ControlMatches
  <2>3. ASSUME NEW t \in Times, SetEndTime(t)
        PROVE  TypeOK' /\ ControlMatches'
    BY <1>1, <2>3 DEF SetEndTime, history, Inv, TypeOK, ControlMatches
  <2>4. ASSUME NEW kind \in {"step", "sched", "sim"}, Enter(kind)
        PROVE  TypeOK' /\ ControlMatches'
    <3>1. running' \in BOOLEAN /\ stepped' \in BOOLEAN /\ stopAsked' \in BOOLEAN
      BY <2>0, <2>4, Zenon DEF Enter
    <3>2. at = "idle" /\ at' = "loop" /\ loop' = kind /\ handlers' = handlers
          /\ endTime' = endTime
      BY <2>4 DEF Enter
    <3> QED BY <1>1, <3>1, <3>2 DEF Inv, TypeOK, ControlMatches
  <2>5. CASE Exhausted
    <3>1. running' \in BOOLEAN
      BY <2>0, <2>5, Zenon DEF Exhausted, RunningAfter
    <3>2. at = "loop" /\ at' = "idle" /\ loop' = "none" /\ handlers' = handlers
          /\ endTime' = endTime /\ UNCHANGED <<stepped, stopAsked>>
      BY <2>5 DEF Exhausted, history
    <3> QED BY <1>1, <3>1, <3>2 DEF Inv, TypeOK, ControlMatches
  <2> QED BY <2>1, <2>2, <2>3, <2>4, <2>5
<1>3. QueueSorted' /\ QueueFits' /\ QueuePunctual' /\ EventsConserved' /\ OnTime'
  <2>1. capacity' = capacity /\ queue' = queue /\ now' = now /\ cur' = cur
        /\ fate' = fate /\ nextId' = nextId
    BY <1>1
  <2> QED BY <2>1 DEF Inv, QueueSorted, QueueFits, QueuePunctual, EventsConserved, OnTime
<1> QED BY <1>2, <1>3 DEF Inv

(* Every step of the engine preserves the invariant.                       *)
LEMMA NextInv == Inv /\ [Next]_vars => Inv'
<1> SUFFICES ASSUME Inv, [Next]_vars PROVE Inv'
  OBVIOUS
<1>1. ASSUME NEW type \in Types, NEW ts \in Times, NEW cb \in BOOLEAN,
             Schedule(type, ts, cb)
      PROVE  Inv'
  BY <1>1, CreatesInv DEF Schedule
<1>2. ASSUME NEW delay \in Times, Inject(delay)
      PROVE  Inv'
  <2>1. (now + delay) % TimeMod \in Times
    BY TimeAssumption DEF Inv, TypeOK, Times
  <2> QED BY <1>2, <2>1, CreatesInv, TypesAssumption DEF Inject
<1>3. CASE \E type \in Types, fn \in BOOLEAN : Register(type, fn)
  BY <1>3, ControlInv
<1>4. CASE Stop
  BY <1>4, ControlInv
<1>5. CASE \E t \in Times : SetEndTime(t)
  BY <1>5, ControlInv
<1>6. CASE \E kind \in {"step", "sched", "sim"} : Enter(kind)
  BY <1>6, ControlInv
<1>7. CASE Pop
  BY <1>7, PopInv
<1>8. CASE Return
  BY <1>8, ReturnInv
<1>9. CASE Exhausted
  BY <1>9, ControlInv
<1>10. CASE Free
  BY <1>10, FreeInv
<1>11. CASE UNCHANGED vars
  BY <1>11 DEF vars, engine, history, Inv, TypeOK, QueueSorted, QueueFits,
     EventsConserved, OnTime, QueuePunctual, ControlMatches
<1> QED BY <1>1, <1>2, <1>3, <1>4, <1>5, <1>6, <1>7, <1>8, <1>9, <1>10, <1>11
        DEF Next, Operation, Dispatch

-----------------------------------------------------------------------------
(* The theorems.                                                           *)

(* The inductive invariant holds throughout every behaviour.               *)
THEOREM Invariance == Spec => []Inv
<1>1. Init => Inv
  BY InitInv
<1>2. Inv /\ [Next]_vars => Inv'
  BY NextInv
<1> QED BY <1>1, <1>2, PTL DEF Spec

(* Every variable keeps its type: in particular the timestamp of an        *)
(* injected packet stays within the width of the clock.                    *)
THEOREM TypeCorrect == Spec => []TypeOK
<1>1. Inv => TypeOK
  BY DEF Inv
<1> QED BY <1>1, Invariance, PTL

(* event_queue_push keeps the array in dispatch order, for every number of *)
(* events and although no event is ever given a sequence number.           *)
THEOREM AlwaysSorted == Spec => []QueueSorted
<1>1. Inv => QueueSorted
  BY DEF Inv
<1> QED BY <1>1, Invariance, PTL

(* event_queue_push never stores past the end of its array, however the    *)
(* pushes, pops and failed reallocations are ordered.                      *)
THEOREM NeverOverflows == Spec => []QueueFits
<1>1. Inv => QueueFits
  BY DEF Inv
<1> QED BY <1>1, Invariance, PTL

(* The shifts of push and pop lose and duplicate no event.                 *)
THEOREM NothingLost == Spec => []EventsConserved
<1>1. Inv => EventsConserved
  BY DEF Inv
<1> QED BY <1>1, Invariance, PTL

(* scheduler_step dispatches an event that was not scheduled in the past   *)
(* with the clock at its timestamp.                                        *)
THEOREM DispatchedOnTime == Spec => []OnTime
<1>1. Inv => OnTime
  BY DEF Inv
<1> QED BY <1>1, Invariance, PTL

-----------------------------------------------------------------------------
(* What ends a run.                                                        *)

(* A run that is about to step again has not been stopped, and one that    *)
(* was stopped in its handler has running cleared; a simulator_run that is *)
(* about to step again has not reached its end time.                       *)
RunInv ==
  /\ at = "loop" => ~stopAsked
  /\ at \in {"handler", "return"} /\ stopAsked => ~running
  /\ at = "loop" /\ loop = "sim" /\ stepped => endTime = 0 \/ now < endTime

(* A loop that is active has been neither stopped nor brought to its end   *)
(* time.                                                                   *)
LEMMA RunInvariance == Spec => []RunInv
<1>1. Init => RunInv
  BY DEF Init, RunInv
<1>2. Inv /\ RunInv /\ [Next]_vars => RunInv'
  <2> SUFFICES ASSUME Inv, RunInv, [Next]_vars PROVE RunInv'
    OBVIOUS
  <2>1. CASE \/ \E type \in Types, ts \in Times, cb \in BOOLEAN : Schedule(type, ts, cb)
             \/ \E delay \in Times : Inject(delay)
             \/ \E type \in Types, fn \in BOOLEAN : Register(type, fn)
             \/ UNCHANGED vars
    <3>1. UNCHANGED <<at, loop, running, stopAsked, stepped, endTime, now>>
      BY <2>1 DEF Schedule, Inject, Creates, Register, vars, engine, history
    <3> QED BY <3>1 DEF RunInv
  <2>2. CASE Stop
    BY <2>2 DEF Stop, CallAllowed, RunInv
  <2>3. CASE \E t \in Times : SetEndTime(t)
    BY <2>3 DEF SetEndTime, CallAllowed, history, RunInv
  <2>4. CASE \E kind \in {"step", "sched", "sim"} : Enter(kind)
    BY <2>4 DEF Enter, RunInv
  <2>5. CASE Pop
    BY <2>5 DEF Pop, RunInv
  <2>6. CASE Return
    <3>1. /\ at \in {"handler", "return"} /\ loop \in {"step", "sched", "sim"}
          /\ at' = IF LoopEnds THEN "idle" ELSE "loop"
          /\ loop' = IF LoopEnds THEN "none" ELSE loop
          /\ UNCHANGED <<now, endTime, stopAsked>>
      BY <2>6 DEF Return, Inv, ControlMatches
    <3>2. CASE LoopEnds
      BY <3>1, <3>2 DEF RunInv
    <3>3. CASE ~LoopEnds
      <4>1. running /\ loop # "step"
        BY <3>1, <3>3 DEF LoopEnds
      <4>2. ~stopAsked'
        BY <3>1, <4>1 DEF RunInv
      <4>3. loop = "sim" => ~(endTime > 0 /\ now >= endTime)
        BY <3>1, <3>3 DEF LoopEnds
      <4>4. now \in Nat /\ endTime \in Nat
        BY TimeAssumption DEF Inv, TypeOK, Times
      <4>5. loop' = "sim" => endTime' = 0 \/ now' < endTime'
        BY <3>1, <3>3, <4>3, <4>4
      <4>6. at' = "loop"
        BY <3>1, <3>3
      <4> QED BY <4>2, <4>5, <4>6 DEF RunInv
    <3> QED BY <3>2, <3>3
  <2>7. CASE Exhausted
    BY <2>7 DEF Exhausted, RunInv
  <2>8. CASE Free
    BY <2>8 DEF Free, RunInv
  <2> QED BY <2>1, <2>2, <2>3, <2>4, <2>5, <2>6, <2>7, <2>8
          DEF Next, Operation, Dispatch
<1> QED BY <1>1, <1>2, Invariance, PTL DEF Spec

(* After scheduler_stop the run that called the handler pops nothing more. *)
THEOREM StopEndsRun == Spec => StopHonoured
<1>1. RunInv /\ [Next]_vars => [Pop => ~stopAsked]_vars
  BY DEF RunInv, Pop
<1> QED BY <1>1, RunInvariance, PTL DEF Spec, StopHonoured

(* simulator_run pops nothing more once a step of it has brought the clock *)
(* to a non-zero end time, whenever that end time was set.                 *)
THEOREM EndTimeEndsRun == Spec => EndTimeHonoured
<1>1. RunInv /\ [Next]_vars =>
        [Pop /\ loop = "sim" /\ stepped => endTime = 0 \/ now < endTime]_vars
  BY DEF RunInv, Pop
<1> QED BY <1>1, RunInvariance, PTL DEF Spec, EndTimeHonoured

-----------------------------------------------------------------------------
(* The engine implements the abstract event order.                         *)

Key(e) == [id |-> e.id, ts |-> e.ts]

Keys(q) == {[id |-> q[i].id, ts |-> q[i].ts] : i \in 1 .. Len(q)}

(* Seen as a set of keys, an insertion adds one.                           *)
LEMMA KeysInsert ==
  ASSUME NEW q \in Seq(Event), NEW e \in Event
  PROVE  Keys(Insert(q, e)) = Keys(q) \cup {Key(e)}
<1> DEFINE r == Insert(q, e)
<1>1. /\ \A i \in 1 .. Len(q) + 1 : r[i] = e \/ \E j \in 1 .. Len(q) : r[i] = q[j]
      /\ \A j \in 1 .. Len(q) : \E i \in 1 .. Len(q) + 1 : r[i] = q[j]
      /\ \E i \in 1 .. Len(q) + 1 : r[i] = e
  BY InsertRange
<1>2. Len(r) = Len(q) + 1
  BY InsertType
<1> HIDE DEF r
<1>3. ASSUME NEW i \in 1 .. Len(r)  PROVE Key(r[i]) \in Keys(q) \cup {Key(e)}
  BY <1>1, <1>2 DEF Key, Keys
<1>4. ASSUME NEW j \in 1 .. Len(q)  PROVE Key(q[j]) \in Keys(r)
  BY <1>1, <1>2 DEF Key, Keys
<1>5. Key(e) \in Keys(r)
  BY <1>1, <1>2 DEF Key, Keys
<1>6. Keys(r) \subseteq Keys(q) \cup {Key(e)}
  BY <1>3 DEF Keys, Key
<1>7. Keys(q) \subseteq Keys(r)
  BY <1>4 DEF Keys, Key
<1> QED BY <1>5, <1>6, <1>7 DEF r

(* Seen as a set of keys, a pop removes the first entry's.                 *)
LEMMA KeysTail ==
  ASSUME NEW q \in Seq(Event), q # <<>>, Sorted(q),
         \A i, j \in 1 .. Len(q) : q[i].id = q[j].id => i = j
  PROVE  /\ Key(q[1]) \in Keys(q)
         /\ Keys(Tail(q)) = Keys(q) \ {Key(q[1])}
         /\ \A f \in Keys(q) \ {Key(q[1])} :
              q[1].ts < f.ts \/ (q[1].ts = f.ts /\ q[1].id < f.id)
<1>1. /\ Len(Tail(q)) = Len(q) - 1 /\ Len(q) \in Nat \ {0}
      /\ \A i \in 1 .. Len(q) - 1 : Tail(q)[i] = q[i + 1]
  BY TailEntries
<1>2. 1 \in 1 .. Len(q)
  BY <1>1
<1>3. ASSUME NEW i \in 1 .. Len(Tail(q))
      PROVE  Key(Tail(q)[i]) \in Keys(q) \ {Key(q[1])}
  <2>1. i + 1 \in 1 .. Len(q) /\ Tail(q)[i] = q[i + 1] /\ i + 1 # 1
    BY <1>1
  <2>2. q[i + 1].id # q[1].id
    BY <1>2, <2>1
  <2>3. Key(q[i + 1]).id # Key(q[1]).id
    BY <2>2 DEF Key
  <2> QED BY <2>1, <2>3 DEF Keys, Key
<1>4. ASSUME NEW j \in 1 .. Len(q), j # 1
      PROVE  /\ Key(q[j]) \in Keys(Tail(q))
             /\ Before(q[1], q[j])
  <2>1. /\ j - 1 \in 1 .. Len(Tail(q)) /\ Tail(q)[j - 1] = q[(j - 1) + 1]
        /\ (j - 1) + 1 = j /\ 1 < j
    BY <1>1, <1>4
  <2>2. Tail(q)[j - 1] = q[j]
    BY <2>1
  <2>3. Before(q[1], q[j])
    BY <1>2, <2>1 DEF Sorted
  <2> QED BY <2>1, <2>2, <2>3 DEF Keys, Key
<1>5. Key(q[1]) \in Keys(q)
  BY <1>2 DEF Keys, Key
<1>6. Keys(Tail(q)) \subseteq Keys(q) \ {Key(q[1])}
  BY <1>3 DEF Keys, Key
<1>7. ASSUME NEW f \in Keys(q) \ {Key(q[1])}
      PROVE  f \in Keys(Tail(q)) /\ (q[1].ts < f.ts \/ (q[1].ts = f.ts /\ q[1].id < f.id))
  <2>1. PICK j \in 1 .. Len(q) : f = Key(q[j])
    BY DEF Keys, Key
  <2>2. j # 1
    BY <1>7, <2>1
  <2>3. f.ts = q[j].ts /\ f.id = q[j].id
    BY <2>1 DEF Key
  <2> QED BY <1>4, <2>1, <2>2, <2>3 DEF Before
<1> QED BY <1>5, <1>6, <1>7

(* The array, the clock and the control of the engine implement the        *)
(* abstract order in which the pending events are a set and the least one  *)
(* fires.                                                                  *)
THEOREM Refinement == Spec => RefinesEventOrder
<1>1. Init => Abstract!Init
  BY NoEventIsNone DEF Init, Abstract!Init
<1>2. Inv /\ Inv' /\ [Next]_vars => [Abstract!Next]_(Abstract!vars)
  <2> SUFFICES ASSUME Inv, Inv', [Next]_vars
               PROVE  Abstract!Next \/ UNCHANGED Abstract!vars
    BY DEF Abstract!vars
  <2>0. nextId \in Nat \ {0} /\ queue \in Seq(Event)
    BY DEF Inv, TypeOK
  <2>1. ASSUME NEW type \in Types, NEW ts \in Times, NEW cb \in BOOLEAN,
               NEW onFailure \in {"rejected", "leaked"},
               Creates(type, ts, cb, onFailure)
        PROVE  Abstract!Add
    <3> DEFINE e == NewEvent(type, ts, cb)
    <3>1. /\ nextId <= MaxEvents /\ nextId' = nextId + 1
          /\ now' = now /\ cur' = cur
          /\ queue' = Insert(queue, e) \/ queue' = queue
      BY <2>1 DEF Creates, EventQueuePush
    <3>2. e \in Event /\ Key(e) = [id |-> nextId, ts |-> ts]
      BY <2>1, <3>1, NewEventType DEF Key, NewEvent
    <3> HIDE DEF e
    <3>3. nextId - 1 < MaxEvents /\ nextId' - 1 = (nextId - 1) + 1
          /\ (nextId - 1) + 1 = nextId
      BY <2>0, <3>1, EventsAssumption
    <3>4. \/ Keys(queue') = Keys(queue) \cup {[id |-> (nextId - 1) + 1, ts |-> ts]}
          \/ Keys(queue') = Keys(queue)
      BY <2>0, <3>1, <3>2, <3>3, KeysInsert
    <3> QED BY <3>1, <3>3, <3>4 DEF Abstract!Add, Keys
  <2>2. CASE \E type \in Types, ts \in Times, cb \in BOOLEAN : Schedule(type, ts, cb)
    BY <2>1, <2>2 DEF Schedule, Abstract!Next
  <2>3. ASSUME NEW delay \in Times, Inject(delay)  PROVE Abstract!Add
    <3>1. (now + delay) % TimeMod \in Times
      BY TimeAssumption DEF Inv, TypeOK, Times
    <3> QED BY <2>1, <2>3, <3>1, TypesAssumption DEF Inject
  <2>4. CASE UNCHANGED <<queue, now, cur, nextId>>
    BY <2>4 DEF Abstract!vars
  <2>5. CASE Pop
    <3>1. /\ at = "loop" /\ queue # <<>> /\ cur' = Head(queue) /\ queue' = Tail(queue)
          /\ now' = IF cur'.ts > now THEN cur'.ts ELSE now
          /\ nextId' = nextId
      BY <2>5 DEF Pop
    <3>2. Head(queue) = queue[1]
      BY <2>0, <3>1, TailEntries
    <3>3. /\ Key(queue[1]) \in Keys(queue)
          /\ Keys(queue') = Keys(queue) \ {Key(queue[1])}
          /\ \A f \in Keys(queue) \ {Key(queue[1])} :
               queue[1].ts < f.ts \/ (queue[1].ts = f.ts /\ queue[1].id < f.id)
      <4>1. Sorted(queue) /\ \A i, j \in 1 .. Len(queue) : queue[i].id = queue[j].id => i = j
        BY DEF Inv, QueueSorted, EventsConserved
      <4> QED BY <2>0, <3>1, <4>1, KeysTail
    <3>4. cur.id = 0
      BY <3>1, NoEventIsNone DEF Inv, ControlMatches
    <3> DEFINE k == Key(queue[1])
    <3>5. k.id = cur'.id /\ k.ts = cur'.ts
      BY <3>1, <3>2 DEF Key
    <3>6. /\ k \in Keys(queue)
          /\ \A f \in Keys(queue) \ {k} : Abstract!Precedes(k, f)
          /\ Keys(queue') = Keys(queue) \ {k}
      BY <3>1, <3>2, <3>3, <3>5 DEF Abstract!Precedes
    <3> HIDE DEF k
    <3>7. Abstract!Fire
      BY <3>1, <3>4, <3>5, <3>6 DEF Abstract!Fire, Keys
    <3> QED BY <3>7 DEF Abstract!Next
  <2>6. CASE Return
    <3>1. cur \in Event
      BY <2>6 DEF Return, Inv, ControlMatches, TypeOK
    <3>2. cur.id # 0
      BY <3>1, EventFields
    <3> QED BY <2>6, <3>2, NoEventIsNone DEF Return, Abstract!Fired, Abstract!Next
  <2>7. CASE Free
    <3>1. cur.id = 0 /\ Len(queue') = 0
      BY <2>7, NoEventIsNone DEF Free, Inv, ControlMatches
    <3> QED BY <2>7, <3>1 DEF Free, Abstract!Discard, Abstract!Next
  <2>8. CASE \/ \E type \in Types, fn \in BOOLEAN : Register(type, fn)
             \/ Stop
             \/ \E t \in Times : SetEndTime(t)
             \/ \E kind \in {"step", "sched", "sim"} : Enter(kind)
             \/ Exhausted
             \/ UNCHANGED vars
    BY <2>4, <2>8 DEF Register, Stop, SetEndTime, Enter, Exhausted, vars, engine, history
  <2> QED BY <2>2, <2>3, <2>5, <2>6, <2>7, <2>8
          DEF Next, Operation, Dispatch, Abstract!Next
<1> QED BY <1>1, <1>2, Invariance, PTL DEF Spec, RefinesEventOrder, Abstract!Spec

=============================================================================
