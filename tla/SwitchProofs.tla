---------------------------- MODULE SwitchProofs ----------------------------
(***************************************************************************)
(* Proofs about the MAC tables of the switches, for every network of       *)
(* switches and stations, every table size, both ageing periods and all    *)
(* traffic.                                                                *)
(***************************************************************************)
EXTENDS Switch, InductionLemmas, FiniteSetTheorems

(* The first of a non-empty set of slots is one of them.                   *)
LEMMA FirstSlot ==
  ASSUME NEW S \in SUBSET Slots, S # {}
  PROVE  First(S) \in S
<1>1. S \in SUBSET Nat
  BY SwitchSizesAssumption DEF Slots
<1>2. \E x \in S : \A y \in S : x <= y
  BY <1>1, NatMin
<1> QED BY <1>2 DEF First

(* Sets of slots are finite, and so are their cardinalities.               *)
LEMMA SlotSets ==
  ASSUME NEW S \in SUBSET Slots
  PROVE  IsFiniteSet(S) /\ Cardinality(S) \in 0 .. TableSize
<1>1. IsFiniteSet(Slots) /\ Cardinality(Slots) = TableSize
  BY SwitchSizesAssumption, FS_Interval DEF Slots
<1>2. IsFiniteSet(S) /\ Cardinality(S) <= TableSize
  BY <1>1, FS_Subset
<1> QED BY <1>2, FS_CardinalityType

-----------------------------------------------------------------------------
(* The inductive invariant.                                                *)

(* The time an entry may still grow older is the time to the next scan.    *)
AgedInTime ==
  \A s \in Switches : \A k \in Valid(s) :
    entries[s][k].age + timer[s] <= MacAge + AgeInterval

(* A switch only ever learns its own ports, so that taking one down        *)
(* concerns no other switch's table.                                       *)
OwnPorts == \A s \in Switches : \A k \in Valid(s) : Home[entries[s][k].port] = s

Inv == TypeOK /\ TableExact /\ NothingBehindDownPort /\ OwnPorts /\ AgedInTime

(* What a step that only learns or removes must show of the tables.        *)
LEMMA EntryType ==
  ASSUME TypeOK, NEW s \in Switches, NEW k \in Valid(s)
  PROVE  k \in Slots /\ entries[s][k] \in Entry
BY DEF TypeOK, Valid

(* The parts of TypeOK that concern the tables, and the others.            *)
TablesType ==
  /\ entries \in [Switches -> [Slots -> Entry \cup {Invalid}]]
  /\ count \in [Switches -> 0 .. TableSize]

WireType == wire \in [Ifaces -> Seq(Frame)]

(* mac_table_learn keeps the tables sound when its port is up.             *)
LEMMA LearnKeeps ==
  ASSUME Inv, NEW s \in Switches, NEW mac \in Ifaces, NEW port \in Ports, port \in up, Home[port] = s,
         LearnSlot(s, mac) # {}, Learn(s, mac, port), UNCHANGED <<timer, up>>
  PROVE  TablesType' /\ TableExact' /\ NothingBehindDownPort' /\ OwnPorts' /\ AgedInTime'
<1> DEFINE k == First(LearnSlot(s, mac))
           e == [mac |-> mac, port |-> port, age |-> 0]
<1>1. LearnSlot(s, mac) \in SUBSET Slots
  BY DEF LearnSlot, Valid
<1>2. k \in LearnSlot(s, mac) /\ k \in Slots
  BY <1>1, FirstSlot
<1>3. \/ k \in Valid(s) /\ entries[s][k].mac = mac
      \/ k \notin Valid(s) /\ \A l \in Valid(s) : entries[s][l].mac # mac
  BY <1>2 DEF LearnSlot
<1>4. /\ entries' = [entries EXCEPT ![s][k] = e]
      /\ count' = [count EXCEPT ![s] = IF k \in Valid(s) THEN @ ELSE @ + 1]
  BY DEF Learn
<1> HIDE DEF k
<1>5. e \in Entry /\ e # Invalid
  <2>1. e \in Entry
    BY SwitchSizesAssumption DEF Entry
  <2>2. e # Invalid
    <3> SUFFICES ASSUME e = Invalid PROVE FALSE
      OBVIOUS
    <3>1. DOMAIN e = {"mac", "port", "age"} /\ DOMAIN Invalid = {"port"}
      BY DEF Invalid
    <3> QED BY <3>1
  <2> QED BY <2>1, <2>2
<1>6. /\ entries' \in [Switches -> [Slots -> Entry \cup {Invalid}]]
      /\ entries'[s][k] = e
      /\ \A q \in Switches, l \in Slots :
           ~(q = s /\ l = k) => entries'[q][l] = entries[q][l]
  BY <1>2, <1>4, <1>5 DEF Inv, TypeOK
<1> HIDE DEF e
<1>7. /\ Valid(s)' = Valid(s) \cup {k}
      /\ \A q \in Switches \ {s} : Valid(q)' = Valid(q)
  BY <1>2, <1>5, <1>6 DEF Valid
<1>8. \A q \in Switches : Valid(q) \in SUBSET Slots /\ Valid(q)' \in SUBSET Slots
  BY DEF Valid
<1>9. \A q \in Switches : count'[q] = Cardinality(Valid(q)')
  <2> SUFFICES ASSUME NEW q \in Switches PROVE count'[q] = Cardinality(Valid(q)')
    OBVIOUS
  <2>1. CASE q = s
    <3>1. IsFiniteSet(Valid(s))
      BY <1>8, SlotSets
    <3>2. Cardinality(Valid(s) \cup {k})
            = IF k \in Valid(s) THEN Cardinality(Valid(s)) ELSE Cardinality(Valid(s)) + 1
      BY <3>1, FS_AddElement
    <3>3. count[s] = Cardinality(Valid(s))
      BY DEF Inv, TableExact
    <3> QED BY <1>4, <1>7, <2>1, <3>2, <3>3 DEF Inv, TypeOK
  <2>2. CASE q # s
    BY <1>4, <1>7, <2>2 DEF Inv, TypeOK, TableExact
  <2> QED BY <2>1, <2>2
<1>10. TablesType'
  <2>1. \A q \in Switches : Cardinality(Valid(q)') \in 0 .. TableSize
    BY <1>8, SlotSets
  <2>2. DOMAIN count' = Switches /\ count' = [q \in Switches |-> count'[q]]
    BY <1>4 DEF Inv, TypeOK
  <2>3. count' \in [Switches -> 0 .. TableSize]
    BY <1>9, <2>1, <2>2
  <2> QED BY <1>6, <2>3 DEF TablesType
<1>11. TableExact'
  <2>1. ASSUME NEW q \in Switches, NEW l \in Valid(q)', NEW m \in Valid(q)',
               entries'[q][l].mac = entries'[q][m].mac
        PROVE  l = m
    <3>1. l \in Slots /\ m \in Slots
      BY <1>8
    <3>2. CASE q # s
      BY <1>6, <1>7, <2>1, <3>1, <3>2 DEF Inv, TableExact
    <3>3. CASE q = s /\ l # k /\ m # k
      BY <1>6, <1>7, <2>1, <3>1, <3>3 DEF Inv, TableExact
    <3>4. CASE q = s /\ l = k /\ m # k
      <4>1. m \in Valid(s) /\ entries[s][m].mac = mac
        BY <1>6, <1>7, <2>1, <3>1, <3>4 DEF e
      <4> QED BY <1>3, <3>4, <4>1 DEF Inv, TableExact
    <3>5. CASE q = s /\ m = k /\ l # k
      <4>1. l \in Valid(s) /\ entries[s][l].mac = mac
        BY <1>6, <1>7, <2>1, <3>1, <3>5 DEF e
      <4> QED BY <1>3, <3>5, <4>1 DEF Inv, TableExact
    <3> QED BY <3>2, <3>3, <3>4, <3>5
  <2> QED BY <1>9, <2>1 DEF TableExact
<1>12. NothingBehindDownPort' /\ OwnPorts'
  BY <1>6, <1>7, <1>8 DEF NothingBehindDownPort, OwnPorts, Inv, e
<1>13. AgedInTime'
  <2> SUFFICES ASSUME NEW q \in Switches, NEW l \in Valid(q)'
               PROVE  entries'[q][l].age + timer'[q] <= MacAge + AgeInterval
    BY DEF AgedInTime
  <2>1. CASE q = s /\ l = k
    <3>1. entries'[q][l].age = 0
      BY <1>6, <2>1 DEF e
    <3>2. timer'[q] \in 0 .. AgeInterval
      BY DEF Inv, TypeOK
    <3> QED BY <3>1, <3>2, SwitchSizesAssumption
  <2>2. CASE ~(q = s /\ l = k)
    BY <1>6, <1>7, <1>8, <2>2 DEF AgedInTime, Inv
  <2> QED BY <2>1, <2>2
<1> QED BY <1>10, <1>11, <1>12, <1>13

(* Ageing and flushing keep what they do not take.                         *)
LEMMA RemovedKeeps ==
  ASSUME Inv, NEW s \in Switches, NEW old \in SUBSET Valid(s), Removed(s, old)
  PROVE  /\ TablesType' /\ TableExact'
         /\ Valid(s)' = Valid(s) \ old
         /\ \A q \in Switches \ {s} : Valid(q)' = Valid(q)
         /\ \A q \in Switches : \A k \in Valid(q)' : entries'[q][k] = entries[q][k]
<1>1. /\ entries' = [entries EXCEPT ![s] =
                       [k \in Slots |-> IF k \in old THEN Invalid ELSE @[k]]]
      /\ count' = [count EXCEPT ![s] = @ - Cardinality(old)]
  BY DEF Removed
<1>2. /\ entries' \in [Switches -> [Slots -> Entry \cup {Invalid}]]
      /\ \A k \in Slots : entries'[s][k] = IF k \in old THEN Invalid ELSE entries[s][k]
      /\ \A q \in Switches \ {s} : entries'[q] = entries[q]
  BY <1>1 DEF Inv, TypeOK
<1>3. /\ Valid(s)' = Valid(s) \ old
      /\ \A q \in Switches \ {s} : Valid(q)' = Valid(q)
  BY <1>2 DEF Valid
<1>4. \A q \in Switches : Valid(q) \in SUBSET Slots /\ Valid(q)' \in SUBSET Slots
  BY DEF Valid
<1>5. \A q \in Switches : \A k \in Valid(q)' : entries'[q][k] = entries[q][k]
  BY <1>2, <1>3, <1>4
<1>6. \A q \in Switches : count'[q] = Cardinality(Valid(q)')
  <2> SUFFICES ASSUME NEW q \in Switches PROVE count'[q] = Cardinality(Valid(q)')
    OBVIOUS
  <2>1. CASE q = s
    <3>1. IsFiniteSet(Valid(s)) /\ Valid(s) \cap old = old
      BY <1>4, SlotSets
    <3>2. Cardinality(Valid(s) \ old) = Cardinality(Valid(s)) - Cardinality(old)
      BY <3>1, FS_Difference
    <3>3. count[s] = Cardinality(Valid(s))
      BY DEF Inv, TableExact
    <3> QED BY <1>1, <1>3, <2>1, <3>2, <3>3 DEF Inv, TypeOK
  <2>2. CASE q # s
    BY <1>1, <1>3, <2>2 DEF Inv, TypeOK, TableExact
  <2> QED BY <2>1, <2>2
<1>7. TablesType'
  <2>1. \A q \in Switches : Cardinality(Valid(q)') \in 0 .. TableSize
    BY <1>4, SlotSets
  <2>2. DOMAIN count' = Switches /\ count' = [q \in Switches |-> count'[q]]
    BY <1>1 DEF Inv, TypeOK
  <2>3. count' \in [Switches -> 0 .. TableSize]
    BY <1>6, <2>1, <2>2
  <2> QED BY <1>2, <2>3 DEF TablesType
<1>8. TableExact'
  BY <1>3, <1>5, <1>6 DEF TableExact, Inv
<1> QED BY <1>3, <1>5, <1>7, <1>8

-----------------------------------------------------------------------------
(* The steps.                                                              *)

(* switch_receive keeps tables and wires sound, whether it learns the      *)
(* source or drops the frame.                                              *)
LEMMA ReceiveKeeps ==
  ASSUME Inv, NEW in \in Ports, NEW f \in Frame, NEW rest \in [Ifaces -> Seq(Frame)],
         SwitchReceive(Home[in], in, f, rest), UNCHANGED <<timer, up>>
  PROVE  /\ TablesType' /\ TableExact' /\ NothingBehindDownPort' /\ OwnPorts' /\ AgedInTime'
         /\ WireType' /\ lost' \subseteq 1 .. MaxFrames
<1> DEFINE s == Home[in]
<1>1. s \in Switches /\ f.src \in Ifaces /\ f.id \in 1 .. MaxFrames
  BY NetworkAssumption DEF Frame
<1>2. lost' \subseteq 1 .. MaxFrames
  <2>1. lost' \in {lost, lost \cup {f.id}}
    BY Zenon DEF SwitchReceive
  <2> QED BY <1>1, <2>1 DEF Inv, TypeOK
<1>3. CASE ~Accepted(in) \/ LearnSlot(s, f.src) = {}
  <2>1. wire' = rest /\ UNCHANGED <<entries, count>>
    BY <1>3 DEF SwitchReceive
  <2>2. TablesType' /\ TableExact' /\ NothingBehindDownPort' /\ OwnPorts' /\ AgedInTime'
    BY <2>1 DEF TablesType, TableExact, NothingBehindDownPort, OwnPorts, AgedInTime, Valid,
                Inv, TypeOK
  <2> QED BY <1>2, <2>1, <2>2 DEF WireType
<1>4. CASE ~(~Accepted(in) \/ LearnSlot(s, f.src) = {})
  <2>1. Learn(s, f.src, in) /\ in \in up /\ LearnSlot(s, f.src) # {}
    BY <1>4 DEF SwitchReceive, Accepted
  <2>2. TablesType' /\ TableExact' /\ NothingBehindDownPort' /\ OwnPorts' /\ AgedInTime'
    BY <1>1, <2>1, LearnKeeps
  <2>3. \E out : wire' = Transmitted(rest, out, f)
    BY <1>4, Zenon DEF SwitchReceive
  <2>4. WireType'
    <3>1. PICK out : wire' = Transmitted(rest, out, f)
      BY <2>3
    <3> DEFINE sent == [i \in Ifaces |-> Append(rest[i], [f EXCEPT !.src = Peer[i]])]
    <3>2. \A i \in Ifaces : Peer[i] \in Ifaces /\ [f EXCEPT !.src = Peer[i]] \in Frame
      BY NetworkAssumption DEF Frame
    <3>3. sent \in [Ifaces -> Seq(Frame)]
      <4>1. ASSUME NEW i \in Ifaces, NEW g \in Frame
            PROVE  Append(rest[i], g) \in Seq(Frame)
        OBVIOUS
      <4> QED BY <3>2, <4>1, Zenon
    <3>4. wire' = [i \in Ifaces |-> IF Peer[i] \in out /\ Sendable(Peer[i])
                                    THEN sent[i] ELSE rest[i]]
      BY <3>1, Zenon DEF Transmitted
    <3> HIDE DEF sent
    <3> QED BY <3>3, <3>4 DEF WireType
  <2> QED BY <1>2, <2>2, <2>4
<1> QED BY <1>3, <1>4

(* A frame's head is a frame, and the rest of the wires are wires.         *)
LEMMA RestType ==
  ASSUME TypeOK, NEW i \in Ifaces, wire[i] # <<>>
  PROVE  Head(wire[i]) \in Frame /\ Rest(i) \in [Ifaces -> Seq(Frame)]
<1>1. wire[i] \in Seq(Frame)
  BY DEF TypeOK
<1>2. Head(wire[i]) \in Frame /\ Tail(wire[i]) \in Seq(Frame)
  BY <1>1
<1> QED BY <1>2 DEF TypeOK, Rest

(* switch_receive of a frame at an edge port.                              *)
LEMMA EnterKeeps ==
  ASSUME Inv, NEW t \in Traffic, Enter(t[1], t[2], t[3])
  PROVE  Inv'
<1> DEFINE f == [id |-> Len(entered'), src |-> t[2], dst |-> t[3]]
<1>1. t[1] \in Ports /\ t[2] \in Stations /\ t[3] \in Stations \cup ToAll
  BY NetworkAssumption
<1>2. /\ entered' = Append(entered, [port |-> t[1], dst |-> t[3]])
      /\ Len(entered) < MaxFrames
      /\ UNCHANGED <<timer, up, faults, got>>
      /\ SwitchReceive(Home[t[1]], t[1], f, wire)
  BY DEF Enter
<1>3. entered \in Seq([port: Ports, dst: Ifaces \cup ToAll])
  BY DEF Inv, TypeOK
<1>4. entered' \in Seq([port: Ports, dst: Ifaces \cup ToAll])
        /\ Len(entered') \in 1 .. MaxFrames
  BY <1>1, <1>2, <1>3, SwitchSizesAssumption DEF Ifaces
<1>5. f \in Frame
  BY <1>1, <1>4 DEF Frame, Ifaces
<1> HIDE DEF f
<1>6. wire \in [Ifaces -> Seq(Frame)]
  BY DEF Inv, TypeOK
<1>7. /\ TablesType' /\ TableExact' /\ NothingBehindDownPort' /\ OwnPorts' /\ AgedInTime'
      /\ WireType' /\ lost' \subseteq 1 .. MaxFrames
  BY <1>1, <1>2, <1>5, <1>6, ReceiveKeeps
<1>8. TypeOK'
  BY <1>2, <1>4, <1>7 DEF TypeOK, TablesType, WireType, Inv
<1> QED BY <1>7, <1>8 DEF Inv

(* A frame arrives at a port over a link.                                  *)
LEMMA ArrivePortKeeps ==
  ASSUME Inv, NEW p \in Ports, ArrivePort(p)
  PROVE  Inv'
<1>1. wire[p] # <<>> /\ UNCHANGED <<timer, up, faults, entered, got>> /\ p \in Ifaces
  BY DEF ArrivePort, Ifaces
<1>2. Head(wire[p]) \in Frame /\ Rest(p) \in [Ifaces -> Seq(Frame)]
  BY <1>1, RestType DEF Inv
<1>3. /\ TablesType' /\ TableExact' /\ NothingBehindDownPort' /\ OwnPorts' /\ AgedInTime'
      /\ WireType' /\ lost' \subseteq 1 .. MaxFrames
  <2>1. CASE Passes(p)
    <3>1. SwitchReceive(Home[p], p, Head(wire[p]), Rest(p))
      BY <2>1 DEF ArrivePort
    <3> QED BY <1>1, <1>2, <3>1, ReceiveKeeps
  <2>2. CASE ~Passes(p)
    <3>1. wire' = Rest(p) /\ UNCHANGED <<entries, count, lost>>
      BY <2>2 DEF ArrivePort
    <3> QED BY <1>1, <1>2, <3>1 DEF TablesType, TableExact, NothingBehindDownPort,
                                    OwnPorts, AgedInTime, Valid, WireType, Inv, TypeOK
  <2> QED BY <2>1, <2>2
<1>4. TypeOK'
  BY <1>1, <1>3 DEF TypeOK, TablesType, WireType, Inv
<1> QED BY <1>3, <1>4 DEF Inv

(* A frame arrives at a station, or is dropped there.                      *)
LEMMA ArriveStationKeeps ==
  ASSUME Inv, NEW i \in Stations, ArriveStation(i)
  PROVE  Inv'
<1>1. /\ wire[i] # <<>> /\ wire' = Rest(i) /\ i \in Ifaces
      /\ UNCHANGED <<entries, count, timer, up, faults, entered, lost>>
  BY DEF ArriveStation, Ifaces
<1>2. Head(wire[i]) \in Frame /\ Rest(i) \in [Ifaces -> Seq(Frame)]
  BY <1>1, RestType DEF Inv
<1>3. got' \in [Stations -> Seq(1 .. MaxFrames)]
  <2>1. Head(wire[i]).id \in 1 .. MaxFrames
    BY <1>2 DEF Frame
  <2>2. got[i] \in Seq(1 .. MaxFrames)
    BY DEF Inv, TypeOK
  <2>3. Append(got[i], Head(wire[i]).id) \in Seq(1 .. MaxFrames)
    BY <2>1, <2>2
  <2> QED BY <2>3 DEF ArriveStation, Inv, TypeOK
<1>4. TypeOK'
  BY <1>1, <1>2, <1>3 DEF TypeOK, Inv
<1>5. TableExact' /\ NothingBehindDownPort' /\ OwnPorts' /\ AgedInTime'
  BY <1>1 DEF TableExact, NothingBehindDownPort, OwnPorts, AgedInTime, Valid, Inv
<1> QED BY <1>4, <1>5 DEF Inv

(* A port goes down and its addresses are flushed.                         *)
LEMMA PortDownKeeps ==
  ASSUME Inv, NEW p \in Ports, PortDown(p)
  PROVE  Inv'
<1> DEFINE s   == Home[p]
           old == {k \in Valid(s) : entries[s][k].port = p}
<1>1. /\ Removed(s, old) /\ up' = up \ {p} /\ UNCHANGED <<timer, wire, history>>
      /\ faults' \in 0 .. MaxFaults
  BY SwitchSizesAssumption DEF PortDown, Fault, Inv, TypeOK
<1>2. s \in Switches /\ old \in SUBSET Valid(s)
  BY NetworkAssumption
<1>3. /\ TablesType' /\ TableExact'
      /\ Valid(s)' = Valid(s) \ old
      /\ \A q \in Switches \ {s} : Valid(q)' = Valid(q)
      /\ \A q \in Switches : \A k \in Valid(q)' : entries'[q][k] = entries[q][k]
  BY <1>1, <1>2, RemovedKeeps
<1>4. TypeOK'
  BY <1>1, <1>3 DEF TypeOK, TablesType, history, Inv
<1>5. NothingBehindDownPort'
  <2> SUFFICES ASSUME NEW q \in Switches, NEW k \in Valid(q)'
               PROVE  entries'[q][k].port \in up'
    BY DEF NothingBehindDownPort
  <2>1. entries'[q][k].port \in up /\ k \in Valid(q) /\ entries'[q][k] = entries[q][k]
    BY <1>3 DEF Inv, NothingBehindDownPort
  <2>2. entries'[q][k].port # p
    <3>1. CASE q = s
      BY <1>3, <2>1, <3>1
    <3>2. CASE q # s
      <4>1. Home[entries[q][k].port] = q
        BY <2>1 DEF Inv, OwnPorts
      <4> QED BY <2>1, <3>2, <4>1
    <3> QED BY <3>1, <3>2
  <2> QED BY <1>1, <2>1, <2>2
<1>6. AgedInTime' /\ OwnPorts'
  BY <1>1, <1>3 DEF AgedInTime, OwnPorts, Inv, history
<1> QED BY <1>3, <1>4, <1>5, <1>6 DEF Inv

(* A port comes back.                                                      *)
LEMMA PortUpKeeps ==
  ASSUME Inv, NEW p \in Ports, PortUp(p)
  PROVE  Inv'
<1>1. up' = up \cup {p} /\ UNCHANGED <<entries, count, timer, wire, faults, history>>
  BY DEF PortUp
<1> QED BY <1>1 DEF Inv, TypeOK, TableExact, NothingBehindDownPort, OwnPorts, AgedInTime,
                    Valid, history

(* The scan takes every entry that is over age, so that what is left may   *)
(* grow older until the next scan.                                         *)
LEMMA AgeTimerKeeps ==
  ASSUME Inv, NEW s \in Switches, AgeTimer(s)
  PROVE  Inv'
<1>1. /\ Removed(s, Old(s)) /\ UNCHANGED <<wire, up, faults, history>>
      /\ timer' = [timer EXCEPT ![s] = AgeInterval]
  BY DEF AgeTimer
<1>2. Old(s) \in SUBSET Valid(s)
  BY DEF Old
<1>3. /\ TablesType' /\ TableExact'
      /\ Valid(s)' = Valid(s) \ Old(s)
      /\ \A q \in Switches \ {s} : Valid(q)' = Valid(q)
      /\ \A q \in Switches : \A k \in Valid(q)' : entries'[q][k] = entries[q][k]
  BY <1>1, <1>2, RemovedKeeps
<1>4. timer' \in [Switches -> 0 .. AgeInterval]
  BY <1>1, SwitchSizesAssumption DEF Inv, TypeOK
<1>5. TypeOK'
  BY <1>1, <1>3, <1>4 DEF TypeOK, TablesType, history, Inv
<1>6. NothingBehindDownPort' /\ OwnPorts'
  BY <1>1, <1>3 DEF NothingBehindDownPort, OwnPorts, Inv
<1>7. AgedInTime'
  <2> SUFFICES ASSUME NEW q \in Switches, NEW k \in Valid(q)'
               PROVE  entries'[q][k].age + timer'[q] <= MacAge + AgeInterval
    BY DEF AgedInTime
  <2>1. k \in Valid(q) /\ entries'[q][k] = entries[q][k] /\ entries[q][k].age \in Nat
    BY <1>3, EntryType DEF Inv, Entry
  <2>2. CASE q = s
    <3>1. entries[q][k].age <= MacAge
      BY <1>3, <2>1, <2>2, SwitchSizesAssumption DEF Old
    <3>2. timer'[q] = AgeInterval
      BY <1>1, <2>2 DEF Inv, TypeOK
    <3> QED BY <2>1, <3>1, <3>2, SwitchSizesAssumption
  <2>3. CASE q # s
    BY <1>1, <2>1, <2>3 DEF AgedInTime, Inv, TypeOK
  <2> QED BY <2>2, <2>3
<1> QED BY <1>3, <1>5, <1>6, <1>7 DEF Inv

(* Time passes; a scan ages the tables.                                    *)
LEMMA TickKeeps ==
  ASSUME Inv, Tick
  PROVE  Inv'
<1>1. /\ \A s \in Switches : timer[s] > 0
      /\ timer' = [s \in Switches |-> timer[s] - 1]
      /\ entries' = [s \in Switches |-> [k \in Slots |-> Older(entries[s][k])]]
      /\ UNCHANGED <<count, wire, up, faults, history>>
  BY DEF Tick
<1>2. /\ Older(Invalid) = Invalid
      /\ \A e \in Entry : /\ Older(e) \in Entry /\ Older(e) # Invalid
                          /\ Older(e).mac = e.mac /\ Older(e).port = e.port
                          /\ Older(e).age <= e.age + 1
  <2>1. \A e \in Entry : e # Invalid
    <3> SUFFICES ASSUME NEW e \in Entry, e = Invalid PROVE FALSE
      OBVIOUS
    <3>1. DOMAIN e = {"mac", "port", "age"} /\ DOMAIN Invalid = {"port"}
      BY DEF Invalid, Entry
    <3> QED BY <3>1
  <2>2. ASSUME NEW e \in Entry
        PROVE  /\ Older(e) \in Entry
               /\ Older(e).mac = e.mac /\ Older(e).port = e.port
               /\ Older(e).age <= e.age + 1
    BY DEF Older, Entry
  <2> QED BY <2>1, <2>2 DEF Older
<1>3. \A s \in Switches, k \in Slots : entries'[s][k] = Older(entries[s][k])
  BY <1>1
<1>4. entries' \in [Switches -> [Slots -> Entry \cup {Invalid}]]
  BY <1>1, <1>2 DEF Inv, TypeOK
<1>5. \A s \in Switches : Valid(s)' = Valid(s)
  BY <1>2, <1>3 DEF Valid, Inv, TypeOK
<1>6. \A s \in Switches : \A k \in Valid(s) :
        /\ entries'[s][k].mac = entries[s][k].mac
        /\ entries'[s][k].port = entries[s][k].port
        /\ entries'[s][k].age <= entries[s][k].age + 1
        /\ entries[s][k].age \in Nat /\ entries'[s][k].age \in Nat
  <2> SUFFICES ASSUME NEW s \in Switches, NEW k \in Valid(s)
               PROVE  /\ entries'[s][k].mac = entries[s][k].mac
                      /\ entries'[s][k].port = entries[s][k].port
                      /\ entries'[s][k].age <= entries[s][k].age + 1
                      /\ entries[s][k].age \in Nat /\ entries'[s][k].age \in Nat
    OBVIOUS
  <2>1. k \in Slots /\ entries[s][k] \in Entry
    BY EntryType DEF Inv
  <2>2. Older(entries[s][k]) \in Entry
    BY <1>2, <2>1
  <2> QED BY <1>2, <1>3, <2>1, <2>2 DEF Entry
<1>7. timer \in [Switches -> 0 .. AgeInterval] /\ timer' \in [Switches -> 0 .. AgeInterval]
  BY <1>1, SwitchSizesAssumption DEF Inv, TypeOK
<1>8. TypeOK'
  BY <1>1, <1>4, <1>7 DEF TypeOK, history, Inv
<1>9. TableExact'
  <2>1. \A s \in Switches : count'[s] = Cardinality(Valid(s)')
    BY <1>1, <1>5, Zenon DEF TableExact, Inv
  <2>2. \A s \in Switches : \A k, l \in Valid(s) :
          entries'[s][k].mac = entries'[s][l].mac => k = l
    BY <1>6 DEF TableExact, Inv
  <2> QED BY <1>5, <2>1, <2>2, Zenon DEF TableExact
<1>11. NothingBehindDownPort' /\ OwnPorts'
  <2> SUFFICES ASSUME NEW s \in Switches, NEW k \in Valid(s)
               PROVE  entries'[s][k].port \in up' /\ Home[entries'[s][k].port] = s
    BY <1>5, Zenon DEF NothingBehindDownPort, OwnPorts
  <2>1. entries'[s][k].port = entries[s][k].port /\ up' = up
    BY <1>1, <1>6
  <2> QED BY <2>1 DEF NothingBehindDownPort, OwnPorts, Inv
<1>10. AgedInTime'
  <2> SUFFICES ASSUME NEW s \in Switches, NEW k \in Valid(s)
               PROVE  entries'[s][k].age + timer'[s] <= MacAge + AgeInterval
    BY <1>5 DEF AgedInTime
  <2>1. entries[s][k].age + timer[s] <= MacAge + AgeInterval
    BY DEF Inv, AgedInTime
  <2>2. timer'[s] = timer[s] - 1 /\ timer[s] \in Nat
    BY <1>1, <1>7
  <2> QED BY <1>6, <2>1, <2>2, SwitchSizesAssumption
<1> QED BY <1>8, <1>9, <1>10, <1>11 DEF Inv

-----------------------------------------------------------------------------
(* The theorems.                                                           *)

(* The tables and their timers, ports and wires start sound and stay so.   *)
THEOREM Invariance == Spec => []Inv
<1>1. Init => Inv
  <2> SUFFICES ASSUME Init PROVE Inv
    OBVIOUS
  <2>1. TypeOK
    BY SwitchSizesAssumption DEF Init, TypeOK
  <2>2. \A s \in Switches : Valid(s) = {} /\ count[s] = 0
    BY DEF Init, Valid
  <2>3. TableExact
    BY <2>2, FS_EmptySet DEF TableExact
  <2>4. NothingBehindDownPort /\ OwnPorts /\ AgedInTime
    BY <2>2 DEF NothingBehindDownPort, OwnPorts, AgedInTime
  <2> QED BY <2>1, <2>3, <2>4 DEF Inv
<1>2. Inv /\ [Next]_vars => Inv'
  <2> SUFFICES ASSUME Inv, [Next]_vars PROVE Inv'
    OBVIOUS
  <2>1. ASSUME NEW p \in Ports, ArrivePort(p) PROVE Inv'
    BY <2>1, ArrivePortKeeps
  <2>2. ASSUME NEW i \in Stations, ArriveStation(i) PROVE Inv'
    BY <2>2, ArriveStationKeeps
  <2>3. ASSUME NEW s \in Switches, AgeTimer(s) PROVE Inv'
    BY <2>3, AgeTimerKeeps
  <2>4. CASE Tick
    BY <2>4, TickKeeps
  <2>5. ASSUME NEW t \in Traffic, Enter(t[1], t[2], t[3]) PROVE Inv'
    BY <2>5, EnterKeeps
  <2>6. ASSUME NEW p \in Fragile, PortDown(p) \/ PortUp(p) PROVE Inv'
    BY <2>6, PortDownKeeps, PortUpKeeps, SwitchSizesAssumption
  <2>7. CASE UNCHANGED vars
    BY <2>7 DEF vars, history, Inv, TypeOK, TableExact, NothingBehindDownPort, OwnPorts,
                AgedInTime, Valid
  <2> QED BY <2>1, <2>2, <2>3, <2>4, <2>5, <2>6, <2>7 DEF Next, Step
<1> QED BY <1>1, <1>2, PTL DEF Spec

(* mac_table.c keeps one entry per address, counts its entries and never   *)
(* holds one behind a port that is down, whatever is in flight.            *)
THEOREM TablesSound == Spec => []TableInv
<1>1. Inv => TableInv
  BY DEF Inv, TableInv
<1> QED BY <1>1, Invariance, PTL

(* mac_age_handler forgets an address one scan after its age is over.      *)
THEOREM AgesBounded == Spec => []AgeBounded
<1>1. Inv => AgeBounded
  <2> SUFFICES ASSUME Inv, NEW s \in Switches, NEW k \in Valid(s)
               PROVE  entries[s][k].age <= MacAge + AgeInterval
    BY DEF AgeBounded
  <2>1. entries[s][k].age \in Nat
    BY EntryType DEF Inv, Entry
  <2>2. timer[s] \in Nat /\ entries[s][k].age + timer[s] <= MacAge + AgeInterval
    BY SwitchSizesAssumption DEF Inv, TypeOK, AgedInTime
  <2> QED BY <2>1, <2>2, SwitchSizesAssumption
<1> QED BY <1>1, Invariance, PTL
-----------------------------------------------------------------------------
(* Broadcasts in a tree of switches.                                       *)

(* The links form a tree: every link divides the stations into the two     *)
(* parts behind its ends, and what is behind a port is what the other      *)
(* ports of its switch divide among themselves.  side[i] is the part that  *)
(* a frame may still reach when it arrives at interface i.                 *)
TreeOf(side) ==
  /\ side \in [Ifaces -> SUBSET Stations]
  /\ \A i \in Stations : side[i] = {i}
  /\ \A i \in Ifaces : side[Peer[i]] = Stations \ side[i]
  /\ \A p \in Ports :
       /\ side[p] = UNION {side[Peer[q]] : q \in FloodPorts(Home[p], p)}
       /\ \A q \in FloodPorts(Home[p], p) : side[Peer[p]] \cap side[Peer[q]] = {}

Wires == [Ifaces -> Seq(Frame)]
Gots  == [Stations -> Seq(1 .. MaxFrames)]
Log   == Seq([port: Ports, dst: Ifaces \cup ToAll])

Places(w, i) == 1 .. Len(w[i])

Received(g, s, id) == \E n \in 1 .. Len(g[s]) : g[s][n] = id

OnItsWay(side, w, s, id) ==
  \E i \in Ifaces : s \in side[i] /\ \E m \in Places(w, i) : w[i][m].id = id

(* Frames are copies of what entered.                                      *)
Copies(w, g, e) ==
  /\ \A i \in Ifaces : \A m \in Places(w, i) :
       w[i][m].id \in 1 .. Len(e) /\ w[i][m].dst = e[w[i][m].id].dst
  /\ \A s \in Stations : \A n \in 1 .. Len(g[s]) : g[s][n] \in 1 .. Len(e)

(* They move away from the port they entered by.                           *)
Away(side, w, g, e) ==
  /\ \A i \in Ifaces : \A m \in Places(w, i) : \A s \in side[i] :
       Peer[s] # e[w[i][m].id].port
  /\ \A s \in Stations : \A n \in 1 .. Len(g[s]) : Peer[s] # e[g[s][n]].port

(* No two copies of a frame can reach one station, nor can one reach a     *)
(* station that has the frame.                                             *)
Apart(side, w) ==
  \A i, j \in Ifaces : side[i] \cap side[j] # {} =>
    \A m \in Places(w, i), n \in Places(w, j) : w[i][m].id = w[j][n].id => i = j /\ m = n

NotYet(side, w, g) ==
  \A i \in Ifaces : \A m \in Places(w, i) : \A s \in side[i] : ~Received(g, s, w[i][m].id)

GotOnce(g) == \A s \in Stations : \A m, n \in 1 .. Len(g[s]) : g[s][m] = g[s][n] => m = n

(* The frame id may be sent to the stations of S: it has not been before.  *)
Fresh(side, w, g, e, id, S) ==
  /\ \A i \in Ifaces : \A m \in Places(w, i) : w[i][m].id = id => side[i] \cap S = {}
  /\ \A s \in S : ~Received(g, s, id) /\ id \in 1 .. Len(e) /\ Peer[s] # e[id].port

(* A broadcast that was not lost is on its way to every other station that *)
(* has not received it, but for those of S that it is to be sent to.       *)
Spreading(side, w, g, e, l, id, S) ==
  \A f \in 1 .. Len(e) : f \notin l /\ e[f].dst \in ToAll =>
    \A s \in Stations : Peer[s] # e[f].port =>
      Received(g, s, f) \/ OnItsWay(side, w, s, f) \/ (f = id /\ s \in S)

(* The invariant of frames in flight, in the middle of a step that handles *)
(* frame id, which is to be sent to the stations of S.                     *)
Spread(side, w, g, e, l, id, S) ==
  /\ Copies(w, g, e) /\ Away(side, w, g, e) /\ Apart(side, w) /\ NotYet(side, w, g)
  /\ GotOnce(g) /\ Fresh(side, w, g, e, id, S) /\ Spreading(side, w, g, e, l, id, S)

(* A frame taken off a wire is to be sent to what is behind the interface. *)
LEMMA TakenSpread ==
  ASSUME NEW side, TreeOf(side), NEW w \in Wires, NEW g \in Gots, NEW e \in Log, NEW l,
         Spread(side, w, g, e, l, 0, {}), NEW i \in Ifaces, w[i] # <<>>
  PROVE  Spread(side, [w EXCEPT ![i] = Tail(@)], g, e, l, w[i][1].id, side[i])
<1> DEFINE x  == [w EXCEPT ![i] = Tail(@)]
           id == w[i][1].id
           at(j, m) == IF j = i THEN m + 1 ELSE m
<1>1. /\ w[i] \in Seq(Frame) /\ Len(w[i]) \in Nat \ {0} /\ Len(Tail(w[i])) = Len(w[i]) - 1
      /\ \A m \in 1 .. Len(w[i]) - 1 : Tail(w[i])[m] = w[i][m + 1]
  BY DEF Wires
<1>2. /\ x[i] = Tail(w[i]) /\ Places(x, i) = 1 .. Len(w[i]) - 1
      /\ \A j \in Ifaces : j # i => x[j] = w[j] /\ Places(x, j) = Places(w, j)
  BY <1>1 DEF Wires, Places
<1>3. \A j \in Ifaces : \A m \in Places(x, j) : at(j, m) \in Places(w, j) /\ x[j][m] = w[j][at(j, m)]
  <2> SUFFICES ASSUME NEW j \in Ifaces, NEW m \in Places(x, j)
               PROVE  at(j, m) \in Places(w, j) /\ x[j][m] = w[j][at(j, m)]
    OBVIOUS
  <2>1. CASE j = i
    <3>1. m \in 1 .. Len(w[i]) - 1 /\ x[j][m] = w[i][m + 1] /\ at(j, m) = m + 1
      BY <1>1, <1>2, <2>1
    <3>2. m + 1 \in Places(w, i)
      BY <1>1, <3>1 DEF Places
    <3> QED BY <2>1, <3>1, <3>2
  <2>2. CASE j # i
    BY <1>2, <2>2
  <2> QED BY <2>1, <2>2
<1>4. \A j \in Ifaces : \A m \in Places(w, j) :
        (j = i /\ m = 1) \/ \E n \in Places(x, j) : x[j][n] = w[j][m]
  <2> SUFFICES ASSUME NEW j \in Ifaces, NEW m \in Places(w, j), ~(j = i /\ m = 1)
               PROVE  \E n \in Places(x, j) : x[j][n] = w[j][m]
    OBVIOUS
  <2>1. CASE j = i
    <3>1. m \in 2 .. Len(w[i])
      BY <1>1, <2>1 DEF Places
    <3>2. m - 1 \in 1 .. Len(w[i]) - 1 /\ (m - 1) + 1 = m
      BY <1>1, <3>1
    <3>3. m - 1 \in Places(x, i) /\ x[i][m - 1] = w[i][m]
      BY <1>1, <1>2, <3>2
    <3> QED BY <2>1, <3>3
  <2>2. CASE j # i
    BY <1>2, <2>2 DEF Places
  <2> QED BY <2>1, <2>2
<1>5. 1 \in Places(w, i) /\ \A m \in Places(x, i) : at(i, m) # 1
  BY <1>1, <1>2 DEF Places
<1>6. \A j \in Ifaces : \A m \in Places(x, j), n \in Places(x, j) : at(j, m) = at(j, n) => m = n
  BY DEF Places
<1> HIDE DEF x, at
<1>7. Copies(x, g, e) /\ Away(side, x, g, e) /\ NotYet(side, x, g) /\ GotOnce(g)
  BY <1>3 DEF Spread, Copies, Away, NotYet, GotOnce
<1>8. Apart(side, x)
  <2> SUFFICES ASSUME NEW j \in Ifaces, NEW k \in Ifaces, side[j] \cap side[k] # {},
                      NEW m \in Places(x, j), NEW n \in Places(x, k), x[j][m].id = x[k][n].id
               PROVE  j = k /\ m = n
    BY DEF Apart
  <2>1. j = k /\ at(j, m) = at(k, n)
    BY <1>3 DEF Spread, Apart
  <2> QED BY <1>6, <2>1
<1>9. Fresh(side, x, g, e, id, side[i])
  <2>1. ASSUME NEW j \in Ifaces, NEW m \in Places(x, j), x[j][m].id = id, side[j] \cap side[i] # {}
        PROVE  FALSE
    <3>1. j = i /\ at(j, m) = 1
      BY <1>3, <1>5, <2>1 DEF Spread, Apart
    <3> QED BY <1>5, <3>1
  <2>2. \A s \in side[i] : ~Received(g, s, id) /\ id \in 1 .. Len(e) /\ Peer[s] # e[id].port
    BY <1>5 DEF Spread, Copies, Away, NotYet
  <2> QED BY <2>1, <2>2 DEF Fresh
<1>10. Spreading(side, x, g, e, l, id, side[i])
  <2> SUFFICES ASSUME NEW f \in 1 .. Len(e), f \notin l, e[f].dst \in ToAll, NEW s \in Stations,
                      Peer[s] # e[f].port, ~Received(g, s, f)
               PROVE  OnItsWay(side, x, s, f) \/ (f = id /\ s \in side[i])
    BY DEF Spreading
  <2>1. OnItsWay(side, w, s, f)
    BY DEF Spread, Spreading
  <2>2. PICK j \in Ifaces : s \in side[j] /\ \E m \in Places(w, j) : w[j][m].id = f
    BY <2>1 DEF OnItsWay
  <2>3. PICK m \in Places(w, j) : w[j][m].id = f
    BY <2>2
  <2> QED BY <1>4, <2>2, <2>3 DEF OnItsWay
<1> QED BY <1>7, <1>8, <1>9, <1>10 DEF Spread, x

(* A frame need not be sent on where it is lost, or if it is no broadcast. *)
LEMMA DroppedSpread ==
  ASSUME NEW side, NEW w, NEW g, NEW e, NEW l, NEW id, NEW S,
         Spread(side, w, g, e, l, id, S), NEW k, l \subseteq k,
         id \in k \/ e[id].dst \notin ToAll
  PROVE  Spread(side, w, g, e, k, 0, {})
<1>1. Fresh(side, w, g, e, 0, {})
  BY DEF Fresh
<1>2. Spreading(side, w, g, e, k, 0, {})
  BY DEF Spread, Spreading
<1> QED BY <1>1, <1>2 DEF Spread

(* A frame that arrives at its station is received.                        *)
LEMMA ReceivedSpread ==
  ASSUME NEW side, TreeOf(side), NEW w \in Wires, NEW g \in Gots, NEW e \in Log, NEW l,
         NEW id \in 1 .. Len(e), NEW s \in Stations, Spread(side, w, g, e, l, id, {s})
  PROVE  Spread(side, w, [g EXCEPT ![s] = Append(@, id)], e, l, 0, {})
<1> DEFINE h == [g EXCEPT ![s] = Append(@, id)]
<1>1. g[s] \in Seq(1 .. MaxFrames) /\ Len(g[s]) \in Nat
  BY DEF Gots
<1>2. /\ Len(Append(g[s], id)) = Len(g[s]) + 1
      /\ \A n \in 1 .. Len(g[s]) : Append(g[s], id)[n] = g[s][n]
      /\ Append(g[s], id)[Len(g[s]) + 1] = id
  BY <1>1
<1>3. h[s] = Append(g[s], id) /\ \A t \in Stations : t # s => h[t] = g[t]
  BY DEF Gots
<1> HIDE DEF h
<1>4. \A t \in Stations : \A n \in 1 .. Len(h[t]) :
        \/ n \in 1 .. Len(g[t]) /\ h[t][n] = g[t][n]
        \/ t = s /\ n = Len(g[s]) + 1 /\ h[t][n] = id
  <2> SUFFICES ASSUME NEW t \in Stations, NEW n \in 1 .. Len(h[t])
               PROVE  \/ n \in 1 .. Len(g[t]) /\ h[t][n] = g[t][n]
                      \/ t = s /\ n = Len(g[s]) + 1 /\ h[t][n] = id
    OBVIOUS
  <2>1. CASE t # s
    BY <1>3, <2>1
  <2>2. CASE t = s
    <3>1. n \in 1 .. Len(g[s]) + 1
      BY <1>2, <1>3, <2>2
    <3>2. n \in 1 .. Len(g[s]) \/ n = Len(g[s]) + 1
      BY <1>1, <3>1
    <3> QED BY <1>2, <1>3, <2>2, <3>2
  <2> QED BY <2>1, <2>2
<1>5. \A f : \A t \in Stations : Received(h, t, f) <=> Received(g, t, f) \/ (t = s /\ f = id)
  <2> SUFFICES ASSUME NEW t \in Stations, NEW f
               PROVE  Received(h, t, f) <=> Received(g, t, f) \/ (t = s /\ f = id)
    OBVIOUS
  <2>1. CASE t # s
    BY <1>3, <2>1 DEF Received
  <2>2. CASE t = s
    <3>1. Received(h, t, f) => Received(g, t, f) \/ f = id
      BY <1>4, <2>2 DEF Received
    <3>2. Received(g, t, f) => Received(h, t, f)
      <4>1. \A n \in 1 .. Len(g[s]) : n \in 1 .. Len(h[s]) /\ h[s][n] = g[s][n]
        BY <1>1, <1>2, <1>3
      <4> QED BY <2>2, <4>1 DEF Received
    <3>3. Received(h, t, id)
      <4>1. Len(g[s]) + 1 \in 1 .. Len(h[s]) /\ h[s][Len(g[s]) + 1] = id
        BY <1>1, <1>2, <1>3
      <4> QED BY <2>2, <4>1 DEF Received
    <3> QED BY <2>2, <3>1, <3>2, <3>3
  <2> QED BY <2>1, <2>2
<1>6. ~Received(g, s, id) /\ Peer[s] # e[id].port
  BY DEF Spread, Fresh
<1>7. Copies(w, h, e) /\ Away(side, w, h, e)
  BY <1>4, <1>6 DEF Spread, Copies, Away
<1>8. GotOnce(h)
  <2> SUFFICES ASSUME NEW t \in Stations, NEW m \in 1 .. Len(h[t]), NEW n \in 1 .. Len(h[t]),
                      h[t][m] = h[t][n]
               PROVE  m = n
    BY DEF GotOnce
  <2>1. \A k \in 1 .. Len(g[s]) : g[s][k] # id
    BY <1>6 DEF Received
  <2>2. \/ m \in 1 .. Len(g[t]) /\ h[t][m] = g[t][m]
        \/ t = s /\ m = Len(g[s]) + 1 /\ h[t][m] = id
    BY <1>4
  <2>3. \/ n \in 1 .. Len(g[t]) /\ h[t][n] = g[t][n]
        \/ t = s /\ n = Len(g[s]) + 1 /\ h[t][n] = id
    BY <1>4
  <2>4. CASE m \in 1 .. Len(g[t]) /\ n \in 1 .. Len(g[t])
    <3>1. h[t][m] = g[t][m] /\ h[t][n] = g[t][n]
      BY <2>1, <2>2, <2>3, <2>4
    <3> QED BY <2>4, <3>1 DEF Spread, GotOnce
  <2> QED BY <2>1, <2>2, <2>3, <2>4
<1>9. NotYet(side, w, h)
  <2> SUFFICES ASSUME NEW i \in Ifaces, NEW m \in Places(w, i), NEW t \in side[i]
               PROVE  ~Received(h, t, w[i][m].id)
    BY DEF NotYet
  <2>1. t \in Stations /\ ~Received(g, t, w[i][m].id)
    BY DEF Spread, NotYet, TreeOf
  <2>2. ~(t = s /\ w[i][m].id = id)
    BY DEF Spread, Fresh
  <2> QED BY <1>5, <2>1, <2>2
<1>10. Fresh(side, w, h, e, 0, {})
  BY DEF Fresh
<1>11. Spreading(side, w, h, e, l, 0, {})
  <2> SUFFICES ASSUME NEW f \in 1 .. Len(e), f \notin l, e[f].dst \in ToAll, NEW t \in Stations,
                      Peer[t] # e[f].port
               PROVE  Received(h, t, f) \/ OnItsWay(side, w, t, f)
    BY DEF Spreading
  <2>1. Received(g, t, f) \/ OnItsWay(side, w, t, f) \/ (f = id /\ t \in {s})
    BY DEF Spread, Spreading
  <2> QED BY <1>5, <2>1
<1> QED BY <1>7, <1>8, <1>9, <1>10, <1>11 DEF Spread, h
(* What ethernet_send adds to the wires: a copy behind each open port.     *)
LEMMA TransmittedIs ==
  ASSUME TypeOK, NEW w \in Wires, NEW out \in SUBSET Ports, NEW f \in Frame, NEW i \in Ifaces
  PROVE  LET x == Transmitted(w, out, f)
         IN  /\ \A m \in Places(w, i) : m \in Places(x, i) /\ x[i][m] = w[i][m]
             /\ \A m \in Places(x, i) :
                  \/ m \in Places(w, i) /\ x[i][m] = w[i][m]
                  \/ /\ Peer[i] \in out /\ m = Len(w[i]) + 1
                     /\ x[i][m].id = f.id /\ x[i][m].dst = f.dst
             /\ Peer[i] \in out /\ Sendable(Peer[i]) =>
                  Len(w[i]) + 1 \in Places(x, i) /\ x[i][Len(w[i]) + 1].id = f.id
<1> DEFINE x == Transmitted(w, out, f)
           c == [f EXCEPT !.src = Peer[i]]
<1>1. w[i] \in Seq(Frame) /\ Len(w[i]) \in Nat
  BY DEF Wires
<1>2. c \in Frame /\ c.id = f.id /\ c.dst = f.dst
  BY NetworkAssumption DEF Frame
<1>3. x[i] = IF Peer[i] \in out /\ Sendable(Peer[i]) THEN Append(w[i], c) ELSE w[i]
  BY DEF Transmitted
<1> HIDE DEF x, c
<1>4. CASE Peer[i] \in out /\ Sendable(Peer[i])
  <2>1. /\ Len(x[i]) = Len(w[i]) + 1 /\ x[i][Len(w[i]) + 1] = c
        /\ \A m \in 1 .. Len(w[i]) : x[i][m] = w[i][m]
    BY <1>1, <1>2, <1>3, <1>4
  <2>2. \A m \in Places(w, i) : m \in Places(x, i) /\ x[i][m] = w[i][m]
    BY <1>1, <2>1 DEF Places
  <2>3. \A m \in Places(x, i) : m \in Places(w, i) \/ m = Len(w[i]) + 1
    BY <1>1, <2>1 DEF Places
  <2>4. Len(w[i]) + 1 \in Places(x, i)
    BY <1>1, <2>1 DEF Places
  <2> QED BY <1>2, <1>4, <2>1, <2>2, <2>3, <2>4 DEF x
<1>5. CASE ~(Peer[i] \in out /\ Sendable(Peer[i]))
  BY <1>3, <1>5 DEF Places, x
<1> QED BY <1>4, <1>5

(* A frame that is sent on by ports of the switch, not back, stays apart   *)
(* from its other copies; by all of them it reaches all it is to reach.    *)
LEMMA SentSpread ==
  ASSUME TypeOK, NEW side, TreeOf(side), NEW w \in Wires, NEW g \in Gots, NEW e \in Log, NEW l,
         NEW f \in Frame, NEW in \in Ports, NEW out \in SUBSET FloodPorts(Home[in], in),
         Spread(side, w, g, e, l, f.id, side[in]), f.id \in 1 .. Len(e), f.dst = e[f.id].dst,
         NEW k, l \subseteq k,
         \/ f.id \in k \/ f.dst \notin ToAll
         \/ out = FloodPorts(Home[in], in) /\ \A p \in out : Sendable(p)
  PROVE  Spread(side, Transmitted(w, out, f), g, e, k, 0, {})
<1> DEFINE x == Transmitted(w, out, f)
<1>1. out \in SUBSET Ports /\ \A p \in out : Home[p] = Home[in] /\ p # in
  BY DEF FloodPorts
<1>2. \A i \in Ifaces : \A m \in Places(w, i) : m \in Places(x, i) /\ x[i][m] = w[i][m]
  BY <1>1, TransmittedIs
<1>3. \A i \in Ifaces : \A m \in Places(x, i) :
        \/ m \in Places(w, i) /\ x[i][m] = w[i][m]
        \/ /\ Peer[i] \in out /\ m = Len(w[i]) + 1
           /\ x[i][m].id = f.id /\ x[i][m].dst = f.dst
  BY <1>1, TransmittedIs
<1>4. \A i \in Ifaces : Peer[i] \in out /\ Sendable(Peer[i]) =>
        Len(w[i]) + 1 \in Places(x, i) /\ x[i][Len(w[i]) + 1].id = f.id
  BY <1>1, TransmittedIs DEF Sendable
<1> HIDE DEF x
<1>5. \A i \in Ifaces : Peer[i] \in out => side[i] \subseteq side[in]
  <2> SUFFICES ASSUME NEW i \in Ifaces, Peer[i] \in out PROVE side[i] \subseteq side[in]
    OBVIOUS
  <2>1. side[Peer[Peer[i]]] \in {side[Peer[q]] : q \in FloodPorts(Home[in], in)}
    OBVIOUS
  <2>2. Peer[Peer[i]] = i
    BY NetworkAssumption
  <2>3. side[in] = UNION {side[Peer[q]] : q \in FloodPorts(Home[in], in)}
    BY DEF TreeOf
  <2> QED BY <2>1, <2>2, <2>3
<1>6. \A i, j \in Ifaces : Peer[i] \in out /\ Peer[j] \in out /\ side[i] \cap side[j] # {} => i = j
  <2> SUFFICES ASSUME NEW i \in Ifaces, NEW j \in Ifaces, Peer[i] \in out, Peer[j] \in out, i # j
               PROVE  side[i] \cap side[j] = {}
    OBVIOUS
  <2>1. Peer[Peer[i]] = i /\ Peer[Peer[j]] = j /\ Peer[i] # Peer[j]
    BY NetworkAssumption
  <2>2. Peer[i] \in Ports /\ Peer[j] \in FloodPorts(Home[Peer[i]], Peer[i])
    BY <1>1, <2>1 DEF FloodPorts
  <2> QED BY <2>1, <2>2 DEF TreeOf
<1>7. /\ \A s \in side[in] : ~Received(g, s, f.id) /\ Peer[s] # e[f.id].port
      /\ \A i \in Ifaces : \A m \in Places(w, i) : w[i][m].id = f.id => side[i] \cap side[in] = {}
  BY DEF Spread, Fresh
<1>8. Copies(x, g, e)
  BY <1>3 DEF Spread, Copies
<1>9. Away(side, x, g, e)
  <2>1. ASSUME NEW i \in Ifaces, NEW m \in Places(x, i), NEW s \in side[i]
        PROVE  Peer[s] # e[x[i][m].id].port
    <3>1. CASE m \in Places(w, i) /\ x[i][m] = w[i][m]
      BY <3>1 DEF Spread, Away
    <3>2. CASE Peer[i] \in out /\ x[i][m].id = f.id
      BY <1>5, <1>7, <3>2
    <3> QED BY <1>3, <3>1, <3>2
  <2> QED BY <2>1 DEF Spread, Away
<1>10. NotYet(side, x, g)
  <2>1. ASSUME NEW i \in Ifaces, NEW m \in Places(x, i), NEW s \in side[i]
        PROVE  ~Received(g, s, x[i][m].id)
    <3>1. CASE m \in Places(w, i) /\ x[i][m] = w[i][m]
      BY <3>1 DEF Spread, NotYet
    <3>2. CASE Peer[i] \in out /\ x[i][m].id = f.id
      BY <1>5, <1>7, <3>2
    <3> QED BY <1>3, <3>1, <3>2
  <2> QED BY <2>1 DEF NotYet
<1>11. Apart(side, x)
  <2> SUFFICES ASSUME NEW i \in Ifaces, NEW j \in Ifaces, side[i] \cap side[j] # {},
                      NEW m \in Places(x, i), NEW n \in Places(x, j), x[i][m].id = x[j][n].id
               PROVE  i = j /\ m = n
    BY DEF Apart
  <2> DEFINE old(a, b) == b \in Places(w, a) /\ x[a][b] = w[a][b]
             new(a, b) == Peer[a] \in out /\ b = Len(w[a]) + 1 /\ x[a][b].id = f.id
  <2>1. (old(i, m) \/ new(i, m)) /\ (old(j, n) \/ new(j, n))
    BY <1>3
  <2>2. CASE old(i, m) /\ old(j, n)
    BY <2>2 DEF Spread, Apart
  <2>3. CASE old(i, m) /\ new(j, n)
    BY <1>5, <1>7, <2>3
  <2>4. CASE new(i, m) /\ old(j, n)
    BY <1>5, <1>7, <2>4
  <2>5. CASE new(i, m) /\ new(j, n)
    BY <1>6, <2>5
  <2> QED BY <2>1, <2>2, <2>3, <2>4, <2>5
<1>12. Fresh(side, x, g, e, 0, {})
  BY DEF Fresh
<1>13. Spreading(side, x, g, e, k, 0, {})
  <2> SUFFICES ASSUME NEW c \in 1 .. Len(e), c \notin k, e[c].dst \in ToAll, NEW s \in Stations,
                      Peer[s] # e[c].port, ~Received(g, s, c)
               PROVE  OnItsWay(side, x, s, c)
    BY DEF Spreading
  <2>1. OnItsWay(side, w, s, c) \/ (c = f.id /\ s \in side[in])
    BY DEF Spread, Spreading
  <2>2. CASE OnItsWay(side, w, s, c)
    <3>1. PICK i \in Ifaces : s \in side[i] /\ \E m \in Places(w, i) : w[i][m].id = c
      BY <2>2 DEF OnItsWay
    <3>2. PICK m \in Places(w, i) : w[i][m].id = c
      BY <3>1
    <3>3. m \in Places(x, i) /\ x[i][m].id = c
      BY <1>2, <3>2
    <3> QED BY <3>1, <3>3 DEF OnItsWay
  <2>3. CASE c = f.id /\ s \in side[in]
    <3>1. out = FloodPorts(Home[in], in) /\ \A p \in out : Sendable(p)
      BY <2>3
    <3>2. side[in] = UNION {side[Peer[q]] : q \in FloodPorts(Home[in], in)}
      BY DEF TreeOf
    <3>3. PICK q \in out : s \in side[Peer[q]]
      BY <2>3, <3>1, <3>2
    <3>4. Peer[q] \in Ifaces /\ Peer[Peer[q]] = q
      BY <1>1, NetworkAssumption DEF Ifaces
    <3>5. \E m \in Places(x, Peer[q]) : x[Peer[q]][m].id = f.id
      BY <1>4, <3>1, <3>3, <3>4
    <3> QED BY <2>3, <3>3, <3>4, <3>5 DEF OnItsWay
  <2> QED BY <2>1, <2>2, <2>3
<1> QED BY <1>8, <1>9, <1>10, <1>11, <1>12, <1>13 DEF Spread, x

(* No table holds a broadcast or multicast address.                        *)
LEMMA UnknownToAll ==
  ASSUME TypeOK', NEW s \in Switches, NEW dst \in ToAll
  PROVE  Known(s, dst) = {}
<1> SUFFICES ASSUME NEW k \in Slots, entries'[s][k] # Invalid, entries'[s][k].mac = dst
             PROVE  FALSE
  BY DEF Known
<1>1. entries'[s][k] \in Entry
  BY DEF TypeOK
<1>2. dst \in Ifaces
  BY <1>1 DEF Entry
<1> QED BY <1>2, NetworkAssumption

(* switch_receive passes a frame on as a tree asks for: by ports of its    *)
(* own other than the incoming one, by all of them if it is a broadcast or *)
(* a multicast.                                                            *)
LEMMA SwitchReceiveSpread ==
  ASSUME Inv, Inv', NEW side, TreeOf(side), NEW w \in Wires, NEW e \in Log,
         NEW f \in Frame, NEW in \in Ports, SwitchReceive(Home[in], in, f, w),
         Spread(side, w, got, e, lost, f.id, side[in]), f.id \in 1 .. Len(e), f.dst = e[f.id].dst
  PROVE  Spread(side, wire', got, e, lost', 0, {})
<1> DEFINE s     == Home[in]
           known == Known(s, f.dst)
           out   == IF f.dst = Broadcast \/ known = {} THEN FloodPorts(s, in)
                    ELSE {entries'[s][First(known)].port} \ {in}
<1>1. got \in Gots /\ s \in Switches /\ TypeOK
  BY NetworkAssumption DEF Inv, TypeOK, Gots
<1>2. CASE ~Accepted(in) \/ LearnSlot(s, f.src) = {}
  <2>1. wire' = w /\ lost' = lost \cup {f.id}
    BY <1>2 DEF SwitchReceive
  <2> QED BY <2>1, DroppedSpread
<1>3. CASE ~(~Accepted(in) \/ LearnSlot(s, f.src) = {})
  <2>1. /\ wire' = Transmitted(w, out, f)
        /\ lost' = IF out # {} /\ \A p \in out : Sendable(p) THEN lost ELSE lost \cup {f.id}
    BY <1>3, Zenon DEF SwitchReceive
  <2>2. out \in SUBSET FloodPorts(s, in)
    <3>1. ASSUME f.dst # Broadcast, known # {}
          PROVE  entries'[s][First(known)].port \in Ports /\ Home[entries'[s][First(known)].port] = s
      <4>1. known \in SUBSET Slots
        BY DEF Known
      <4>2. First(known) \in known
        BY <3>1, <4>1, FirstSlot
      <4>3. First(known) \in Slots /\ entries'[s][First(known)] # Invalid
        BY <4>2 DEF Known
      <4>4. entries' \in [Switches -> [Slots -> Entry \cup {Invalid}]]
        BY DEF Inv, TypeOK
      <4>5. entries'[s][First(known)] \in Entry
        BY <1>1, <4>3, <4>4
      <4>6. First(known) \in Valid(s)'
        BY <4>3 DEF Valid
      <4> QED BY <1>1, <4>5, <4>6 DEF Entry, Inv, OwnPorts
    <3> QED BY <3>1 DEF FloodPorts
  <2>3. \/ f.id \in lost' \/ f.dst \notin ToAll
        \/ out = FloodPorts(s, in) /\ \A p \in out : Sendable(p)
    <3>1. f.dst \in ToAll => known = {}
      BY <1>1, UnknownToAll DEF Inv
    <3> HIDE DEF known
    <3> QED BY <2>1, <3>1
  <2>4. lost \subseteq lost'
    BY <2>1
  <2> HIDE DEF out
  <2> QED BY <1>1, <2>1, <2>2, <2>3, <2>4, SentSpread
<1> QED BY <1>2, <1>3
-----------------------------------------------------------------------------
(* The steps of a tree of switches.                                        *)

Whole(side) == Spread(side, wire, got, entered, lost, 0, {})

(* A frame enters: it is to be sent to every other station.                *)
LEMMA EnterSpread ==
  ASSUME Inv, NEW side, TreeOf(side), Whole(side), NEW t \in Traffic, Enter(t[1], t[2], t[3])
  PROVE  Whole(side)'
<1> DEFINE f == [id |-> Len(entered'), src |-> t[2], dst |-> t[3]]
           c == [port |-> t[1], dst |-> t[3]]
           S == side[t[1]]
<1>1. t[1] \in Ports /\ t[2] \in Stations /\ t[3] \in Stations \cup ToAll
  BY NetworkAssumption
<1>2. /\ entered' = Append(entered, c) /\ got' = got
      /\ Len(entered) < MaxFrames
      /\ SwitchReceive(Home[t[1]], t[1], f, wire)
  BY DEF Enter
<1>3. Inv'
  BY EnterKeeps
<1>4. wire \in Wires /\ got \in Gots /\ entered \in Log /\ entered' \in Log
  BY <1>3 DEF Inv, TypeOK, Wires, Gots, Log
<1>5. Len(entered) \in Nat /\ c \in [port: Ports, dst: Ifaces \cup ToAll]
  BY <1>1, <1>4 DEF Log, Ifaces
<1>6. /\ Len(entered') = Len(entered) + 1 /\ entered'[Len(entered) + 1] = c
      /\ \A n \in 1 .. Len(entered) : entered'[n] = entered[n]
  BY <1>2, <1>4, <1>5 DEF Log
<1>7. f \in Frame /\ f.id = Len(entered) + 1 /\ f.dst = t[3]
  <2>1. Len(entered') \in 1 .. MaxFrames
    BY <1>2, <1>5, <1>6, SwitchSizesAssumption
  <2>2. t[2] \in Ifaces /\ t[3] \in Ifaces \cup ToAll
    BY <1>1 DEF Ifaces
  <2> QED BY <1>6, <2>1, <2>2 DEF Frame
<1>8. f.id \in 1 .. Len(entered') /\ f.dst = entered'[f.id].dst /\ f.id \notin 1 .. Len(entered)
  BY <1>5, <1>6, <1>7
<1>9. S \subseteq Stations /\ \A s \in Stations : (Peer[s] # t[1]) <=> s \in S
  <2>1. PICK z \in Stations : t[1] = Peer[z]
    BY NetworkAssumption
  <2>2. side[z] = {z} /\ S = Stations \ side[z]
    BY <2>1 DEF TreeOf, Ifaces
  <2>3. \A s \in Stations : Peer[s] = Peer[z] => s = z
    BY <2>1, NetworkAssumption DEF Ifaces
  <2> QED BY <2>1, <2>2, <2>3
<1> HIDE DEF f, S
<1>10. Copies(wire, got, entered)
  BY DEF Whole, Spread
<1>11. /\ \A i \in Ifaces : \A m \in Places(wire, i) :
            /\ wire[i][m].id \in 1 .. Len(entered') /\ wire[i][m].id # f.id
            /\ entered'[wire[i][m].id] = entered[wire[i][m].id]
       /\ \A s \in Stations : \A n \in 1 .. Len(got[s]) :
            /\ got[s][n] \in 1 .. Len(entered') /\ got[s][n] # f.id
            /\ entered'[got[s][n]] = entered[got[s][n]]
  <2>1. \A n \in 1 .. Len(entered) : n \in 1 .. Len(entered') /\ n # f.id
    BY <1>5, <1>6, <1>7
  <2> QED BY <1>6, <1>10, <2>1 DEF Copies
<1>12. Copies(wire, got, entered')
  BY <1>10, <1>11 DEF Copies
<1>13. Away(side, wire, got, entered')
  BY <1>11 DEF Whole, Spread, Away
<1>14. Apart(side, wire) /\ NotYet(side, wire, got) /\ GotOnce(got)
  BY DEF Whole, Spread
<1>15. Fresh(side, wire, got, entered', f.id, S)
  <2>1. \A s \in S : s \in Stations /\ Peer[s] # entered'[f.id].port
    BY <1>6, <1>7, <1>9
  <2>2. \A s \in S : ~Received(got, s, f.id)
    BY <1>11, <2>1 DEF Received
  <2> QED BY <1>8, <1>11, <2>1, <2>2 DEF Fresh
<1>16. Spreading(side, wire, got, entered', lost, f.id, S)
  <2> SUFFICES ASSUME NEW d \in 1 .. Len(entered'), d \notin lost, entered'[d].dst \in ToAll,
                      NEW s \in Stations, Peer[s] # entered'[d].port
               PROVE  Received(got, s, d) \/ OnItsWay(side, wire, s, d) \/ (d = f.id /\ s \in S)
    BY DEF Spreading
  <2>1. CASE d = f.id
    BY <1>6, <1>7, <1>9, <2>1
  <2>2. CASE d # f.id
    <3>1. d \in 1 .. Len(entered) /\ entered'[d] = entered[d]
      BY <1>5, <1>6, <1>7, <2>2
    <3> QED BY <3>1 DEF Whole, Spread, Spreading
  <2> QED BY <2>1, <2>2
<1>17. Spread(side, wire, got, entered', lost, f.id, S)
  BY <1>12, <1>13, <1>14, <1>15, <1>16 DEF Spread
<1>18. Spread(side, wire', got, entered', lost', 0, {})
  BY <1>1, <1>2, <1>3, <1>4, <1>7, <1>8, <1>17, SwitchReceiveSpread DEF S
<1> QED BY <1>2, <1>18 DEF Whole

(* The frame that arrives, and what is to be done with it.                 *)
LEMMA ArrivesSpread ==
  ASSUME Inv, NEW side, TreeOf(side), Whole(side), NEW i \in Ifaces, wire[i] # <<>>
  PROVE  LET f == Head(wire[i])
         IN  /\ f \in Frame /\ f.id \in 1 .. Len(entered) /\ f.dst = entered[f.id].dst
             /\ Rest(i) \in Wires
             /\ Spread(side, Rest(i), got, entered, lost, f.id, side[i])
<1>1. wire \in Wires /\ got \in Gots /\ entered \in Log
  BY DEF Inv, TypeOK, Wires, Gots, Log
<1>2. Head(wire[i]) \in Frame /\ Rest(i) \in Wires
  BY RestType DEF Inv, Wires
<1>3. wire[i] \in Seq(Frame) /\ Head(wire[i]) = wire[i][1] /\ 1 \in Places(wire, i)
  BY <1>1 DEF Wires, Places
<1>4. wire[i][1].id \in 1 .. Len(entered) /\ wire[i][1].dst = entered[wire[i][1].id].dst
  BY <1>3 DEF Whole, Spread, Copies
<1>5. Spread(side, Rest(i), got, entered, lost, wire[i][1].id, side[i])
  BY <1>1, TakenSpread DEF Rest, Whole
<1> QED BY <1>2, <1>3, <1>4, <1>5

(* A frame arrives at a port and is passed on, lost, or not for it.        *)
LEMMA ArrivePortSpread ==
  ASSUME Inv, NEW side, TreeOf(side), Whole(side), NEW p \in Ports, ArrivePort(p)
  PROVE  Whole(side)'
<1> DEFINE f == Head(wire[p])
<1>1. wire[p] # <<>> /\ entered' = entered /\ got' = got /\ p \in Ifaces
  BY DEF ArrivePort, Ifaces
<1>2. /\ f \in Frame /\ f.id \in 1 .. Len(entered) /\ f.dst = entered[f.id].dst
      /\ Rest(p) \in Wires
      /\ Spread(side, Rest(p), got, entered, lost, f.id, side[p])
  BY <1>1, ArrivesSpread
<1>3. entered \in Log
  BY DEF Inv, TypeOK, Log
<1> HIDE DEF f
<1>4. CASE Passes(p)
  <2>1. SwitchReceive(Home[p], p, f, Rest(p))
    BY <1>4 DEF ArrivePort, f
  <2>2. Inv'
    BY ArrivePortKeeps
  <2>3. Spread(side, wire', got, entered, lost', 0, {})
    BY <1>2, <1>3, <2>1, <2>2, SwitchReceiveSpread
  <2> QED BY <1>1, <2>3 DEF Whole
<1>5. CASE ~Passes(p)
  <2>1. wire' = Rest(p) /\ lost' = lost /\ f.dst \notin ToAll
    BY <1>5 DEF ArrivePort, Passes, f
  <2>2. Spread(side, Rest(p), got, entered, lost, 0, {})
    BY <1>2, <2>1, DroppedSpread
  <2> QED BY <1>1, <2>1, <2>2 DEF Whole
<1> QED BY <1>4, <1>5

(* A frame arrives at a station: its last copy on that way.                *)
LEMMA ArriveStationSpread ==
  ASSUME Inv, NEW side, TreeOf(side), Whole(side), NEW i \in Stations, ArriveStation(i)
  PROVE  Whole(side)'
<1> DEFINE f == Head(wire[i])
<1>1. /\ wire[i] # <<>> /\ wire' = Rest(i) /\ i \in Ifaces
      /\ entered' = entered /\ lost' = lost
      /\ got' = IF Passes(i) THEN [got EXCEPT ![i] = Append(@, f.id)] ELSE got
  BY DEF ArriveStation, Ifaces
<1>2. /\ f \in Frame /\ f.id \in 1 .. Len(entered) /\ f.dst = entered[f.id].dst
      /\ Rest(i) \in Wires
      /\ Spread(side, Rest(i), got, entered, lost, f.id, side[i])
  BY <1>1, ArrivesSpread
<1>3. entered \in Log /\ got \in Gots /\ side[i] = {i}
  BY DEF Inv, TypeOK, Log, Gots, TreeOf
<1>4. ~Passes(i) => f.dst \notin ToAll
  BY DEF Passes
<1> HIDE DEF f
<1>5. CASE Passes(i)
  <2>1. Spread(side, Rest(i), [got EXCEPT ![i] = Append(@, f.id)], entered, lost, 0, {})
    BY <1>2, <1>3, ReceivedSpread
  <2> QED BY <1>1, <1>5, <2>1 DEF Whole
<1>6. CASE ~Passes(i)
  <2>1. Spread(side, Rest(i), got, entered, lost, 0, {})
    BY <1>2, <1>4, <1>6, DroppedSpread
  <2> QED BY <1>1, <1>6, <2>1 DEF Whole
<1> QED BY <1>5, <1>6

(* Flooding by switch_receive, in every tree of switches: however the      *)
(* frames overtake each other, whatever the tables hold and whichever      *)
(* ports go down, no station receives a frame twice or its own, and a      *)
(* broadcast or multicast of which no copy was dropped has reached all     *)
(* when nothing is in flight.  (Where links form a cycle a flood goes      *)
(* round for ever.)                                                        *)
THEOREM BroadcastsOnce ==
  ASSUME NEW CONSTANT side, TreeOf(side)
  PROVE  Spec => []BroadcastOnce
<1>1. Init => Whole(side)
  <2> SUFFICES ASSUME Init PROVE Whole(side)
    OBVIOUS
  <2>1. /\ \A i \in Ifaces : Places(wire, i) = {}
        /\ \A s \in Stations : 1 .. Len(got[s]) = {}
        /\ 1 .. Len(entered) = {}
    BY DEF Init, Places
  <2> QED BY <2>1 DEF Whole, Spread, Copies, Away, Apart, NotYet, GotOnce, Fresh, Spreading
<1>2. Inv /\ Whole(side) /\ [Next]_vars => Whole(side)'
  <2> SUFFICES ASSUME Inv, Whole(side), [Next]_vars PROVE Whole(side)'
    OBVIOUS
  <2>1. ASSUME UNCHANGED <<wire, history>> PROVE Whole(side)'
    BY <2>1, Zenon DEF Whole, history
  <2>2. ASSUME NEW p \in Ports, ArrivePort(p) PROVE Whole(side)'
    BY <2>2, ArrivePortSpread
  <2>3. ASSUME NEW i \in Stations, ArriveStation(i) PROVE Whole(side)'
    BY <2>3, ArriveStationSpread
  <2>4. ASSUME NEW s \in Switches, AgeTimer(s) PROVE Whole(side)'
    BY <2>1, <2>4 DEF AgeTimer
  <2>5. CASE Tick
    BY <2>1, <2>5 DEF Tick
  <2>6. ASSUME NEW t \in Traffic, Enter(t[1], t[2], t[3]) PROVE Whole(side)'
    BY <2>6, EnterSpread
  <2>7. ASSUME NEW p \in Fragile, PortDown(p) \/ PortUp(p) PROVE Whole(side)'
    BY <2>1, <2>7 DEF PortDown, PortUp
  <2>8. CASE UNCHANGED vars
    BY <2>1, <2>8 DEF vars
  <2> QED BY <2>2, <2>3, <2>4, <2>5, <2>6, <2>7, <2>8 DEF Next, Step
<1>3. Inv /\ Whole(side) => BroadcastOnce
  <2> SUFFICES ASSUME Inv, Whole(side) PROVE BroadcastOnce
    OBVIOUS
  <2>1. /\ \A i \in Stations : DOMAIN got[i] = 1 .. Len(got[i])
        /\ DOMAIN entered = 1 .. Len(entered)
    BY DEF Inv, TypeOK
  <2>2. NoDuplicates
    BY <2>1 DEF NoDuplicates, Whole, Spread, GotOnce, Away
  <2>3. BroadcastReaches
    <3> SUFFICES ASSUME Quiet, NEW f \in 1 .. Len(entered), f \notin lost,
                        entered[f].dst \in ToAll, NEW i \in Stations, Peer[i] # entered[f].port
                 PROVE  Received(got, i, f)
      BY <2>1 DEF BroadcastReaches, Received
    <3>1. \A j \in Ifaces : Places(wire, j) = {}
      BY DEF Quiet, Places
    <3>2. Received(got, i, f) \/ OnItsWay(side, wire, i, f)
      BY DEF Whole, Spread, Spreading
    <3> QED BY <3>1, <3>2 DEF OnItsWay
  <2> QED BY <2>2, <2>3 DEF BroadcastOnce
<1> QED BY <1>1, <1>2, <1>3, Invariance, PTL DEF Spec

=============================================================================
