---------------------------- MODULE RoutingProofs ----------------------------
(***************************************************************************)
(* Proofs about the route table and the static routes: the FIB is the best *)
(* of the RIB, lookups find it, and the static configuration agrees with   *)
(* the table.  For every address width, table size, set of destinations,   *)
(* protocols, next hops and metrics.                                       *)
(***************************************************************************)
EXTENDS Routing, InductionLemmas

Protos == Dynamic \cup {"STATIC"}

(* Candidates and FIB entries, without a bound on the sequence numbers.    *)
Candidate == [prefix: Addresses, len: 0 .. Width, proto: Protos, hop: Hops,
              metric: Metrics, seq: Nat]
Forward   == [prefix: Addresses, len: 0 .. Width, proto: Protos, hop: Hops,
              metric: Metrics, rib: RibSlots]

Ribs == [RibSlots -> Candidate \cup {NoRoute}]

UsedRib(rib) == {i \in RibSlots : rib[i] # NoRoute}

SeqsDistinct(rib) == \A i, j \in UsedRib(rib) : rib[i].seq = rib[j].seq => i = j

(* Candidates and FIB entries are told from unused slots by their fields.  *)
LEMMA InUse == /\ \A r \in Candidate : r # NoRoute
               /\ \A f \in Forward : f # NoRoute
<1>1. ASSUME NEW r \in Candidate, r = NoRoute PROVE FALSE
  <2>1. DOMAIN r = {"prefix", "len", "proto", "hop", "metric", "seq"}
        /\ DOMAIN NoRoute = {"valid"}
    BY DEF NoRoute, Candidate
  <2> QED BY <1>1, <2>1
<1>2. ASSUME NEW f \in Forward, f = NoRoute PROVE FALSE
  <2>1. DOMAIN f = {"prefix", "len", "proto", "hop", "metric", "rib"}
        /\ DOMAIN NoRoute = {"valid"}
    BY DEF NoRoute, Forward
  <2> QED BY <1>2, <2>1
<1> QED BY <1>1, <1>2

(* The first of a non-empty set of positions is one of them.               *)
LEMMA FirstIn ==
  ASSUME NEW S \in SUBSET Nat, S # {}
  PROVE  First(S) \in S /\ \A x \in S : First(S) <= x
BY NatMin DEF First

-----------------------------------------------------------------------------
(* The order of preference.                                                *)

(* Administrative distances are numbers.                                   *)
LEMMA DistanceType == \A p : AdminDistance(p) \in Nat
BY DEF AdminDistance

(* Of two candidates with different sequence numbers one beats the other,  *)
(* and what beats a route beats all that this one beats.                   *)
LEMMA BeatsOrder ==
  ASSUME NEW a \in Candidate, NEW b \in Candidate, NEW c \in Candidate
  PROVE  /\ a.seq # b.seq => Beats(a, b) \/ Beats(b, a)
         /\ Beats(a, b) /\ Beats(b, c) => Beats(a, c)
<1> DEFINE da == AdminDistance(a.proto)
           db == AdminDistance(b.proto)
           dc == AdminDistance(c.proto)
<1>1. da \in Nat /\ db \in Nat /\ dc \in Nat
  BY DistanceType
<1>2. /\ a.metric \in Nat /\ b.metric \in Nat /\ c.metric \in Nat
      /\ a.seq \in Nat /\ b.seq \in Nat /\ c.seq \in Nat
  BY MetricAssumption DEF Candidate
<1> HIDE DEF da, db, dc
<1>3. /\ Beats(a, b) <=> \/ da < db
                         \/ da = db /\ a.metric < b.metric
                         \/ da = db /\ a.metric = b.metric /\ a.seq < b.seq
      /\ Beats(b, a) <=> \/ db < da
                         \/ db = da /\ b.metric < a.metric
                         \/ db = da /\ b.metric = a.metric /\ b.seq < a.seq
      /\ Beats(b, c) <=> \/ db < dc
                         \/ db = dc /\ b.metric < c.metric
                         \/ db = dc /\ b.metric = c.metric /\ b.seq < c.seq
      /\ Beats(a, c) <=> \/ da < dc
                         \/ da = dc /\ a.metric < c.metric
                         \/ da = dc /\ a.metric = c.metric /\ a.seq < c.seq
  BY DEF Beats, da, db, dc
<1> QED BY <1>1, <1>2, <1>3

(* Beats of route_table_rebuild_fib is the preference of the properties.   *)
LEMMA BeatsPreferred ==
  ASSUME NEW a \in Candidate, NEW b \in Candidate, Beats(a, b)
  PROVE  Preferred(a, b)
<1> DEFINE ra == <<AdminDistance(a.proto), a.metric, a.seq>>
           rb == <<AdminDistance(b.proto), b.metric, b.seq>>
<1>1. \E n \in 1 .. 3 : (\A m \in 1 .. n - 1 : ra[m] = rb[m]) /\ ra[n] < rb[n]
  <2>1. CASE AdminDistance(a.proto) < AdminDistance(b.proto)
    <3>1. (\A m \in 1 .. 1 - 1 : ra[m] = rb[m]) /\ ra[1] < rb[1]
      BY <2>1
    <3> QED BY <3>1
  <2>2. CASE AdminDistance(a.proto) = AdminDistance(b.proto) /\ a.metric < b.metric
    <3>1. \A m \in 1 .. 2 - 1 : m = 1
      OBVIOUS
    <3>2. (\A m \in 1 .. 2 - 1 : ra[m] = rb[m]) /\ ra[2] < rb[2]
      BY <2>2, <3>1
    <3> QED BY <3>2
  <2>3. CASE /\ AdminDistance(a.proto) = AdminDistance(b.proto)
             /\ a.metric = b.metric /\ a.seq < b.seq
    <3>1. \A m \in 1 .. 3 - 1 : m = 1 \/ m = 2
      OBVIOUS
    <3>2. (\A m \in 1 .. 3 - 1 : ra[m] = rb[m]) /\ ra[3] < rb[3]
      BY <2>3, <3>1
    <3> QED BY <3>2
  <2> QED BY <2>1, <2>2, <2>3 DEF Beats
<1> QED BY <1>1 DEF Preferred

-----------------------------------------------------------------------------
(* route_table_rebuild_fib.                                                *)

Scans == [fib: Seq(Forward), selected: SUBSET RibSlots]

(* What the scan has built after n slots: each entry copies the candidate  *)
(* it names, one entry per prefix, and every candidate among the n slots   *)
(* is an entry's or beaten by one for its prefix.                          *)
Covers(rib, n, s) ==
  /\ s \in Scans /\ Len(s.fib) <= n
  /\ \A j \in 1 .. Len(s.fib) :
       LET i == s.fib[j].rib
       IN  i \in 1 .. n /\ i \in UsedRib(rib) /\ s.fib[j] = Selection(rib[i], i)
  /\ \A j, k \in 1 .. Len(s.fib) : SamePrefix(s.fib[j], s.fib[k]) => j = k
  /\ \A i \in UsedRib(rib) : i <= n =>
       \E j \in 1 .. Len(s.fib) :
         /\ SamePrefix(s.fib[j], rib[i])
         /\ s.fib[j].rib = i \/ Beats(rib[s.fib[j].rib], rib[i])
  /\ s.selected = {s.fib[j].rib : j \in 1 .. Len(s.fib)}

(* A FIB entry has the prefix and the slot of the candidate it was made    *)
(* from.                                                                   *)
LEMMA SelectionType ==
  ASSUME NEW r \in Candidate, NEW i \in RibSlots
  PROVE  /\ Selection(r, i) \in Forward /\ Selection(r, i).rib = i
         /\ SamePrefix(Selection(r, i), r)
         /\ \A x : SamePrefix(Selection(r, i), x) <=> SamePrefix(r, x)
         /\ \A x : SamePrefix(x, Selection(r, i)) <=> SamePrefix(x, r)
BY DEF Selection, Forward, Candidate, SamePrefix

(* The three cases of a turn.                                              *)
LEMMA ConsiderCases ==
  ASSUME NEW rib \in Ribs, NEW s \in Scans, NEW i \in RibSlots
  PROVE  \/ rib[i] = NoRoute /\ Consider(s, rib, i) = s
         \/ /\ rib[i] # NoRoute
            /\ \A j \in 1 .. Len(s.fib) : ~SamePrefix(s.fib[j], rib[i])
            /\ Consider(s, rib, i) = [fib |-> Append(s.fib, Selection(rib[i], i)),
                                      selected |-> s.selected \cup {i}]
         \/ /\ rib[i] # NoRoute
            /\ \E j \in 1 .. Len(s.fib) :
                 /\ SamePrefix(s.fib[j], rib[i])
                 /\ Consider(s, rib, i) =
                      IF Beats(rib[i], rib[s.fib[j].rib])
                      THEN [fib |-> [s.fib EXCEPT ![j] = Selection(rib[i], i)],
                            selected |-> (s.selected \ {s.fib[j].rib}) \cup {i}]
                      ELSE s
<1> DEFINE match == {j \in 1 .. Len(s.fib) : SamePrefix(s.fib[j], rib[i])}
           j == First(match)
<1>1. CASE rib[i] = NoRoute
  BY <1>1, Zenon DEF Consider
<1>2. CASE rib[i] # NoRoute /\ match = {}
  <2>1. Consider(s, rib, i) = [fib |-> Append(s.fib, Selection(rib[i], i)),
                               selected |-> s.selected \cup {i}]
    BY <1>2, Zenon DEF Consider
  <2> QED BY <1>2, <2>1
<1>3. CASE rib[i] # NoRoute /\ match # {}
  <2>1. Consider(s, rib, i) =
          IF Beats(rib[i], rib[s.fib[j].rib])
          THEN [fib |-> [s.fib EXCEPT ![j] = Selection(rib[i], i)],
                selected |-> (s.selected \ {s.fib[j].rib}) \cup {i}]
          ELSE s
    BY <1>3, Zenon DEF Consider
  <2>2. match \in SUBSET Nat
    OBVIOUS
  <2>3. j \in match
    BY <1>3, <2>2, FirstIn
  <2> HIDE DEF j
  <2> QED BY <1>3, <2>1, <2>3
<1> QED BY <1>1, <1>2, <1>3

(* A turn covers one slot more.                                            *)
LEMMA ConsiderCovers ==
  ASSUME NEW rib \in Ribs, SeqsDistinct(rib), NEW n \in RibSlots,
         NEW s, Covers(rib, n - 1, s)
  PROVE  Covers(rib, n, Consider(s, rib, n))
<1> DEFINE u == Consider(s, rib, n)
           L == Len(s.fib)
<1>1. s \in Scans /\ s.fib \in Seq(Forward) /\ L \in Nat /\ n \in Nat /\ L <= n - 1
  BY RibAssumption DEF Covers, Scans, RibSlots
<1>2. \A j \in 1 .. L : /\ s.fib[j].rib \in 1 .. n - 1 /\ s.fib[j].rib \in UsedRib(rib)
                        /\ s.fib[j] = Selection(rib[s.fib[j].rib], s.fib[j].rib)
  BY DEF Covers
<1>3. \A j, k \in 1 .. L : SamePrefix(s.fib[j], s.fib[k]) => j = k
  BY DEF Covers
<1>4. \A i \in UsedRib(rib) : i <= n - 1 =>
        \E j \in 1 .. L : /\ SamePrefix(s.fib[j], rib[i])
                          /\ s.fib[j].rib = i \/ Beats(rib[s.fib[j].rib], rib[i])
  BY DEF Covers
<1>5. s.selected = {s.fib[j].rib : j \in 1 .. L}
  BY DEF Covers
<1>6. \A i \in UsedRib(rib) : i \in RibSlots /\ rib[i] \in Candidate /\ i \in Nat
  BY RibAssumption DEF UsedRib, Ribs, RibSlots
<1>7. \A i \in UsedRib(rib) : i <= n => i <= n - 1 \/ i = n
  BY <1>1, <1>6
<1>8. CASE rib[n] = NoRoute /\ u = s
  <2>1. \A i \in UsedRib(rib) : i <= n => i <= n - 1
    BY <1>7, <1>8 DEF UsedRib
  <2>2. \A i : i \in 1 .. n - 1 => i \in 1 .. n
    BY <1>1
  <2>3. L <= n
    BY <1>1
  <2> HIDE DEF u
  <2> QED BY <1>1, <1>2, <1>3, <1>4, <1>5, <1>8, <2>1, <2>2, <2>3 DEF Covers, u
<1>9. CASE /\ rib[n] # NoRoute
           /\ \A j \in 1 .. L : ~SamePrefix(s.fib[j], rib[n])
           /\ u = [fib |-> Append(s.fib, Selection(rib[n], n)), selected |-> s.selected \cup {n}]
  <2> DEFINE f == Selection(rib[n], n)
  <2>1. n \in UsedRib(rib) /\ rib[n] \in Candidate
    BY <1>6, <1>9 DEF UsedRib
  <2>2. /\ f \in Forward /\ f.rib = n /\ SamePrefix(f, rib[n])
        /\ \A x : SamePrefix(f, x) <=> SamePrefix(rib[n], x)
        /\ \A x : SamePrefix(x, f) <=> SamePrefix(x, rib[n])
    BY <2>1, SelectionType
  <2> HIDE DEF f, u
  <2>3. u.fib = Append(s.fib, f) /\ u.selected = s.selected \cup {n}
    BY <1>9 DEF f
  <2>4. /\ u.fib \in Seq(Forward) /\ Len(u.fib) = L + 1 /\ u.fib[L + 1] = f
        /\ \A j \in 1 .. L : u.fib[j] = s.fib[j]
    BY <1>1, <2>2, <2>3
  <2>5. \A j : j \in 1 .. L + 1 <=> j \in 1 .. L \/ j = L + 1
    BY <1>1
  <2>6. u \in Scans
    <3>1. s.selected \cup {n} \in SUBSET RibSlots
      BY <1>1 DEF Scans
    <3> QED BY <1>9, <2>3, <2>4, <3>1 DEF Scans, f
  <2>7. Len(u.fib) <= n
    BY <1>1, <2>4
  <2>8. \A j \in 1 .. L + 1 : /\ u.fib[j].rib \in 1 .. n /\ u.fib[j].rib \in UsedRib(rib)
                              /\ u.fib[j] = Selection(rib[u.fib[j].rib], u.fib[j].rib)
    <3> SUFFICES ASSUME NEW j \in 1 .. L + 1
                 PROVE  /\ u.fib[j].rib \in 1 .. n /\ u.fib[j].rib \in UsedRib(rib)
                        /\ u.fib[j] = Selection(rib[u.fib[j].rib], u.fib[j].rib)
      OBVIOUS
    <3>1. CASE j \in 1 .. L
      <4>1. u.fib[j] = s.fib[j] /\ \A i \in 1 .. n - 1 : i \in 1 .. n
        BY <1>1, <2>4, <3>1
      <4> QED BY <1>2, <3>1, <4>1
    <3>2. CASE j = L + 1
      <4>1. n \in 1 .. n
        BY <1>1, <2>1 DEF UsedRib, RibSlots
      <4> QED BY <2>1, <2>2, <2>4, <3>2, <4>1 DEF f
    <3> QED BY <2>5, <3>1, <3>2
  <2>9. \A j, k \in 1 .. L + 1 : SamePrefix(u.fib[j], u.fib[k]) => j = k
    <3>1. \A j \in 1 .. L : ~SamePrefix(u.fib[j], f) /\ ~SamePrefix(f, u.fib[j])
      <4>1. \A x, y : SamePrefix(x, y) <=> SamePrefix(y, x)
        BY DEF SamePrefix
      <4> QED BY <1>9, <2>2, <2>4, <4>1
    <3> QED BY <1>3, <2>4, <2>5, <3>1
  <2>10. ASSUME NEW i \in UsedRib(rib), i <= n
         PROVE  \E j \in 1 .. L + 1 :
                  /\ SamePrefix(u.fib[j], rib[i])
                  /\ u.fib[j].rib = i \/ Beats(rib[u.fib[j].rib], rib[i])
    <3>1. CASE i = n
      BY <2>2, <2>4, <2>5, <3>1
    <3>2. CASE i <= n - 1
      BY <1>4, <2>4, <2>5, <3>2
    <3> QED BY <1>7, <2>10, <3>1, <3>2
  <2>11. u.selected = {u.fib[j].rib : j \in 1 .. L + 1}
    BY <1>5, <2>2, <2>3, <2>4, <2>5
  <2> QED BY <2>4, <2>6, <2>7, <2>8, <2>9, <2>10, <2>11 DEF Covers, u
<1>10. CASE /\ rib[n] # NoRoute
            /\ \E j \in 1 .. L :
                 /\ SamePrefix(s.fib[j], rib[n])
                 /\ u = IF Beats(rib[n], rib[s.fib[j].rib])
                        THEN [fib |-> [s.fib EXCEPT ![j] = Selection(rib[n], n)],
                              selected |-> (s.selected \ {s.fib[j].rib}) \cup {n}]
                        ELSE s
  <2> DEFINE f == Selection(rib[n], n)
  <2>1. n \in UsedRib(rib) /\ rib[n] \in Candidate
    BY <1>6, <1>10 DEF UsedRib
  <2>2. /\ f \in Forward /\ f.rib = n /\ SamePrefix(f, rib[n])
        /\ \A x : SamePrefix(f, x) <=> SamePrefix(rib[n], x)
        /\ \A x : SamePrefix(x, f) <=> SamePrefix(x, rib[n])
    BY <2>1, SelectionType
  <2> HIDE DEF f, u
  <2>3. PICK m \in 1 .. L :
          /\ SamePrefix(s.fib[m], rib[n])
          /\ u = IF Beats(rib[n], rib[s.fib[m].rib])
                 THEN [fib |-> [s.fib EXCEPT ![m] = f],
                       selected |-> (s.selected \ {s.fib[m].rib}) \cup {n}]
                 ELSE s
    BY <1>10 DEF f
  <2> DEFINE cur == s.fib[m].rib
  <2>4. /\ cur \in UsedRib(rib) /\ cur \in 1 .. n - 1 /\ cur # n /\ rib[cur] \in Candidate
        /\ rib[cur].seq # rib[n].seq
    BY <1>1, <1>2, <1>6, <2>1, <2>3 DEF SeqsDistinct
  <2>5. \A x, y, z : SamePrefix(x, y) /\ SamePrefix(y, z) => SamePrefix(x, z) /\ SamePrefix(y, x)
    BY DEF SamePrefix
  <2> HIDE DEF cur
  <2>6. CASE ~Beats(rib[n], rib[cur])
    <3>1. u = s
      BY <2>3, <2>6 DEF cur
    <3>2. Beats(rib[cur], rib[n])
      BY <2>1, <2>4, <2>6, BeatsOrder
    <3>3. ASSUME NEW i \in UsedRib(rib), i <= n
          PROVE  \E j \in 1 .. L :
                   /\ SamePrefix(s.fib[j], rib[i])
                   /\ s.fib[j].rib = i \/ Beats(rib[s.fib[j].rib], rib[i])
      <4>1. CASE i = n
        BY <2>3, <3>2, <4>1 DEF cur
      <4>2. CASE i <= n - 1
        BY <1>4, <4>2
      <4> QED BY <1>7, <3>3, <4>1, <4>2
    <3>4. \A i : i \in 1 .. n - 1 => i \in 1 .. n
      BY <1>1
    <3>5. L <= n
      BY <1>1
    <3> QED BY <1>1, <1>2, <1>3, <1>5, <3>1, <3>3, <3>4, <3>5 DEF Covers, u
  <2>7. CASE Beats(rib[n], rib[cur])
    <3>1. u = [fib |-> [s.fib EXCEPT ![m] = f], selected |-> (s.selected \ {cur}) \cup {n}]
      BY <2>3, <2>7 DEF cur
    <3>2. /\ u.fib = [s.fib EXCEPT ![m] = f] /\ u.selected = (s.selected \ {cur}) \cup {n}
      BY <3>1
    <3>3. /\ u.fib \in Seq(Forward) /\ Len(u.fib) = L /\ u.fib[m] = f
          /\ \A j \in 1 .. L : j # m => u.fib[j] = s.fib[j]
      BY <1>1, <2>2, <2>3, <3>2
    <3>4. u \in Scans
      <4>1. (s.selected \ {cur}) \cup {n} \in SUBSET RibSlots
        BY <1>1 DEF Scans
      <4> QED BY <3>1, <3>2, <3>3, <4>1 DEF Scans
    <3>5. \A j \in 1 .. L : /\ u.fib[j].rib \in 1 .. n /\ u.fib[j].rib \in UsedRib(rib)
                            /\ u.fib[j] = Selection(rib[u.fib[j].rib], u.fib[j].rib)
      <4> SUFFICES ASSUME NEW j \in 1 .. L
                   PROVE  /\ u.fib[j].rib \in 1 .. n /\ u.fib[j].rib \in UsedRib(rib)
                          /\ u.fib[j] = Selection(rib[u.fib[j].rib], u.fib[j].rib)
        OBVIOUS
      <4>1. CASE j # m
        BY <1>1, <1>2, <3>3, <4>1
      <4>2. CASE j = m
        <5>1. n \in 1 .. n
          BY <1>1, <2>1 DEF UsedRib, RibSlots
        <5> QED BY <2>1, <2>2, <3>3, <4>2, <5>1 DEF f
      <4> QED BY <4>1, <4>2
    <3>6. \A j \in 1 .. L : \A x : SamePrefix(u.fib[j], x) <=> SamePrefix(s.fib[j], x)
      <4>1. \A x : SamePrefix(u.fib[m], x) <=> SamePrefix(s.fib[m], x)
        BY <2>2, <2>3, <2>5, <3>3
      <4> QED BY <3>3, <4>1
    <3>7. \A j, k \in 1 .. L : SamePrefix(u.fib[j], u.fib[k]) => j = k
      <4>1. \A j \in 1 .. L : \A x : SamePrefix(x, u.fib[j]) <=> SamePrefix(x, s.fib[j])
        BY <3>6 DEF SamePrefix
      <4> QED BY <1>3, <3>6, <4>1
    <3>8. ASSUME NEW i \in UsedRib(rib), i <= n
          PROVE  \E j \in 1 .. L :
                   /\ SamePrefix(u.fib[j], rib[i])
                   /\ u.fib[j].rib = i \/ Beats(rib[u.fib[j].rib], rib[i])
      <4>1. CASE i = n
        BY <2>2, <2>3, <3>3, <4>1
      <4>2. CASE i <= n - 1
        <5>1. PICK j \in 1 .. L : /\ SamePrefix(s.fib[j], rib[i])
                                  /\ s.fib[j].rib = i \/ Beats(rib[s.fib[j].rib], rib[i])
          BY <1>4, <4>2
        <5>2. CASE j # m
          BY <3>3, <5>1, <5>2
        <5>3. CASE j = m
          <6>1. cur = i \/ Beats(rib[cur], rib[i])
            BY <5>1, <5>3 DEF cur
          <6>2. Beats(rib[n], rib[i])
            BY <1>6, <2>1, <2>4, <2>7, <6>1, BeatsOrder
          <6> QED BY <2>2, <3>3, <3>6, <5>1, <5>3, <6>2
        <5> QED BY <5>2, <5>3
      <4> QED BY <1>7, <3>8, <4>1, <4>2
    <3>9. u.selected = {u.fib[j].rib : j \in 1 .. L}
      <4>1. \A j \in 1 .. L : j # m => s.fib[j].rib # cur
        <5> SUFFICES ASSUME NEW j \in 1 .. L, j # m, s.fib[j].rib = cur PROVE FALSE
          OBVIOUS
        <5>1. s.fib[j] = s.fib[m]
          BY <1>2 DEF cur
        <5> QED BY <1>3, <5>1 DEF SamePrefix
      <4>2. u.fib[m].rib = n /\ \A j \in 1 .. L : j # m => u.fib[j].rib = s.fib[j].rib
        BY <2>2, <3>3
      <4> QED BY <1>5, <2>3, <3>2, <4>1, <4>2 DEF cur
    <3>10. L <= n
      BY <1>1
    <3> QED BY <3>3, <3>4, <3>5, <3>7, <3>8, <3>9, <3>10 DEF Covers, u
  <2> QED BY <2>6, <2>7
<1> QED BY <1>1, <1>8, <1>9, <1>10, ConsiderCases DEF RibSlots

(* A turn yields a FIB and flags, whatever it is given.                    *)
LEMMA ConsiderType ==
  ASSUME NEW rib \in Ribs, NEW s \in Scans, NEW i \in RibSlots
  PROVE  Consider(s, rib, i) \in Scans
<1>1. s.fib \in Seq(Forward) /\ s.selected \in SUBSET RibSlots
  BY DEF Scans
<1>2. rib[i] # NoRoute => Selection(rib[i], i) \in Forward
  BY SelectionType DEF Ribs
<1> DEFINE f == Selection(rib[i], i)
<1> HIDE DEF f
<1>3. ASSUME f \in Forward
      PROVE  [fib |-> Append(s.fib, f), selected |-> s.selected \cup {i}] \in Scans
  BY <1>1, <1>3 DEF Scans
<1>4. ASSUME f \in Forward, NEW j \in 1 .. Len(s.fib)
      PROVE  [fib |-> [s.fib EXCEPT ![j] = f],
              selected |-> (s.selected \ {s.fib[j].rib}) \cup {i}] \in Scans
  <2>1. [s.fib EXCEPT ![j] = f] \in Seq(Forward)
    BY <1>1, <1>4
  <2>2. (s.selected \ {s.fib[j].rib}) \cup {i} \in SUBSET RibSlots
    BY <1>1
  <2> QED BY <2>1, <2>2 DEF Scans
<1>5. CASE rib[i] = NoRoute
  BY <1>5, ConsiderCases
<1>6. CASE rib[i] # NoRoute
  <2>1. f \in Forward
    BY <1>2, <1>6 DEF f
  <2>2. CASE Consider(s, rib, i) = [fib |-> Append(s.fib, f), selected |-> s.selected \cup {i}]
    BY <1>3, <2>1, <2>2
  <2>3. CASE \E j \in 1 .. Len(s.fib) :
               Consider(s, rib, i) =
                 IF Beats(rib[i], rib[s.fib[j].rib])
                 THEN [fib |-> [s.fib EXCEPT ![j] = f],
                       selected |-> (s.selected \ {s.fib[j].rib}) \cup {i}]
                 ELSE s
    <3>1. PICK j \in 1 .. Len(s.fib) :
            Consider(s, rib, i) =
              IF Beats(rib[i], rib[s.fib[j].rib])
              THEN [fib |-> [s.fib EXCEPT ![j] = f],
                    selected |-> (s.selected \ {s.fib[j].rib}) \cup {i}]
              ELSE s
      BY <2>3
    <3> QED BY <1>4, <2>1, <3>1
  <2> QED BY <1>6, <2>2, <2>3, ConsiderCases, Zenon DEF f
<1> QED BY <1>5, <1>6

(* The rebuilt table keeps its RIB, and its FIB covers all of it.          *)
LEMMA RebuiltCovers ==
  ASSUME NEW rib \in Ribs, SeqsDistinct(rib), NEW next
  PROVE  LET t == Rebuilt(rib, next)
         IN  /\ t.rib = rib /\ t.next = next
             /\ Covers(rib, RibSize, [fib |-> t.fib, selected |-> t.selected])
<1> DEFINE start == [fib |-> <<>>, selected |-> {}]
           g == [x \in (1 .. RibSize) \X Scans |-> Consider(x[2], rib, x[1])]
           Scan(f) == f = [i \in 0 .. RibSize |->
                             IF i = 0 THEN start ELSE Consider(f[i - 1], rib, i)]
           h == CHOOSE f : Scan(f)
<1>1. RibSize \in Nat /\ start \in Scans
  BY RibAssumption DEF Scans
<1>2. g \in Turns(RibSize, Scans)
  BY ConsiderType DEF Turns, RibSlots
<1>3. Rebuilt(rib, next) = [rib |-> rib, fib |-> h[RibSize].fib,
                            selected |-> h[RibSize].selected, next |-> next]
  BY DEF Rebuilt
<1> HIDE DEF g
<1>4. PICK f : LoopOf(RibSize, Scans, start, g, f)
  BY <1>1, <1>2, LoopExists, Zenon
<1>5. \A i \in 1 .. RibSize : f[i] = Consider(f[i - 1], rib, i)
  <2> SUFFICES ASSUME NEW i \in 1 .. RibSize PROVE f[i] = Consider(f[i - 1], rib, i)
    OBVIOUS
  <2>1. i - 1 \in 0 .. RibSize
    BY <1>1
  <2>2. <<i, f[i - 1]>> \in (1 .. RibSize) \X Scans
    BY <1>4, <2>1 DEF LoopOf
  <2> QED BY <1>4, <2>2 DEF LoopOf, g
<1>6. Scan(f)
  BY <1>1, <1>4, <1>5 DEF LoopOf
<1>7. Scan(h)
  BY <1>6, Zenon
<1> HIDE DEF h
<1>8. h[0] = start /\ \A i \in 1 .. RibSize : h[i] = Consider(h[i - 1], rib, i)
  <2> HIDE DEF start
  <2>1. 0 \in 0 .. RibSize /\ \A i \in 1 .. RibSize : i \in 0 .. RibSize /\ i # 0
    BY <1>1
  <2>2. \A i \in 0 .. RibSize : h[i] = IF i = 0 THEN start ELSE Consider(h[i - 1], rib, i)
    BY <1>7, Zenon
  <2> QED BY <2>1, <2>2, Zenon
<1> DEFINE P == {i \in 0 .. RibSize : Covers(rib, i, h[i])}
<1>9. 0 \in P
  <2>1. start \in Scans /\ Len(start.fib) = 0 /\ start.selected = {}
    BY <1>1
  <2>2. \A i \in UsedRib(rib) : ~(i <= 0)
    BY DEF UsedRib, RibSlots
  <2>3. \A j : j \notin 1 .. 0
    OBVIOUS
  <2> HIDE DEF start
  <2>4. Covers(rib, 0, start)
    BY <2>1, <2>2, <2>3 DEF Covers
  <2> QED BY <1>1, <1>8, <2>4
<1>10. \A i \in 1 .. RibSize : i - 1 \in P => i \in P
  <2> SUFFICES ASSUME NEW i \in 1 .. RibSize, i - 1 \in P PROVE Covers(rib, i, h[i])
    OBVIOUS
  <2>1. Covers(rib, i - 1, h[i - 1]) /\ i \in RibSlots
    BY DEF RibSlots
  <2> QED BY <1>8, <2>1, ConsiderCovers
<1> HIDE DEF P
<1>11. RibSize \in P
  BY <1>1, <1>9, <1>10, UpTo
<1>12. Covers(rib, RibSize, h[RibSize])
  BY <1>11 DEF P
<1>13. h[RibSize] \in Scans
  BY <1>12 DEF Covers
<1>14. [fib |-> h[RibSize].fib, selected |-> h[RibSize].selected] = h[RibSize]
  BY <1>13 DEF Scans
<1> QED BY <1>3, <1>12, <1>14

-----------------------------------------------------------------------------
(* Addresses.                                                              *)

(* The blocks of addresses have a positive number of them.                 *)
LEMMA BlockSizeType == \A n \in 0 .. Width : BlockSize[n] \in Nat \ {0}
<1> DEFINE S == Nat \ {0}
           Twice(x) == 2 * x
           g == [x \in (1 .. Width) \X S |-> Twice(x[2])]
           Scan(f) == f = [n \in 0 .. Width |-> IF n = 0 THEN 1 ELSE Twice(f[n - 1])]
<1>1. Width \in Nat /\ 1 \in S
  BY WidthAssumption
<1>2. g \in Turns(Width, S)
  BY DEF Turns
<1>3. \A x \in S : Twice(x) \in S
  OBVIOUS
<1> HIDE DEF g, S, Twice
<1>4. PICK f : LoopOf(Width, S, 1, g, f)
  BY <1>1, <1>2, LoopExists, Zenon
<1>5. \A n \in 1 .. Width : f[n] = Twice(f[n - 1])
  <2> SUFFICES ASSUME NEW n \in 1 .. Width PROVE f[n] = Twice(f[n - 1])
    OBVIOUS
  <2>1. n - 1 \in 0 .. Width
    BY <1>1
  <2>2. <<n, f[n - 1]>> \in (1 .. Width) \X S
    BY <1>4, <2>1 DEF LoopOf
  <2> QED BY <1>4, <2>2 DEF LoopOf, g
<1>6. Scan(f)
  <2>1. f \in [0 .. Width -> S] /\ f[0] = 1
    BY <1>4 DEF LoopOf
  <2>2. \A n \in 0 .. Width : n # 0 => n \in 1 .. Width
    BY <1>1
  <2>3. \A n \in 0 .. Width : f[n] = IF n = 0 THEN 1 ELSE Twice(f[n - 1])
    BY <1>5, <2>1, <2>2, Zenon
  <2>4. f = [n \in 0 .. Width |-> f[n]]
    BY <2>1, Zenon
  <2> QED BY <2>3, <2>4, Zenon
<1>7. Scan(BlockSize)
  BY <1>6, Zenon DEF BlockSize, Twice
<1>8. BlockSize[0] = 1 /\ \A n \in 1 .. Width : BlockSize[n] = Twice(BlockSize[n - 1])
  <2>1. 0 \in 0 .. Width /\ \A n \in 1 .. Width : n \in 0 .. Width /\ n # 0
    BY <1>1
  <2>2. \A n \in 0 .. Width : BlockSize[n] = IF n = 0 THEN 1 ELSE Twice(BlockSize[n - 1])
    BY <1>7, Zenon
  <2> QED BY <2>1, <2>2, Zenon
<1>9. \A n \in 1 .. Width : BlockSize[n - 1] \in S => BlockSize[n] \in S
  BY <1>3, <1>8
<1>10. BlockSize[0] \in S
  BY <1>1, <1>8
<1>11. \A n \in 0 .. Width : BlockSize[n] \in S
  BY <1>1, <1>9, <1>10, LoopInvariant
<1> QED BY <1>11 DEF S

(* Masking an address gives an address, and masking it again changes       *)
(* nothing.                                                                *)
LEMMA NormalizedType ==
  ASSUME NEW a \in Addresses, NEW len \in 0 .. Width
  PROVE  /\ Normalized(a, len) \in Addresses
         /\ Normalized(Normalized(a, len), len) = Normalized(a, len)
<1> DEFINE m == BlockSize[Width - len]
<1>1. Width - len \in 0 .. Width /\ Width \in 0 .. Width
  BY WidthAssumption
<1>2. m \in Nat /\ m > 0 /\ BlockSize[Width] \in Nat
  BY <1>1, BlockSizeType
<1>3. a \in Nat /\ a <= BlockSize[Width] - 1
  BY <1>2 DEF Addresses
<1> HIDE DEF m
<1>4. a % m \in Nat /\ a % m <= a
  BY <1>2, <1>3
<1>5. (a - (a % m)) % m = 0
  BY <1>2, <1>3
<1>6. Normalized(a, len) = a - (a % m)
  BY DEF Normalized, m
<1>7. Normalized(a, len) \in Addresses
  BY <1>2, <1>3, <1>4, <1>6 DEF Addresses
<1>8. Normalized(Normalized(a, len), len) = (a - (a % m)) - ((a - (a % m)) % m)
  BY <1>6 DEF Normalized, m
<1> QED BY <1>3, <1>4, <1>5, <1>6, <1>7, <1>8

-----------------------------------------------------------------------------
(* The table.                                                              *)

(* One candidate per key, and sequence numbers given once and below next.  *)
RibOk(rib, next) ==
  /\ rib \in Ribs /\ next \in Nat \ {0}
  /\ \A i \in UsedRib(rib) : rib[i].seq \in 1 .. next - 1
  /\ SeqsDistinct(rib)
  /\ \A i, j \in UsedRib(rib) :
       SamePrefix(rib[i], rib[j]) /\ rib[i].proto = rib[j].proto => i = j

(* FIB and flags are those the rebuild makes of the RIB.                   *)
TableOk(t) == RibOk(t.rib, t.next) /\ t = Rebuilt(t.rib, t.next)

(* The table after a rebuild of the FIB is sound, whatever the RIB.        *)
LEMMA RebuiltOk ==
  ASSUME NEW rib, NEW next, RibOk(rib, next)
  PROVE  /\ TableOk(Rebuilt(rib, next))
         /\ Rebuilt(rib, next).rib = rib /\ Rebuilt(rib, next).next = next
<1>1. Rebuilt(rib, next).rib = rib /\ Rebuilt(rib, next).next = next
  BY RebuiltCovers DEF RibOk
<1> QED BY <1>1 DEF TableOk

(* In a sound table the FIB covers exactly the prefixes of the RIB.        *)
LEMMA TableCovers ==
  ASSUME NEW t, TableOk(t)
  PROVE  Covers(t.rib, RibSize, [fib |-> t.fib, selected |-> t.selected])
<1>1. Covers(t.rib, RibSize, [fib |-> Rebuilt(t.rib, t.next).fib,
                              selected |-> Rebuilt(t.rib, t.next).selected])
  BY RebuiltCovers DEF TableOk, RibOk
<1> QED BY <1>1 DEF TableOk

(* Taking candidates away keeps the table sound.                           *)
Without(rib, old) == [i \in RibSlots |-> IF i \in old THEN NoRoute ELSE rib[i]]

(* The table is sound after candidates were removed.                       *)
LEMMA WithoutOk ==
  ASSUME NEW t, TableOk(t), NEW old
  PROVE  LET u == Rebuilt(Without(t.rib, old), t.next)
         IN  TableOk(u) /\ u.rib = Without(t.rib, old) /\ u.next = t.next
<1> DEFINE rib == Without(t.rib, old)
<1>1. t.rib \in Ribs
  BY DEF TableOk, RibOk
<1>2. rib \in Ribs /\ \A i \in UsedRib(rib) : i \in UsedRib(t.rib) /\ rib[i] = t.rib[i]
  BY <1>1 DEF Ribs, UsedRib, Without
<1> HIDE DEF rib
<1>3. RibOk(rib, t.next)
  BY <1>2 DEF TableOk, RibOk, SeqsDistinct
<1> QED BY <1>3, RebuiltOk DEF rib

(* u is t with the candidate of a key added or updated in slot k, and all  *)
(* other slots as they were.                                               *)
Placed(t, u, k, prefix, len, proto, hop, metric) ==
  /\ k \in UsedRib(u.rib)
  /\ u.rib[k].prefix = prefix /\ u.rib[k].len = len /\ u.rib[k].proto = proto
  /\ u.rib[k].hop = hop /\ u.rib[k].metric = metric
  /\ k \in UsedRib(t.rib) =>
       t.rib[k].prefix = prefix /\ t.rib[k].len = len /\ t.rib[k].proto = proto
  /\ \A i \in RibSlots \ {k} : u.rib[i] = t.rib[i]

(* route_table_add: refused, or its key is in the table as given.          *)
LEMMA AddOk ==
  ASSUME NEW t, TableOk(t), NEW a \in Addresses, NEW len \in 0 .. Width,
         NEW proto \in Protos, NEW hop \in Hops, NEW metric \in Metrics
  PROVE  LET u == RouteTableAdd(t, a, len, proto, hop, metric)
         IN  /\ TableOk(u) /\ t.next <= u.next /\ u.next <= t.next + 1
             /\ IF AddFits(t, a, len, proto)
                THEN \E k \in RibSlots :
                       Placed(t, u, k, Normalized(a, len), len, proto, hop, metric)
                ELSE u = t
<1> DEFINE p    == Normalized(a, len)
           key  == Keyed(t, p, len, proto)
           free == FreeRib(t)
           u    == RouteTableAdd(t, a, len, proto, hop, metric)
<1>1. RibOk(t.rib, t.next) /\ t.rib \in Ribs /\ t.next \in Nat \ {0}
  BY DEF TableOk, RibOk
<1>2. p \in Addresses
  BY NormalizedType
<1>3. key \in SUBSET RibSlots /\ free \in SUBSET RibSlots /\ RibSlots \in SUBSET Nat
  BY DEF Keyed, FreeRib, RibSlots
<1>4. AddFits(t, a, len, proto) <=> key # {} \/ free # {}
  BY DEF AddFits
<1> HIDE DEF p
<1>5. CASE key # {}
  <2> DEFINE k   == First(key)
             rib == [t.rib EXCEPT ![k].hop = hop, ![k].metric = metric]
  <2>1. u = Rebuilt(rib, t.next)
    BY <1>5 DEF RouteTableAdd, p
  <2>2. k \in key
    BY <1>3, <1>5, FirstIn
  <2> HIDE DEF k
  <2>3. /\ k \in RibSlots /\ k \in UsedRib(t.rib) /\ t.rib[k] \in Candidate
        /\ t.rib[k].prefix = p /\ t.rib[k].len = len /\ t.rib[k].proto = proto
    BY <1>1, <2>2 DEF Keyed, UsedRib, Ribs
  <2>4. /\ rib \in Ribs /\ rib[k] \in Candidate
        /\ rib[k].prefix = p /\ rib[k].len = len /\ rib[k].proto = proto
        /\ rib[k].hop = hop /\ rib[k].metric = metric /\ rib[k].seq = t.rib[k].seq
        /\ \A i \in RibSlots \ {k} : rib[i] = t.rib[i]
    BY <1>1, <2>3 DEF Ribs, Candidate
  <2> HIDE DEF rib
  <2>5. UsedRib(rib) = UsedRib(t.rib)
    BY <2>3, <2>4, InUse DEF UsedRib
  <2>6. \A i \in UsedRib(rib) : /\ rib[i].seq = t.rib[i].seq /\ rib[i].prefix = t.rib[i].prefix
                                /\ rib[i].len = t.rib[i].len /\ rib[i].proto = t.rib[i].proto
    BY <2>3, <2>4 DEF UsedRib
  <2>7. RibOk(rib, t.next)
    BY <1>1, <2>4, <2>5, <2>6 DEF RibOk, SeqsDistinct, SamePrefix
  <2>8. TableOk(u) /\ u.rib = rib /\ u.next = t.next
    BY <2>1, <2>7, RebuiltOk
  <2> HIDE DEF u
  <2>9. Placed(t, u, k, p, len, proto, hop, metric)
    BY <2>3, <2>4, <2>5, <2>8 DEF Placed
  <2> QED BY <1>1, <1>4, <1>5, <2>3, <2>8, <2>9 DEF u, p
<1>6. CASE key = {} /\ free # {}
  <2> DEFINE k   == First(free)
             r   == Route(p, len, proto, hop, metric, t.next)
             rib == [t.rib EXCEPT ![k] = r]
  <2>1. u = Rebuilt(rib, t.next + 1)
    BY <1>6 DEF RouteTableAdd, p
  <2>2. k \in free
    BY <1>3, <1>6, FirstIn
  <2> HIDE DEF k
  <2>3. k \in RibSlots /\ t.rib[k] = NoRoute /\ k \notin UsedRib(t.rib)
    BY <2>2 DEF FreeRib, UsedRib
  <2>4. /\ r \in Candidate /\ r.prefix = p /\ r.len = len /\ r.proto = proto
        /\ r.hop = hop /\ r.metric = metric /\ r.seq = t.next
    BY <1>1, <1>2 DEF Route, Candidate
  <2> HIDE DEF r
  <2>5. rib \in Ribs /\ rib[k] = r /\ \A i \in RibSlots \ {k} : rib[i] = t.rib[i]
    BY <1>1, <2>3, <2>4 DEF Ribs
  <2> HIDE DEF rib
  <2>6. UsedRib(rib) = UsedRib(t.rib) \cup {k}
    BY <2>3, <2>4, <2>5, InUse DEF UsedRib
  <2>7. \A i \in UsedRib(t.rib) :
          /\ rib[i] = t.rib[i] /\ rib[i].seq \in 1 .. t.next - 1
          /\ ~(rib[i].prefix = p /\ rib[i].len = len /\ rib[i].proto = proto)
    <3> SUFFICES ASSUME NEW i \in UsedRib(t.rib)
                 PROVE  /\ rib[i] = t.rib[i] /\ rib[i].seq \in 1 .. t.next - 1
                        /\ ~(rib[i].prefix = p /\ rib[i].len = len /\ rib[i].proto = proto)
      OBVIOUS
    <3>1. i \in RibSlots /\ t.rib[i] # NoRoute /\ i # k
      BY <2>3 DEF UsedRib
    <3>2. rib[i] = t.rib[i] /\ rib[i].seq \in 1 .. t.next - 1
      BY <1>1, <2>5, <3>1 DEF RibOk
    <3> QED BY <1>6, <3>1, <3>2 DEF Keyed
  <2>8. RibOk(rib, t.next + 1)
    <3>1. \A i \in UsedRib(rib) : rib[i].seq \in 1 .. t.next
      BY <1>1, <2>4, <2>5, <2>6, <2>7
    <3>2. SeqsDistinct(rib)
      <4> SUFFICES ASSUME NEW i \in UsedRib(rib), NEW j \in UsedRib(rib), rib[i].seq = rib[j].seq
                   PROVE  i = j
        BY DEF SeqsDistinct
      <4>1. CASE i \in UsedRib(t.rib) /\ j \in UsedRib(t.rib)
        BY <1>1, <2>7, <4>1 DEF RibOk, SeqsDistinct
      <4>2. CASE i = k \/ j = k
        BY <1>1, <2>4, <2>5, <2>6, <2>7, <4>2
      <4> QED BY <2>6, <4>1, <4>2
    <3>3. \A i, j \in UsedRib(rib) :
            SamePrefix(rib[i], rib[j]) /\ rib[i].proto = rib[j].proto => i = j
      <4> SUFFICES ASSUME NEW i \in UsedRib(rib), NEW j \in UsedRib(rib),
                          SamePrefix(rib[i], rib[j]), rib[i].proto = rib[j].proto
                   PROVE  i = j
        OBVIOUS
      <4>1. CASE i \in UsedRib(t.rib) /\ j \in UsedRib(t.rib)
        BY <1>1, <2>7, <4>1 DEF RibOk
      <4>2. CASE i = k \/ j = k
        BY <2>4, <2>5, <2>6, <2>7, <4>2 DEF SamePrefix
      <4> QED BY <2>6, <4>1, <4>2
    <3> QED BY <1>1, <2>5, <3>1, <3>2, <3>3 DEF RibOk
  <2>9. TableOk(u) /\ u.rib = rib /\ u.next = t.next + 1
    BY <2>1, <2>8, RebuiltOk
  <2> HIDE DEF u
  <2>10. Placed(t, u, k, p, len, proto, hop, metric)
    BY <2>3, <2>4, <2>5, <2>6, <2>9 DEF Placed
  <2> QED BY <1>1, <1>4, <1>6, <2>3, <2>9, <2>10 DEF u, p
<1>7. CASE key = {} /\ free = {}
  <2>1. u = t
    BY <1>7 DEF RouteTableAdd, p
  <2> HIDE DEF u
  <2> QED BY <1>1, <1>4, <1>7, <2>1 DEF u
<1> QED BY <1>5, <1>6, <1>7

(* route_table_delete: the candidate of the key is gone.                   *)
LEMMA DeleteOk ==
  ASSUME NEW t, TableOk(t), NEW a \in Addresses, NEW len \in 0 .. Width, NEW proto
  PROVE  LET u == RouteTableDelete(t, a, len, proto)
         IN  /\ TableOk(u) /\ u.next = t.next
             /\ u.rib = Without(t.rib, Keyed(t, Normalized(a, len), len, proto))
<1> DEFINE p   == Normalized(a, len)
           key == Keyed(t, p, len, proto)
           u   == RouteTableDelete(t, a, len, proto)
<1>1. RibOk(t.rib, t.next) /\ t.rib \in Ribs
  BY DEF TableOk, RibOk
<1>2. key \in SUBSET RibSlots /\ RibSlots \in SUBSET Nat
  BY DEF Keyed, RibSlots
<1>3. CASE key = {}
  <2>1. u = t
    BY <1>3 DEF RouteTableDelete
  <2>2. Without(t.rib, key) = t.rib
    BY <1>1, <1>3 DEF Without, Ribs
  <2> HIDE DEF u, key
  <2> QED BY <2>1, <2>2 DEF u, key
<1>4. CASE key # {}
  <2>1. First(key) \in key
    BY <1>2, <1>4, FirstIn
  <2>2. key = {First(key)}
    BY <1>1, <2>1 DEF Keyed, RibOk, UsedRib, SamePrefix
  <2>3. [t.rib EXCEPT ![First(key)] = NoRoute] = Without(t.rib, key)
    BY <1>1, <1>2, <2>2 DEF Without, Ribs
  <2>4. u = Rebuilt(Without(t.rib, key), t.next)
    BY <1>4, <2>3 DEF RouteTableDelete
  <2> QED BY <2>4, WithoutOk
<1> QED BY <1>3, <1>4
-----------------------------------------------------------------------------
(* route_table_lookup.                                                     *)

(* In a sound table a lookup finds the best candidate of the whole RIB.    *)
LEMMA LookupSound ==
  ASSUME TableOk(table)
  PROVE  LookupIsBest
<1> DEFINE rib == table.rib
           fib == table.fib
           L   == Len(fib)
<1>1. rib \in Ribs /\ \A i \in UsedRib(rib) : i \in RibSlots /\ rib[i] \in Candidate
  BY DEF TableOk, RibOk, Ribs, UsedRib
<1>2. Covers(rib, RibSize, [fib |-> fib, selected |-> table.selected])
  BY TableCovers
<1>3. /\ fib \in Seq(Forward)
      /\ \A j \in 1 .. L : /\ fib[j].rib \in UsedRib(rib)
                           /\ fib[j] = Selection(rib[fib[j].rib], fib[j].rib)
      /\ \A j, k \in 1 .. L : SamePrefix(fib[j], fib[k]) => j = k
      /\ \A i \in UsedRib(rib) : i <= RibSize =>
           \E j \in 1 .. L : /\ SamePrefix(fib[j], rib[i])
                             /\ fib[j].rib = i \/ Beats(rib[fib[j].rib], rib[i])
  BY <1>2 DEF Covers, Scans
<1>4. \A i \in UsedRib(rib) : i <= RibSize
  BY DEF UsedRib, RibSlots
<1>5. Candidates = {rib[i] : i \in UsedRib(rib)}
  BY DEF Candidates, UsedRib
<1> HIDE DEF rib, fib
<1>6. \A j \in 1 .. L : fib[j] \in Forward /\ fib[j].len \in 0 .. Width /\ fib[j] # NoRoute
  <2>1. \A j \in 1 .. L : fib[j] \in Forward
    BY <1>3
  <2>2. \A x \in Forward : x.len \in 0 .. Width
    BY DEF Forward
  <2> QED BY <2>1, <2>2, InUse
<1>7. \A x, y, dst : SamePrefix(x, y) => (Matches(x, dst) <=> Matches(y, dst)) /\ x.len = y.len
  BY DEF SamePrefix, Matches
<1> SUFFICES ASSUME NEW dst \in Addresses
             PROVE  LET f == RouteTableLookup(table, dst)
                    IN  IF f = NoRoute THEN \A r \in Candidates : ~Matches(r, dst)
                        ELSE \E r \in Best(dst) : Selection(r, f.rib) = f /\ rib[f.rib] = r
  BY DEF LookupIsBest, rib
<1> DEFINE match   == {j \in 1 .. L : Matches(fib[j], dst)}
           longest == {j \in match : \A k \in match : fib[k].len <= fib[j].len}
           f       == RouteTableLookup(table, dst)
<1>8. f = IF match = {} THEN NoRoute ELSE fib[First(longest)]
  BY DEF RouteTableLookup, fib
<1> HIDE DEF f
<1>9. CASE match = {}
  <2>1. ASSUME NEW i \in UsedRib(rib), Matches(rib[i], dst) PROVE FALSE
    <3>1. PICK j \in 1 .. L : SamePrefix(fib[j], rib[i])
      BY <1>3, <1>4
    <3> QED BY <1>7, <1>9, <2>1, <3>1
  <2> QED BY <1>5, <1>8, <1>9, <2>1 DEF f
<1>10. CASE match # {}
  <2> DEFINE T == {Width - fib[j].len : j \in match}
             m == First(longest)
  <2>1. T \in SUBSET Nat /\ T # {}
    BY <1>6, <1>10, WidthAssumption
  <2>2. PICK x \in T : \A y \in T : x <= y
    BY <2>1, NatMin
  <2>3. PICK j0 \in match : x = Width - fib[j0].len
    OBVIOUS
  <2>4. j0 \in longest
    <3> SUFFICES ASSUME NEW k \in match PROVE fib[k].len <= fib[j0].len
      OBVIOUS
    <3>1. Width - fib[j0].len <= Width - fib[k].len
      BY <2>2, <2>3
    <3> QED BY <1>6, <3>1, WidthAssumption
  <2>5. longest \in SUBSET Nat
    OBVIOUS
  <2>6. m \in longest
    BY <2>4, <2>5, FirstIn
  <2>7. f = fib[m]
    BY <1>8, <1>10
  <2> HIDE DEF m
  <2> DEFINE i == fib[m].rib
             r == rib[i]
  <2>8. /\ m \in 1 .. L /\ Matches(fib[m], dst) /\ fib[m] # NoRoute
        /\ \A k \in match : fib[k].len <= fib[m].len
    BY <1>6, <2>6
  <2>9. i \in UsedRib(rib) /\ r \in Candidate /\ fib[m] = Selection(r, i) /\ SamePrefix(fib[m], r)
    BY <1>1, <1>3, <2>8, SelectionType
  <2> HIDE DEF i, r
  <2>10. r = rib[i] /\ f.rib = i
    BY <2>7 DEF i, r
  <2>11. r \in Candidates /\ Matches(r, dst)
    BY <1>5, <1>7, <2>8, <2>9, <2>10
  <2>12. ASSUME NEW s \in Candidates \ {r}, Matches(s, dst)
         PROVE  s.len < r.len \/ (s.len = r.len /\ Preferred(r, s))
    <3>1. PICK k \in UsedRib(rib) : s = rib[k]
      BY <1>5
    <3>2. PICK j \in 1 .. L : /\ SamePrefix(fib[j], s)
                              /\ fib[j].rib = k \/ Beats(rib[fib[j].rib], s)
      BY <1>3, <1>4, <3>1
    <3>3. /\ Matches(fib[j], dst) /\ j \in match /\ fib[j].len <= fib[m].len
          /\ fib[j].len = s.len /\ fib[m].len = r.len
      BY <1>7, <2>8, <2>9, <2>12, <3>2
    <3>4. CASE s.len = r.len
      <4>1. SamePrefix(fib[j], fib[m])
        BY <2>8, <3>3, <3>4 DEF SamePrefix, Matches
      <4>2. j = m
        BY <1>3, <2>8, <4>1
      <4>3. Beats(r, s)
        BY <2>10, <2>12, <3>1, <3>2, <4>2 DEF i
      <4>4. s \in Candidate
        BY <1>1, <3>1
      <4> QED BY <2>9, <3>4, <4>3, <4>4, BeatsPreferred
    <3>5. CASE s.len # r.len
      <4>1. s.len \in Nat /\ r.len \in Nat /\ s.len <= r.len
        BY <1>6, <2>8, <3>3
      <4> QED BY <3>5, <4>1
    <3> QED BY <3>4, <3>5
  <2>13. r \in Best(dst)
    BY <2>11, <2>12 DEF Best
  <2>14. f # NoRoute /\ Selection(r, f.rib) = f /\ rib[f.rib] = r
    BY <2>7, <2>8, <2>9, <2>10
  <2> QED BY <2>13, <2>14 DEF f
<1> QED BY <1>9, <1>10
-----------------------------------------------------------------------------
(* The static configuration c beside a table t.                            *)

Statics == [StaticSlots -> StaticRoute \cup {NoStatic}]

UsedStatic(c) == {i \in StaticSlots : c[i] # NoStatic}

StaticIn(t) == {k \in UsedRib(t.rib) : t.rib[k].proto = "STATIC"}

(* Records hold normalized prefixes, one record for each.                  *)
StaticOk(c) ==
  /\ c \in Statics
  /\ \A i \in UsedStatic(c) : Normalized(c[i].prefix, c[i].len) = c[i].prefix
  /\ \A i, j \in UsedStatic(c) : SamePrefix(c[i], c[j]) => i = j

Orphanless(t, c) ==
  \A k \in StaticIn(t) :
    \E i \in UsedStatic(c) : c[i].installed /\ Mirrors(t.rib[k], c[i])

InTable(t, c, i) ==
  c[i].installed /\ \E k \in StaticIn(t) : Mirrors(t.rib[k], c[i])

AllInTable(t, c) == \A i \in UsedStatic(c) : InTable(t, c, i)

(* Records are told from unused slots by their fields.                     *)
LEMMA InConfig == \A e \in StaticRoute : e # NoStatic
<1> SUFFICES ASSUME NEW e \in StaticRoute, e = NoStatic PROVE FALSE
  OBVIOUS
<1>1. DOMAIN e = {"prefix", "len", "hop", "metric", "installed"} /\ DOMAIN NoStatic = {"valid"}
  BY DEF NoStatic, StaticRoute
<1> QED BY <1>1

(* A step that leaves the STATIC candidates alone keeps the agreement.     *)
SameStatic(t, u) ==
  StaticIn(u) = StaticIn(t) /\ \A k \in StaticIn(t) : u.rib[k] = t.rib[k]

(* Steps that touch no STATIC route keep configuration and table in        *)
(* agreement.                                                              *)
LEMMA SameStaticAgrees ==
  ASSUME NEW t, NEW u, NEW c, SameStatic(t, u)
  PROVE  /\ Orphanless(t, c) => Orphanless(u, c)
         /\ AllInTable(t, c) => AllInTable(u, c)
BY DEF SameStatic, Orphanless, AllInTable, InTable

(* A route of another protocol touches no STATIC route.                    *)
LEMMA PlacedSame ==
  ASSUME NEW t, NEW u, TableOk(t), TableOk(u), NEW k \in RibSlots, NEW prefix, NEW len,
         NEW proto \in Dynamic, NEW hop, NEW metric,
         Placed(t, u, k, prefix, len, proto, hop, metric)
  PROVE  SameStatic(t, u)
<1>1. proto # "STATIC"
  BY DynamicAssumption
<1>2. k \notin StaticIn(u) /\ k \notin StaticIn(t)
  BY <1>1 DEF Placed, StaticIn
<1>3. \A i \in RibSlots : i # k => u.rib[i] = t.rib[i]
  BY DEF Placed
<1> QED BY <1>2, <1>3 DEF SameStatic, StaticIn, UsedRib

(* Removing candidates of other protocols touches no STATIC route.         *)
LEMMA WithoutSame ==
  ASSUME NEW t, NEW u, NEW old, u.rib = Without(t.rib, old),
         \A i \in old : i \notin StaticIn(t)
  PROVE  SameStatic(t, u)
BY DEF SameStatic, StaticIn, UsedRib, Without

(* Record i takes or keeps the key and is written, its route is placed.    *)
Written(c, d, i, prefix, len, hop, metric) ==
  /\ i \in StaticSlots
  /\ d = [c EXCEPT ![i] = Config(prefix, len, hop, metric)]
  /\ \A j \in UsedStatic(c) : (c[j].prefix = prefix /\ c[j].len = len) <=> j = i

(* A record and its route are written together.                            *)
LEMMA WrittenAgrees ==
  ASSUME NEW t, NEW u, TableOk(t), TableOk(u), NEW c, NEW d, StaticOk(c),
         NEW prefix \in Addresses, NEW len \in 0 .. Width, Normalized(prefix, len) = prefix,
         NEW hop \in Hops, NEW metric \in Metrics, NEW k \in RibSlots, NEW i,
         Placed(t, u, k, prefix, len, "STATIC", hop, metric),
         Written(c, d, i, prefix, len, hop, metric)
  PROVE  /\ StaticOk(d) /\ UsedStatic(d) = UsedStatic(c) \cup {i}
         /\ Orphanless(t, c) => Orphanless(u, d)
         /\ InTable(u, d, i)
         /\ \A j \in UsedStatic(c) : j # i /\ InTable(t, c, j) => InTable(u, d, j)
<1> DEFINE e == Config(prefix, len, hop, metric)
<1>1. /\ e \in StaticRoute /\ e.prefix = prefix /\ e.len = len /\ e.hop = hop
      /\ e.metric = metric /\ e.installed
  BY DEF Config, StaticRoute
<1> HIDE DEF e
<1>2. c \in Statics /\ i \in StaticSlots
  BY DEF StaticOk, Written
<1>3. d \in Statics /\ d[i] = e /\ \A j \in StaticSlots : j # i => d[j] = c[j]
  BY <1>1, <1>2 DEF Written, Statics, e
<1>4. UsedStatic(d) = UsedStatic(c) \cup {i}
  BY <1>1, <1>2, <1>3, InConfig DEF UsedStatic
<1>5. \A j \in UsedStatic(d) : j # i => /\ j \in UsedStatic(c) /\ d[j] = c[j]
                                        /\ ~(c[j].prefix = prefix /\ c[j].len = len)
  BY <1>3, <1>4 DEF UsedStatic, Written
<1>6. StaticOk(d)
  <2>1. \A j \in UsedStatic(d) : Normalized(d[j].prefix, d[j].len) = d[j].prefix
    BY <1>1, <1>3, <1>5 DEF StaticOk
  <2>2. \A j, m \in UsedStatic(d) : SamePrefix(d[j], d[m]) => j = m
    <3> SUFFICES ASSUME NEW j \in UsedStatic(d), NEW m \in UsedStatic(d), SamePrefix(d[j], d[m])
                 PROVE  j = m
      OBVIOUS
    <3>1. CASE j = i \/ m = i
      BY <1>1, <1>3, <1>5, <3>1 DEF SamePrefix
    <3>2. CASE j # i /\ m # i
      BY <1>5, <3>2 DEF StaticOk
    <3> QED BY <3>1, <3>2
  <2> QED BY <1>3, <2>1, <2>2 DEF StaticOk
<1>7. k \in StaticIn(u) /\ u.rib[k].prefix = prefix /\ u.rib[k].len = len
      /\ Mirrors(u.rib[k], e)
  BY <1>1 DEF Placed, StaticIn, Mirrors, SamePrefix
<1>8. \A m \in RibSlots : m # k => /\ u.rib[m] = t.rib[m]
                                   /\ m \in StaticIn(u) <=> m \in StaticIn(t)
  BY DEF Placed, StaticIn, UsedRib
<1>9. \A m \in StaticIn(u) : m # k => ~(u.rib[m].prefix = prefix /\ u.rib[m].len = len)
  BY <1>7 DEF TableOk, RibOk, StaticIn, SamePrefix
<1>10. ASSUME Orphanless(t, c), NEW m \in StaticIn(u)
       PROVE  \E j \in UsedStatic(d) : d[j].installed /\ Mirrors(u.rib[m], d[j])
  <2>1. CASE m = k
    BY <1>1, <1>3, <1>4, <1>7, <2>1
  <2>2. CASE m # k
    <3>1. m \in StaticIn(t) /\ u.rib[m] = t.rib[m]
      BY <1>8, <2>2 DEF StaticIn, UsedRib
    <3>2. PICK j \in UsedStatic(c) : c[j].installed /\ Mirrors(t.rib[m], c[j])
      BY <1>10, <3>1 DEF Orphanless
    <3>3. c[j].prefix = u.rib[m].prefix /\ c[j].len = u.rib[m].len
      BY <3>1, <3>2 DEF Mirrors, SamePrefix
    <3>4. j # i
      BY <1>9, <2>2, <3>2, <3>3 DEF Written
    <3> QED BY <1>3, <1>4, <3>1, <3>2, <3>4 DEF UsedStatic
  <2> QED BY <2>1, <2>2
<1>11. InTable(u, d, i)
  BY <1>1, <1>3, <1>7 DEF InTable
<1>12. ASSUME NEW j \in UsedStatic(c), j # i, InTable(t, c, j)
       PROVE  InTable(u, d, j)
  <2>1. PICK m \in StaticIn(t) : Mirrors(t.rib[m], c[j])
    BY <1>12 DEF InTable
  <2>2. d[j] = c[j] /\ ~(c[j].prefix = prefix /\ c[j].len = len)
    BY <1>3, <1>12 DEF UsedStatic, Written
  <2>3. m # k
    BY <2>1, <2>2 DEF Placed, StaticIn, Mirrors, SamePrefix
  <2>4. m \in RibSlots
    BY DEF StaticIn, UsedRib
  <2> QED BY <1>8, <1>12, <2>1, <2>2, <2>3, <2>4 DEF InTable
<1> QED BY <1>4, <1>6, <1>10, <1>11, <1>12 DEF Orphanless

(* Taking the routes of records away keeps the agreement of the others:    *)
(* the records in gone are cleared, old are the routes of their keys.      *)
Cleared(c, gone) == [i \in StaticSlots |-> IF i \in gone THEN NoStatic ELSE c[i]]

RoutesOf(t, c, gone, old) ==
  \A m \in StaticIn(t) :
    m \in old <=> \E i \in UsedStatic(c) :
                     i \in gone /\ c[i].installed /\ SamePrefix(t.rib[m], c[i])

(* Records and their routes are removed together.                          *)
LEMMA ClearedAgrees ==
  ASSUME NEW t, NEW u, NEW c, StaticOk(c), NEW gone, NEW old, TableOk(t),
         u.rib = Without(t.rib, old), RoutesOf(t, c, gone, old)
  PROVE  /\ StaticOk(Cleared(c, gone))
         /\ Orphanless(t, c) => Orphanless(u, Cleared(c, gone))
         /\ AllInTable(t, c) => AllInTable(u, Cleared(c, gone))
<1> DEFINE d == Cleared(c, gone)
<1>1. c \in Statics
  BY DEF StaticOk
<1>2. d \in Statics /\ \A i \in UsedStatic(d) : i \in UsedStatic(c) /\ i \notin gone /\ d[i] = c[i]
  BY <1>1 DEF Statics, UsedStatic, Cleared
<1>3. \A i \in UsedStatic(c) : i \notin gone => i \in UsedStatic(d) /\ d[i] = c[i]
  BY DEF UsedStatic, Cleared
<1> HIDE DEF d
<1>4. StaticOk(d)
  BY <1>2 DEF StaticOk
<1>5. \A m : m \in StaticIn(u) <=> m \in StaticIn(t) /\ m \notin old
  BY DEF StaticIn, UsedRib, Without
<1>6. \A m \in StaticIn(u) : u.rib[m] = t.rib[m]
  BY DEF StaticIn, UsedRib, Without
<1>7. ASSUME Orphanless(t, c), NEW m \in StaticIn(u)
      PROVE  \E i \in UsedStatic(d) : d[i].installed /\ Mirrors(u.rib[m], d[i])
  <2>1. PICK i \in UsedStatic(c) : c[i].installed /\ Mirrors(t.rib[m], c[i])
    BY <1>5, <1>7 DEF Orphanless
  <2>2. i \notin gone
    BY <1>5, <2>1 DEF Mirrors, RoutesOf
  <2> QED BY <1>3, <1>6, <2>1, <2>2
<1>8. ASSUME AllInTable(t, c), NEW i \in UsedStatic(d)
      PROVE  InTable(u, d, i)
  <2>1. i \in UsedStatic(c) /\ i \notin gone /\ d[i] = c[i] /\ c[i].installed
    BY <1>2, <1>8 DEF AllInTable, InTable
  <2>2. PICK m \in StaticIn(t) : Mirrors(t.rib[m], c[i])
    BY <1>8, <2>1 DEF AllInTable, InTable
  <2>3. m \notin old
    <3> SUFFICES ASSUME NEW j \in UsedStatic(c), j \in gone, SamePrefix(t.rib[m], c[j])
                 PROVE  FALSE
      BY DEF RoutesOf
    <3>1. SamePrefix(c[i], c[j])
      BY <2>2 DEF Mirrors, SamePrefix
    <3> QED BY <2>1, <3>1 DEF StaticOk
  <2> QED BY <1>5, <1>6, <2>1, <2>2, <2>3 DEF InTable
<1> QED BY <1>4, <1>7, <1>8 DEF Orphanless, AllInTable, d
-----------------------------------------------------------------------------
(* static_route_apply.                                                     *)

Tables == [rib: Ribs, fib: Seq(Forward), selected: SUBSET RibSlots, next: Nat]

(* A sound table has its type.                                             *)
LEMMA TableType ==
  ASSUME NEW t, TableOk(t)
  PROVE  t \in Tables
<1>1. t.rib \in Ribs /\ t.next \in Nat
  BY DEF TableOk, RibOk
<1>2. t.fib \in Seq(Forward) /\ t.selected \in SUBSET RibSlots
  BY TableCovers DEF Covers, Scans
<1>3. t = [rib |-> t.rib, fib |-> t.fib, selected |-> t.selected, next |-> t.next]
  <2> DEFINE x == Rebuilt(t.rib, t.next)
  <2>1. x = [rib |-> x.rib, fib |-> x.fib, selected |-> x.selected, next |-> x.next]
    BY DEF Rebuilt
  <2>2. t = x
    BY DEF TableOk
  <2> HIDE DEF x
  <2> QED BY <2>1, <2>2
<1> QED BY <1>1, <1>2, <1>3 DEF Tables

(* The states of the loop.                                                 *)
Applications ==
  {s \in [table: Tables, statics: Statics, ok: BOOLEAN] :
     TableOk(s.table) /\ StaticOk(s.statics)}

(* After n records: nothing is orphaned, the n first records are in the    *)
(* table unless one was refused, and none is refused when all were there.  *)
Applied(s, n, all) ==
  /\ s \in Applications
  /\ Orphanless(s.table, s.statics)
  /\ s.ok => \A i \in UsedStatic(s.statics) : i <= n => InTable(s.table, s.statics, i)
  /\ all => s.ok /\ AllInTable(s.table, s.statics)

(* A record marked installed is the one static_route_add writes.           *)
LEMMA InstalledConfig ==
  ASSUME NEW e \in StaticRoute
  PROVE  [e EXCEPT !.installed = TRUE] = Config(e.prefix, e.len, e.hop, e.metric)
<1> DEFINE f == [e EXCEPT !.installed = TRUE]
<1>1. f \in StaticRoute
  BY DEF StaticRoute
<1>2. /\ f.prefix = e.prefix /\ f.len = e.len /\ f.hop = e.hop /\ f.metric = e.metric
      /\ f.installed = TRUE
  BY DEF StaticRoute
<1> HIDE DEF f
<1>3. f = [prefix |-> f.prefix, len |-> f.len, hop |-> f.hop, metric |-> f.metric,
           installed |-> f.installed]
  BY <1>1 DEF StaticRoute
<1> QED BY <1>2, <1>3 DEF Config, f

(* The three cases of a turn.                                              *)
LEMMA ApplyCases ==
  ASSUME NEW s \in Applications, NEW n \in StaticSlots
  PROVE  LET e == s.statics[n]
             u == Apply(s, n)
         IN  \/ (~s.ok \/ e = NoStatic) /\ u = s
             \/ /\ s.ok /\ n \in UsedStatic(s.statics) /\ u.ok = TRUE /\ u \in Applications
                /\ \E k \in RibSlots :
                     Placed(s.table, u.table, k, e.prefix, e.len, "STATIC", e.hop, e.metric)
                /\ Written(s.statics, u.statics, n, e.prefix, e.len, e.hop, e.metric)
             \/ /\ s.ok /\ n \in UsedStatic(s.statics) /\ u.ok = FALSE /\ u \in Applications
                /\ u.table = s.table /\ Keyed(s.table, e.prefix, e.len, "STATIC") = {}
                /\ UsedStatic(u.statics) = UsedStatic(s.statics)
                /\ \A j \in StaticSlots \ {n} : u.statics[j] = s.statics[j]
<1> DEFINE t    == s.table
           c    == s.statics
           e    == c[n]
           u    == Apply(s, n)
           fits == AddFits(t, e.prefix, e.len, "STATIC")
<1>1. TableOk(t) /\ StaticOk(c) /\ c \in Statics /\ t \in Tables
  BY DEF Applications, StaticOk
<1>2. CASE ~s.ok \/ e = NoStatic
  <2>1. u = s
    BY <1>2, Zenon DEF Apply
  <2> QED BY <1>2, <2>1
<1>3. CASE s.ok /\ e # NoStatic
  <2> DEFINE a == RouteTableAdd(t, e.prefix, e.len, "STATIC", e.hop, e.metric)
             d == [c EXCEPT ![n].installed = fits]
  <2>1. u = [table |-> a, statics |-> d, ok |-> fits]
    BY <1>3, Zenon DEF Apply
  <2>2. n \in UsedStatic(c) /\ e \in StaticRoute
    BY <1>1, <1>3 DEF UsedStatic, Statics
  <2>3. /\ e.prefix \in Addresses /\ e.len \in 0 .. Width /\ e.hop \in Hops /\ e.metric \in Metrics
        /\ e.installed \in BOOLEAN /\ "STATIC" \in Protos
    BY <2>2 DEF StaticRoute, Protos
  <2>4. Normalized(e.prefix, e.len) = e.prefix
    BY <1>1, <2>2 DEF StaticOk
  <2>5. /\ TableOk(a)
        /\ IF fits THEN \E k \in RibSlots :
                          Placed(t, a, k, e.prefix, e.len, "STATIC", e.hop, e.metric)
           ELSE a = t
    BY <1>1, <2>3, <2>4, AddOk
  <2>6. fits \in BOOLEAN /\ (~fits => Keyed(t, e.prefix, e.len, "STATIC") = {})
    BY <2>4 DEF AddFits
  <2>7. a \in Tables
    BY <2>5, TableType
  <2>8. /\ d \in Statics /\ d[n] \in StaticRoute /\ d[n].prefix = e.prefix /\ d[n].len = e.len
        /\ \A j \in StaticSlots : j # n => d[j] = c[j]
    BY <1>1, <2>2, <2>6 DEF Statics, StaticRoute
  <2>9. fits => d = [c EXCEPT ![n] = Config(e.prefix, e.len, e.hop, e.metric)]
    <3> SUFFICES ASSUME fits
                 PROVE  d = [c EXCEPT ![n] = Config(e.prefix, e.len, e.hop, e.metric)]
      OBVIOUS
    <3>1. fits = TRUE
      BY <2>6
    <3>2. [e EXCEPT !.installed = TRUE] = Config(e.prefix, e.len, e.hop, e.metric)
      BY <2>2, InstalledConfig
    <3> HIDE DEF fits
    <3> QED BY <3>1, <3>2
  <2> HIDE DEF a, d, fits
  <2>10. UsedStatic(d) = UsedStatic(c)
    BY <2>2, <2>8, InConfig DEF UsedStatic
  <2>11. StaticOk(d)
    <3>1. \A j \in UsedStatic(d) : d[j].prefix = c[j].prefix /\ d[j].len = c[j].len
      BY <2>8 DEF UsedStatic
    <3> QED BY <1>1, <2>8, <2>10, <3>1 DEF StaticOk, SamePrefix
  <2>12. u \in Applications /\ u.table = a /\ u.statics = d /\ u.ok = fits
    BY <2>1, <2>5, <2>6, <2>7, <2>8, <2>11 DEF Applications
  <2>13. fits => Written(c, d, n, e.prefix, e.len, e.hop, e.metric)
    <3>1. \A j \in UsedStatic(c) : (c[j].prefix = e.prefix /\ c[j].len = e.len) <=> j = n
      BY <1>1, <2>2 DEF StaticOk, SamePrefix
    <3> QED BY <2>9, <3>1 DEF Written
  <2> HIDE DEF u, e, c, t
  <2>14. CASE fits
    <3>1. u.ok = TRUE
      BY <2>6, <2>12, <2>14
    <3> QED BY <1>3, <2>2, <2>5, <2>12, <2>13, <2>14, <3>1 DEF u, e, c, t
  <2>15. CASE ~fits
    <3>1. u.ok = FALSE
      BY <2>6, <2>12, <2>15
    <3>2. \A j \in StaticSlots \ {n} : u.statics[j] = c[j]
      BY <2>8, <2>12
    <3> QED BY <1>3, <2>2, <2>5, <2>6, <2>10, <2>12, <2>15, <3>1, <3>2 DEF u, e, c, t
  <2> QED BY <2>14, <2>15
<1> QED BY <1>2, <1>3

(* A turn applies one record more.                                         *)
LEMMA ApplyAgrees ==
  ASSUME NEW n \in StaticSlots, NEW s, NEW all \in BOOLEAN, Applied(s, n - 1, all)
  PROVE  Applied(Apply(s, n), n, all)
<1> DEFINE t == s.table
           c == s.statics
           e == c[n]
           u == Apply(s, n)
<1>1. /\ s \in Applications /\ TableOk(t) /\ StaticOk(c) /\ c \in Statics /\ Orphanless(t, c)
      /\ s.ok => \A i \in UsedStatic(c) : i <= n - 1 => InTable(t, c, i)
      /\ all => s.ok /\ AllInTable(t, c)
  BY DEF Applied, Applications, StaticOk
<1>2. \A i \in UsedStatic(c) : i <= n => i <= n - 1 \/ i = n
  BY DEF UsedStatic, StaticSlots
<1>3. n \in UsedStatic(c) =>
        /\ e.prefix \in Addresses /\ e.len \in 0 .. Width /\ e.hop \in Hops
        /\ e.metric \in Metrics /\ Normalized(e.prefix, e.len) = e.prefix
  <2> SUFFICES ASSUME n \in UsedStatic(c)
               PROVE  /\ e.prefix \in Addresses /\ e.len \in 0 .. Width /\ e.hop \in Hops
                      /\ e.metric \in Metrics /\ Normalized(e.prefix, e.len) = e.prefix
    OBVIOUS
  <2>1. e \in StaticRoute
    BY <1>1 DEF UsedStatic, Statics
  <2> QED BY <1>1, <2>1 DEF StaticOk, StaticRoute
<1>4. CASE (~s.ok \/ e = NoStatic) /\ u = s
  <2>1. s.ok => \A i \in UsedStatic(c) : i <= n => i <= n - 1
    BY <1>2, <1>4 DEF UsedStatic
  <2> HIDE DEF u
  <2> QED BY <1>1, <1>4, <2>1 DEF Applied, u
<1>5. CASE /\ s.ok /\ n \in UsedStatic(c) /\ u.ok = TRUE /\ u \in Applications
           /\ \E k \in RibSlots : Placed(t, u.table, k, e.prefix, e.len, "STATIC", e.hop, e.metric)
           /\ Written(c, u.statics, n, e.prefix, e.len, e.hop, e.metric)
  <2> HIDE DEF u, e
  <2>1. PICK k \in RibSlots : Placed(t, u.table, k, e.prefix, e.len, "STATIC", e.hop, e.metric)
    BY <1>5
  <2>2. TableOk(u.table)
    BY <1>5 DEF Applications
  <2>3. /\ UsedStatic(u.statics) = UsedStatic(c) \cup {n}
        /\ Orphanless(u.table, u.statics) /\ InTable(u.table, u.statics, n)
        /\ \A j \in UsedStatic(c) : j # n /\ InTable(t, c, j) => InTable(u.table, u.statics, j)
    <3> DEFINE v == u.table
               d == u.statics
    <3>1. Written(c, d, n, e.prefix, e.len, e.hop, e.metric) /\ n \in UsedStatic(c)
      BY <1>5
    <3>2. Placed(t, v, k, e.prefix, e.len, "STATIC", e.hop, e.metric) /\ TableOk(v)
      BY <2>1, <2>2
    <3> HIDE DEF v, d, t, c
    <3> QED BY <1>1, <1>3, <3>1, <3>2, WrittenAgrees DEF v, d
  <2>4. \A i \in UsedStatic(u.statics) : i <= n => InTable(u.table, u.statics, i)
    BY <1>1, <1>2, <1>5, <2>3
  <2>5. all => AllInTable(u.table, u.statics)
    BY <1>1, <2>3 DEF AllInTable
  <2> QED BY <1>5, <2>3, <2>4, <2>5 DEF Applied, u
<1>6. CASE /\ s.ok /\ n \in UsedStatic(c) /\ u.ok = FALSE /\ u \in Applications
           /\ u.table = t /\ Keyed(t, e.prefix, e.len, "STATIC") = {}
           /\ UsedStatic(u.statics) = UsedStatic(c)
           /\ \A j \in StaticSlots \ {n} : u.statics[j] = c[j]
  <2> HIDE DEF u
  <2>1. \A m \in StaticIn(t) : ~SamePrefix(t.rib[m], e)
    BY <1>6 DEF Keyed, StaticIn, UsedRib, SamePrefix
  <2>2. Orphanless(u.table, u.statics)
    <3> SUFFICES ASSUME NEW m \in StaticIn(t)
                 PROVE  \E i \in UsedStatic(c) :
                          u.statics[i].installed /\ Mirrors(t.rib[m], u.statics[i])
      BY <1>6 DEF Orphanless
    <3>1. PICK i \in UsedStatic(c) : c[i].installed /\ Mirrors(t.rib[m], c[i])
      BY <1>1 DEF Orphanless
    <3>2. i # n
      BY <2>1, <3>1 DEF Mirrors
    <3> QED BY <1>6, <3>1, <3>2 DEF UsedStatic
  <2>3. ~all
    <3>1. ~InTable(t, c, n)
      BY <2>1 DEF InTable, Mirrors
    <3> QED BY <1>1, <1>6, <3>1 DEF AllInTable
  <2> QED BY <1>6, <2>2, <2>3 DEF Applied, u
<1> HIDE DEF u, e, c, t
<1> QED BY <1>1, <1>4, <1>5, <1>6, ApplyCases DEF u, e, c, t
-----------------------------------------------------------------------------
(* The inductive invariant.                                                *)

Inv ==
  /\ TableOk(table) /\ table.next <= MaxRoutes + 1
  /\ StaticOk(statics)
  /\ Orphanless(table, statics)
  /\ lost \in BOOLEAN /\ (~lost => AllInTable(table, statics))

(* Empty tables satisfy the invariant.                                     *)
LEMMA InitInv == Init => Inv
<1> SUFFICES ASSUME Init PROVE Inv
  OBVIOUS
<1> DEFINE rib == [i \in RibSlots |-> NoRoute]
<1>1. rib \in Ribs /\ UsedRib(rib) = {}
  BY DEF Ribs, UsedRib
<1>2. table = Rebuilt(rib, 1)
  BY DEF Init, EmptyTable
<1> HIDE DEF rib
<1>3. RibOk(rib, 1)
  BY <1>1 DEF RibOk, SeqsDistinct
<1>4. TableOk(table) /\ table.rib = rib /\ table.next = 1
  BY <1>2, <1>3, RebuiltOk
<1>5. statics \in Statics /\ UsedStatic(statics) = {}
  BY DEF Init, Statics, UsedStatic
<1>6. StaticOk(statics) /\ AllInTable(table, statics)
  BY <1>5 DEF StaticOk, AllInTable
<1>7. Orphanless(table, statics)
  BY <1>1, <1>4 DEF Orphanless, StaticIn
<1>8. lost = FALSE
  BY DEF Init
<1>9. table.next <= MaxRoutes + 1
  BY <1>4, RoutesAssumption
<1> QED BY <1>4, <1>6, <1>7, <1>8, <1>9, Zenon DEF Inv

(* static_route_apply keeps it, whichever record the RIB refuses.          *)
LEMMA StaticApplyInv ==
  ASSUME Inv, StaticApply
  PROVE  Inv'
<1> DEFINE start == [table |-> table, statics |-> statics, ok |-> TRUE]
           all == AllInTable(table, statics)
           g == [x \in (1 .. StaticSize) \X Applications |-> Apply(x[2], x[1])]
           Scan(f) == f = [i \in 0 .. StaticSize |->
                             IF i = 0 THEN start ELSE Apply(f[i - 1], i)]
           h == CHOOSE f : Scan(f)
           s == h[StaticSize]
<1>1. StaticSize \in Nat /\ TableOk(table) /\ StaticOk(statics) /\ Orphanless(table, statics)
  BY StaticAssumption DEF Inv
<1>2. start \in Applications
  BY <1>1, TableType DEF Applications, StaticOk
<1>3. /\ s.table.next <= MaxRoutes + 1
      /\ table' = s.table /\ statics' = s.statics /\ lost' = (lost /\ ~s.ok)
  BY DEF StaticApply
<1>4. g \in Turns(StaticSize, Applications)
  <2>1. ASSUME NEW n \in StaticSlots, NEW x \in Applications PROVE Apply(x, n) \in Applications
    BY ApplyCases
  <2> QED BY <2>1 DEF Turns, StaticSlots
<1> HIDE DEF g
<1>5. PICK f : LoopOf(StaticSize, Applications, start, g, f)
  <2> HIDE DEF start
  <2> QED BY <1>1, <1>2, <1>4, LoopExists, Zenon
<1>6. \A i \in 1 .. StaticSize : f[i] = Apply(f[i - 1], i)
  <2> SUFFICES ASSUME NEW i \in 1 .. StaticSize PROVE f[i] = Apply(f[i - 1], i)
    OBVIOUS
  <2>1. i - 1 \in 0 .. StaticSize
    BY <1>1
  <2>2. <<i, f[i - 1]>> \in (1 .. StaticSize) \X Applications
    BY <1>5, <2>1 DEF LoopOf
  <2> QED BY <1>5, <2>2 DEF LoopOf, g
<1>7. Scan(f)
  <2> HIDE DEF start
  <2> QED BY <1>1, <1>5, <1>6 DEF LoopOf
<1>8. Scan(h)
  BY <1>7, Zenon
<1> HIDE DEF h
<1>9. h[0] = start /\ \A i \in 1 .. StaticSize : h[i] = Apply(h[i - 1], i)
  <2> HIDE DEF start
  <2>1. 0 \in 0 .. StaticSize /\ \A i \in 1 .. StaticSize : i \in 0 .. StaticSize /\ i # 0
    BY <1>1
  <2>2. \A i \in 0 .. StaticSize : h[i] = IF i = 0 THEN start ELSE Apply(h[i - 1], i)
    BY <1>8, Zenon
  <2> QED BY <2>1, <2>2, Zenon
<1>10. all \in BOOLEAN
  BY DEF AllInTable
<1>11. Applied(start, 0, all)
  <2>1. \A i \in UsedStatic(statics) : ~(i <= 0)
    BY DEF UsedStatic, StaticSlots
  <2>2. start.table = table /\ start.statics = statics /\ start.ok = TRUE
    OBVIOUS
  <2> HIDE DEF start
  <2> QED BY <1>1, <1>2, <2>1, <2>2 DEF Applied
<1> HIDE DEF start, all
<1> DEFINE P == {i \in 0 .. StaticSize : Applied(h[i], i, all)}
<1>12. 0 \in P
  BY <1>1, <1>9, <1>11
<1>13. \A i \in 1 .. StaticSize : i - 1 \in P => i \in P
  <2> SUFFICES ASSUME NEW i \in 1 .. StaticSize, i - 1 \in P PROVE Applied(h[i], i, all)
    OBVIOUS
  <2>1. Applied(h[i - 1], i - 1, all) /\ i \in StaticSlots
    BY DEF StaticSlots
  <2> QED BY <1>9, <1>10, <2>1, ApplyAgrees
<1> HIDE DEF P
<1>14. StaticSize \in P
  BY <1>1, <1>12, <1>13, UpTo
<1>15. Applied(s, StaticSize, all)
  BY <1>14 DEF P
<1> HIDE DEF s
<1>16. /\ TableOk(s.table) /\ StaticOk(s.statics) /\ s.ok \in BOOLEAN
       /\ Orphanless(s.table, s.statics)
  BY <1>15 DEF Applied, Applications
<1>17. s.ok => AllInTable(s.table, s.statics)
  <2>1. \A i \in UsedStatic(s.statics) : i <= StaticSize
    BY DEF UsedStatic, StaticSlots
  <2> QED BY <1>15, <2>1 DEF Applied, AllInTable
<1>18. ~lost => AllInTable(s.table, s.statics)
  BY <1>15 DEF Applied, Inv, all
<1>19. lost' \in BOOLEAN /\ (~lost' => AllInTable(s.table, s.statics))
  BY <1>3, <1>17, <1>18 DEF Inv
<1> QED BY <1>3, <1>16, <1>19 DEF Inv

(* The changes of the table that other protocols make.                     *)
LEMMA DynamicInv ==
  ASSUME Inv, UNCHANGED <<statics, lost>>, TableOk(table'), table'.next <= MaxRoutes + 1,
         SameStatic(table, table')
  PROVE  Inv'
BY SameStaticAgrees DEF Inv

(* route_table_add by a routing protocol.                                  *)
LEMMA LearnInv ==
  ASSUME Inv, NEW proto \in Dynamic, NEW dest \in Dests, NEW hop \in Hops,
         NEW metric \in Metrics, Learn(proto, dest, hop, metric)
  PROVE  Inv'
<1>1. dest[1] \in Addresses /\ dest[2] \in 0 .. Width /\ proto \in Protos
  BY DestsAssumption DEF Protos
<1> DEFINE p == Normalized(dest[1], dest[2])
           u == RouteTableAdd(table, dest[1], dest[2], proto, hop, metric)
<1>2. TableOk(table) /\ table.next \in Nat /\ table.next <= MaxRoutes
  BY DEF Inv, TableOk, RibOk, Learn, MayCreate
<1>3. table' = u /\ UNCHANGED <<statics, lost>>
  BY DEF Learn
<1>4. /\ TableOk(u) /\ u.next <= table.next + 1
      /\ \/ \E k \in RibSlots : Placed(table, u, k, p, dest[2], proto, hop, metric)
         \/ u = table
  BY <1>1, <1>2, AddOk
<1> HIDE DEF u, p
<1>5. u.next <= MaxRoutes + 1
  <2>1. u.next \in Nat
    BY <1>4 DEF TableOk, RibOk
  <2> QED BY <1>2, <1>4, <2>1, RoutesAssumption
<1>6. SameStatic(table, u)
  <2>1. CASE \E k \in RibSlots : Placed(table, u, k, p, dest[2], proto, hop, metric)
    BY <1>2, <1>4, <2>1, PlacedSame
  <2>2. CASE u = table
    BY <2>2 DEF SameStatic
  <2> QED BY <1>4, <2>1, <2>2
<1> QED BY <1>3, <1>4, <1>5, <1>6, DynamicInv

(* route_table_delete by a routing protocol.                               *)
LEMMA WithdrawInv ==
  ASSUME Inv, NEW proto \in Dynamic, NEW dest \in Dests, Withdraw(proto, dest)
  PROVE  Inv'
<1>1. dest[1] \in Addresses /\ dest[2] \in 0 .. Width
  BY DestsAssumption
<1> DEFINE u   == RouteTableDelete(table, dest[1], dest[2], proto)
           old == Keyed(table, Normalized(dest[1], dest[2]), dest[2], proto)
<1>2. TableOk(u) /\ u.next = table.next /\ u.rib = Without(table.rib, old)
  BY <1>1, DeleteOk DEF Inv
<1>3. table' = u /\ UNCHANGED <<statics, lost>>
  BY DEF Withdraw
<1>4. \A i \in old : i \notin StaticIn(table)
  BY DynamicAssumption DEF Keyed, StaticIn
<1> HIDE DEF u, old
<1>5. SameStatic(table, u)
  BY <1>2, <1>4, WithoutSame
<1> QED BY <1>2, <1>3, <1>5, DynamicInv DEF Inv

(* route_table_flush_proto, behind the back of the static configuration    *)
(* too.                                                                    *)
LEMMA FlushProtoInv ==
  ASSUME Inv, NEW proto \in Protos, FlushProto(proto)
  PROVE  Inv'
<1> DEFINE old == {i \in RibSlots : table.rib[i] # NoRoute /\ table.rib[i].proto = proto}
           u   == Rebuilt(Without(table.rib, old), table.next)
<1>1. u = RouteTableFlushProto(table, proto)
  <2>1. Without(table.rib, old) =
          [i \in RibSlots |-> IF table.rib[i] # NoRoute /\ table.rib[i].proto = proto
                              THEN NoRoute ELSE table.rib[i]]
    BY DEF Without
  <2> QED BY <2>1 DEF RouteTableFlushProto
<1>2. table' = u /\ lost' = (lost \/ proto = "STATIC") /\ statics' = statics
  BY <1>1 DEF FlushProto
<1>3. TableOk(u) /\ u.next = table.next /\ u.rib = Without(table.rib, old)
  BY WithoutOk DEF Inv
<1> HIDE DEF u
<1>4. CASE proto # "STATIC"
  <2>1. \A i \in old : i \notin StaticIn(table)
    BY <1>4 DEF StaticIn
  <2> HIDE DEF old
  <2>2. SameStatic(table, u)
    BY <1>3, <2>1, WithoutSame
  <2>3. UNCHANGED <<statics, lost>>
    BY <1>2, <1>4 DEF Inv
  <2> QED BY <1>2, <1>3, <2>2, <2>3, DynamicInv DEF Inv
<1>5. CASE proto = "STATIC"
  <2>1. lost' = TRUE
    BY <1>2, <1>5
  <2>2. \A k \in StaticIn(u) : k \in StaticIn(table) /\ u.rib[k] = table.rib[k]
    BY <1>3 DEF StaticIn, UsedRib, Without
  <2>3. Orphanless(u, statics)
    BY <2>2 DEF Inv, Orphanless
  <2> QED BY <1>2, <1>3, <2>1, <2>3 DEF Inv
<1> QED BY <1>4, <1>5

(* static_route_add, refused or not.                                       *)
LEMMA StaticAddInv ==
  ASSUME Inv, NEW dest \in Dests, NEW hop \in Hops, NEW metric \in Metrics,
         StaticAdd(dest, hop, metric)
  PROVE  Inv'
<1>1. dest[1] \in Addresses /\ dest[2] \in 0 .. Width /\ "STATIC" \in Protos
  BY DestsAssumption DEF Protos
<1> DEFINE len   == dest[2]
           p     == Normalized(dest[1], len)
           u     == RouteTableAdd(table, p, len, "STATIC", hop, metric)
           conf  == Configured(p, len)
           slots == IF conf # {} THEN conf ELSE FreeStatic
           i     == First(slots)
           d     == [statics EXCEPT ![i] = Config(p, len, hop, metric)]
<1>2. /\ table.next <= MaxRoutes /\ slots # {} /\ AddFits(table, p, len, "STATIC")
      /\ table' = u /\ statics' = d /\ lost' = lost
  BY DEF StaticAdd, MayCreate
<1>3. p \in Addresses /\ Normalized(p, len) = p
  BY <1>1, NormalizedType
<1>4. TableOk(table) /\ table.next \in Nat /\ StaticOk(statics) /\ Orphanless(table, statics)
  BY DEF Inv, TableOk, RibOk
<1>5. i \in slots
  <2>1. slots \in SUBSET Nat
    BY DEF Configured, FreeStatic, StaticSlots
  <2> QED BY <1>2, <2>1, FirstIn
<1> HIDE DEF i
<1>6. i \in StaticSlots
  BY <1>5 DEF Configured, FreeStatic
<1>7. \A j \in UsedStatic(statics) : (statics[j].prefix = p /\ statics[j].len = len) <=> j = i
  <2>1. CASE conf # {}
    <3>1. i \in UsedStatic(statics) /\ statics[i].prefix = p /\ statics[i].len = len
      BY <1>5, <2>1 DEF Configured, UsedStatic
    <3> HIDE DEF p
    <3> QED BY <1>4, <3>1 DEF StaticOk, SamePrefix
  <2>2. CASE conf = {}
    BY <1>5, <2>2 DEF Configured, UsedStatic, FreeStatic
  <2> QED BY <2>1, <2>2
<1> HIDE DEF p
<1>8. /\ TableOk(u) /\ u.next <= table.next + 1
      /\ \E k \in RibSlots : Placed(table, u, k, p, len, "STATIC", hop, metric)
  BY <1>1, <1>2, <1>3, <1>4, AddOk
<1> HIDE DEF u
<1>9. PICK k \in RibSlots : Placed(table, u, k, p, len, "STATIC", hop, metric)
  BY <1>8
<1>10. Written(statics, d, i, p, len, hop, metric)
  BY <1>6, <1>7 DEF Written
<1> HIDE DEF d, len
<1>11. /\ StaticOk(d) /\ UsedStatic(d) = UsedStatic(statics) \cup {i}
       /\ Orphanless(u, d) /\ InTable(u, d, i)
       /\ \A j \in UsedStatic(statics) : j # i /\ InTable(table, statics, j) => InTable(u, d, j)
  <2>1. len \in 0 .. Width
    BY <1>1 DEF len
  <2> QED BY <1>3, <1>4, <1>8, <1>9, <1>10, <2>1, WrittenAgrees
<1>12. ~lost => AllInTable(u, d)
  BY <1>11 DEF Inv, AllInTable
<1>13. u.next <= MaxRoutes + 1
  <2>1. u.next \in Nat
    BY <1>8 DEF TableOk, RibOk
  <2> QED BY <1>2, <1>4, <1>8, <2>1, RoutesAssumption
<1> QED BY <1>2, <1>8, <1>11, <1>12, <1>13 DEF Inv

(* static_route_delete.                                                    *)
LEMMA StaticDeleteInv ==
  ASSUME Inv, NEW dest \in Dests, StaticDelete(dest)
  PROVE  Inv'
<1> DEFINE slots == Configured(Normalized(dest[1], dest[2]), dest[2])
           i     == First(slots)
           s     == statics[i]
           old   == IF s.installed THEN Keyed(table, s.prefix, s.len, "STATIC") ELSE {}
           d     == Cleared(statics, {i})
<1>1. /\ slots # {} /\ statics' = [statics EXCEPT ![i] = NoStatic] /\ lost' = lost
      /\ table' = IF s.installed THEN RouteTableDelete(table, s.prefix, s.len, "STATIC")
                  ELSE table
  BY DEF StaticDelete
<1>2. TableOk(table) /\ table.rib \in Ribs /\ StaticOk(statics) /\ statics \in Statics
  BY DEF Inv, TableOk, RibOk, StaticOk
<1>3. i \in slots
  <2>1. slots \in SUBSET Nat
    BY DEF Configured, StaticSlots
  <2> QED BY <1>1, <2>1, FirstIn
<1> HIDE DEF i
<1>4. i \in UsedStatic(statics) /\ i \in StaticSlots
  BY <1>3 DEF Configured, UsedStatic
<1> HIDE DEF slots
<1>5. s \in StaticRoute /\ Normalized(s.prefix, s.len) = s.prefix
  BY <1>2, <1>4 DEF UsedStatic, Statics, StaticOk
<1>6. s.prefix \in Addresses /\ s.len \in 0 .. Width /\ s.installed \in BOOLEAN
  BY <1>5 DEF StaticRoute
<1>7. statics' = d
  BY <1>1, <1>2, <1>4 DEF Statics, Cleared
<1>8. TableOk(table') /\ table'.next = table.next /\ table'.rib = Without(table.rib, old)
  <2>1. CASE s.installed
    <3> DEFINE u == RouteTableDelete(table, s.prefix, s.len, "STATIC")
    <3>1. /\ TableOk(u) /\ u.next = table.next
          /\ u.rib = Without(table.rib, Keyed(table, s.prefix, s.len, "STATIC"))
      BY <1>2, <1>5, <1>6, DeleteOk
    <3> HIDE DEF u
    <3>2. table' = u
      BY <1>1, <2>1 DEF u
    <3> QED BY <2>1, <3>1, <3>2
  <2>2. CASE ~s.installed
    <3>1. Without(table.rib, {}) = table.rib
      BY <1>2 DEF Without, Ribs
    <3> QED BY <1>1, <1>2, <2>2, <3>1
  <2> QED BY <2>1, <2>2
<1>9. RoutesOf(table, statics, {i}, old)
  BY <1>4, <1>6 DEF RoutesOf, Keyed, StaticIn, UsedRib, SamePrefix
<1> HIDE DEF old
<1>10. /\ StaticOk(d)
       /\ Orphanless(table, statics) => Orphanless(table', d)
       /\ AllInTable(table, statics) => AllInTable(table', d)
  BY <1>2, <1>8, <1>9, ClearedAgrees
<1> HIDE DEF d
<1> QED BY <1>1, <1>7, <1>8, <1>10 DEF Inv

(* static_route_flush.                                                     *)
LEMMA StaticFlushInv ==
  ASSUME Inv, StaticFlush
  PROVE  Inv'
<1> DEFINE installed == {<<statics[i].prefix, statics[i].len>> :
                           i \in {j \in StaticSlots :
                                    statics[j] # NoStatic /\ statics[j].installed}}
           old == {k \in RibSlots : /\ table.rib[k] # NoRoute
                                    /\ table.rib[k].proto = "STATIC"
                                    /\ <<table.rib[k].prefix, table.rib[k].len>> \in installed}
           u == Rebuilt(Without(table.rib, old), table.next)
           d == Cleared(statics, StaticSlots)
<1>1. /\ table' = Rebuilt([i \in RibSlots |->
                     IF /\ table.rib[i] # NoRoute
                        /\ table.rib[i].proto = "STATIC"
                        /\ <<table.rib[i].prefix, table.rib[i].len>> \in installed
                     THEN NoRoute ELSE table.rib[i]], table.next)
      /\ statics' = [i \in StaticSlots |-> NoStatic] /\ lost' = lost
  BY DEF StaticFlush
<1>2. TableOk(table) /\ StaticOk(statics)
  BY DEF Inv
<1>3. statics' = d
  BY <1>1 DEF Cleared
<1>4. RoutesOf(table, statics, StaticSlots, old)
  <2> SUFFICES ASSUME NEW m \in StaticIn(table)
               PROVE  <<table.rib[m].prefix, table.rib[m].len>> \in installed
                        <=> \E j \in UsedStatic(statics) :
                               /\ j \in StaticSlots /\ statics[j].installed
                               /\ SamePrefix(table.rib[m], statics[j])
    BY DEF RoutesOf, StaticIn, UsedRib
  <2> QED BY DEF UsedStatic, SamePrefix
<1> HIDE DEF installed
<1>5. table' = u
  <2>1. Without(table.rib, old) =
          [i \in RibSlots |->
             IF /\ table.rib[i] # NoRoute
                /\ table.rib[i].proto = "STATIC"
                /\ <<table.rib[i].prefix, table.rib[i].len>> \in installed
             THEN NoRoute ELSE table.rib[i]]
    BY DEF Without
  <2> QED BY <1>1, <2>1
<1> HIDE DEF old
<1>6. TableOk(u) /\ u.next = table.next /\ u.rib = Without(table.rib, old)
  BY <1>2, WithoutOk
<1> HIDE DEF u
<1>7. /\ StaticOk(d)
      /\ Orphanless(table, statics) => Orphanless(u, d)
      /\ AllInTable(table, statics) => AllInTable(u, d)
  BY <1>2, <1>4, <1>6, ClearedAgrees
<1> HIDE DEF d
<1> QED BY <1>1, <1>3, <1>5, <1>6, <1>7 DEF Inv

(* Every step keeps the invariant.                                         *)
LEMMA NextInv == Inv /\ [Next]_vars => Inv'
<1> SUFFICES ASSUME Inv, [Next]_vars PROVE Inv'
  OBVIOUS
<1>1. ASSUME NEW proto \in Dynamic, NEW dest \in Dests, NEW hop \in Hops, NEW metric \in Metrics,
             Learn(proto, dest, hop, metric)
      PROVE  Inv'
  BY <1>1, LearnInv
<1>2. ASSUME NEW proto \in Dynamic, NEW dest \in Dests, Withdraw(proto, dest) PROVE Inv'
  BY <1>2, WithdrawInv
<1>3. ASSUME NEW proto \in Dynamic \cup {"STATIC"}, FlushProto(proto) PROVE Inv'
  BY <1>3, FlushProtoInv DEF Protos
<1>4. ASSUME NEW dest \in Dests, NEW hop \in Hops, NEW metric \in Metrics,
             StaticAdd(dest, hop, metric)
      PROVE  Inv'
  BY <1>4, StaticAddInv
<1>5. ASSUME NEW dest \in Dests, StaticDelete(dest) PROVE Inv'
  BY <1>5, StaticDeleteInv
<1>6. CASE StaticApply
  BY <1>6, StaticApplyInv
<1>7. CASE StaticFlush
  BY <1>7, StaticFlushInv
<1>8. CASE UNCHANGED vars
  BY <1>8 DEF vars, Inv
<1> QED BY <1>1, <1>2, <1>3, <1>4, <1>5, <1>6, <1>7, <1>8 DEF Next

-----------------------------------------------------------------------------
(* The theorems.                                                           *)

(* The invariant contains RibInv.                                          *)
LEMMA InvRib == Inv => RibInv
<1> SUFFICES ASSUME Inv PROVE RibInv
  OBVIOUS
<1>1. RibOk(table.rib, table.next) /\ table.rib \in Ribs /\ table.next \in Nat \ {0}
      /\ table.next <= MaxRoutes + 1 /\ TableOk(table)
  BY DEF Inv, TableOk, RibOk
<1>2. Covers(table.rib, RibSize, [fib |-> table.fib, selected |-> table.selected])
  BY <1>1, TableCovers
<1>3. \A i \in UsedRib(table.rib) : table.rib[i] \in RibEntry
  <2> SUFFICES ASSUME NEW i \in UsedRib(table.rib) PROVE table.rib[i] \in RibEntry
    OBVIOUS
  <2> DEFINE r == table.rib[i]
  <2>1. r \in Candidate
    BY <1>1 DEF UsedRib, Ribs
  <2>2. r.seq \in 1 .. table.next - 1
    BY <1>1 DEF RibOk
  <2> HIDE DEF r
  <2>3. r.seq \in 1 .. MaxRoutes
    BY <1>1, <2>2, RoutesAssumption
  <2>4. r \in RibEntry
    BY <2>1, <2>3 DEF Candidate, RibEntry, Protos
  <2> QED BY <2>4 DEF r
<1>4. table.rib \in [RibSlots -> RibEntry \cup {NoRoute}]
  BY <1>1, <1>3 DEF Ribs, UsedRib
<1>5. TypeOK
  <2>1. table.selected \subseteq RibSlots /\ Len(table.fib) <= RibSize
    BY <1>2 DEF Covers, Scans
  <2>2. table.next \in 1 .. MaxRoutes + 1
    BY <1>1, RoutesAssumption
  <2>3. statics \in [StaticSlots -> StaticRoute \cup {NoStatic}] /\ lost \in BOOLEAN
    BY DEF Inv, StaticOk, Statics
  <2> QED BY <1>4, <2>1, <2>2, <2>3 DEF TypeOK
<1>6. UniqueKeys
  <2>1. \A i \in RibSlots : table.rib[i] # NoRoute => i \in UsedRib(table.rib)
    BY DEF UsedRib
  <2> QED BY <1>1, <2>1 DEF UniqueKeys, RibOk, SeqsDistinct
<1>7. SelectedExact
  BY <1>2 DEF Covers, SelectedExact
<1> QED BY <1>5, <1>6, <1>7 DEF RibInv

(* The invariant contains StaticAgrees.                                    *)
LEMMA InvStatic == Inv => StaticAgrees
<1> SUFFICES ASSUME Inv PROVE StaticAgrees
  OBVIOUS
<1>1. StaticRib = {table.rib[k] : k \in StaticIn(table)}
  BY DEF StaticRib, Candidates, StaticIn, UsedRib
<1>2. NoOrphanStatic
  BY <1>1 DEF Inv, Orphanless, NoOrphanStatic, UsedStatic
<1>3. StaticMirrored
  BY <1>1 DEF Inv, AllInTable, InTable, StaticMirrored, UsedStatic
<1> QED BY <1>2, <1>3 DEF StaticAgrees

(* route_table.c: whatever is added, replaced, deleted, flushed or refused,*)
(* the RIB holds one candidate per key and its sequence numbers are given  *)
(* once, and FIB and selected flags are exactly what the RIB makes them.   *)
THEOREM TableConsistent == Spec => []RibInv
<1>1. Init => Inv
  BY InitInv
<1>2. Inv /\ [Next]_vars => Inv'
  BY NextInv
<1>3. Inv => RibInv
  BY InvRib
<1> QED BY <1>1, <1>2, <1>3, PTL DEF Spec

(* route_table_lookup: for every address, in every state the operations    *)
(* reach, the answer is the longest match and its most preferred route.    *)
THEOREM LookupsBest == Spec => []LookupIsBest
<1>1. Init => Inv
  BY InitInv
<1>2. Inv /\ [Next]_vars => Inv'
  BY NextInv
<1>3. Inv => LookupIsBest
  BY LookupSound DEF Inv
<1> QED BY <1>1, <1>2, <1>3, PTL DEF Spec

(* static_route.c: no operation of the protocols, the owner or the         *)
(* configuration leaves a STATIC route without its record, and unless they *)
(* were flushed from the table every record has its route.                 *)
THEOREM StaticsAgree == Spec => []StaticAgrees
<1>1. Init => Inv
  BY InitInv
<1>2. Inv /\ [Next]_vars => Inv'
  BY NextInv
<1>3. Inv => StaticAgrees
  BY InvStatic
<1> QED BY <1>1, <1>2, <1>3, PTL DEF Spec

=============================================================================
