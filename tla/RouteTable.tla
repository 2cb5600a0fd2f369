----------------------------- MODULE RouteTable -----------------------------
(***************************************************************************)
(* The routing table of src/src/routing/route_table.c as operators on a    *)
(* record: the RIB with every candidate route, the FIB with the best       *)
(* candidate of each prefix, which RIB slots are selected, and the next    *)
(* sequence number.  Next hop and egress interface are one value, hop.     *)
(***************************************************************************)
EXTENDS Naturals, Sequences

CONSTANTS
  Width,   \* bits of an address: 32 in the code
  RibSize  \* ROUTE_RIB_SIZE, and ROUTE_FIB_SIZE too

ASSUME WidthAssumption == Width \in Nat
ASSUME RibAssumption   == RibSize \in Nat \ {0}

(* The number of addresses that differ in their last n bits only.          *)
BlockSize[n \in 0 .. Width] == IF n = 0 THEN 1 ELSE 2 * BlockSize[n - 1]

Addresses == 0 .. BlockSize[Width] - 1
RibSlots  == 1 .. RibSize

(* prefix & ipv4_prefix_mask(len).                                         *)
Normalized(addr, len) == addr - (addr % BlockSize[Width - len])

(* route_admin_distance.                                                   *)
AdminDistance(proto) ==
  CASE proto = "DIRECT" -> 0
    [] proto = "STATIC" -> 1
    [] proto = "BGP"    -> 20
    [] proto = "OSPF"   -> 110
    [] proto = "ISIS"   -> 115
    [] proto = "RIP"    -> 120
    [] OTHER            -> 255

NoRoute == [valid |-> FALSE]

(* A used RIB slot.                                                        *)
Route(prefix, len, proto, hop, metric, seq) ==
  [prefix |-> prefix, len |-> len, proto |-> proto, hop |-> hop,
   metric |-> metric, seq |-> seq]

(* A FIB entry: a copy of the selected route and its slot.                 *)
Selection(r, i) ==
  [prefix |-> r.prefix, len |-> r.len, proto |-> r.proto, hop |-> r.hop,
   metric |-> r.metric, rib |-> i]

SamePrefix(r, s) == r.prefix = s.prefix /\ r.len = s.len

First(S) == CHOOSE i \in S : \A j \in S : i <= j

-----------------------------------------------------------------------------
(* route_table_rebuild_fib.                                                *)

(* Mutant: the metric is compared before the administrative distance.      *)
BeatsByMetric(r, s) ==
  \/ r.metric < s.metric
  \/ r.metric = s.metric /\ AdminDistance(r.proto) < AdminDistance(s.proto)

(* The candidate r replaces the selected route s of the same prefix.       *)
Beats(r, s) ==
  LET a == AdminDistance(r.proto)
      b == AdminDistance(s.proto)
  IN  \/ a < b
      \/ a = b /\ r.metric < s.metric
      \/ a = b /\ r.metric = s.metric /\ r.seq < s.seq

(* One turn of the loop over the RIB, for slot i.  A new prefix takes the  *)
(* next FIB slot; the FIB is as large as the RIB, so there is one.         *)
Consider(s, rib, i) ==
  LET r     == rib[i]
      match == {j \in 1 .. Len(s.fib) : SamePrefix(s.fib[j], r)}
      j     == First(match)
      cur   == s.fib[j].rib
  IN  CASE r = NoRoute -> s
        [] r # NoRoute /\ match = {} ->
             [fib      |-> Append(s.fib, Selection(r, i)),
              selected |-> s.selected \cup {i}]
        [] r # NoRoute /\ match # {} ->
             IF Beats(r, rib[cur])
             THEN [fib      |-> [s.fib EXCEPT ![j] = Selection(r, i)],
                   selected |-> (s.selected \ {cur}) \cup {i}]
             ELSE s

Rebuilt(rib, next) ==
  LET scan[i \in 0 .. RibSize] ==
        IF i = 0 THEN [fib |-> <<>>, selected |-> {}]
        ELSE Consider(scan[i - 1], rib, i)
      s == scan[RibSize]
  IN  [rib |-> rib, fib |-> s.fib, selected |-> s.selected, next |-> next]

-----------------------------------------------------------------------------
(* The operations.                                                         *)

(* route_table_init.                                                       *)
EmptyTable == Rebuilt([i \in RibSlots |-> NoRoute], 1)

FreeRib(t) == {i \in RibSlots : t.rib[i] = NoRoute}

(* The slot of a (prefix, length, protocol) key; prefix is normalized.     *)
Keyed(t, prefix, len, proto) ==
  {i \in RibSlots :
     /\ t.rib[i] # NoRoute
     /\ t.rib[i].prefix = prefix /\ t.rib[i].len = len /\ t.rib[i].proto = proto}

(* route_table_add returns 0: the key is there or a slot is free.          *)
AddFits(t, addr, len, proto) ==
  Keyed(t, Normalized(addr, len), len, proto) # {} \/ FreeRib(t) # {}

(* Mutant: the key is searched with the host bits still in it.             *)
AddUnnormalized(t, addr, len, proto, hop, metric) ==
  LET key  == Keyed(t, addr, len, proto)
      free == FreeRib(t)
      r    == Route(Normalized(addr, len), len, proto, hop, metric, t.next)
  IN  IF key # {}
      THEN Rebuilt([t.rib EXCEPT ![First(key)].hop = hop, ![First(key)].metric = metric],
                   t.next)
      ELSE IF free # {} THEN Rebuilt([t.rib EXCEPT ![First(free)] = r], t.next + 1)
      ELSE t

(* route_table_add: a known key is updated in place and keeps its sequence *)
(* number, a new one takes the first free slot, and a full RIB refuses.    *)
(* The rebuild cannot fail, so neither can the code's roll-back run.       *)
RouteTableAdd(t, addr, len, proto, hop, metric) ==
  LET key  == Keyed(t, Normalized(addr, len), len, proto)
      free == FreeRib(t)
      r    == Route(Normalized(addr, len), len, proto, hop, metric, t.next)
  IN  IF key # {}
      THEN Rebuilt([t.rib EXCEPT ![First(key)].hop = hop, ![First(key)].metric = metric],
                   t.next)
      ELSE IF free # {} THEN Rebuilt([t.rib EXCEPT ![First(free)] = r], t.next + 1)
      ELSE t

(* route_table_delete.                                                     *)
RouteTableDelete(t, addr, len, proto) ==
  LET key == Keyed(t, Normalized(addr, len), len, proto)
  IN  IF key # {} THEN Rebuilt([t.rib EXCEPT ![First(key)] = NoRoute], t.next) ELSE t

(* route_table_flush_proto.                                                *)
RouteTableFlushProto(t, proto) ==
  Rebuilt([i \in RibSlots |->
             IF t.rib[i] # NoRoute /\ t.rib[i].proto = proto THEN NoRoute
             ELSE t.rib[i]], t.next)

Matches(r, dst) == Normalized(dst, r.len) = r.prefix

(* route_table_lookup: the first of the longest matching FIB entries.      *)
RouteTableLookup(t, dst) ==
  LET match   == {j \in 1 .. Len(t.fib) : Matches(t.fib[j], dst)}
      longest == {j \in match : \A k \in match : t.fib[k].len <= t.fib[j].len}
  IN  IF match = {} THEN NoRoute ELSE t.fib[First(longest)]

=============================================================================
